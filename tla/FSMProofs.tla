----------------------------- MODULE FSMProofs ------------------------------
(***************************************************************************)
(* Proofs about FSM, for any number of nodes, keys and values, any length  *)
(* of the log and any number of restarts, snapshots and failed commits.    *)
(*                                                                         *)
(* Keys may be infinite: that a restore ends, and so that the revision it  *)
(* leaves is a number, follows from the store never holding more than      *)
(* finitely many keys.                                                     *)
(***************************************************************************)
EXTENDS FSM, TLAPS, SequenceTheorems, FiniteSetTheorems

Buckets == [Keys -> Entry \cup {NoEntry}]

(* The keys that are there. *)
Stored(d) == {k \in Keys : d[k] # NoEntry}

(* What the types leave open about a node's file, memory and snapshot. *)
NodeShape(n) ==
  /\ IsFiniteSet(Stored(data[n]))
  /\ \A k \in Stored(data[n]) : data[n][k].Key = k
  /\ ~up[n] => window[n] = <<>> /\ n \in restarted
  /\ snap[n] # NoSnapshot =>
       /\ IsFiniteSet(Listed(snap[n]))
       /\ snap[n].index <= snap[n].upto /\ snap[n].upto <= high[n]

ShapeInv ==
  /\ FSMTypeOK
  /\ overlaid \subseteq installed
  /\ \A n \in Nodes : NodeShape(n)

-----------------------------------------------------------------------------
(* What a put stores is an entry, with the fields BoltStore.Put computes. *)
LEMMA NewEntryFields ==
  ASSUME NEW prev \in Entry \cup {NoEntry}, NEW k \in Keys, NEW v \in Values,
         NEW r \in Nat
  PROVE  /\ NewEntry(prev, k, v, r) \in Entry
         /\ NewEntry(prev, k, v, r) # NoEntry
         /\ NewEntry(prev, k, v, r).Key = k
         /\ NewEntry(prev, k, v, r).Value = v
         /\ NewEntry(prev, k, v, r).Revision = r
<1>1. NewEntry(prev, k, v, r) \in Entry
  BY NoEntryAssumption DEF NewEntry, Entry
<1> QED
  BY <1>1, NoEntryAssumption DEF NewEntry

(* Put builds an entry. *)
LEMMA NewEntryType ==
  ASSUME NEW prev \in Entry \cup {NoEntry}, NEW k \in Keys, NEW v \in Values,
         NEW r \in Nat
  PROVE  NewEntry(prev, k, v, r) \in Entry
BY NewEntryFields

(* The events of a put and of a delete. *)
LEMMA PutEventFields ==
  ASSUME NEW prev \in Entry \cup {NoEntry}, NEW k \in Keys, NEW v \in Values,
         NEW r \in Nat
  PROVE  /\ PutEvent(prev, k, v, r) \in Event
         /\ PutEvent(prev, k, v, r).Type = "PUT"
         /\ PutEvent(prev, k, v, r).Entry = NewEntry(prev, k, v, r)
<1>1. NewEntry(prev, k, v, r) \in Entry
  BY NewEntryFields
<1> QED
  BY <1>1 DEF PutEvent, Event

(* Delete publishes an event of the deleted key at the new revision. *)
LEMMA DeleteEventFields ==
  ASSUME NEW prev \in Entry, NEW r \in Nat
  PROVE  /\ DeleteEvent(prev, r) \in Event
         /\ DeleteEvent(prev, r).Type = "DELETE"
         /\ DeleteEvent(prev, r).Entry.Key = prev.Key
         /\ DeleteEvent(prev, r).Entry.Revision = r
<1> DEFINE e == DeletedEntry(prev, r)
<1>1. e \in Entry /\ e.Key = prev.Key /\ e.Revision = r
  BY DEF DeletedEntry, Entry
<1> HIDE DEF e
<1>2. DeleteEvent(prev, r) = [Type |-> "DELETE", Entry |-> e, PrevEntry |-> NoEntry]
  BY DEF DeleteEvent, e
<1> QED
  BY <1>1, <1>2 DEF Event

(* Every event of a window has a revision and a key. *)
LEMMA WindowFields ==
  ASSUME NEW w \in Seq(Event), NEW i \in 1 .. Len(w)
  PROVE  w[i].Entry.Revision \in Nat /\ w[i].Entry.Key \in Keys
<1>1. w[i] \in Event
  BY ElementOfSeq
<1>2. \A ev \in Event : ev.Entry.Revision \in Nat /\ ev.Entry.Key \in Keys
  BY DEF Event, Entry
<1> QED
  BY <1>1, <1>2

(* A push keeps the window, perhaps without its oldest event, and adds one. *)
LEMMA PushShape ==
  ASSUME NEW w \in Seq(Event), NEW ev \in Event
  PROVE  \E d \in {0, 1} :
           /\ Push(w, ev, Capacity) \in Seq(Event)
           /\ Len(w) \in Nat
           /\ Len(w) + 1 - d \in Nat /\ Len(w) + 1 - d > 0
           /\ Len(Push(w, ev, Capacity)) = Len(w) + 1 - d
           /\ Push(w, ev, Capacity)[Len(w) + 1 - d] = ev
           /\ \A i \in 1 .. Len(w) - d :
                i + d \in 1 .. Len(w) /\ Push(w, ev, Capacity)[i] = w[i + d]
<1>0. Capacity \in Nat /\ Capacity > 0 /\ Len(w) \in Nat
  BY FSMAssumption, LenProperties
<1>1. CASE Len(w) < Capacity
  <2>1. Push(w, ev, Capacity) = Append(w, ev)
    BY <1>1 DEF Push
  <2>2. /\ Append(w, ev) \in Seq(Event) /\ Len(Append(w, ev)) = Len(w) + 1
        /\ \A i \in 1 .. Len(w) : Append(w, ev)[i] = w[i]
        /\ Append(w, ev)[Len(w) + 1] = ev
    BY AppendProperties
  <2> DEFINE p == Append(w, ev)
  <2> HIDE DEF p
  <2>3. /\ p \in Seq(Event) /\ Len(p) = Len(w) + 1 - 0 /\ p[Len(w) + 1 - 0] = ev
        /\ \A i \in 1 .. Len(w) - 0 : i + 0 \in 1 .. Len(w) /\ p[i] = w[i + 0]
    BY <1>0, <2>2 DEF p
  <2> QED
    BY <1>0, <2>1, <2>3 DEF p
<1>2. CASE ~(Len(w) < Capacity)
  <2>1. Push(w, ev, Capacity) = Append(Tail(w), ev)
    BY <1>2 DEF Push
  <2>2. /\ Tail(w) \in Seq(Event) /\ Len(Tail(w)) = Len(w) - 1
        /\ \A i \in 1 .. Len(Tail(w)) : Tail(w)[i] = w[i + 1]
    BY <1>0, <1>2, HeadTailProperties, EmptySeq
  <2> DEFINE p == Append(Tail(w), ev)
  <2>3. /\ p \in Seq(Event) /\ Len(p) = Len(Tail(w)) + 1
        /\ \A i \in 1 .. Len(Tail(w)) : p[i] = Tail(w)[i]
        /\ p[Len(Tail(w)) + 1] = ev
    BY <2>2, AppendProperties
  <2> HIDE DEF p
  <2>4. /\ p \in Seq(Event) /\ Len(p) = Len(w) + 1 - 1 /\ p[Len(w) + 1 - 1] = ev
        /\ \A i \in 1 .. Len(w) - 1 : i + 1 \in 1 .. Len(w) /\ p[i] = w[i + 1]
    BY <1>0, <2>2, <2>3
  <2>5. Len(w) + 1 - 1 \in Nat /\ Len(w) + 1 - 1 > 0
    BY <1>0, <1>2
  <2> QED
    BY <1>0, <2>1, <2>4, <2>5 DEF p
<1> QED
  BY <1>1, <1>2

(* FSM.Restore puts the entries of `done' and leaves the other keys alone. *)
LEMMA RestoreShape ==
  ASSUME NEW d \in Buckets, NEW r \in Nat, NEW s \in SnapshotData,
         IsFiniteSet(Listed(s)), NEW done \in SUBSET Listed(s)
  PROVE  /\ RestoreData(d, r, s, done) \in Buckets
         /\ RestoreRev(r, done) \in Nat /\ RestoreRev(r, done) >= r
         /\ done = {} => RestoreRev(r, done) = r
         /\ \A k \in done : /\ k \in Keys
                            /\ RestoreData(d, r, s, done)[k] # NoEntry
                            /\ RestoreData(d, r, s, done)[k].Key = k
                            /\ RestoreData(d, r, s, done)[k].Value = s.entries[k].Value
         /\ \A k \in Keys \ done : RestoreData(d, r, s, done)[k] = d[k]
         /\ IsFiniteSet(Stored(d)) => IsFiniteSet(Stored(RestoreData(d, r, s, done)))
<1> DEFINE RD == RestoreData(d, r, s, done)
           rk(k) == Cardinality({j \in done : KeyRank[j] <= KeyRank[k]})
           e(k) == NewEntry(d[k], k, s.entries[k].Value, r + rk(k))
<1>1. IsFiniteSet(done) /\ Cardinality(done) \in Nat
  BY FS_Subset, FS_CardinalityType
<1>2. \A k \in Keys : rk(k) \in Nat
  <2> TAKE k \in Keys
  <2>1. {j \in done : KeyRank[j] <= KeyRank[k]} \in SUBSET done
    OBVIOUS
  <2> QED
    BY <1>1, <2>1, FS_Subset, FS_CardinalityType
<1>3. \A k \in done : k \in Keys /\ s.entries[k] \in Entry /\ s.entries[k].Value \in Values
  BY DEF Listed, SnapshotData, Entry
<1>4. RD = [k \in Keys |-> IF k \in done THEN e(k) ELSE d[k]]
  BY DEF RestoreData
<1> HIDE DEF RD, rk
<1>5. ASSUME NEW k \in done
      PROVE  e(k) \in Entry /\ e(k) # NoEntry /\ e(k).Key = k /\ e(k).Value = s.entries[k].Value
  <2>1. d[k] \in Entry \cup {NoEntry} /\ k \in Keys /\ r + rk(k) \in Nat
        /\ s.entries[k].Value \in Values
    BY <1>2, <1>3 DEF Buckets
  <2> DEFINE p == d[k]
             v == s.entries[k].Value
             q == r + rk(k)
  <2> HIDE DEF p, v, q
  <2>2. p \in Entry \cup {NoEntry} /\ v \in Values /\ q \in Nat /\ k \in Keys
    BY <2>1 DEF p, v, q
  <2>3. NewEntry(p, k, v, q) \in Entry
    BY <2>2, NewEntryFields
  <2>4. NewEntry(p, k, v, q).Key = k /\ NewEntry(p, k, v, q).Value = v
    BY DEF NewEntry
  <2> QED
    BY <2>3, <2>4, NoEntryAssumption DEF p, v, q
<1> HIDE DEF e
<1>6. RD \in Buckets
  BY <1>4, <1>5 DEF Buckets
<1>7. \A k \in Keys : RD[k] = IF k \in done THEN e(k) ELSE d[k]
  BY <1>4
<1>8. /\ RestoreRev(r, done) \in Nat /\ RestoreRev(r, done) >= r
      /\ done = {} => RestoreRev(r, done) = r
  BY <1>1, FS_EmptySet DEF RestoreRev
<1>9. IsFiniteSet(Stored(d)) => IsFiniteSet(Stored(RD))
  <2>1. Stored(RD) \in SUBSET (Stored(d) \cup done)
    BY <1>7 DEF Stored
  <2> QED
    BY <1>1, <2>1, FS_Union, FS_Subset
<1> QED
  BY <1>3, <1>5, <1>6, <1>7, <1>8, <1>9 DEF RD

-----------------------------------------------------------------------------
(* Nothing happens to node n. *)
Untouched(n) ==
  /\ up'[n] = up[n] /\ data'[n] = data[n] /\ meta'[n] = meta[n] /\ rev'[n] = rev[n]
  /\ window'[n] = window[n] /\ applied'[n] = applied[n] /\ high'[n] = high[n]
  /\ snap'[n] = snap[n]
  /\ n \in damaged' => n \in damaged
  /\ n \in installed' => n \in installed
  /\ n \in overlaid' => n \in overlaid

(* A step acts on at most one node, extends the log at most at its end, and   *)
(* never takes a node off the lists of those that missed something.           *)
LEMMA StepOfNode ==
  ASSUME FSMTypeOK, [FSMNext]_fsmVars, NEW n \in Nodes
  PROVE  \/ Untouched(n)
         \/ Apply(n) \/ ApplyFails(n) \/ Snapshot(n) \/ Shutdown(n) \/ NewNode(n)
         \/ \E c \in Keys : NewNodeFails(n, c)
         \/ \E m \in Nodes : \/ InstallSnapshot(n, m)
                             \/ \E c \in Keys : InstallSnapshotFails(n, m, c)
<1>1. ASSUME NEW op \in Op, Commit(op) PROVE Untouched(n)
  BY <1>1 DEF Commit, Untouched
<1>2. ASSUME UNCHANGED fsmVars PROVE Untouched(n)
  BY <1>2 DEF fsmVars, Untouched
<1> DEFINE Only(h) == /\ \A x \in Nodes : x # h =>
                           /\ up'[x] = up[x] /\ data'[x] = data[x] /\ meta'[x] = meta[x]
                           /\ rev'[x] = rev[x] /\ window'[x] = window[x]
                           /\ applied'[x] = applied[x] /\ high'[x] = high[x]
                           /\ snap'[x] = snap[x]
                      /\ damaged' \subseteq damaged \cup {h}
                      /\ installed' \subseteq installed \cup {h}
                      /\ overlaid' \subseteq overlaid \cup {h}
<1>3. ASSUME NEW h \in Nodes, Apply(h) PROVE Only(h)
  BY <1>3 DEF Apply, Deliver, FSMTypeOK
<1>4. ASSUME NEW h \in Nodes, ApplyFails(h) PROVE Only(h)
  BY <1>4 DEF ApplyFails, Deliver, FSMTypeOK
<1>5. ASSUME NEW h \in Nodes, Snapshot(h) \/ Shutdown(h) PROVE Only(h)
  BY <1>5 DEF Snapshot, Shutdown, FSMTypeOK
<1>6. ASSUME NEW h \in Nodes, NewNode(h) PROVE Only(h)
  BY <1>6 DEF NewNode, RestoreFile, FSMTypeOK
<1>7. ASSUME NEW h \in Nodes, NEW c \in Keys, NewNodeFails(h, c) PROVE Only(h)
  BY <1>7 DEF NewNodeFails, RestoreFile, FSMTypeOK
<1>8. ASSUME NEW h \in Nodes, NEW m \in Nodes, InstallSnapshot(h, m) PROVE Only(h)
  BY <1>8 DEF InstallSnapshot, ReceiveSnapshot, Overlay, RestoreFile, FSMTypeOK
<1>9. ASSUME NEW h \in Nodes, NEW m \in Nodes, NEW c \in Keys, InstallSnapshotFails(h, m, c)
      PROVE  Only(h)
  BY <1>9 DEF InstallSnapshotFails, ReceiveSnapshot, Overlay, RestoreFile, FSMTypeOK
<1>10. ASSUME NEW h \in Nodes, Only(h), h # n PROVE Untouched(n)
  BY <1>10 DEF Untouched
<1> HIDE DEF Only
<1> QED
  BY <1>1, <1>2, <1>3, <1>4, <1>5, <1>6, <1>7, <1>8, <1>9, <1>10 DEF FSMNext

(* The log grows at its end, and only commits change it. *)
LEMMA LogGrows ==
  ASSUME FSMTypeOK, [FSMNext]_fsmVars
  PROVE  /\ log' \in Seq(Op) /\ Len(log) \in Nat /\ Len(log') \in Nat
         /\ Len(log) <= Len(log')
         /\ \A i \in 1 .. Len(log) : log'[i] = log[i] /\ log[i] \in Op
         /\ damaged \subseteq damaged' /\ installed \subseteq installed'
         /\ overlaid \subseteq overlaid' /\ restarted \subseteq restarted'
<1>0. log \in Seq(Op) /\ Len(log) \in Nat /\ \A i \in 1 .. Len(log) : log[i] \in Op
  BY LenProperties DEF FSMTypeOK
<1>1. ASSUME NEW op \in Op, Commit(op)
      PROVE  /\ log' \in Seq(Op) /\ Len(log') = Len(log) + 1
             /\ \A i \in 1 .. Len(log) : log'[i] = log[i]
             /\ UNCHANGED <<damaged, installed, overlaid, restarted>>
  BY <1>0, <1>1, AppendProperties DEF Commit
<1>2. ASSUME ~ \E op \in Op : Commit(op)
      PROVE  /\ log' = log
             /\ damaged \subseteq damaged' /\ installed \subseteq installed'
             /\ overlaid \subseteq overlaid' /\ restarted \subseteq restarted'
  BY <1>2 DEF FSMNext, fsmVars, Apply, Deliver, ApplyFails, Snapshot, Shutdown, NewNode,
     NewNodeFails, InstallSnapshot, InstallSnapshotFails, ReceiveSnapshot, Overlay
<1> QED
  BY <1>0, <1>1, <1>2

-----------------------------------------------------------------------------
(* FSM.Apply hands the next log entry to the store. *)
LEMMA ApplyShape ==
  ASSUME ShapeInv, NEW n \in Nodes, Apply(n)
  PROVE  LET op == log[applied[n] + 1]
         IN  /\ op \in Op /\ op.key \in Keys
             /\ op.type = "put" \/ op.type = "delete"
             /\ op.type = "put" => op.value \in Values
             /\ up[n] /\ applied[n] \in Nat /\ applied[n] + 1 \in 1 .. Len(log)
             /\ applied' = [applied EXCEPT ![n] = applied[n] + 1]
             /\ high' = [high EXCEPT ![n] = MaxOf(high[n], applied[n] + 1)]
             /\ UNCHANGED <<log, up, snap, restarts, restarted, installed, overlaid,
                            failures, damaged>>
<1>1. /\ applied[n] \in Nat /\ log \in Seq(Op) /\ Len(log) \in Nat /\ applied[n] < Len(log)
      /\ up[n]
  BY LenProperties DEF ShapeInv, FSMTypeOK, Apply, Deliver
<1>2. applied[n] + 1 \in 1 .. Len(log)
  BY <1>1
<1>3. log[applied[n] + 1] \in Op
  BY <1>1, <1>2, ElementOfSeq
<1>4. \A op \in Op : /\ op.key \in Keys /\ (op.type = "put" \/ op.type = "delete")
                     /\ op.type = "put" => op.value \in Values
  BY DEF Op
<1>5. /\ applied' = [applied EXCEPT ![n] = applied[n] + 1]
      /\ high' = [high EXCEPT ![n] = MaxOf(high[n], applied[n] + 1)]
      /\ UNCHANGED <<log, up, snap, restarts, restarted, installed, overlaid,
                     failures, damaged>>
  BY DEF Apply, Deliver
<1> QED
  BY <1>1, <1>2, <1>3, <1>4, <1>5

(* What FSM.Apply does to the file, the revision and the watch cache. *)
LEMMA ApplyEffect ==
  ASSUME ShapeInv, NEW n \in Nodes, Apply(n)
  PROVE  LET op == log[applied[n] + 1]
             r  == rev[n] + 1
         IN  \/ /\ op.type = "put" /\ op.value \in Values /\ r \in Nat
                /\ data[n][op.key] \in Entry \cup {NoEntry}
                /\ data' = [data EXCEPT ![n] = [data[n] EXCEPT ![op.key] =
                                NewEntry(data[n][op.key], op.key, op.value, r)]]
                /\ rev' = [rev EXCEPT ![n] = r] /\ meta' = [meta EXCEPT ![n] = r]
                /\ PutEvent(data[n][op.key], op.key, op.value, r) \in Event
                /\ window' = [window EXCEPT ![n] = Push(window[n],
                                PutEvent(data[n][op.key], op.key, op.value, r), Capacity)]
             \/ /\ op.type = "delete" /\ data[n][op.key] \in Entry /\ r \in Nat
                /\ data[n][op.key] # NoEntry
                /\ data' = [data EXCEPT ![n] = [data[n] EXCEPT ![op.key] = NoEntry]]
                /\ rev' = [rev EXCEPT ![n] = r] /\ meta' = [meta EXCEPT ![n] = r]
                /\ DeleteEvent(data[n][op.key], r) \in Event
                /\ window' = [window EXCEPT ![n] = Push(window[n],
                                DeleteEvent(data[n][op.key], r), Capacity)]
             \/ /\ op.type = "delete" /\ data[n][op.key] = NoEntry
                /\ UNCHANGED <<data, rev, meta, window>>
<1> DEFINE op == log[applied[n] + 1]
           r  == rev[n] + 1
<1>1. /\ op \in Op /\ op.key \in Keys /\ (op.type = "put" \/ op.type = "delete")
      /\ op.type = "put" => op.value \in Values
  BY ApplyShape
<1>2. /\ data \in [Nodes -> [Keys -> Entry \cup {NoEntry}]] /\ rev[n] \in Nat /\ r \in Nat
      /\ data[n] \in [Keys -> Entry \cup {NoEntry}] /\ window \in [Nodes -> Seq(Event)]
      /\ data[n][op.key] \in Entry \cup {NoEntry}
  BY <1>1 DEF ShapeInv, FSMTypeOK
<1>3. IF op.type = "put" \/ data[n][op.key] # NoEntry
      THEN /\ data' = [data EXCEPT ![n][op.key] =
                         IF op.type = "put" THEN NewEntry(@, op.key, op.value, r) ELSE NoEntry]
           /\ rev' = [rev EXCEPT ![n] = @ + 1]
           /\ meta' = [meta EXCEPT ![n] = r]
           /\ window' = [window EXCEPT ![n] = Push(@, EventOf(n, op), Capacity)]
      ELSE UNCHANGED <<data, rev, meta, window>>
  BY DEF Apply, Effective
<1>4. CASE op.type = "put"
  <2>1. PutEvent(data[n][op.key], op.key, op.value, r) \in Event
    BY <1>1, <1>2, <1>4, PutEventFields
  <2>2. EventOf(n, op) = PutEvent(data[n][op.key], op.key, op.value, r)
    BY <1>4 DEF EventOf
  <2>3. data' = [data EXCEPT ![n] = [data[n] EXCEPT ![op.key] =
                                NewEntry(data[n][op.key], op.key, op.value, r)]]
    BY <1>3, <1>4
  <2> HIDE DEF op
  <2> QED
    BY <1>1, <1>2, <1>3, <1>4, <2>1, <2>2, <2>3 DEF op
<1>5. CASE op.type = "delete" /\ data[n][op.key] # NoEntry
  <2>1. data[n][op.key] \in Entry
    BY <1>2, <1>5
  <2>2. DeleteEvent(data[n][op.key], r) \in Event
    BY <1>2, <2>1, DeleteEventFields
  <2>3. EventOf(n, op) = DeleteEvent(data[n][op.key], r)
    BY <1>5 DEF EventOf
  <2>4. data' = [data EXCEPT ![n] = [data[n] EXCEPT ![op.key] = NoEntry]]
    BY <1>3, <1>5
  <2> QED
    BY <1>1, <1>2, <1>3, <1>5, <2>1, <2>2, <2>3, <2>4
<1>6. CASE op.type = "delete" /\ data[n][op.key] = NoEntry
  BY <1>3, <1>6
<1> QED
  BY <1>1, <1>4, <1>5, <1>6

(* The fields of a snapshot, and what a restore of it over bucket d leaves. *)
LEMMA SnapshotFields ==
  ASSUME ShapeInv, NEW m \in Nodes, snap[m] # NoSnapshot
  PROVE  /\ snap[m] \in SnapshotData /\ IsFiniteSet(Listed(snap[m]))
         /\ snap[m].index \in Nat /\ snap[m].upto \in Nat
         /\ snap[m].index <= snap[m].upto /\ snap[m].upto <= high[m]
         /\ high[m] \in Nat /\ high[m] <= Len(log) /\ Len(log) \in Nat
         /\ \A c \in Keys : Before(snap[m], c) \in SUBSET Listed(snap[m])
<1>1. snap[m] \in SnapshotData /\ high[m] \in Nat /\ high[m] <= Len(log) /\ Len(log) \in Nat
  BY LenProperties DEF ShapeInv, FSMTypeOK
<1>2. /\ IsFiniteSet(Listed(snap[m]))
      /\ snap[m].index <= snap[m].upto /\ snap[m].upto <= high[m]
  BY DEF ShapeInv, NodeShape
<1>3. snap[m].index \in Nat /\ snap[m].upto \in Nat
  BY <1>1 DEF SnapshotData
<1>4. \A c \in Keys : Before(snap[m], c) \in SUBSET Listed(snap[m])
  BY DEF Before
<1> QED
  BY <1>1, <1>2, <1>3, <1>4

(* Writing part of a snapshot into a file. *)
LEMMA RestoreFileEffect ==
  ASSUME ShapeInv, NEW n \in Nodes, NEW m \in Nodes, snap[m] # NoSnapshot,
         NEW r \in Nat, NEW done \in SUBSET Listed(snap[m]), RestoreFile(n, r, snap[m], done)
  PROVE  /\ data' \in [Nodes -> Buckets] /\ meta' \in [Nodes -> Nat]
         /\ RestoreRev(r, done) \in Nat /\ RestoreRev(r, done) >= r
         /\ meta'[n] = IF done = {} THEN meta[n] ELSE RestoreRev(r, done)
         /\ done = {} => RestoreRev(r, done) = r
         /\ \A k \in done : k \in Keys /\ data'[n][k] # NoEntry /\ data'[n][k].Key = k
                            /\ data'[n][k].Value = snap[m].entries[k].Value
         /\ \A k \in Keys \ done : data'[n][k] = data[n][k]
         /\ IsFiniteSet(Stored(data'[n]))
         /\ \A k \in Stored(data'[n]) : data'[n][k].Key = k
<1> DEFINE RD == RestoreData(data[n], r, snap[m], done)
<1>0. snap[m] \in SnapshotData /\ IsFiniteSet(Listed(snap[m]))
  BY SnapshotFields
<1>1. /\ data \in [Nodes -> Buckets] /\ data[n] \in Buckets /\ meta \in [Nodes -> Nat]
      /\ IsFiniteSet(Stored(data[n])) /\ \A k \in Stored(data[n]) : data[n][k].Key = k
  BY DEF ShapeInv, FSMTypeOK, NodeShape, Buckets
<1>2. /\ RD \in Buckets
      /\ RestoreRev(r, done) \in Nat /\ RestoreRev(r, done) >= r
      /\ done = {} => RestoreRev(r, done) = r
      /\ \A k \in done : /\ k \in Keys /\ RD[k] # NoEntry /\ RD[k].Key = k
                         /\ RD[k].Value = snap[m].entries[k].Value
      /\ \A k \in Keys \ done : RD[k] = data[n][k]
      /\ IsFiniteSet(Stored(data[n])) => IsFiniteSet(Stored(RD))
  BY <1>0, <1>1, RestoreShape
<1>3. /\ data' = [data EXCEPT ![n] = RD]
      /\ meta' = [meta EXCEPT ![n] = IF done = {} THEN meta[n] ELSE RestoreRev(r, done)]
  BY DEF RestoreFile
<1> HIDE DEF RD
<1>4. data' \in [Nodes -> Buckets] /\ data'[n] = RD
  BY <1>1, <1>2, <1>3
<1>5. meta' \in [Nodes -> Nat] /\ meta'[n] = IF done = {} THEN meta[n] ELSE RestoreRev(r, done)
  BY <1>1, <1>2, <1>3
<1>6. \A k \in Stored(RD) : RD[k].Key = k
  <2> TAKE k \in Stored(RD)
  <2>1. CASE k \in done
    BY <1>2, <2>1
  <2>2. CASE k \notin done
    BY <1>1, <1>2, <2>2 DEF Stored
  <2> QED
    BY <2>1, <2>2
<1> QED
  BY <1>1, <1>2, <1>4, <1>5, <1>6

-----------------------------------------------------------------------------
(* The shape of every node is inductive. *)
LEMMA ShapeInit == FSMInit => ShapeInv
<1> SUFFICES ASSUME FSMInit PROVE ShapeInv
  OBVIOUS
<1>1. <<>> \in Seq(Op) /\ <<>> \in Seq(Event) /\ Len(<<>>) = 0
  BY EmptySeq
<1>2. FSMTypeOK
  BY <1>1 DEF FSMInit, FSMTypeOK
<1>3. ASSUME NEW n \in Nodes PROVE NodeShape(n)
  <2>1. Stored(data[n]) = {}
    BY DEF FSMInit, Stored
  <2>2. IsFiniteSet(Stored(data[n]))
    BY <2>1, FS_EmptySet
  <2> QED
    BY <2>1, <2>2 DEF FSMInit, NodeShape
<1> QED
  BY <1>2, <1>3 DEF ShapeInv, FSMInit

(* What the log, the history and the counters look like after a step. *)
LEMMA TypeStep == ShapeInv /\ [FSMNext]_fsmVars => FSMTypeOK'
<1> SUFFICES ASSUME ShapeInv, [FSMNext]_fsmVars PROVE FSMTypeOK'
  OBVIOUS
<1>t. FSMTypeOK
  BY DEF ShapeInv
<1>len. /\ Len(log) \in Nat
        /\ \A n \in Nodes : /\ applied[n] \in Nat /\ high[n] \in Nat /\ rev[n] \in Nat
                            /\ meta[n] \in Nat
                            /\ applied[n] <= high[n] /\ high[n] <= Len(log)
  BY <1>t, LenProperties DEF FSMTypeOK
<1>b. data \in [Nodes -> Buckets]
  BY <1>t DEF FSMTypeOK, Buckets
<1>cm. ASSUME NEW op \in Op, Commit(op) PROVE FSMTypeOK'
  <2>1. log' \in Seq(Op) /\ Len(log') = Len(log) + 1
    BY <1>t, <1>cm, AppendProperties DEF Commit, FSMTypeOK
  <2>2. \A n \in Nodes : applied'[n] <= high'[n] /\ high'[n] <= Len(log')
    BY <1>len, <1>cm, <2>1 DEF Commit
  <2> QED
    BY <1>t, <1>cm, <2>1, <2>2 DEF Commit, FSMTypeOK
<1>ap. ASSUME NEW n \in Nodes, Apply(n) PROVE FSMTypeOK'
  <2> DEFINE op == log[applied[n] + 1]
             a == applied[n] + 1
  <2>1. /\ op.key \in Keys /\ a \in 1 .. Len(log)
        /\ applied' = [applied EXCEPT ![n] = a]
        /\ high' = [high EXCEPT ![n] = MaxOf(high[n], a)]
        /\ UNCHANGED <<log, up, snap, restarts, restarted, installed, overlaid,
                       failures, damaged>>
    BY <1>ap, ApplyShape
  <2>2. a \in Nat /\ a <= Len(log) /\ MaxOf(high[n], a) \in Nat
        /\ a <= MaxOf(high[n], a) /\ MaxOf(high[n], a) <= Len(log)
    BY <1>len, <2>1 DEF MaxOf
  <2>3. ASSUME NEW x \in Nodes PROVE applied'[x] <= high'[x] /\ high'[x] <= Len(log)
    BY <1>t, <1>len, <2>1, <2>2 DEF FSMTypeOK
  <2>4. ASSUME NEW e \in Entry \cup {NoEntry}
        PROVE  [data EXCEPT ![n] = [data[n] EXCEPT ![op.key] = e]] \in [Nodes -> Buckets]
    BY <1>b, <2>1 DEF Buckets
  <2>5. ASSUME NEW ev \in Event
        PROVE  [window EXCEPT ![n] = Push(window[n], ev, Capacity)] \in [Nodes -> Seq(Event)]
    <3>1. window \in [Nodes -> Seq(Event)] /\ window[n] \in Seq(Event)
      BY <1>t DEF FSMTypeOK
    <3>2. Push(window[n], ev, Capacity) \in Seq(Event)
      BY <3>1, PushShape
    <3> QED
      BY <3>1, <3>2
  <2>6. /\ data' \in [Nodes -> Buckets] /\ rev' \in [Nodes -> Nat] /\ meta' \in [Nodes -> Nat]
        /\ window' \in [Nodes -> Seq(Event)]
    <3> DEFINE r == rev[n] + 1
    <3>0. rev \in [Nodes -> Nat] /\ meta \in [Nodes -> Nat] /\ r \in Nat
          /\ window \in [Nodes -> Seq(Event)]
      BY <1>t DEF FSMTypeOK
    <3>1. CASE /\ op.type = "put" /\ op.value \in Values /\ r \in Nat
               /\ data[n][op.key] \in Entry \cup {NoEntry}
               /\ data' = [data EXCEPT ![n] = [data[n] EXCEPT ![op.key] =
                               NewEntry(data[n][op.key], op.key, op.value, r)]]
               /\ rev' = [rev EXCEPT ![n] = r] /\ meta' = [meta EXCEPT ![n] = r]
               /\ PutEvent(data[n][op.key], op.key, op.value, r) \in Event
               /\ window' = [window EXCEPT ![n] = Push(window[n],
                               PutEvent(data[n][op.key], op.key, op.value, r), Capacity)]
      <4>1. NewEntry(data[n][op.key], op.key, op.value, r) \in Entry
        BY <2>1, <3>1, NewEntryType
      <4>2. data' \in [Nodes -> Buckets]
        BY <2>4, <3>1, <4>1
      <4>3. window' \in [Nodes -> Seq(Event)]
        BY <2>5, <3>1
      <4>4. rev' \in [Nodes -> Nat] /\ meta' \in [Nodes -> Nat]
        BY <3>0, <3>1
      <4> QED
        BY <4>2, <4>3, <4>4
    <3>2. CASE /\ op.type = "delete" /\ data[n][op.key] \in Entry /\ r \in Nat
               /\ data[n][op.key] # NoEntry
               /\ data' = [data EXCEPT ![n] = [data[n] EXCEPT ![op.key] = NoEntry]]
               /\ rev' = [rev EXCEPT ![n] = r] /\ meta' = [meta EXCEPT ![n] = r]
               /\ DeleteEvent(data[n][op.key], r) \in Event
               /\ window' = [window EXCEPT ![n] = Push(window[n],
                               DeleteEvent(data[n][op.key], r), Capacity)]
      <4>2. data' \in [Nodes -> Buckets]
        BY <2>4, <3>2
      <4>3. window' \in [Nodes -> Seq(Event)]
        BY <2>5, <3>2
      <4>4. rev' \in [Nodes -> Nat] /\ meta' \in [Nodes -> Nat]
        BY <3>0, <3>2
      <4> QED
        BY <4>2, <4>3, <4>4
    <3>3. CASE UNCHANGED <<data, rev, meta, window>>
      BY <1>b, <3>0, <3>3
    <3> QED
      BY <1>ap, <3>1, <3>2, <3>3, ApplyEffect
  <2>7. applied' \in [Nodes -> Nat] /\ high' \in [Nodes -> Nat]
    BY <1>t, <2>1, <2>2 DEF FSMTypeOK
  <2> HIDE DEF op, a
  <2> QED
    BY <1>t, <2>1, <2>3, <2>6, <2>7 DEF FSMTypeOK, Buckets
<1>af. ASSUME NEW n \in Nodes, ApplyFails(n) PROVE FSMTypeOK'
  <2>1. /\ applied' = [applied EXCEPT ![n] = applied[n] + 1]
        /\ high' = [high EXCEPT ![n] = MaxOf(high[n], applied[n] + 1)]
        /\ rev' = [rev EXCEPT ![n] = @ + 1] /\ failures' = failures + 1
        /\ damaged' = damaged \cup {n} /\ applied[n] < Len(log)
        /\ UNCHANGED <<log, up, snap, restarts, restarted, installed, overlaid,
                       data, meta, window>>
    BY <1>af DEF ApplyFails, Deliver
  <2> DEFINE a == applied[n] + 1
  <2>2. a \in Nat /\ a <= Len(log) /\ MaxOf(high[n], a) \in Nat
        /\ a <= MaxOf(high[n], a) /\ MaxOf(high[n], a) <= Len(log)
    BY <1>len, <2>1 DEF MaxOf
  <2> HIDE DEF a
  <2>3. ASSUME NEW x \in Nodes PROVE applied'[x] <= high'[x] /\ high'[x] <= Len(log)
    BY <1>t, <1>len, <2>1, <2>2 DEF FSMTypeOK, a
  <2>4. applied' \in [Nodes -> Nat] /\ high' \in [Nodes -> Nat] /\ rev' \in [Nodes -> Nat]
        /\ failures' \in Nat
    BY <1>t, <2>1, <2>2 DEF FSMTypeOK, a
  <2> QED
    BY <1>t, <2>1, <2>3, <2>4 DEF FSMTypeOK
<1>sn. ASSUME NEW n \in Nodes, Snapshot(n) PROVE FSMTypeOK'
  <2>1. [index |-> applied[n], entries |-> data[n], rev |-> rev[n], upto |-> high[n]]
          \in SnapshotData
    BY <1>t DEF FSMTypeOK, SnapshotData
  <2>2. snap' \in [Nodes -> SnapshotData \cup {NoSnapshot}]
    BY <1>t, <1>sn, <2>1 DEF Snapshot, FSMTypeOK
  <2> QED
    BY <1>t, <1>sn, <2>2 DEF Snapshot, FSMTypeOK
<1>sd. ASSUME NEW n \in Nodes, Shutdown(n) PROVE FSMTypeOK'
  <2>1. window' \in [Nodes -> Seq(Event)] /\ up' \in [Nodes -> BOOLEAN] /\ restarts' \in Nat
    BY <1>t, <1>sd, EmptySeq DEF Shutdown, FSMTypeOK
  <2> QED
    BY <1>t, <1>sd, <2>1 DEF Shutdown, FSMTypeOK
<1>nn. ASSUME NEW n \in Nodes, NewNode(n) PROVE FSMTypeOK'
  <2>1. /\ up' = [up EXCEPT ![n] = TRUE]
        /\ UNCHANGED <<log, window, snap, high, restarts, restarted, failures, installed,
                       overlaid, damaged>>
    BY <1>nn DEF NewNode
  <2>2. CASE snap[n] = NoSnapshot
    <3>1. /\ rev' = [rev EXCEPT ![n] = meta[n]] /\ applied' = [applied EXCEPT ![n] = 0]
          /\ UNCHANGED <<data, meta>>
      BY <1>nn, <2>2 DEF NewNode
    <3>2. ASSUME NEW x \in Nodes PROVE applied'[x] <= high'[x] /\ high'[x] <= Len(log)
      BY <1>t, <1>len, <2>1, <3>1 DEF FSMTypeOK
    <3>3. rev' \in [Nodes -> Nat] /\ applied' \in [Nodes -> Nat]
      BY <1>t, <1>len, <3>1 DEF FSMTypeOK
    <3> QED
      BY <1>t, <2>1, <3>1, <3>2, <3>3 DEF FSMTypeOK
  <2>3. CASE snap[n] # NoSnapshot
    <3> DEFINE done == Listed(snap[n])
    <3>1. /\ RestoreFile(n, meta[n], snap[n], done)
          /\ rev' = [rev EXCEPT ![n] = RestoreRev(meta[n], done)]
          /\ applied' = [applied EXCEPT ![n] = snap[n].index]
      BY <1>nn, <2>3 DEF NewNode
    <3>2. /\ data' \in [Nodes -> Buckets] /\ meta' \in [Nodes -> Nat]
          /\ RestoreRev(meta[n], done) \in Nat
      BY <1>len, <2>3, <3>1, RestoreFileEffect
    <3>3. snap[n].index \in Nat /\ snap[n].index <= high[n]
      BY <2>3, SnapshotFields
    <3> HIDE DEF done
    <3>4. ASSUME NEW x \in Nodes PROVE applied'[x] <= high'[x] /\ high'[x] <= Len(log)
      BY <1>t, <1>len, <2>1, <3>1, <3>3 DEF FSMTypeOK
    <3>5. rev' \in [Nodes -> Nat] /\ applied' \in [Nodes -> Nat]
      BY <1>t, <3>1, <3>2, <3>3 DEF FSMTypeOK
    <3> QED
      BY <1>t, <2>1, <3>2, <3>4, <3>5 DEF FSMTypeOK, Buckets
  <2> QED
    BY <2>2, <2>3
<1>nf. ASSUME NEW n \in Nodes, NEW c \in Keys, NewNodeFails(n, c) PROVE FSMTypeOK'
  <2> DEFINE done == Before(snap[n], c)
  <2>1. /\ snap[n] # NoSnapshot
        /\ RestoreFile(n, meta[n], snap[n], done)
        /\ applied' = [applied EXCEPT ![n] = snap[n].index]
        /\ failures' = failures + 1
        /\ UNCHANGED <<log, up, rev, window, snap, high, restarts, restarted, installed,
                       overlaid, damaged>>
    BY <1>nf DEF NewNodeFails
  <2>2. snap[n].index \in Nat /\ snap[n].index <= high[n]
    BY <2>1, SnapshotFields
  <2>6. done \in SUBSET Listed(snap[n])
    BY DEF Before
  <2>3. data' \in [Nodes -> Buckets] /\ meta' \in [Nodes -> Nat]
    BY <1>len, <2>1, <2>6, RestoreFileEffect
  <2> HIDE DEF done
  <2>4. ASSUME NEW x \in Nodes PROVE applied'[x] <= high'[x] /\ high'[x] <= Len(log)
    BY <1>t, <1>len, <2>1, <2>2 DEF FSMTypeOK
  <2>5. applied' \in [Nodes -> Nat] /\ failures' \in Nat
    BY <1>t, <2>1, <2>2 DEF FSMTypeOK
  <2> QED
    BY <1>t, <2>1, <2>3, <2>4, <2>5 DEF FSMTypeOK, Buckets
<1>rs. ASSUME NEW n \in Nodes, NEW m \in Nodes, ReceiveSnapshot(n, m)
       PROVE  /\ snap[m] # NoSnapshot /\ snap[m].index \in Nat
              /\ snap' \in [Nodes -> SnapshotData \cup {NoSnapshot}]
              /\ high' \in [Nodes -> Nat] /\ installed' \subseteq Nodes
              /\ snap[m].index <= high'[n]
              /\ \A x \in Nodes : high[x] <= high'[x] /\ high'[x] <= Len(log)
              /\ UNCHANGED <<log, up, window, restarts, restarted>>
  <2>1. /\ snap[m] # NoSnapshot
        /\ high' = [high EXCEPT ![n] = MaxOf(high[n], snap[m].upto)]
        /\ snap' = [snap EXCEPT ![n] = snap[m]]
        /\ installed' = installed \cup {n}
        /\ UNCHANGED <<log, up, window, restarts, restarted>>
    BY <1>rs DEF ReceiveSnapshot
  <2>2. /\ snap[m].index \in Nat /\ snap[m].upto \in Nat /\ snap[m].index <= snap[m].upto
        /\ snap[m].upto <= high[m] /\ high[m] <= Len(log) /\ high[m] \in Nat
    BY <2>1, SnapshotFields
  <2> DEFINE h == MaxOf(high[n], snap[m].upto)
  <2>3. h \in Nat /\ high[n] <= h /\ snap[m].upto <= h /\ h <= Len(log)
    BY <1>len, <2>2 DEF MaxOf
  <2> HIDE DEF h
  <2>4. high' \in [Nodes -> Nat] /\ \A x \in Nodes : high'[x] = IF x = n THEN h ELSE high[x]
    BY <1>t, <2>1, <2>3 DEF FSMTypeOK, h
  <2>5. snap' \in [Nodes -> SnapshotData \cup {NoSnapshot}] /\ installed' \subseteq Nodes
    BY <1>t, <2>1 DEF FSMTypeOK
  <2>6. snap[m].index <= high'[n]
    BY <2>2, <2>3, <2>4
  <2>7. \A x \in Nodes : high[x] <= high'[x] /\ high'[x] <= Len(log)
    BY <1>len, <2>3, <2>4
  <2> QED
    BY <2>1, <2>2, <2>4, <2>5, <2>6, <2>7
<1>ov. ASSUME NEW n \in Nodes, NEW m \in Nodes, Overlay(n, m)
       PROVE  overlaid' \subseteq Nodes
  BY <1>t, <1>ov DEF Overlay, FSMTypeOK
<1>is. ASSUME NEW n \in Nodes, NEW m \in Nodes, InstallSnapshot(n, m) PROVE FSMTypeOK'
  <2> DEFINE done == Listed(snap[m])
  <2>1. /\ ReceiveSnapshot(n, m)
        /\ RestoreFile(n, rev[n], snap[m], done)
        /\ rev' = [rev EXCEPT ![n] = RestoreRev(rev[n], done)]
        /\ applied' = [applied EXCEPT ![n] = snap[m].index]
        /\ Overlay(n, m)
        /\ damaged' = IF m \in damaged THEN damaged \cup {n} ELSE damaged
        /\ UNCHANGED failures
    BY <1>is DEF InstallSnapshot
  <2>2. /\ snap[m] # NoSnapshot /\ snap[m].index \in Nat
        /\ snap' \in [Nodes -> SnapshotData \cup {NoSnapshot}]
        /\ high' \in [Nodes -> Nat] /\ installed' \subseteq Nodes
        /\ snap[m].index <= high'[n]
        /\ \A x \in Nodes : high[x] <= high'[x] /\ high'[x] <= Len(log)
        /\ UNCHANGED <<log, up, window, restarts, restarted>>
    BY <1>rs, <2>1
  <2>3. /\ data' \in [Nodes -> Buckets] /\ meta' \in [Nodes -> Nat]
        /\ RestoreRev(rev[n], done) \in Nat
    BY <1>len, <2>1, <2>2, RestoreFileEffect
  <2>4. overlaid' \subseteq Nodes
    BY <1>ov, <2>1
  <2> HIDE DEF done
  <2>5. rev' \in [Nodes -> Nat] /\ applied' \in [Nodes -> Nat] /\ damaged' \subseteq Nodes
    BY <1>t, <2>1, <2>2, <2>3 DEF FSMTypeOK
  <2>6. ASSUME NEW x \in Nodes PROVE applied'[x] <= high'[x]
    <3>0. high'[x] \in Nat /\ applied'[x] = IF x = n THEN snap[m].index ELSE applied[x]
      BY <1>t, <2>1, <2>2 DEF FSMTypeOK
    <3> QED
      BY <1>len, <2>2, <3>0
  <2> QED
    BY <1>t, <2>1, <2>2, <2>3, <2>4, <2>5, <2>6 DEF FSMTypeOK, Buckets
<1>if. ASSUME NEW n \in Nodes, NEW m \in Nodes, NEW c \in Keys, InstallSnapshotFails(n, m, c)
       PROVE  FSMTypeOK'
  <2> DEFINE done == Before(snap[m], c)
  <2>1. /\ ReceiveSnapshot(n, m)
        /\ RestoreFile(n, rev[n], snap[m], done)
        /\ rev' = [rev EXCEPT ![n] = RestoreRev(rev[n], done) + 1]
        /\ failures' = failures + 1
        /\ Overlay(n, m)
        /\ damaged' = damaged \cup {n}
        /\ UNCHANGED applied
    BY <1>if DEF InstallSnapshotFails
  <2>2. /\ snap[m] # NoSnapshot
        /\ snap' \in [Nodes -> SnapshotData \cup {NoSnapshot}]
        /\ high' \in [Nodes -> Nat] /\ installed' \subseteq Nodes
        /\ \A x \in Nodes : high[x] <= high'[x] /\ high'[x] <= Len(log)
        /\ UNCHANGED <<log, up, window, restarts, restarted>>
    BY <1>rs, <2>1
  <2>3. done \in SUBSET Listed(snap[m])
    BY <2>2, SnapshotFields
  <2>4. /\ data' \in [Nodes -> Buckets] /\ meta' \in [Nodes -> Nat]
        /\ RestoreRev(rev[n], done) \in Nat
    BY <1>len, <2>1, <2>2, <2>3, RestoreFileEffect
  <2>5. overlaid' \subseteq Nodes
    BY <1>ov, <2>1
  <2> HIDE DEF done
  <2>6. rev' \in [Nodes -> Nat] /\ damaged' \subseteq Nodes /\ failures' \in Nat
    BY <1>t, <2>1, <2>4 DEF FSMTypeOK
  <2>7. ASSUME NEW x \in Nodes PROVE applied'[x] <= high'[x]
    <3>0. high'[x] \in Nat /\ applied'[x] = applied[x]
      BY <2>1, <2>2
    <3> QED
      BY <1>len, <2>2, <3>0
  <2> QED
    BY <1>t, <2>1, <2>2, <2>4, <2>5, <2>6, <2>7 DEF FSMTypeOK, Buckets
<1>un. ASSUME UNCHANGED fsmVars PROVE FSMTypeOK'
  BY <1>t, <1>un DEF fsmVars, FSMTypeOK
<1> QED
  BY <1>cm, <1>ap, <1>af, <1>sn, <1>sd, <1>nn, <1>nf, <1>is, <1>if, <1>un DEF FSMNext

-----------------------------------------------------------------------------
(* What FSM.Apply leaves at its own node. *)
LEMMA ApplyNode ==
  ASSUME ShapeInv, NEW n \in Nodes, Apply(n)
  PROVE  LET op == log[applied[n] + 1]
         IN  /\ \A k \in Keys : k # op.key => data'[n][k] = data[n][k]
             /\ op.type = "put" =>
                  /\ data'[n][op.key] = NewEntry(data[n][op.key], op.key, op.value, rev[n] + 1)
                  /\ data'[n][op.key] # NoEntry
                  /\ data'[n][op.key].Key = op.key
                  /\ data'[n][op.key].Value = op.value
             /\ op.type = "delete" => data'[n][op.key] = NoEntry
             /\ op.type = "put" \/ data[n][op.key] # NoEntry =>
                  rev'[n] = rev[n] + 1 /\ meta'[n] = rev[n] + 1
             /\ ~(op.type = "put" \/ data[n][op.key] # NoEntry) =>
                  rev'[n] = rev[n] /\ meta'[n] = meta[n]
             /\ applied'[n] = applied[n] + 1
             /\ high'[n] = MaxOf(high[n], applied[n] + 1)
<1> DEFINE op == log[applied[n] + 1]
           r == rev[n] + 1
           e == NewEntry(data[n][op.key], op.key, op.value, r)
<1>1. /\ op.key \in Keys /\ (op.type = "put" \/ op.type = "delete")
      /\ applied' = [applied EXCEPT ![n] = applied[n] + 1]
      /\ high' = [high EXCEPT ![n] = MaxOf(high[n], applied[n] + 1)]
  BY ApplyShape
<1>2. /\ data \in [Nodes -> [Keys -> Entry \cup {NoEntry}]] /\ rev \in [Nodes -> Nat]
      /\ meta \in [Nodes -> Nat] /\ applied \in [Nodes -> Nat] /\ high \in [Nodes -> Nat]
      /\ data[n] \in [Keys -> Entry \cup {NoEntry}]
  BY DEF ShapeInv, FSMTypeOK
<1>3. applied'[n] = applied[n] + 1 /\ high'[n] = MaxOf(high[n], applied[n] + 1)
  BY <1>1, <1>2
<1>4. CASE op.type = "put"
  <2>1. /\ data' = [data EXCEPT ![n] = [data[n] EXCEPT ![op.key] = e]]
        /\ rev' = [rev EXCEPT ![n] = r] /\ meta' = [meta EXCEPT ![n] = r]
        /\ op.value \in Values /\ r \in Nat /\ data[n][op.key] \in Entry \cup {NoEntry}
    BY <1>4, ApplyEffect
  <2>2. e \in Entry
    BY <1>1, <2>1, NewEntryType
  <2>3. e.Key = op.key /\ e.Value = op.value
    BY DEF NewEntry
  <2>4. e # NoEntry
    BY <2>2, NoEntryAssumption
  <2>5. e = NewEntry(data[n][op.key], op.key, op.value, rev[n] + 1)
    OBVIOUS
  <2> HIDE DEF e, r
  <2>6. data'[n] = [data[n] EXCEPT ![op.key] = e] /\ rev'[n] = r /\ meta'[n] = r
    BY <1>2, <2>1
  <2>7. data'[n][op.key] = e /\ \A k \in Keys : k # op.key => data'[n][k] = data[n][k]
    BY <1>1, <1>2, <2>6
  <2> QED
    BY <1>3, <1>4, <2>3, <2>4, <2>5, <2>6, <2>7 DEF r
<1>5. CASE op.type = "delete" /\ data[n][op.key] # NoEntry
  <2>1. /\ data' = [data EXCEPT ![n] = [data[n] EXCEPT ![op.key] = NoEntry]]
        /\ rev' = [rev EXCEPT ![n] = r] /\ meta' = [meta EXCEPT ![n] = r]
    BY <1>5, ApplyEffect
  <2>2. data'[n] = [data[n] EXCEPT ![op.key] = NoEntry] /\ rev'[n] = r /\ meta'[n] = r
    BY <1>2, <2>1
  <2>3. data'[n][op.key] = NoEntry /\ \A k \in Keys : k # op.key => data'[n][k] = data[n][k]
    BY <1>1, <1>2, <2>2
  <2> QED
    BY <1>3, <1>5, <2>2, <2>3
<1>6. CASE op.type = "delete" /\ data[n][op.key] = NoEntry
  <2>1. UNCHANGED <<data, rev, meta, window>>
    BY <1>6, ApplyEffect
  <2> QED
    BY <1>3, <1>6, <2>1
<1> QED
  BY <1>1, <1>4, <1>5, <1>6

(* What receiving a snapshot, whole or in part, leaves at the receiver. *)
LEMMA ReceiveNode ==
  ASSUME ShapeInv, NEW n \in Nodes, NEW m \in Nodes, ReceiveSnapshot(n, m)
  PROVE  /\ snap[m] # NoSnapshot /\ snap'[n] = snap[m] /\ n \in installed'
         /\ up[n] /\ up'[n] /\ window'[n] = window[n]
         /\ high'[n] \in Nat /\ high[n] <= high'[n] /\ snap[m].upto <= high'[n]
         /\ high'[n] <= Len(log) /\ log' = log
<1>1. /\ snap[m] # NoSnapshot /\ up[n]
      /\ high' = [high EXCEPT ![n] = MaxOf(high[n], snap[m].upto)]
      /\ snap' = [snap EXCEPT ![n] = snap[m]]
      /\ installed' = installed \cup {n}
      /\ UNCHANGED <<log, up, window, restarts, restarted>>
  BY DEF ReceiveSnapshot
<1>2. /\ high \in [Nodes -> Nat] /\ snap \in [Nodes -> SnapshotData \cup {NoSnapshot}]
      /\ high[n] \in Nat /\ high[n] <= Len(log)
  BY DEF ShapeInv, FSMTypeOK
<1>3. snap[m].upto \in Nat /\ snap[m].upto <= Len(log) /\ Len(log) \in Nat
  BY <1>1, SnapshotFields
<1>4. high'[n] = MaxOf(high[n], snap[m].upto) /\ snap'[n] = snap[m]
  BY <1>1, <1>2
<1> QED
  BY <1>1, <1>2, <1>3, <1>4 DEF MaxOf

(* Every step keeps the shape of the nodes and of the log. *)
LEMMA ShapeStep == ShapeInv /\ [FSMNext]_fsmVars => ShapeInv'
<1> SUFFICES ASSUME ShapeInv, [FSMNext]_fsmVars PROVE ShapeInv'
  OBVIOUS
<1>t. FSMTypeOK
  BY DEF ShapeInv
<1>1. FSMTypeOK'
  BY TypeStep
<1>2. overlaid' \subseteq installed'
  <2>1. ASSUME NEW n \in Nodes, NEW m \in Nodes, ReceiveSnapshot(n, m), Overlay(n, m)
        PROVE  overlaid' \subseteq installed'
    BY <2>1 DEF ReceiveSnapshot, Overlay, ShapeInv
  <2>2. ASSUME UNCHANGED <<overlaid, installed>> PROVE overlaid' \subseteq installed'
    BY <2>2 DEF ShapeInv
  <2> QED
    BY <2>1, <2>2 DEF FSMNext, fsmVars, Commit, Apply, Deliver, ApplyFails, Snapshot,
       Shutdown, NewNode, NewNodeFails, InstallSnapshot, InstallSnapshotFails
<1>3. ASSUME NEW n \in Nodes PROVE NodeShape(n)'
  <2>0. /\ IsFiniteSet(Stored(data[n])) /\ \A k \in Stored(data[n]) : data[n][k].Key = k
        /\ ~up[n] => window[n] = <<>> /\ n \in restarted
        /\ snap[n] # NoSnapshot =>
             /\ IsFiniteSet(Listed(snap[n]))
             /\ snap[n].index <= snap[n].upto /\ snap[n].upto <= high[n]
    BY DEF ShapeInv, NodeShape
  <2>1. restarted \subseteq restarted'
    BY <1>t, LogGrows
  <2>2. applied[n] \in Nat /\ high[n] \in Nat /\ rev[n] \in Nat /\ meta[n] \in Nat
        /\ applied[n] <= high[n] /\ data[n] \in Buckets
    BY <1>t DEF FSMTypeOK, Buckets
  <2>un. CASE Untouched(n)
    BY <2>0, <2>1, <2>un DEF Untouched, NodeShape
  <2>ap. CASE Apply(n)
    <3> DEFINE op == log[applied[n] + 1]
    <3>1. /\ op.key \in Keys /\ (op.type = "put" \/ op.type = "delete")
          /\ up[n] /\ up' = up /\ snap' = snap
      BY <2>ap, ApplyShape
    <3>2. /\ \A k \in Keys : k # op.key => data'[n][k] = data[n][k]
          /\ op.type = "put" => data'[n][op.key].Key = op.key
          /\ op.type = "delete" => data'[n][op.key] = NoEntry
          /\ high'[n] = MaxOf(high[n], applied[n] + 1)
      BY <2>ap, ApplyNode
    <3> HIDE DEF op
    <3>3. Stored(data'[n]) \in SUBSET (Stored(data[n]) \cup {op.key})
      BY <3>2 DEF Stored
    <3>4. IsFiniteSet(Stored(data[n]) \cup {op.key})
      BY <2>0, FS_AddElement
    <3>5. IsFiniteSet(Stored(data'[n]))
      BY <3>3, <3>4, FS_Subset
    <3>6. \A k \in Stored(data'[n]) : data'[n][k].Key = k
      BY <2>0, <3>1, <3>2 DEF Stored
    <3>7. snap'[n] = snap[n] /\ up'[n]
      BY <3>1
    <3>8. high[n] <= high'[n] /\ high'[n] \in Nat
      BY <2>2, <3>2 DEF MaxOf
    <3>9. snap[n] # NoSnapshot => snap[n].upto <= high'[n]
      <4> HAVE snap[n] # NoSnapshot
      <4>1. snap[n].upto \in Nat
        BY SnapshotFields
      <4> QED
        BY <2>0, <2>2, <3>8, <4>1
    <3> QED
      BY <2>0, <3>5, <3>6, <3>7, <3>9 DEF NodeShape
  <2>af. CASE ApplyFails(n)
    <3>1. /\ data' = data /\ up' = up /\ up[n] /\ snap' = snap
          /\ high' = [high EXCEPT ![n] = MaxOf(high[n], applied[n] + 1)]
      BY <2>af DEF ApplyFails, Deliver
    <3>2. high[n] <= high'[n] /\ high'[n] \in Nat
      BY <1>t, <2>2, <3>1 DEF FSMTypeOK, MaxOf
    <3>3. snap[n] # NoSnapshot => snap[n].upto <= high'[n]
      <4> HAVE snap[n] # NoSnapshot
      <4>1. snap[n].upto \in Nat
        BY SnapshotFields
      <4> QED
        BY <2>0, <2>2, <3>2, <4>1
    <3> QED
      BY <2>0, <3>1, <3>3 DEF NodeShape
  <2>sn. CASE Snapshot(n)
    <3> DEFINE s == [index |-> applied[n], entries |-> data[n], rev |-> rev[n], upto |-> high[n]]
    <3>1. /\ snap' = [snap EXCEPT ![n] = s] /\ up[n]
          /\ UNCHANGED <<data, up, window, high>>
      BY <2>sn DEF Snapshot
    <3>2. snap'[n] = s
      BY <1>t, <3>1 DEF FSMTypeOK
    <3>3. s.index = applied[n] /\ s.upto = high[n] /\ Listed(s) = Stored(data[n])
      BY DEF Listed, Stored
    <3> HIDE DEF s
    <3> QED
      BY <2>0, <2>2, <3>1, <3>2, <3>3 DEF NodeShape
  <2>sd. CASE Shutdown(n)
    <3>1. window' = [window EXCEPT ![n] = <<>>] /\ restarted' = restarted \cup {n}
          /\ UNCHANGED <<data, snap, high>>
      BY <2>sd DEF Shutdown
    <3>2. window'[n] = <<>>
      BY <1>t, <3>1 DEF FSMTypeOK
    <3> QED
      BY <2>0, <3>1, <3>2 DEF NodeShape
  <2>nn. CASE NewNode(n)
    <3>1. up'[n] /\ UNCHANGED <<snap, high, window>>
      BY <1>t, <2>nn DEF NewNode, FSMTypeOK
    <3>2. IsFiniteSet(Stored(data'[n])) /\ \A k \in Stored(data'[n]) : data'[n][k].Key = k
      <4>1. CASE snap[n] = NoSnapshot
        BY <2>0, <2>nn, <4>1 DEF NewNode
      <4>2. CASE snap[n] # NoSnapshot
        <5>1. RestoreFile(n, meta[n], snap[n], Listed(snap[n]))
          BY <2>nn, <4>2 DEF NewNode
        <5> QED
          BY <2>2, <4>2, <5>1, RestoreFileEffect
      <4> QED
        BY <4>1, <4>2
    <3> QED
      BY <2>0, <3>1, <3>2 DEF NodeShape
  <2>nf. ASSUME NEW c \in Keys, NewNodeFails(n, c) PROVE NodeShape(n)'
    <3>1. /\ ~up[n] /\ snap[n] # NoSnapshot
          /\ RestoreFile(n, meta[n], snap[n], Before(snap[n], c))
          /\ UNCHANGED <<up, window, snap, high, restarted>>
      BY <2>nf DEF NewNodeFails
    <3>2. Before(snap[n], c) \in SUBSET Listed(snap[n])
      BY DEF Before
    <3>3. IsFiniteSet(Stored(data'[n])) /\ \A k \in Stored(data'[n]) : data'[n][k].Key = k
      BY <2>2, <3>1, <3>2, RestoreFileEffect
    <3> QED
      BY <2>0, <3>1, <3>3 DEF NodeShape
  <2>is. ASSUME NEW m \in Nodes, ReceiveSnapshot(n, m), NEW done \in SUBSET Listed(snap[m]),
                RestoreFile(n, rev[n], snap[m], done)
         PROVE  NodeShape(n)'
    <3>1. /\ snap[m] # NoSnapshot /\ snap'[n] = snap[m] /\ up'[n]
          /\ snap[m].upto <= high'[n]
      BY <2>is, ReceiveNode
    <3>2. IsFiniteSet(Listed(snap[m])) /\ snap[m].index <= snap[m].upto
      BY <3>1, SnapshotFields
    <3>3. IsFiniteSet(Stored(data'[n])) /\ \A k \in Stored(data'[n]) : data'[n][k].Key = k
      BY <2>2, <2>is, <3>1, RestoreFileEffect
    <3> QED
      BY <3>1, <3>2, <3>3 DEF NodeShape
  <2>i1. ASSUME NEW m \in Nodes, InstallSnapshot(n, m) PROVE NodeShape(n)'
    BY <2>i1, <2>is DEF InstallSnapshot
  <2>i2. ASSUME NEW m \in Nodes, NEW c \in Keys, InstallSnapshotFails(n, m, c)
         PROVE  NodeShape(n)'
    <3>1. Before(snap[m], c) \in SUBSET Listed(snap[m])
      BY DEF Before
    <3> QED
      BY <2>i2, <2>is, <3>1 DEF InstallSnapshotFails
  <2> QED
    BY <1>t, <2>un, <2>ap, <2>af, <2>sn, <2>sd, <2>nn, <2>nf, <2>i1, <2>i2, StepOfNode
<1> QED
  BY <1>1, <1>2, <1>3 DEF ShapeInv

(* The shape holds in every reachable state. *)
LEMMA ShapeInvariant == FSMSpec => []ShapeInv
BY ShapeInit, ShapeStep, PTL DEF FSMSpec

(* node.go: whatever restarts, fails or is restored, every store holds        *)
(* entries and every node stays within the log it was given.                  *)
THEOREM FSMTypeCorrect == FSMSpec => []FSMTypeOK
<1>1. ShapeInv => FSMTypeOK
  BY DEF ShapeInv
<1> QED
  BY <1>1, ShapeInvariant, PTL

-----------------------------------------------------------------------------
(* The watch cache of a node against its revision and its file. *)
WindowOrdered(w, r) ==
  /\ \A i, j \in 1 .. Len(w) : i < j => w[i].Entry.Revision < w[j].Entry.Revision
  /\ \A i \in 1 .. Len(w) : w[i].Entry.Revision <= r

WindowTells(w, d) ==
  \A i \in 1 .. Len(w) :
    (\A j \in 1 .. Len(w) : j > i => w[j].Entry.Key # w[i].Entry.Key) =>
      d[w[i].Entry.Key] = (IF w[i].Type = "PUT" THEN w[i].Entry ELSE NoEntry)

EventsInv ==
  \A n \in Nodes : /\ WindowOrdered(window[n], rev[n])
                   /\ n \notin installed => WindowTells(window[n], data[n])

(* FSM.Apply either changes nothing or appends one event, that of the change. *)
LEMMA ApplyWindow ==
  ASSUME ShapeInv, NEW n \in Nodes, Apply(n)
  PROVE  \/ data'[n] = data[n] /\ rev'[n] = rev[n] /\ window'[n] = window[n]
         \/ \E ev \in Event :
              /\ window'[n] = Push(window[n], ev, Capacity)
              /\ rev'[n] = rev[n] + 1 /\ ev.Entry.Revision = rev[n] + 1
              /\ ev.Entry.Key \in Keys
              /\ data'[n][ev.Entry.Key] = (IF ev.Type = "PUT" THEN ev.Entry ELSE NoEntry)
              /\ \A k \in Keys : k # ev.Entry.Key => data'[n][k] = data[n][k]
<1> DEFINE op == log[applied[n] + 1]
           r == rev[n] + 1
<1>1. /\ op.key \in Keys /\ (op.type = "put" \/ op.type = "delete")
  BY ApplyShape
<1>2. /\ \A k \in Keys : k # op.key => data'[n][k] = data[n][k]
      /\ op.type = "put" => data'[n][op.key] = NewEntry(data[n][op.key], op.key, op.value, r)
      /\ op.type = "delete" => data'[n][op.key] = NoEntry
      /\ op.type = "put" \/ data[n][op.key] # NoEntry => rev'[n] = r
  BY ApplyNode
<1>3. window \in [Nodes -> Seq(Event)]
  BY DEF ShapeInv, FSMTypeOK
<1>4. CASE op.type = "put"
  <2> DEFINE ev == PutEvent(data[n][op.key], op.key, op.value, r)
  <2>1. /\ ev \in Event /\ window' = [window EXCEPT ![n] = Push(window[n], ev, Capacity)]
    BY <1>4, ApplyEffect
  <2>2. ev.Type = "PUT" /\ ev.Entry = NewEntry(data[n][op.key], op.key, op.value, r)
    BY DEF PutEvent
  <2>3. NewEntry(data[n][op.key], op.key, op.value, r).Key = op.key
        /\ NewEntry(data[n][op.key], op.key, op.value, r).Revision = r
    BY DEF NewEntry
  <2> HIDE DEF ev, r
  <2>4. ev.Entry.Key = op.key /\ ev.Entry.Revision = r
    BY <2>2, <2>3
  <2>5. window'[n] = Push(window[n], ev, Capacity)
    BY <1>3, <2>1
  <2>6. data'[n][op.key] = (IF ev.Type = "PUT" THEN ev.Entry ELSE NoEntry)
    BY <1>2, <1>4, <2>2
  <2> QED
    BY <1>1, <1>2, <1>4, <2>1, <2>4, <2>5, <2>6 DEF r
<1>5. CASE op.type = "delete" /\ data[n][op.key] # NoEntry
  <2> DEFINE ev == DeleteEvent(data[n][op.key], r)
  <2>1. /\ ev \in Event /\ window' = [window EXCEPT ![n] = Push(window[n], ev, Capacity)]
        /\ data[n][op.key] \in Entry /\ r \in Nat
    BY <1>5, ApplyEffect
  <2>2. data[n][op.key].Key = op.key
    BY <1>1, <1>5 DEF ShapeInv, NodeShape, Stored
  <2>3. ev.Type = "DELETE" /\ ev.Entry = [data[n][op.key] EXCEPT !.Revision = r]
    BY DEF DeleteEvent, DeletedEntry
  <2>4. ev.Entry.Key = data[n][op.key].Key /\ ev.Entry.Revision = r
    BY <2>1, <2>3 DEF Entry
  <2> HIDE DEF ev, r
  <2>5. window'[n] = Push(window[n], ev, Capacity)
    BY <1>3, <2>1
  <2>6. data'[n][op.key] = (IF ev.Type = "PUT" THEN ev.Entry ELSE NoEntry)
    BY <1>2, <1>5, <2>3
  <2> QED
    BY <1>1, <1>2, <1>5, <2>1, <2>2, <2>4, <2>5, <2>6 DEF r
<1>6. CASE op.type = "delete" /\ data[n][op.key] = NoEntry
  <2>1. UNCHANGED <<data, rev, meta, window>>
    BY <1>6, ApplyEffect
  <2> QED
    BY <2>1
<1> QED
  BY <1>1, <1>4, <1>5, <1>6

(* Pushing a newer event keeps the order. *)
LEMMA PushOrdered ==
  ASSUME NEW w \in Seq(Event), NEW ev \in Event, NEW r \in Nat,
         WindowOrdered(w, r), ev.Entry.Revision = r + 1
  PROVE  WindowOrdered(Push(w, ev, Capacity), r + 1)
<1> DEFINE p == Push(w, ev, Capacity)
<1>1. PICK d \in {0, 1} :
        /\ p \in Seq(Event) /\ Len(w) \in Nat
        /\ Len(p) = Len(w) + 1 - d /\ p[Len(w) + 1 - d] = ev
        /\ \A i \in 1 .. Len(w) - d : i + d \in 1 .. Len(w) /\ p[i] = w[i + d]
  BY PushShape
<1> DEFINE q(i) == p[i].Entry.Revision
           o(i) == w[i].Entry.Revision
<1>2. \A i \in 1 .. Len(w) : o(i) \in Nat /\ o(i) <= r
  BY WindowFields DEF WindowOrdered
<1>3. \A i, j \in 1 .. Len(w) : i < j => o(i) < o(j)
  BY DEF WindowOrdered
<1>4. \A i \in 1 .. Len(p) : i \in 1 .. Len(w) - d \/ i = Len(w) + 1 - d
  BY <1>1
<1>5. /\ \A i \in 1 .. Len(w) - d : i + d \in 1 .. Len(w) /\ q(i) = o(i + d)
      /\ q(Len(w) + 1 - d) = r + 1
  BY <1>1
<1> HIDE DEF p, q, o
<1>6. \A i, j \in 1 .. Len(p) : i < j => q(i) < q(j)
  <2> SUFFICES ASSUME NEW i \in 1 .. Len(p), NEW j \in 1 .. Len(p), i < j PROVE q(i) < q(j)
    OBVIOUS
  <2>0. d \in {0, 1} /\ Len(w) \in Nat
    BY <1>1
  <2>1. i \in 1 .. Len(w) - d
    BY <1>1, <1>4, <2>0
  <2>2. q(i) = o(i + d) /\ i + d \in 1 .. Len(w)
    BY <1>5, <2>1
  <2>3. CASE j \in 1 .. Len(w) - d
    <3>1. q(j) = o(j + d) /\ j + d \in 1 .. Len(w) /\ i + d < j + d
      BY <1>5, <2>0, <2>3
    <3> QED
      BY <1>3, <2>2, <3>1
  <2>4. CASE j = Len(w) + 1 - d
    <3>1. q(j) = r + 1 /\ o(i + d) \in Nat /\ o(i + d) <= r
      BY <1>2, <1>5, <2>2, <2>4
    <3> QED
      BY <2>2, <3>1
  <2> QED
    BY <1>4, <2>3, <2>4
<1>7. \A i \in 1 .. Len(p) : q(i) <= r + 1
  <2> TAKE i \in 1 .. Len(p)
  <2>1. CASE i \in 1 .. Len(w) - d
    <3>1. q(i) \in Nat /\ q(i) <= r
      BY <1>2, <1>5, <2>1
    <3> QED
      BY <3>1
  <2>2. CASE i = Len(w) + 1 - d
    BY <1>5, <2>2
  <2> QED
    BY <1>4, <2>1, <2>2
<1> QED
  BY <1>6, <1>7 DEF WindowOrdered, p, q

(* Pushing the event of a change to the buckets keeps them told. *)
LEMMA PushTells ==
  ASSUME NEW w \in Seq(Event), NEW ev \in Event, NEW d, NEW e, WindowTells(w, d),
         e[ev.Entry.Key] = (IF ev.Type = "PUT" THEN ev.Entry ELSE NoEntry),
         \A k \in Keys : k # ev.Entry.Key => e[k] = d[k]
  PROVE  WindowTells(Push(w, ev, Capacity), e)
<1> DEFINE p == Push(w, ev, Capacity)
<1>1. PICK s \in {0, 1} :
        /\ p \in Seq(Event) /\ Len(w) \in Nat
        /\ Len(w) + 1 - s \in Nat /\ Len(w) + 1 - s > 0
        /\ Len(p) = Len(w) + 1 - s /\ p[Len(w) + 1 - s] = ev
        /\ \A i \in 1 .. Len(w) - s : i + s \in 1 .. Len(w) /\ p[i] = w[i + s]
  BY PushShape
<1> HIDE DEF p
<1> SUFFICES ASSUME NEW i \in 1 .. Len(p),
                    \A j \in 1 .. Len(p) : j > i => p[j].Entry.Key # p[i].Entry.Key
             PROVE  e[p[i].Entry.Key] = (IF p[i].Type = "PUT" THEN p[i].Entry ELSE NoEntry)
  BY DEF WindowTells, p
<1>2. CASE i = Len(w) + 1 - s
  BY <1>1, <1>2
<1>3. CASE i \in 1 .. Len(w) - s
  <2>1. i + s \in 1 .. Len(w) /\ p[i] = w[i + s]
    BY <1>1, <1>3
  <2>2. w[i + s].Entry.Key \in Keys
    BY <2>1, WindowFields
  <2>3. Len(p) > i /\ Len(p) \in 1 .. Len(p)
    BY <1>1, <1>3
  <2>4. ev.Entry.Key # p[i].Entry.Key
    BY <1>1, <2>3
  <2>5. ASSUME NEW j \in 1 .. Len(w), j > i + s
        PROVE  w[j].Entry.Key # w[i + s].Entry.Key
    <3>1. j - s \in 1 .. Len(w) - s /\ j - s > i /\ j - s \in 1 .. Len(p) /\ (j - s) + s = j
      BY <1>1, <2>5
    <3>2. p[j - s] = w[j]
      BY <1>1, <3>1
    <3> QED
      BY <2>1, <3>1, <3>2
  <2>6. d[w[i + s].Entry.Key] = (IF w[i + s].Type = "PUT" THEN w[i + s].Entry ELSE NoEntry)
    BY <2>1, <2>5 DEF WindowTells
  <2> QED
    BY <2>1, <2>2, <2>4, <2>6
<1> QED
  BY <1>1, <1>2, <1>3

(* A larger revision keeps the order. *)
LEMMA LaterOrdered ==
  ASSUME NEW w \in Seq(Event), NEW r \in Nat, NEW q \in Nat, r <= q, WindowOrdered(w, r)
  PROVE  WindowOrdered(w, q)
<1>1. \A i \in 1 .. Len(w) : w[i].Entry.Revision \in Nat
  BY WindowFields
<1> QED
  BY <1>1 DEF WindowOrdered

(* Every step keeps a node's window behind its store and telling of it. *)
LEMMA EventsStep == ShapeInv /\ EventsInv /\ [FSMNext]_fsmVars => EventsInv'
<1> SUFFICES ASSUME ShapeInv, EventsInv, [FSMNext]_fsmVars, NEW n \in Nodes
             PROVE  /\ WindowOrdered(window'[n], rev'[n])
                    /\ n \notin installed' => WindowTells(window'[n], data'[n])
  BY DEF EventsInv
<1>0. /\ WindowOrdered(window[n], rev[n])
      /\ n \notin installed => WindowTells(window[n], data[n])
      /\ window[n] \in Seq(Event) /\ rev[n] \in Nat /\ FSMTypeOK /\ meta[n] \in Nat
      /\ installed \subseteq installed'
  BY LogGrows DEF EventsInv, ShapeInv, FSMTypeOK
<1>e. ASSUME NEW r, NEW d PROVE WindowOrdered(<<>>, r) /\ WindowTells(<<>>, d)
  <2>1. Len(<<>>) = 0
    BY EmptySeq
  <2> QED
    BY <2>1 DEF WindowOrdered, WindowTells
<1>un. CASE Untouched(n)
  BY <1>0, <1>un DEF Untouched
<1>ap. CASE Apply(n)
  <2>1. CASE data'[n] = data[n] /\ rev'[n] = rev[n] /\ window'[n] = window[n]
    BY <1>0, <2>1
  <2>2. ASSUME NEW ev \in Event,
               window'[n] = Push(window[n], ev, Capacity),
               rev'[n] = rev[n] + 1, ev.Entry.Revision = rev[n] + 1,
               data'[n][ev.Entry.Key] = (IF ev.Type = "PUT" THEN ev.Entry ELSE NoEntry),
               \A k \in Keys : k # ev.Entry.Key => data'[n][k] = data[n][k]
        PROVE  /\ WindowOrdered(window'[n], rev'[n])
               /\ n \notin installed' => WindowTells(window'[n], data'[n])
    <3>1. WindowOrdered(Push(window[n], ev, Capacity), rev[n] + 1)
      BY <1>0, <2>2, PushOrdered
    <3>2. n \notin installed => WindowTells(Push(window[n], ev, Capacity), data'[n])
      BY <1>0, <2>2, PushTells
    <3> QED
      BY <1>0, <2>2, <3>1, <3>2
  <2> QED
    BY <1>ap, <2>1, <2>2, ApplyWindow
<1>af. CASE ApplyFails(n)
  <2>1. rev'[n] = rev[n] + 1 /\ data' = data /\ window' = window
    BY <1>0, <1>af DEF ApplyFails, FSMTypeOK
  <2>2. WindowOrdered(window[n], rev[n] + 1)
    BY <1>0, LaterOrdered
  <2> QED
    BY <1>0, <2>1, <2>2
<1>sn. CASE Snapshot(n)
  <2>1. UNCHANGED <<data, rev, window>>
    BY <1>sn DEF Snapshot
  <2> QED
    BY <1>0, <2>1
<1>sd. CASE Shutdown(n)
  <2>1. window'[n] = <<>>
    BY <1>0, <1>sd DEF Shutdown, FSMTypeOK
  <2> QED
    BY <1>e, <2>1
<1>nn. CASE NewNode(n) \/ \E c \in Keys : NewNodeFails(n, c)
  <2>1. ~up[n] /\ window' = window
    BY <1>nn DEF NewNode, NewNodeFails
  <2>2. window'[n] = <<>>
    BY <2>1 DEF ShapeInv, NodeShape
  <2> QED
    BY <1>e, <2>2
<1>is. ASSUME NEW m \in Nodes, ReceiveSnapshot(n, m), NEW done \in SUBSET Listed(snap[m]),
              RestoreFile(n, rev[n], snap[m], done),
              \/ rev' = [rev EXCEPT ![n] = RestoreRev(rev[n], done)]
              \/ rev' = [rev EXCEPT ![n] = RestoreRev(rev[n], done) + 1]
       PROVE  /\ WindowOrdered(window'[n], rev'[n])
              /\ n \notin installed' => WindowTells(window'[n], data'[n])
  <2>1. snap[m] # NoSnapshot /\ n \in installed' /\ window'[n] = window[n]
    BY <1>is, ReceiveNode
  <2>2. RestoreRev(rev[n], done) \in Nat /\ RestoreRev(rev[n], done) >= rev[n]
    BY <1>0, <1>is, <2>1, RestoreFileEffect
  <2>3. rev'[n] = RestoreRev(rev[n], done) \/ rev'[n] = RestoreRev(rev[n], done) + 1
    BY <1>0, <1>is DEF FSMTypeOK
  <2>4. rev'[n] \in Nat /\ rev[n] <= rev'[n]
    BY <1>0, <2>2, <2>3
  <2>5. WindowOrdered(window[n], rev'[n])
    BY <1>0, <2>4, LaterOrdered
  <2> QED
    BY <2>1, <2>5
<1>i1. ASSUME NEW m \in Nodes, InstallSnapshot(n, m)
       PROVE  /\ WindowOrdered(window'[n], rev'[n])
              /\ n \notin installed' => WindowTells(window'[n], data'[n])
  BY <1>i1, <1>is DEF InstallSnapshot
<1>i2. ASSUME NEW m \in Nodes, NEW c \in Keys, InstallSnapshotFails(n, m, c)
       PROVE  /\ WindowOrdered(window'[n], rev'[n])
              /\ n \notin installed' => WindowTells(window'[n], data'[n])
  <2>1. Before(snap[m], c) \in SUBSET Listed(snap[m])
    BY DEF Before
  <2> QED
    BY <1>i2, <1>is, <2>1 DEF InstallSnapshotFails
<1> QED
  BY <1>0, <1>un, <1>ap, <1>af, <1>sn, <1>sd, <1>nn, <1>i1, <1>i2, StepOfNode

(* So does every behaviour. *)
LEMMA EventsInvariant == FSMSpec => [](ShapeInv /\ EventsInv)
<1>1. FSMInit => EventsInv
  <2> SUFFICES ASSUME FSMInit PROVE EventsInv
    OBVIOUS
  <2>1. Len(<<>>) = 0
    BY EmptySeq
  <2>2. \A n \in Nodes : window[n] = <<>>
    BY DEF FSMInit
  <2> QED
    BY <2>1, <2>2 DEF EventsInv, WindowOrdered, WindowTells
<1> QED
  BY <1>1, ShapeInit, ShapeStep, EventsStep, PTL DEF FSMSpec

(* The invariant says what the two event properties say. *)
LEMMA EventsImplies == ShapeInv /\ EventsInv => EventsNotAhead /\ EventsTellTheStore
<1> SUFFICES ASSUME ShapeInv, EventsInv PROVE EventsNotAhead /\ EventsTellTheStore
  OBVIOUS
<1>1. \A n \in Nodes : DOMAIN window[n] = 1 .. Len(window[n])
  BY LenProperties DEF ShapeInv, FSMTypeOK
<1>2. EventsNotAhead
  BY <1>1 DEF EventsInv, WindowOrdered, EventsNotAhead
<1>3. EventsTellTheStore
  BY <1>1 DEF EventsInv, WindowTells, EventsTellTheStore
<1> QED
  BY <1>2, <1>3

(* node.go, watchable.go: through replays, restarts, failed commits and       *)
(* snapshots, the events of a node are in the order of their revisions and    *)
(* none is ahead of the revision its answers carry.                           *)
THEOREM EventsNotAheadHolds == FSMSpec => []EventsNotAhead
BY EventsInvariant, EventsImplies, PTL

(* On a node that was not sent a snapshot, the latest event of a key is what  *)
(* the store holds for it.                                                    *)
THEOREM EventsTellTheStoreHolds == FSMSpec => []EventsTellTheStore
BY EventsInvariant, EventsImplies, PTL

-----------------------------------------------------------------------------
(* The log against the reference definitions.  Every prefix of the log has a  *)
(* last operation on a key that has any, and a first put of a current life:   *)
(* that nonempty finite sets of indices have bounds would take an induction,  *)
(* and the behaviour of the log is one.                                       *)
HasLast(S) == S # {} => \E j \in S : \A h \in S : h <= j

HasFirst(S) == S # {} => \E j \in S : \A h \in S : j <= h

LogInv ==
  \A i \in 0 .. Len(log), k \in Keys : HasLast(OpsOn(i, k)) /\ HasFirst(LifeAt(i, k))

(* The value in an entry, or its absence. *)
Held(e) == IF e = NoEntry THEN NoEntry ELSE e.Value

(* Entry e of key k holds what the log said at some index between a and b. *)
Within(e, k, a, b) == \E i \in a .. b : Held(e) = ValueAt(i, k)

(* Or the log deleted k somewhere between a and b, and e is older. *)
Lingers(e, k, a, b) ==
  \/ Within(e, k, a, b)
  \/ /\ \E i \in a .. b : ~PresentAt(i, k)
     /\ Within(e, k, 0, b)

(* The inductive invariant about values: it speaks of snapshots as well as    *)
(* of files, because either may be put over the other.                        *)
NodeValues(n) ==
  /\ \A k \in Keys : Lingers(data[n][k], k, applied[n], high[n])
  /\ n \notin overlaid => \A k \in Keys : Within(data[n][k], k, applied[n], high[n])
  /\ snap[n] # NoSnapshot =>
       /\ snap[n].index <= applied[n]
       /\ \A k \in Keys : Lingers(snap[n].entries[k], k, snap[n].index, snap[n].upto)
       /\ n \notin overlaid =>
            \A k \in Keys : Within(snap[n].entries[k], k, snap[n].index, snap[n].upto)

ValuesInv == \A n \in Nodes \ damaged : NodeValues(n)

(* The inductive invariant about revisions. *)
RevisionInv ==
  \A n \in Nodes \ (damaged \cup installed) :
    /\ rev[n] >= RevAt(high[n]) /\ meta[n] >= RevAt(high[n])
    /\ up[n] => rev[n] = meta[n]

-----------------------------------------------------------------------------
(* Facts about the reference definitions. *)
LEMMA LastOnMax ==
  ASSUME LogInv, NEW i \in 0 .. Len(log), NEW k \in Keys, OpsOn(i, k) # {}
  PROVE  /\ LastOn(i, k) \in OpsOn(i, k)
         /\ \A h \in OpsOn(i, k) : h <= LastOn(i, k)
<1>1. \E j \in OpsOn(i, k) : \A h \in OpsOn(i, k) : h <= j
  BY DEF LogInv, HasLast
<1> QED
  BY <1>1 DEF LastOn

(* One more log index adds itself to the operations of its key and of no other. *)
LEMMA OpsNext ==
  ASSUME NEW i \in Nat, NEW k
  PROVE  OpsOn(i + 1, k) = IF log[i + 1].key = k THEN OpsOn(i, k) \cup {i + 1} ELSE OpsOn(i, k)
<1>1. \A j : j \in 1 .. i + 1 <=> j \in 1 .. i \/ j = i + 1
  OBVIOUS
<1> QED
  BY <1>1 DEF OpsOn

(* A set whose largest element is m. *)
LEMMA LastIsMax ==
  ASSUME NEW S \in SUBSET Nat, NEW m \in S, \A h \in S : h <= m
  PROVE  (CHOOSE j \in S : \A h \in S : h <= j) = m
<1>1. \A j \in S : (\A h \in S : h <= j) => j = m
  OBVIOUS
<1> QED
  BY <1>1

(* A least element is the one CHOOSE picks. *)
LEMMA FirstIsMin ==
  ASSUME NEW S \in SUBSET Nat, NEW m \in S, \A h \in S : m <= h
  PROVE  (CHOOSE j \in S : \A h \in S : j <= h) = m
<1>1. \A j \in S : (\A h \in S : j <= h) => j = m
  OBVIOUS
<1> QED
  BY <1>1

(* One more operation: what it does to its own key and to the others. *)
LEMMA LastNext ==
  ASSUME NEW i \in Nat, NEW k, log[i + 1].key = k
  PROVE  /\ LastOn(i + 1, k) = i + 1
         /\ PresentAt(i + 1, k) <=> log[i + 1].type = "put"
         /\ ValueAt(i + 1, k) = IF log[i + 1].type = "put" THEN log[i + 1].value ELSE NoEntry
<1>1. OpsOn(i + 1, k) = OpsOn(i, k) \cup {i + 1}
  BY OpsNext
<1>2. OpsOn(i, k) \subseteq 1 .. i
  BY DEF OpsOn
<1>3. /\ OpsOn(i + 1, k) \in SUBSET Nat /\ i + 1 \in OpsOn(i + 1, k)
      /\ \A h \in OpsOn(i + 1, k) : h <= i + 1
  BY <1>1, <1>2
<1>4. LastOn(i + 1, k) = i + 1
  BY <1>3, LastIsMax DEF LastOn
<1>5. PresentAt(i + 1, k) <=> log[i + 1].type = "put"
  BY <1>3, <1>4 DEF PresentAt
<1> QED
  BY <1>4, <1>5 DEF ValueAt

(* An operation on one key leaves what the log says of the others. *)
LEMMA OthersNext ==
  ASSUME NEW i \in Nat, NEW k, log[i + 1].key # k
  PROVE  /\ PresentAt(i + 1, k) <=> PresentAt(i, k)
         /\ ValueAt(i + 1, k) = ValueAt(i, k)
         /\ EntryAt(i + 1, k) = EntryAt(i, k)
<1>1. OpsOn(i + 1, k) = OpsOn(i, k)
  BY OpsNext
<1>2. LastOn(i + 1, k) = LastOn(i, k) /\ LifeAt(i + 1, k) = LifeAt(i, k)
  BY <1>1 DEF LastOn, LifeAt
<1>3. PresentAt(i + 1, k) <=> PresentAt(i, k)
  BY <1>1, <1>2 DEF PresentAt
<1> QED
  BY <1>2, <1>3 DEF ValueAt, EntryAt

(* The log says a key is absent exactly where it gives it no value. *)
LEMMA AbsentHasNoValue ==
  ASSUME FSMTypeOK, LogInv, NEW i \in 0 .. Len(log), NEW k \in Keys
  PROVE  ValueAt(i, k) = NoEntry <=> ~PresentAt(i, k)
<1>1. ASSUME PresentAt(i, k) PROVE ValueAt(i, k) \in Values
  <2>1. OpsOn(i, k) # {} /\ log[LastOn(i, k)].type = "put"
    BY <1>1 DEF PresentAt
  <2>2. LastOn(i, k) \in 1 .. i /\ Len(log) \in Nat
    BY <2>1, LastOnMax, LenProperties DEF OpsOn, FSMTypeOK
  <2>3. log[LastOn(i, k)] \in Op
    <3>1. LastOn(i, k) \in 1 .. Len(log)
      BY <2>2
    <3> QED
      BY <3>1, ElementOfSeq DEF FSMTypeOK
  <2>4. \A op \in Op : op.type = "put" => op.value \in Values
    BY DEF Op
  <2> QED
    BY <1>1, <2>1, <2>3, <2>4 DEF ValueAt
<1>2. NoEntry \notin Values
  BY FSMAssumption
<1> QED
  BY <1>1, <1>2 DEF ValueAt

(* How many of the first i operations changed something. *)
ChangesAt(j) == log[j].type = "put" \/ PresentAt(j - 1, log[j].key)

(* The empty prefix of the log stands at revision 0. *)
LEMMA RevZero == RevAt(0) = 0
<1>1. RevAt(0) = Cardinality({j \in 1 .. 0 : ChangesAt(j)})
  BY DEF RevAt, ChangesAt
<1>2. {j \in 1 .. 0 : ChangesAt(j)} = {}
  OBVIOUS
<1> QED
  BY <1>1, <1>2, FS_EmptySet

(* One more log index raises the revision by one when it changes the store. *)
LEMMA RevNext ==
  ASSUME NEW i \in Nat
  PROVE  /\ RevAt(i) \in Nat
         /\ RevAt(i + 1) = IF ChangesAt(i + 1) THEN RevAt(i) + 1 ELSE RevAt(i)
<1> DEFINE C(m) == {j \in 1 .. m : ChangesAt(j)}
<1>1. RevAt(i) = Cardinality(C(i)) /\ RevAt(i + 1) = Cardinality(C(i + 1))
  BY DEF RevAt, ChangesAt
<1>2. IsFiniteSet(C(i)) /\ Cardinality(C(i)) \in Nat
  <2>1. IsFiniteSet(1 .. i) /\ C(i) \in SUBSET (1 .. i)
    BY FS_Interval
  <2> HIDE DEF C
  <2> QED
    BY <2>1, FS_Subset, FS_CardinalityType
<1>3. \A j : j \in 1 .. i + 1 <=> j \in 1 .. i \/ j = i + 1
  OBVIOUS
<1>4. C(i + 1) = IF ChangesAt(i + 1) THEN C(i) \cup {i + 1} ELSE C(i)
  BY <1>3
<1>5. i + 1 \notin C(i)
  OBVIOUS
<1> HIDE DEF C
<1>6. Cardinality(C(i) \cup {i + 1}) = Cardinality(C(i)) + 1
  BY <1>2, <1>5, FS_AddElement
<1> QED
  BY <1>1, <1>2, <1>4, <1>6

(* What a prefix of the log means does not change as the log grows. *)
LEMMA ReferenceStable ==
  ASSUME LogInv, Len(log) \in Nat, Len(log) <= Len(log'),
         \A i \in 1 .. Len(log) : log'[i] = log[i],
         NEW i \in 0 .. Len(log), NEW k \in Keys
  PROVE  /\ OpsOn(i, k)' = OpsOn(i, k) /\ LifeAt(i, k)' = LifeAt(i, k)
         /\ LastOn(i, k)' = LastOn(i, k)
         /\ PresentAt(i, k)' <=> PresentAt(i, k)
         /\ ValueAt(i, k)' = ValueAt(i, k)
<1>1. \A j \in 1 .. i : j \in 1 .. Len(log) /\ log'[j] = log[j]
  OBVIOUS
<1>2. OpsOn(i, k)' = OpsOn(i, k)
  BY <1>1 DEF OpsOn
<1>3. LastOn(i, k)' = LastOn(i, k)
  BY <1>2 DEF LastOn
<1>4. \A h \in OpsOn(i, k) : log'[h] = log[h]
  BY <1>1 DEF OpsOn
<1>5. LifeAt(i, k)' = LifeAt(i, k)
  BY <1>2, <1>4 DEF LifeAt
<1>6. OpsOn(i, k) # {} => log'[LastOn(i, k)] = log[LastOn(i, k)]
  BY <1>4, LastOnMax
<1>7. PresentAt(i, k)' <=> PresentAt(i, k)
  BY <1>2, <1>3, <1>6 DEF PresentAt
<1>8. ValueAt(i, k)' = ValueAt(i, k)
  BY <1>3, <1>6, <1>7 DEF ValueAt, PresentAt
<1> QED
  BY <1>2, <1>3, <1>5, <1>7, <1>8

(* Likewise its count of changes. *)
LEMMA RevStable ==
  ASSUME FSMTypeOK, LogInv, Len(log) \in Nat, Len(log) <= Len(log'),
         \A i \in 1 .. Len(log) : log'[i] = log[i],
         NEW i \in 0 .. Len(log)
  PROVE  RevAt(i)' = RevAt(i)
<1>1. ASSUME NEW j \in 1 .. i PROVE ChangesAt(j)' <=> ChangesAt(j)
  <2>1. j \in 1 .. Len(log) /\ j - 1 \in 0 .. Len(log) /\ log'[j] = log[j]
    OBVIOUS
  <2>2. log[j] \in Op
    BY <2>1, ElementOfSeq DEF FSMTypeOK
  <2>3. \A op \in Op : op.key \in Keys
    BY DEF Op
  <2>4. PICK k \in Keys : log[j].key = k /\ log'[j].key = k
    BY <2>1, <2>2, <2>3
  <2>5. PresentAt(j - 1, k)' <=> PresentAt(j - 1, k)
    BY <2>1, ReferenceStable
  <2>6. PresentAt(j - 1, log[j].key)' <=> PresentAt(j - 1, k)'
    BY <2>4 DEF PresentAt, LastOn, OpsOn
  <2>7. PresentAt(j - 1, log[j].key) <=> PresentAt(j - 1, k)
    BY <2>4
  <2> QED
    BY <2>1, <2>5, <2>6, <2>7 DEF ChangesAt
<1>2. {j \in 1 .. i : ChangesAt(j)} = {j \in 1 .. i : ChangesAt(j)'}
  BY <1>1
<1> QED
  BY <1>2 DEF RevAt, ChangesAt

-----------------------------------------------------------------------------
(* LogInv is inductive. *)
LEMMA LogStep == FSMTypeOK /\ LogInv /\ [FSMNext]_fsmVars => LogInv'
<1> SUFFICES ASSUME FSMTypeOK, LogInv, [FSMNext]_fsmVars PROVE LogInv'
  OBVIOUS
<1>0. /\ Len(log) \in Nat /\ Len(log') \in Nat /\ Len(log) <= Len(log')
      /\ \A i \in 1 .. Len(log) : log'[i] = log[i]
  BY LogGrows
<1>1. ASSUME NEW i \in 0 .. Len(log), NEW k \in Keys
      PROVE  HasLast(OpsOn(i, k)') /\ HasFirst(LifeAt(i, k)')
  <2>1. OpsOn(i, k)' = OpsOn(i, k) /\ LifeAt(i, k)' = LifeAt(i, k)
    BY <1>0, ReferenceStable
  <2> QED
    BY <2>1 DEF LogInv
<1>2. Len(log') = Len(log) + 1 \/ Len(log') = Len(log)
  <2>1. ASSUME NEW op \in Op, Commit(op) PROVE Len(log') = Len(log) + 1
    BY <2>1, AppendProperties DEF Commit, FSMTypeOK
  <2>2. ASSUME ~ \E op \in Op : Commit(op) PROVE log' = log
    BY <2>2 DEF FSMNext, fsmVars, Apply, Deliver, ApplyFails, Snapshot, Shutdown, NewNode,
       NewNodeFails, InstallSnapshot, InstallSnapshotFails, ReceiveSnapshot
  <2> QED
    BY <2>1, <2>2
<1>3. ASSUME NEW L \in Nat, L = Len(log), Len(log') = L + 1, NEW k \in Keys
      PROVE  HasLast(OpsOn(L + 1, k)') /\ HasFirst(LifeAt(L + 1, k)')
  <2> DEFINE O == OpsOn(L, k)
             P == OpsOn(L + 1, k)'
             F == LifeAt(L, k)
             G == LifeAt(L + 1, k)'
             op == log'[L + 1]
  <2>1. L \in 0 .. Len(log) /\ \A j : j \in 1 .. L + 1 <=> j \in 1 .. L \/ j = L + 1
    BY <1>3
  <2>2. O \subseteq 1 .. L /\ \A h \in O : log'[h] = log[h]
    BY <1>0, <1>3 DEF OpsOn
  <2>3. P = IF op.key = k THEN O \cup {L + 1} ELSE O
    <3>1. P = {j \in 1 .. L + 1 : log'[j].key = k} /\ O = {j \in 1 .. L : log[j].key = k}
      BY DEF OpsOn
    <3>2. \A j \in 1 .. L : log'[j] = log[j]
      BY <1>0, <1>3
    <3> HIDE DEF P, O
    <3> QED
      BY <2>1, <3>1, <3>2
  <2>4. HasLast(O) /\ HasFirst(F)
    BY <1>3, <2>1 DEF LogInv
  <2>5. /\ G = {j \in P : \A h \in P : h >= j => log'[h].type = "put"}
        /\ F = {j \in O : \A h \in O : h >= j => log[h].type = "put"}
    BY DEF LifeAt
  <2> HIDE DEF P, O, F, G, op
  <2>6. HasLast(P)
    <3>1. CASE op.key = k
      <4>1. L + 1 \in P /\ \A h \in P : h <= L + 1
        BY <2>2, <2>3, <3>1
      <4> QED
        BY <4>1 DEF HasLast
    <3> QED
      BY <2>3, <2>4, <3>1
  <2>7. CASE op.key # k
    <3>1. G = F
      BY <2>2, <2>3, <2>5, <2>7
    <3> QED
      BY <2>4, <2>6, <3>1 DEF P, G
  <2>8. CASE op.key = k /\ op.type # "put"
    <3>0. P = O \cup {L + 1}
      BY <2>3, <2>8
    <3>1. L + 1 \in P /\ \A h \in P : L + 1 >= h
      BY <2>2, <3>0
    <3>2. G = {}
      BY <2>5, <2>8, <3>1 DEF op
    <3> QED
      BY <2>6, <3>2 DEF P, G, HasFirst
  <2>9. CASE op.key = k /\ op.type = "put"
    <3>1. P = O \cup {L + 1} /\ \A h \in O : h \in Nat /\ h < L + 1
      BY <2>2, <2>3, <2>9
    <3>2. G = F \cup {L + 1}
      BY <2>2, <2>5, <2>9, <3>1 DEF op
    <3>3. F \subseteq O
      BY <2>5
    <3>4. \A h \in F : h <= L + 1
      BY <3>1, <3>3
    <3>5. CASE F = {}
      BY <3>2, <3>5, <2>6 DEF HasFirst, P, G
    <3>6. CASE F # {}
      <4>1. PICK j \in F : \A h \in F : j <= h
        BY <2>4, <3>6 DEF HasFirst
      <4>2. j \in G /\ \A h \in G : j <= h
        BY <3>2, <3>4, <4>1
      <4> QED
        BY <2>6, <4>2 DEF HasFirst, P, G
    <3> QED
      BY <3>5, <3>6
  <2> QED
    BY <2>7, <2>8, <2>9
<1>4. ASSUME NEW i \in 0 .. Len(log'), NEW k \in Keys
      PROVE  HasLast(OpsOn(i, k)') /\ HasFirst(LifeAt(i, k)')
  <2>1. CASE i \in 0 .. Len(log)
    BY <1>1, <2>1
  <2>2. CASE i \notin 0 .. Len(log)
    <3>1. PICK L \in Nat : L = Len(log)
      BY <1>0
    <3>2. Len(log') = L + 1 /\ i = L + 1
      BY <1>0, <1>2, <2>2, <3>1
    <3>3. HasLast(OpsOn(L + 1, k)') /\ HasFirst(LifeAt(L + 1, k)')
      BY <1>3, <3>1, <3>2
    <3> QED
      BY <3>2, <3>3
  <2> QED
    BY <2>1, <2>2
<1> QED
  BY <1>4 DEF LogInv

(* The initial log is empty. *)
LEMMA LogInit == FSMInit => LogInv
<1> SUFFICES ASSUME FSMInit, NEW i \in 0 .. Len(log), NEW k \in Keys
             PROVE  HasLast(OpsOn(i, k)) /\ HasFirst(LifeAt(i, k))
  BY DEF LogInv
<1>1. i = 0
  BY EmptySeq DEF FSMInit
<1>2. OpsOn(i, k) = {} /\ LifeAt(i, k) = {}
  BY <1>1 DEF OpsOn, LifeAt
<1> QED
  BY <1>2 DEF HasLast, HasFirst

-----------------------------------------------------------------------------
(* Only the value in an entry counts, and a wider range holds what a narrower *)
(* one does.                                                                  *)
LEMMA Widen ==
  ASSUME NEW e, NEW f, Held(e) = Held(f), NEW k,
         NEW a \in Nat, NEW b \in Nat, NEW c \in Nat, NEW d \in Nat, c <= a, b <= d
  PROVE  /\ Within(e, k, a, b) => Within(f, k, c, d)
         /\ Lingers(e, k, a, b) => Lingers(f, k, c, d) /\ Within(f, k, 0, d)
<1>1. \A i \in a .. b : i \in c .. d /\ i \in 0 .. d
  OBVIOUS
<1>2. \A i \in 0 .. b : i \in 0 .. d
  OBVIOUS
<1>3. Within(e, k, a, b) => Within(f, k, c, d) /\ Within(f, k, 0, d)
  BY <1>1 DEF Within
<1>4. Within(e, k, 0, b) => Within(f, k, 0, d)
  BY <1>2 DEF Within
<1>5. (\E i \in a .. b : ~PresentAt(i, k)) => \E i \in c .. d : ~PresentAt(i, k)
  BY <1>1
<1> QED
  BY <1>3, <1>4, <1>5 DEF Lingers

(* A key that lingers does so for every wider range of log prefixes. *)
LEMMA WidenLingers ==
  ASSUME NEW e, NEW f, Held(e) = Held(f), NEW k,
         NEW a \in Nat, NEW b \in Nat, NEW c \in Nat, NEW d \in Nat, c <= a, b <= d,
         Lingers(e, k, a, b)
  PROVE  Lingers(f, k, c, d)
BY Widen

(* An operation on another key. *)
LEMMA ShiftOthers ==
  ASSUME NEW e, NEW k, NEW a \in Nat, NEW b \in Nat, NEW d \in Nat, b <= d, a + 1 <= d,
         log[a + 1].key # k
  PROVE  /\ Within(e, k, a, b) => Within(e, k, a + 1, d)
         /\ Lingers(e, k, a, b) => Lingers(e, k, a + 1, d)
<1>1. /\ PresentAt(a + 1, k) <=> PresentAt(a, k)
      /\ ValueAt(a + 1, k) = ValueAt(a, k)
  BY OthersNext
<1>2. \A i \in a .. b : i = a \/ i \in a + 1 .. d
  OBVIOUS
<1>3. a + 1 \in a + 1 .. d /\ \A i \in 0 .. b : i \in 0 .. d
  OBVIOUS
<1>4. Within(e, k, a, b) => Within(e, k, a + 1, d)
  BY <1>1, <1>2, <1>3 DEF Within
<1>5. Within(e, k, 0, b) => Within(e, k, 0, d)
  BY <1>3 DEF Within
<1>6. (\E i \in a .. b : ~PresentAt(i, k)) => \E i \in a + 1 .. d : ~PresentAt(i, k)
  BY <1>1, <1>2, <1>3
<1> QED
  BY <1>4, <1>5, <1>6 DEF Lingers

(* An absent entry in a range says that the log deleted the key there. *)
LEMMA AbsentWithin ==
  ASSUME FSMTypeOK, LogInv, NEW k \in Keys, NEW a \in Nat, NEW b \in Nat, b <= Len(log),
         Lingers(NoEntry, k, a, b)
  PROVE  \E i \in a .. b : ~PresentAt(i, k)
<1>1. ASSUME NEW i \in a .. b, ValueAt(i, k) = NoEntry PROVE ~PresentAt(i, k)
  <2>1. Len(log) \in Nat
    BY LenProperties DEF FSMTypeOK
  <2>2. i \in 0 .. Len(log)
    BY <2>1
  <2> QED
    BY <1>1, <2>2, AbsentHasNoValue
<1> QED
  BY <1>1 DEF Lingers, Within, Held

(* A step looks back only: the indices a node speaks of are in the old log. *)
LEMMA HighBound ==
  ASSUME ShapeInv, [FSMNext]_fsmVars, NEW n \in Nodes
  PROVE  /\ high'[n] \in Nat /\ high'[n] <= Len(log)
         /\ applied'[n] \in Nat /\ applied'[n] <= high'[n]
<1>0. FSMTypeOK /\ FSMTypeOK' /\ high[n] <= Len(log)
  BY TypeStep DEF ShapeInv, FSMTypeOK
<1>1. high'[n] \in Nat /\ applied'[n] \in Nat /\ applied'[n] <= high'[n] /\ high'[n] <= Len(log')
  BY <1>0 DEF FSMTypeOK
<1>2. CASE Untouched(n)
  BY <1>0, <1>1, <1>2 DEF Untouched
<1>3. ASSUME \/ Apply(n) \/ ApplyFails(n) \/ Snapshot(n) \/ Shutdown(n) \/ NewNode(n)
             \/ \E c \in Keys : NewNodeFails(n, c)
             \/ \E m \in Nodes : \/ InstallSnapshot(n, m)
                                 \/ \E c \in Keys : InstallSnapshotFails(n, m, c)
      PROVE  log' = log
  BY <1>3 DEF Apply, Deliver, ApplyFails, Snapshot, Shutdown, NewNode, NewNodeFails,
     InstallSnapshot, InstallSnapshotFails, ReceiveSnapshot
<1> QED
  BY <1>0, <1>1, <1>2, <1>3, StepOfNode

(* The values of a node after a step, against the log before it: what they    *)
(* mean is the same against the log after it.                                 *)
NextValues(n) ==
  /\ \A k \in Keys : Lingers(data'[n][k], k, applied'[n], high'[n])
  /\ n \notin overlaid' => \A k \in Keys : Within(data'[n][k], k, applied'[n], high'[n])
  /\ snap'[n] # NoSnapshot =>
       /\ snap'[n].index <= applied'[n]
       /\ \A k \in Keys : Lingers(snap'[n].entries[k], k, snap'[n].index, snap'[n].upto)
       /\ n \notin overlaid' =>
            \A k \in Keys : Within(snap'[n].entries[k], k, snap'[n].index, snap'[n].upto)

(* A node that satisfies its part in the next state satisfies it of the next log. *)
LEMMA ValuesStable ==
  ASSUME ShapeInv, LogInv, [FSMNext]_fsmVars, NEW n \in Nodes, NextValues(n)
  PROVE  NodeValues(n)'
<1>0. ShapeInv' /\ FSMTypeOK
  BY ShapeStep DEF ShapeInv
<1>1. /\ high'[n] \in Nat /\ high'[n] <= Len(log) /\ Len(log) \in Nat
      /\ applied'[n] \in Nat
  BY <1>0, HighBound, LogGrows
<1>2. snap'[n] # NoSnapshot =>
        /\ snap'[n].index \in Nat /\ snap'[n].upto \in Nat /\ snap'[n].upto <= high'[n]
  <2> HAVE snap'[n] # NoSnapshot
  <2>1. snap'[n] \in SnapshotData /\ snap'[n].upto <= high'[n]
    BY <1>0 DEF ShapeInv, FSMTypeOK, NodeShape
  <2> QED
    BY <2>1 DEF SnapshotData
<1>3. \A i \in 0 .. Len(log), k \in Keys :
        (PresentAt(i, k)' <=> PresentAt(i, k)) /\ ValueAt(i, k)' = ValueAt(i, k)
  <2> TAKE i \in 0 .. Len(log), k \in Keys
  <2>1. Len(log) <= Len(log') /\ \A j \in 1 .. Len(log) : log'[j] = log[j]
    BY <1>0, LogGrows
  <2> QED
    BY <1>1, <2>1, ReferenceStable
<1> DEFINE WithinN(e, k, a, b) == \E i \in a .. b : Held(e) = ValueAt(i, k)'
           LingersN(e, k, a, b) == \/ WithinN(e, k, a, b)
                                   \/ /\ \E i \in a .. b : ~PresentAt(i, k)'
                                      /\ WithinN(e, k, 0, b)
<1>4. ASSUME NEW e, NEW k \in Keys, NEW a \in Nat, NEW b \in Nat, b <= Len(log)
      PROVE  /\ Within(e, k, a, b) => WithinN(e, k, a, b)
             /\ Lingers(e, k, a, b) => LingersN(e, k, a, b)
  <2>1. (\A i \in a .. b : i \in 0 .. Len(log)) /\ \A i \in 0 .. b : i \in 0 .. Len(log)
    BY <1>1, <1>4
  <2>2. Within(e, k, a, b) => WithinN(e, k, a, b)
    BY <1>3, <2>1 DEF Within
  <2>3. Within(e, k, 0, b) => WithinN(e, k, 0, b)
    BY <1>3, <2>1 DEF Within
  <2>4. (\E i \in a .. b : ~PresentAt(i, k)) => \E i \in a .. b : ~PresentAt(i, k)'
    BY <1>3, <2>1
  <2> HIDE DEF WithinN
  <2> QED
    BY <2>2, <2>3, <2>4 DEF Lingers
<1> HIDE DEF WithinN, LingersN
<1>5. \A k \in Keys : LingersN(data'[n][k], k, applied'[n], high'[n])
  BY <1>1, <1>4 DEF NextValues
<1>6. n \notin overlaid' => \A k \in Keys : WithinN(data'[n][k], k, applied'[n], high'[n])
  BY <1>1, <1>4 DEF NextValues
<1>7. snap'[n] # NoSnapshot =>
        /\ snap'[n].index <= applied'[n]
        /\ \A k \in Keys : LingersN(snap'[n].entries[k], k, snap'[n].index, snap'[n].upto)
        /\ n \notin overlaid' =>
             \A k \in Keys : WithinN(snap'[n].entries[k], k, snap'[n].index, snap'[n].upto)
  <2> HAVE snap'[n] # NoSnapshot
  <2>1. snap'[n].index \in Nat /\ snap'[n].upto \in Nat /\ snap'[n].upto <= Len(log)
    BY <1>1, <1>2
  <2> QED
    BY <1>4, <2>1 DEF NextValues
<1> QED
  BY <1>5, <1>6, <1>7 DEF NodeValues, Lingers, Within, LingersN, WithinN

(* FSM.Apply moves a node one operation on. *)
LEMMA ApplyValues ==
  ASSUME ShapeInv, LogInv, NEW n \in Nodes, NodeValues(n), Apply(n)
  PROVE  NextValues(n)
<1> DEFINE op == log[applied[n] + 1]
           h == MaxOf(high[n], applied[n] + 1)
<1>0. applied[n] \in Nat /\ high[n] \in Nat /\ applied[n] <= high[n]
  BY DEF ShapeInv, FSMTypeOK
<1>1. /\ op.key \in Keys /\ (op.type = "put" \/ op.type = "delete")
      /\ op.type = "put" => op.value \in Values
      /\ snap' = snap /\ overlaid' = overlaid
  BY ApplyShape
<1>2. /\ \A k \in Keys : k # op.key => data'[n][k] = data[n][k]
      /\ op.type = "put" => data'[n][op.key] # NoEntry /\ data'[n][op.key].Value = op.value
      /\ op.type = "delete" => data'[n][op.key] = NoEntry
      /\ applied'[n] = applied[n] + 1
      /\ high'[n] = h
  BY ApplyNode
<1>3. h \in Nat /\ high[n] <= h /\ applied[n] + 1 <= h /\ applied[n] + 1 \in applied[n] + 1 .. h
  BY <1>0 DEF MaxOf
<1> HIDE DEF h
<1>4. Within(data'[n][op.key], op.key, applied[n] + 1, h)
  <2>1. ValueAt(applied[n] + 1, op.key) = IF op.type = "put" THEN op.value ELSE NoEntry
    BY <1>0, LastNext
  <2>2. Held(data'[n][op.key]) = IF op.type = "put" THEN op.value ELSE NoEntry
    BY <1>1, <1>2 DEF Held
  <2>3. Held(data'[n][op.key]) = ValueAt(applied[n] + 1, op.key)
    BY <2>1, <2>2
  <2> QED
    BY <1>3, <2>3 DEF Within
<1>5. ASSUME NEW k \in Keys
      PROVE  /\ Lingers(data'[n][k], k, applied[n] + 1, h)
             /\ n \notin overlaid => Within(data'[n][k], k, applied[n] + 1, h)
  <2>1. CASE k = op.key
    BY <1>4, <2>1 DEF Lingers
  <2>2. CASE k # op.key
    <3>1. /\ Lingers(data[n][k], k, applied[n], high[n])
          /\ n \notin overlaid => Within(data[n][k], k, applied[n], high[n])
      BY DEF NodeValues
    <3>2. data'[n][k] = data[n][k]
      BY <1>2, <2>2
    <3> QED
      BY <1>0, <1>3, <2>2, <3>1, <3>2, ShiftOthers
  <2> QED
    BY <2>1, <2>2
<1>6. snap[n] # NoSnapshot => snap[n].index <= applied[n] + 1
  <2> HAVE snap[n] # NoSnapshot
  <2>1. snap[n].index \in Nat
    BY SnapshotFields
  <2> QED
    BY <1>0, <2>1 DEF NodeValues
<1> QED
  BY <1>1, <1>2, <1>5, <1>6 DEF NodeValues, NextValues

(* A start, whole or stopped halfway, puts part of the node's own snapshot    *)
(* over its file.                                                             *)
LEMMA RestartValues ==
  ASSUME ShapeInv, NEW n \in Nodes, NodeValues(n), snap[n] # NoSnapshot,
         NEW done \in SUBSET Listed(snap[n]), RestoreFile(n, meta[n], snap[n], done),
         applied'[n] = snap[n].index, UNCHANGED <<snap, high, overlaid>>
  PROVE  NextValues(n)
<1> DEFINE s == snap[n]
<1>0. applied[n] \in Nat /\ high[n] \in Nat /\ applied[n] <= high[n] /\ meta[n] \in Nat
  BY DEF ShapeInv, FSMTypeOK
<1>1. s.index \in Nat /\ s.upto \in Nat /\ s.upto <= high[n] /\ s.index <= applied[n]
  BY SnapshotFields DEF NodeValues
<1>2. /\ \A k \in done : /\ k \in Keys /\ data'[n][k] # NoEntry
                         /\ data'[n][k].Value = s.entries[k].Value
      /\ \A k \in Keys \ done : data'[n][k] = data[n][k]
  BY <1>0, RestoreFileEffect
<1>3. ASSUME NEW k \in Keys
      PROVE  /\ Lingers(data'[n][k], k, s.index, high[n])
             /\ n \notin overlaid => Within(data'[n][k], k, s.index, high[n])
  <2>1. /\ Lingers(data[n][k], k, applied[n], high[n])
        /\ n \notin overlaid => Within(data[n][k], k, applied[n], high[n])
        /\ Lingers(s.entries[k], k, s.index, s.upto)
        /\ n \notin overlaid => Within(s.entries[k], k, s.index, s.upto)
    BY DEF NodeValues
  <2>2. CASE k \in done
    <3>1. Held(s.entries[k]) = Held(data'[n][k])
      BY <1>2, <2>2 DEF Listed, Held
    <3> QED
      BY <1>0, <1>1, <2>1, <3>1, Widen
  <2>3. CASE k \notin done
    <3>1. data'[n][k] = data[n][k]
      BY <1>2, <2>3
    <3>2. high[n] <= high[n] /\ Held(data[n][k]) = Held(data[n][k])
      BY <1>0
    <3>3. Lingers(data[n][k], k, applied[n], high[n]) => Lingers(data[n][k], k, s.index, high[n])
      BY <1>0, <1>1, <3>2, Widen
    <3>4. Within(data[n][k], k, applied[n], high[n]) => Within(data[n][k], k, s.index, high[n])
      BY <1>0, <1>1, <3>2, Widen
    <3> QED
      BY <2>1, <3>1, <3>3, <3>4
  <2> QED
    BY <2>2, <2>3
<1> QED
  BY <1>1, <1>3 DEF NodeValues, NextValues

(* An installed snapshot over whatever the receiver holds. *)
LEMMA InstallValues ==
  ASSUME ShapeInv, LogInv, NEW n \in Nodes, NEW m \in Nodes, NodeValues(n), NodeValues(m),
         InstallSnapshot(n, m)
  PROVE  NextValues(n)
<1> DEFINE s == snap[m]
<1>0. /\ applied[n] \in Nat /\ high[n] \in Nat /\ applied[n] <= high[n] /\ rev[n] \in Nat
      /\ FSMTypeOK
  BY DEF ShapeInv, FSMTypeOK
<1>1. /\ s # NoSnapshot /\ snap'[n] = s /\ high'[n] \in Nat /\ high[n] <= high'[n]
      /\ s.upto <= high'[n]
  BY ReceiveNode DEF InstallSnapshot
<1>2. s.index \in Nat /\ s.upto \in Nat /\ s.upto <= Len(log)
  BY <1>1, SnapshotFields
<1>3. applied'[n] = s.index
  BY <1>0 DEF InstallSnapshot, FSMTypeOK
<1>4. /\ \A k \in Listed(s) : /\ k \in Keys /\ data'[n][k] # NoEntry
                              /\ data'[n][k].Value = s.entries[k].Value
      /\ \A k \in Keys \ Listed(s) : data'[n][k] = data[n][k]
  <2>1. RestoreFile(n, rev[n], s, Listed(s)) /\ Listed(s) \in SUBSET Listed(s)
    BY DEF InstallSnapshot
  <2> QED
    BY <1>0, <1>1, <2>1, RestoreFileEffect
<1>5. ASSUME n \notin overlaid' PROVE m \notin overlaid /\ \A k \in Keys : data[n][k] = NoEntry
  BY <1>5 DEF InstallSnapshot, Overlay
<1>6. ASSUME NEW k \in Keys
      PROVE  /\ Lingers(s.entries[k], k, s.index, s.upto)
             /\ m \notin overlaid => Within(s.entries[k], k, s.index, s.upto)
  BY <1>1 DEF NodeValues
<1>7. ASSUME NEW k \in Keys, k \in Listed(s) \/ data[n][k] = NoEntry
      PROVE  /\ Lingers(data'[n][k], k, s.index, high'[n])
             /\ m \notin overlaid => Within(data'[n][k], k, s.index, high'[n])
  <2>1. Held(s.entries[k]) = Held(data'[n][k])
    BY <1>4, <1>7 DEF Listed, Held
  <2>2. s.index <= s.index
    BY <1>2
  <2>3. Lingers(s.entries[k], k, s.index, s.upto) => Lingers(data'[n][k], k, s.index, high'[n])
    BY <1>1, <1>2, <2>1, <2>2, WidenLingers
  <2>4. Within(s.entries[k], k, s.index, s.upto) => Within(data'[n][k], k, s.index, high'[n])
    BY <1>1, <1>2, <2>1, <2>2, Widen
  <2> QED
    BY <1>6, <2>3, <2>4
<1>8. ASSUME NEW k \in Keys, k \notin Listed(s)
      PROVE  Lingers(data'[n][k], k, s.index, high'[n])
  <2>1. s.entries[k] = NoEntry /\ data'[n][k] = data[n][k]
    BY <1>4, <1>8 DEF Listed
  <2>2. \E i \in s.index .. s.upto : ~PresentAt(i, k)
    BY <1>0, <1>2, <1>6, <2>1, AbsentWithin
  <2>3. \A i \in s.index .. s.upto : i \in s.index .. high'[n]
    BY <1>1, <1>2
  <2>4. Lingers(data[n][k], k, applied[n], high[n])
    BY DEF NodeValues
  <2>5. Within(data[n][k], k, 0, high'[n])
    <3>1. 0 \in Nat /\ 0 <= applied[n] /\ Held(data[n][k]) = Held(data[n][k])
      BY <1>0
    <3> QED
      BY <1>0, <1>1, <2>4, <3>1, Widen
  <2> QED
    BY <2>1, <2>2, <2>3, <2>5 DEF Lingers
<1>9. n \notin overlaid' => \A k \in Keys : Within(data'[n][k], k, s.index, high'[n])
  BY <1>5, <1>7
<1>10. n \notin overlaid' => \A k \in Keys : Within(s.entries[k], k, s.index, s.upto)
  BY <1>5, <1>6
<1>11. \A k \in Keys : Lingers(data'[n][k], k, s.index, high'[n])
  BY <1>7, <1>8
<1>12. s.index <= s.index
  BY <1>2
<1> HIDE DEF s
<1> QED
  BY <1>1, <1>3, <1>6, <1>9, <1>10, <1>11, <1>12 DEF NextValues

(* Every step keeps a node's values those of its log prefix, up to deleted keys that linger. *)
LEMMA ValuesStep == ShapeInv /\ LogInv /\ ValuesInv /\ [FSMNext]_fsmVars => ValuesInv'
<1> SUFFICES ASSUME ShapeInv, LogInv, ValuesInv, [FSMNext]_fsmVars,
                    NEW n \in Nodes, n \notin damaged'
             PROVE  NextValues(n)
  BY ValuesStable DEF ValuesInv
<1>0. /\ FSMTypeOK /\ n \notin damaged /\ NodeValues(n) /\ overlaid \subseteq overlaid'
      /\ applied[n] \in Nat /\ high[n] \in Nat /\ applied[n] <= high[n]
  BY LogGrows DEF ShapeInv, ValuesInv, FSMTypeOK
<1>un. CASE Untouched(n)
  BY <1>0, <1>un DEF Untouched, NodeValues, NextValues
<1>ap. CASE Apply(n)
  BY <1>0, <1>ap, ApplyValues
<1>af. CASE ApplyFails(n)
  BY <1>af DEF ApplyFails
<1>sn. CASE Snapshot(n)
  <2> DEFINE s == [index |-> applied[n], entries |-> data[n], rev |-> rev[n], upto |-> high[n]]
  <2>1. /\ snap' = [snap EXCEPT ![n] = s]
        /\ UNCHANGED <<data, applied, high, overlaid>>
    BY <1>sn DEF Snapshot
  <2>2. snap'[n] = s
    BY <1>0, <2>1 DEF FSMTypeOK
  <2>3. s.index = applied[n] /\ s.upto = high[n] /\ s.entries = data[n]
    OBVIOUS
  <2> HIDE DEF s
  <2> QED
    BY <1>0, <2>1, <2>2, <2>3 DEF NodeValues, NextValues
<1>sd. CASE Shutdown(n)
  BY <1>0, <1>sd DEF Shutdown, NodeValues, NextValues
<1>nn. CASE NewNode(n)
  <2>0. UNCHANGED <<snap, high, overlaid>>
    BY <1>nn DEF NewNode
  <2>1. CASE snap[n] = NoSnapshot
    <3>1. applied'[n] = 0 /\ data' = data
      BY <1>0, <1>nn, <2>1 DEF NewNode, FSMTypeOK
    <3>2. ASSUME NEW k \in Keys
          PROVE  /\ Lingers(data[n][k], k, 0, high[n])
                 /\ n \notin overlaid => Within(data[n][k], k, 0, high[n])
      <4>1. /\ Lingers(data[n][k], k, applied[n], high[n])
            /\ n \notin overlaid => Within(data[n][k], k, applied[n], high[n])
        BY <1>0 DEF NodeValues
      <4> QED
        BY <1>0, <4>1, Widen
    <3> QED
      BY <2>0, <2>1, <3>1, <3>2 DEF NextValues
  <2>2. CASE snap[n] # NoSnapshot
    <3>1. /\ RestoreFile(n, meta[n], snap[n], Listed(snap[n]))
          /\ Listed(snap[n]) \in SUBSET Listed(snap[n])
          /\ applied'[n] = snap[n].index
      BY <1>0, <1>nn, <2>2 DEF NewNode, FSMTypeOK
    <3> QED
      BY <1>0, <2>0, <2>2, <3>1, RestartValues
  <2> QED
    BY <2>1, <2>2
<1>nf. ASSUME NEW c \in Keys, NewNodeFails(n, c) PROVE NextValues(n)
  <2>1. /\ snap[n] # NoSnapshot
        /\ RestoreFile(n, meta[n], snap[n], Before(snap[n], c))
        /\ applied'[n] = snap[n].index
        /\ UNCHANGED <<snap, high, overlaid>>
    BY <1>0, <1>nf DEF NewNodeFails, FSMTypeOK
  <2>2. Before(snap[n], c) \in SUBSET Listed(snap[n])
    BY DEF Before
  <2> QED
    BY <1>0, <2>1, <2>2, RestartValues
<1>i1. ASSUME NEW m \in Nodes, InstallSnapshot(n, m) PROVE NextValues(n)
  <2>1. m \notin damaged
    BY <1>i1 DEF InstallSnapshot
  <2>2. NodeValues(m)
    BY <2>1 DEF ValuesInv
  <2> QED
    BY <1>0, <1>i1, <2>2, InstallValues
<1>i2. ASSUME NEW m \in Nodes, NEW c \in Keys, InstallSnapshotFails(n, m, c)
       PROVE  NextValues(n)
  BY <1>i2 DEF InstallSnapshotFails
<1> QED
  BY <1>0, <1>un, <1>ap, <1>af, <1>sn, <1>sd, <1>nn, <1>nf, <1>i1, <1>i2, StepOfNode

(* Every node starts empty, as the empty prefix says. *)
LEMMA ValuesInit == FSMInit => ValuesInv
<1> SUFFICES ASSUME FSMInit, NEW n \in Nodes PROVE NodeValues(n)
  BY DEF ValuesInv
<1>1. /\ applied[n] = 0 /\ high[n] = 0 /\ snap[n] = NoSnapshot
      /\ \A k \in Keys : data[n][k] = NoEntry
  BY DEF FSMInit
<1>2. ASSUME NEW k \in Keys PROVE ValueAt(0, k) = NoEntry
  <2>1. OpsOn(0, k) = {}
    BY DEF OpsOn
  <2> QED
    BY <2>1 DEF ValueAt, PresentAt
<1>3. ASSUME NEW k \in Keys PROVE Within(data[n][k], k, 0, 0)
  <2>1. 0 \in 0 .. 0
    OBVIOUS
  <2> QED
    BY <1>1, <1>2, <2>1 DEF Within, Held
<1> QED
  BY <1>1, <1>3 DEF NodeValues, Lingers

(* So do the values of every reachable state. *)
LEMMA ValuesInvariant == FSMSpec => [](ShapeInv /\ LogInv /\ ValuesInv)
<1>1. ShapeInv => FSMTypeOK
  BY DEF ShapeInv
<1> QED
  BY <1>1, ShapeInit, LogInit, ValuesInit, ShapeStep, LogStep, ValuesStep, PTL DEF FSMSpec

(* The invariant says what the two properties about values say. *)
LEMMA ValuesImplies == ValuesInv => ReplayIsHarmless /\ OnlyDeletedKeysLinger
<1> SUFFICES ASSUME ValuesInv PROVE ReplayIsHarmless /\ OnlyDeletedKeysLinger
  OBVIOUS
<1>1. ReplayIsHarmless
  BY DEF ValuesInv, NodeValues, Within, Held, Value, ReplayIsHarmless
<1>2. OnlyDeletedKeysLinger
  BY DEF ValuesInv, NodeValues, Lingers, Within, Held, Value, OnlyDeletedKeysLinger
<1> QED
  BY <1>1, <1>2

(* node.go Apply, Restore: replaying the log over a file that already holds   *)
(* its effects, from a snapshot taken during a replay or after a restore      *)
(* that stopped halfway, leaves every key with a value the log gave it        *)
(* between the replay's position and where the node was; so with the log's    *)
(* value once the replay has caught up.                                       *)
THEOREM ReplayIsHarmlessHolds == FSMSpec => []ReplayIsHarmless
BY ValuesInvariant, ValuesImplies, PTL

(* A snapshot put over existing data, which Restore does not clear, leaves    *)
(* behind only keys that the log has deleted.                                 *)
THEOREM OnlyDeletedKeysLingerHolds == FSMSpec => []OnlyDeletedKeysLinger
BY ValuesInvariant, ValuesImplies, PTL

-----------------------------------------------------------------------------
(* The revision of a node that applied the log itself.  The step that could   *)
(* fall behind is a delete that changes nothing: where the node is not        *)
(* replaying, the log has no such key either.                                 *)
NextRevision(n) ==
  /\ rev'[n] >= RevAt(high'[n]) /\ meta'[n] >= RevAt(high'[n])
  /\ up'[n] => rev'[n] = meta'[n]

(* A revision bound on the present log is one on the next log, which extends it. *)
LEMMA RevisionStable ==
  ASSUME ShapeInv, LogInv, [FSMNext]_fsmVars, NEW n \in Nodes, NextRevision(n)
  PROVE  /\ rev'[n] >= RevAt(high[n])' /\ meta'[n] >= RevAt(high[n])'
         /\ up'[n] => rev'[n] = meta'[n]
<1>0. FSMTypeOK
  BY DEF ShapeInv
<1>1. PICK h \in Nat : h = high'[n] /\ h <= Len(log)
  BY HighBound
<1>2. /\ Len(log) \in Nat /\ Len(log) <= Len(log')
      /\ \A i \in 1 .. Len(log) : log'[i] = log[i]
  BY <1>0, LogGrows
<1>3. h \in 0 .. Len(log)
  BY <1>1, <1>2
<1>4. RevAt(h)' = RevAt(h)
  BY <1>0, <1>2, <1>3, RevStable
<1>5. RevAt(high[n])' = RevAt(h)'
  BY <1>1 DEF RevAt
<1>6. RevAt(high'[n]) = RevAt(h)
  BY <1>1
<1> QED
  BY <1>4, <1>5, <1>6 DEF NextRevision

(* Applying one more entry raises the revision at least as far as the log asks. *)
LEMMA ApplyRevision ==
  ASSUME ShapeInv, LogInv, NEW n \in Nodes, n \notin overlaid, NodeValues(n), Apply(n),
         rev[n] >= RevAt(high[n]), rev[n] = meta[n]
  PROVE  NextRevision(n)
<1> DEFINE op == log[applied[n] + 1]
<1>0. /\ applied[n] \in Nat /\ high[n] \in Nat /\ applied[n] <= high[n] /\ high[n] <= Len(log)
      /\ rev[n] \in Nat /\ FSMTypeOK /\ Len(log) \in Nat
  BY LenProperties DEF ShapeInv, FSMTypeOK
<1>1. op.key \in Keys /\ (op.type = "put" \/ op.type = "delete")
  BY ApplyShape
<1>2. /\ op.type = "put" \/ data[n][op.key] # NoEntry =>
           rev'[n] = rev[n] + 1 /\ meta'[n] = rev[n] + 1
      /\ ~(op.type = "put" \/ data[n][op.key] # NoEntry) =>
           rev'[n] = rev[n] /\ meta'[n] = meta[n]
      /\ high'[n] = MaxOf(high[n], applied[n] + 1)
  BY ApplyNode
<1>3. RevAt(high[n]) \in Nat
  BY <1>0, RevNext
<1>4. CASE applied[n] < high[n]
  <2>1. high'[n] = high[n]
    BY <1>0, <1>2, <1>4 DEF MaxOf
  <2> QED
    BY <1>0, <1>2, <1>3, <2>1 DEF NextRevision
<1>5. CASE applied[n] = high[n]
  <2>1. high'[n] = high[n] + 1
    BY <1>0, <1>2, <1>5 DEF MaxOf
  <2>2. RevAt(high[n] + 1) = IF ChangesAt(high[n] + 1) THEN RevAt(high[n]) + 1 ELSE RevAt(high[n])
    BY <1>0, RevNext
  <2>3. CASE op.type = "put" \/ data[n][op.key] # NoEntry
    BY <1>0, <1>2, <1>3, <2>1, <2>2, <2>3 DEF NextRevision
  <2>4. CASE op.type # "put" /\ data[n][op.key] = NoEntry
    <3>1. Within(NoEntry, op.key, high[n], high[n])
      BY <1>1, <1>5, <2>4 DEF NodeValues
    <3>2. Lingers(NoEntry, op.key, high[n], high[n])
      BY <3>1 DEF Lingers
    <3>3. \E i \in high[n] .. high[n] : ~PresentAt(i, op.key)
      BY <1>0, <1>1, <3>2, AbsentWithin
    <3>4. ~PresentAt(high[n], op.key) /\ (high[n] + 1) - 1 = high[n]
      BY <1>0, <3>3
    <3>5. ~ChangesAt(high[n] + 1)
      BY <1>5, <2>4, <3>4 DEF ChangesAt
    <3> QED
      BY <1>0, <1>2, <1>3, <2>1, <2>2, <2>4, <3>5 DEF NextRevision
  <2> QED
    BY <2>3, <2>4
<1> QED
  BY <1>0, <1>4, <1>5

(* Every step keeps a node that only applied the log at or above its revision. *)
LEMMA RevisionStep ==
  ShapeInv /\ LogInv /\ ValuesInv /\ RevisionInv /\ [FSMNext]_fsmVars => RevisionInv'
<1> SUFFICES ASSUME ShapeInv, LogInv, ValuesInv, RevisionInv, [FSMNext]_fsmVars,
                    NEW n \in Nodes, n \notin damaged', n \notin installed'
             PROVE  NextRevision(n)
  BY RevisionStable DEF RevisionInv
<1>0. /\ FSMTypeOK /\ n \notin damaged /\ n \notin installed
      /\ rev[n] \in Nat /\ meta[n] \in Nat /\ high[n] \in Nat
  BY LogGrows DEF ShapeInv, FSMTypeOK
<1>1. /\ rev[n] >= RevAt(high[n]) /\ meta[n] >= RevAt(high[n])
      /\ up[n] => rev[n] = meta[n]
      /\ NodeValues(n) /\ n \notin overlaid
  BY <1>0 DEF RevisionInv, ValuesInv, ShapeInv
<1>2. RevAt(high[n]) \in Nat
  BY <1>0, RevNext
<1>un. CASE Untouched(n)
  BY <1>1, <1>un DEF Untouched, NextRevision
<1>ap. CASE Apply(n)
  <2>1. up[n]
    BY <1>ap DEF Apply, Deliver
  <2> QED
    BY <1>1, <1>ap, <2>1, ApplyRevision
<1>af. CASE ApplyFails(n)
  BY <1>af DEF ApplyFails
<1>sn. CASE Snapshot(n)
  BY <1>1, <1>sn DEF Snapshot, NextRevision
<1>sd. CASE Shutdown(n)
  <2>1. UNCHANGED <<rev, meta, high>> /\ ~up'[n]
    BY <1>0, <1>sd DEF Shutdown, FSMTypeOK
  <2> QED
    BY <1>1, <2>1 DEF NextRevision
<1>nn. CASE NewNode(n)
  <2>1. CASE snap[n] = NoSnapshot
    <3>1. rev'[n] = meta[n] /\ UNCHANGED <<meta, high>>
      BY <1>0, <1>nn, <2>1 DEF NewNode, FSMTypeOK
    <3> QED
      BY <1>1, <3>1 DEF NextRevision
  <2>2. CASE snap[n] # NoSnapshot
    <3> DEFINE L == Listed(snap[n])
    <3>1. RestoreFile(n, meta[n], snap[n], L) /\ L \in SUBSET Listed(snap[n]) /\ high' = high
      BY <1>nn, <2>2 DEF NewNode
    <3>2. rev'[n] = RestoreRev(meta[n], L)
      BY <1>0, <1>nn, <2>2 DEF NewNode, FSMTypeOK
    <3>3. /\ RestoreRev(meta[n], L) \in Nat /\ RestoreRev(meta[n], L) >= meta[n]
          /\ meta'[n] = IF L = {} THEN meta[n] ELSE RestoreRev(meta[n], L)
          /\ L = {} => RestoreRev(meta[n], L) = meta[n]
      BY <1>0, <2>2, <3>1, RestoreFileEffect
    <3> HIDE DEF L
    <3>4. rev'[n] = meta'[n] /\ meta'[n] >= meta[n] /\ meta'[n] \in Nat
      BY <1>0, <3>2, <3>3
    <3> QED
      BY <1>0, <1>1, <1>2, <3>1, <3>4 DEF NextRevision
  <2> QED
    BY <2>1, <2>2
<1>nf. ASSUME NEW c \in Keys, NewNodeFails(n, c) PROVE NextRevision(n)
  <2> DEFINE B == Before(snap[n], c)
  <2>1. /\ ~up[n] /\ snap[n] # NoSnapshot
        /\ RestoreFile(n, meta[n], snap[n], B)
        /\ UNCHANGED <<up, rev, high>>
    BY <1>nf DEF NewNodeFails
  <2>2. B \in SUBSET Listed(snap[n])
    BY DEF Before
  <2> HIDE DEF B
  <2>3. /\ RestoreRev(meta[n], B) \in Nat /\ RestoreRev(meta[n], B) >= meta[n]
        /\ meta'[n] = IF B = {} THEN meta[n] ELSE RestoreRev(meta[n], B)
    BY <1>0, <2>1, <2>2, RestoreFileEffect
  <2>4. meta'[n] \in Nat /\ meta'[n] >= meta[n]
    BY <1>0, <2>3
  <2> QED
    BY <1>0, <1>1, <1>2, <2>1, <2>4 DEF NextRevision
<1>i1. ASSUME NEW m \in Nodes, InstallSnapshot(n, m) PROVE NextRevision(n)
  BY <1>i1 DEF InstallSnapshot, ReceiveSnapshot
<1>i2. ASSUME NEW m \in Nodes, NEW c \in Keys, InstallSnapshotFails(n, m, c)
       PROVE  NextRevision(n)
  BY <1>i2 DEF InstallSnapshotFails
<1> QED
  BY <1>0, <1>un, <1>ap, <1>af, <1>sn, <1>sd, <1>nn, <1>nf, <1>i1, <1>i2, StepOfNode

(* Every node starts at revision 0. *)
LEMMA RevisionInit == FSMInit => RevisionInv
<1> SUFFICES ASSUME FSMInit, NEW n \in Nodes
             PROVE  rev[n] >= RevAt(high[n]) /\ meta[n] >= RevAt(high[n]) /\ rev[n] = meta[n]
  BY DEF RevisionInv
<1>1. rev[n] = 0 /\ meta[n] = 0 /\ high[n] = 0
  BY DEF FSMInit
<1>2. RevAt(0) = 0
  BY RevZero
<1> QED
  BY <1>1, <1>2

(* So does every behaviour. *)
LEMMA RevisionInvariant == FSMSpec => [](ShapeInv /\ LogInv /\ ValuesInv /\ RevisionInv)
<1>1. ShapeInv => FSMTypeOK
  BY DEF ShapeInv
<1> QED
  BY <1>1, ShapeInit, LogInit, ValuesInit, RevisionInit, ShapeStep, LogStep, ValuesStep,
     RevisionStep, PTL DEF FSMSpec

(* boltstore.go Put, Delete and node.go Restore only ever add revisions: a    *)
(* node that applied the log itself is never behind the log's own count.      *)
THEOREM RevisionNotBehindHolds == FSMSpec => []RevisionNotBehind
<1>1. RevisionInv => RevisionNotBehind
  BY DEF RevisionInv, RevisionNotBehind
<1> QED
  BY <1>1, RevisionInvariant, PTL

-----------------------------------------------------------------------------
(* Every revision and version of the log's reference. *)
FirstOn(i, k) == CHOOSE j \in LifeAt(i, k) : \A h \in LifeAt(i, k) : j <= h

(* What the log says of a present key, field by field. *)
LEMMA EntryFields ==
  ASSUME NEW i, NEW k, PresentAt(i, k)
  PROVE  EntryAt(i, k) = [Key            |-> k,
                          Value          |-> log[LastOn(i, k)].value,
                          Revision       |-> RevAt(LastOn(i, k)),
                          CreateRevision |-> RevAt(FirstOn(i, k)),
                          ModRevision    |-> RevAt(LastOn(i, k)),
                          Version        |-> Cardinality(LifeAt(i, k))]
BY DEF EntryAt, FirstOn

(* The life of a key that is there, and of one that is not. *)
LEMMA LifeFacts ==
  ASSUME LogInv, Len(log) \in Nat, NEW i \in 0 .. Len(log), NEW k \in Keys
  PROVE  /\ LifeAt(i, k) \in SUBSET (1 .. i) /\ IsFiniteSet(LifeAt(i, k))
         /\ Cardinality(LifeAt(i, k)) \in Nat
         /\ PresentAt(i, k) =>
              /\ LastOn(i, k) \in 1 .. i /\ FirstOn(i, k) \in 1 .. i
              /\ FirstOn(i, k) \in LifeAt(i, k)
              /\ \A h \in LifeAt(i, k) : FirstOn(i, k) <= h
         /\ ~PresentAt(i, k) => LifeAt(i, k) = {}
<1>0. /\ OpsOn(i, k) \in SUBSET (1 .. i) /\ LifeAt(i, k) \in SUBSET OpsOn(i, k)
      /\ HasFirst(LifeAt(i, k)) /\ i \in Nat
  <2>1. OpsOn(i, k) \in SUBSET (1 .. i)
    BY DEF OpsOn
  <2>2. LifeAt(i, k) \in SUBSET OpsOn(i, k)
    BY DEF LifeAt
  <2>3. HasFirst(LifeAt(i, k))
    BY DEF LogInv
  <2> QED
    BY <2>1, <2>2, <2>3
<1>1. IsFiniteSet(LifeAt(i, k)) /\ Cardinality(LifeAt(i, k)) \in Nat
  <2>1. IsFiniteSet(1 .. i) /\ LifeAt(i, k) \in SUBSET (1 .. i)
    BY <1>0, FS_Interval
  <2> QED
    BY <2>1, FS_Subset, FS_CardinalityType
<1>2. ASSUME PresentAt(i, k)
      PROVE  /\ LastOn(i, k) \in 1 .. i /\ FirstOn(i, k) \in 1 .. i
             /\ FirstOn(i, k) \in LifeAt(i, k)
             /\ \A h \in LifeAt(i, k) : FirstOn(i, k) <= h
  <2>1. OpsOn(i, k) # {} /\ log[LastOn(i, k)].type = "put"
    BY <1>2 DEF PresentAt
  <2>2. LastOn(i, k) \in OpsOn(i, k) /\ \A h \in OpsOn(i, k) : h <= LastOn(i, k)
    BY <2>1, LastOnMax
  <2>3. \A h \in OpsOn(i, k) : h >= LastOn(i, k) => h = LastOn(i, k)
    BY <1>0, <2>2
  <2>4. LastOn(i, k) \in LifeAt(i, k)
    BY <2>1, <2>2, <2>3 DEF LifeAt
  <2>5. \E j \in LifeAt(i, k) : \A h \in LifeAt(i, k) : j <= h
    BY <1>0, <2>4 DEF HasFirst
  <2>6. FirstOn(i, k) \in LifeAt(i, k) /\ \A h \in LifeAt(i, k) : FirstOn(i, k) <= h
    BY <2>5 DEF FirstOn
  <2> QED
    BY <1>0, <2>2, <2>6
<1>3. ASSUME ~PresentAt(i, k) PROVE LifeAt(i, k) = {}
  <2>1. CASE OpsOn(i, k) = {}
    BY <1>0, <2>1
  <2>2. CASE OpsOn(i, k) # {}
    <3>1. LastOn(i, k) \in OpsOn(i, k) /\ \A h \in OpsOn(i, k) : h <= LastOn(i, k)
      BY <2>2, LastOnMax
    <3>2. log[LastOn(i, k)].type # "put"
      BY <1>3, <2>2 DEF PresentAt
    <3>3. \A h \in OpsOn(i, k) : LastOn(i, k) >= h
      BY <1>0, <3>1
    <3> QED
      BY <3>1, <3>2, <3>3 DEF LifeAt
  <2> QED
    BY <2>1, <2>2
<1> QED
  BY <1>0, <1>1, <1>2, <1>3

(* The reference holds entries of the store's type. *)
LEMMA EntryAtType ==
  ASSUME FSMTypeOK, LogInv, Len(log) \in Nat, NEW i \in 0 .. Len(log), NEW k \in Keys,
         PresentAt(i, k)
  PROVE  EntryAt(i, k) \in Entry
<1>1. LastOn(i, k) \in 1 .. i /\ FirstOn(i, k) \in 1 .. i /\ Cardinality(LifeAt(i, k)) \in Nat
  BY LifeFacts
<1>2. RevAt(LastOn(i, k)) \in Nat /\ RevAt(FirstOn(i, k)) \in Nat
  <2>1. LastOn(i, k) \in Nat /\ FirstOn(i, k) \in Nat
    BY <1>1
  <2> QED
    BY <2>1, RevNext
<1>3. log[LastOn(i, k)].value \in Values
  <2>1. LastOn(i, k) \in 1 .. Len(log) /\ log[LastOn(i, k)].type = "put"
    BY <1>1 DEF PresentAt
  <2>2. log[LastOn(i, k)] \in Op
    BY <2>1, ElementOfSeq DEF FSMTypeOK
  <2>3. \A op \in Op : op.type = "put" => op.value \in Values
    BY DEF Op
  <2> QED
    BY <2>1, <2>2, <2>3
<1> QED
  BY <1>1, <1>2, <1>3, EntryFields DEF Entry

(* A put builds the entry the reference has next: BoltStore.Put over the      *)
(* previous entry, with the next revision.                                    *)
LEMMA EntryNext ==
  ASSUME FSMTypeOK, LogInv, Len(log) \in Nat, NEW i \in Nat, i + 1 <= Len(log),
         NEW k \in Keys, log[i + 1].key = k
  PROVE  EntryAt(i + 1, k) = IF log[i + 1].type = "put"
                             THEN NewEntry(EntryAt(i, k), k, log[i + 1].value, RevAt(i) + 1)
                             ELSE NoEntry
<1>0. i \in 0 .. Len(log) /\ i + 1 \in 0 .. Len(log) /\ (i + 1) - 1 = i
  OBVIOUS
<1>1. LastOn(i + 1, k) = i + 1 /\ (PresentAt(i + 1, k) <=> log[i + 1].type = "put")
  BY LastNext
<1>2. CASE log[i + 1].type # "put"
  BY <1>1, <1>2 DEF EntryAt
<1>3. CASE log[i + 1].type = "put"
  <2> DEFINE F == LifeAt(i, k)
             G == LifeAt(i + 1, k)
             O == OpsOn(i, k)
  <2>1. RevAt(i) \in Nat /\ RevAt(i + 1) = RevAt(i) + 1
    BY <1>3, RevNext DEF ChangesAt
  <2>2. /\ F \in SUBSET (1 .. i) /\ IsFiniteSet(F) /\ Cardinality(F) \in Nat
        /\ ~PresentAt(i, k) => F = {}
        /\ PresentAt(i, k) => FirstOn(i, k) \in F /\ \A h \in F : FirstOn(i, k) <= h
    BY <1>0, LifeFacts
  <2>3. G = F \cup {i + 1}
    <3>1. OpsOn(i + 1, k) = O \cup {i + 1} /\ O \subseteq 1 .. i
      BY OpsNext DEF OpsOn
    <3>2. /\ F = {j \in O : \A h \in O : h >= j => log[h].type = "put"}
          /\ G = {j \in O \cup {i + 1} :
                    \A h \in O \cup {i + 1} : h >= j => log[h].type = "put"}
      BY <3>1 DEF LifeAt
    <3> HIDE DEF F, G, O
    <3>3. \A h \in O : h \in Nat /\ h < i + 1
      BY <3>1
    <3> QED
      BY <1>3, <3>2, <3>3
  <2> HIDE DEF F, G
  <2>4. i + 1 \notin F /\ G \in SUBSET Nat /\ \A h \in F : h <= i + 1
    BY <2>2, <2>3
  <2>5. Cardinality(G) = Cardinality(F) + 1
    BY <2>2, <2>3, <2>4, FS_AddElement
  <2>6. EntryAt(i + 1, k) = [Key            |-> k,
                             Value          |-> log[i + 1].value,
                             Revision       |-> RevAt(i) + 1,
                             CreateRevision |-> RevAt(FirstOn(i + 1, k)),
                             ModRevision    |-> RevAt(i) + 1,
                             Version        |-> Cardinality(F) + 1]
    BY <1>1, <1>3, <2>1, <2>5, EntryFields DEF G
  <2>7. CASE ~PresentAt(i, k)
    <3>1. EntryAt(i, k) = NoEntry
      BY <2>7 DEF EntryAt
    <3>2. F = {} /\ Cardinality(F) = 0
      BY <2>2, <2>7, FS_EmptySet
    <3>3. FirstOn(i + 1, k) = i + 1
      <4>1. i + 1 \in G /\ \A h \in G : i + 1 <= h
        BY <2>3, <3>2
      <4> QED
        BY <2>4, <4>1, FirstIsMin DEF FirstOn, G
    <3> QED
      BY <1>3, <2>1, <2>6, <3>1, <3>2, <3>3 DEF NewEntry
  <2>8. CASE PresentAt(i, k)
    <3>1. EntryAt(i, k) # NoEntry
      BY <1>0, <2>8, EntryAtType, NoEntryAssumption
    <3>2. EntryAt(i, k).CreateRevision = RevAt(FirstOn(i, k))
          /\ EntryAt(i, k).Version = Cardinality(F)
      BY <2>8, EntryFields DEF F
    <3>3. FirstOn(i + 1, k) = FirstOn(i, k)
      <4> DEFINE f == FirstOn(i, k)
      <4>1. f \in F /\ \A h \in F : f <= h
        BY <2>2, <2>8
      <4> HIDE DEF f
      <4>2. f \in G /\ \A h \in G : f <= h
        BY <2>3, <2>4, <4>1
      <4>3. (CHOOSE j \in G : \A h \in G : j <= h) = f
        BY <2>4, <4>2, FirstIsMin
      <4> QED
        BY <4>3 DEF FirstOn, G, f
    <3> QED
      BY <1>3, <2>6, <3>1, <3>2, <3>3 DEF NewEntry
  <2> QED
    BY <2>7, <2>8
<1> QED
  BY <1>2, <1>3

(* The reference entry of a prefix does not change as the log grows. *)
LEMMA EntryStable ==
  ASSUME FSMTypeOK, LogInv, Len(log) \in Nat, Len(log) <= Len(log'),
         \A i \in 1 .. Len(log) : log'[i] = log[i],
         NEW i \in 0 .. Len(log), NEW k \in Keys
  PROVE  EntryAt(i, k)' = EntryAt(i, k)
<1>0. /\ LifeAt(i, k)' = LifeAt(i, k) /\ LastOn(i, k)' = LastOn(i, k)
      /\ PresentAt(i, k)' <=> PresentAt(i, k)
  BY ReferenceStable
<1>1. CASE ~PresentAt(i, k)
  BY <1>0, <1>1 DEF EntryAt
<1>2. CASE PresentAt(i, k)
  <2>1. PICK l \in 1 .. i : l = LastOn(i, k)
    BY <1>2, LifeFacts
  <2>2. PICK f \in 1 .. i : f = FirstOn(i, k)
    BY <1>2, LifeFacts
  <2>3. LastOn(i, k)' = l /\ FirstOn(i, k)' = f
    BY <1>0, <2>1, <2>2 DEF FirstOn
  <2>4. l \in 0 .. Len(log) /\ f \in 0 .. Len(log) /\ log'[l] = log[l]
    OBVIOUS
  <2>5. RevAt(l)' = RevAt(l) /\ RevAt(f)' = RevAt(f)
    BY <2>4, RevStable
  <2>6. RevAt(LastOn(i, k))' = RevAt(l)' /\ RevAt(FirstOn(i, k))' = RevAt(f)'
    BY <2>3 DEF RevAt
  <2>7. EntryAt(i, k)' = [Key            |-> k,
                          Value          |-> log'[LastOn(i, k)'].value,
                          Revision       |-> RevAt(LastOn(i, k))',
                          CreateRevision |-> RevAt(FirstOn(i, k))',
                          ModRevision    |-> RevAt(LastOn(i, k))',
                          Version        |-> Cardinality(LifeAt(i, k)')]
    BY <1>0, <1>2 DEF EntryAt, FirstOn
  <2> QED
    BY <1>0, <1>2, <2>1, <2>2, <2>3, <2>4, <2>5, <2>6, <2>7, EntryFields
<1> QED
  BY <1>1, <1>2

-----------------------------------------------------------------------------
(* LogDeterminesStore is inductive: a node that was never stopped is running, *)
(* so only FSM.Apply changes its file.                                        *)
NextStore(n) ==
  /\ rev'[n] = RevAt(applied'[n])
  /\ \A k \in Keys : data'[n][k] = EntryAt(applied'[n], k)

(* A store that is the present log's is the next log's, which extends it. *)
LEMMA StoreStable ==
  ASSUME ShapeInv, LogInv, [FSMNext]_fsmVars, NEW n \in Nodes, NextStore(n)
  PROVE  /\ rev'[n] = RevAt(applied[n])'
         /\ \A k \in Keys : data'[n][k] = EntryAt(applied[n], k)'
<1>0. FSMTypeOK
  BY DEF ShapeInv
<1>1. /\ Len(log) \in Nat /\ Len(log) <= Len(log')
      /\ \A i \in 1 .. Len(log) : log'[i] = log[i]
  BY <1>0, LogGrows
<1>2. PICK a \in 0 .. Len(log) : a = applied'[n]
  <2>1. applied'[n] \in Nat /\ high'[n] \in Nat /\ applied'[n] <= high'[n] /\ high'[n] <= Len(log)
    BY HighBound
  <2> QED
    BY <1>1, <2>1
<1>3. rev'[n] = RevAt(applied[n])'
  <2>1. RevAt(a)' = RevAt(a)
    BY <1>0, <1>1, RevStable
  <2>2. RevAt(applied[n])' = RevAt(a)'
    BY <1>2 DEF RevAt
  <2> QED
    BY <1>2, <2>1, <2>2 DEF NextStore
<1>4. ASSUME NEW k \in Keys PROVE data'[n][k] = EntryAt(applied[n], k)'
  <2>1. EntryAt(a, k)' = EntryAt(a, k)
    BY <1>0, <1>1, EntryStable
  <2>2. EntryAt(applied[n], k)' = EntryAt(a, k)'
    BY <1>2 DEF EntryAt, PresentAt, LastOn, LifeAt, OpsOn, RevAt
  <2> QED
    BY <1>2, <2>1, <2>2 DEF NextStore
<1> QED
  BY <1>3, <1>4

(* Applying one more entry to the store of a prefix gives the store of the next prefix. *)
LEMMA ApplyStore ==
  ASSUME ShapeInv, LogInv, NEW n \in Nodes, Apply(n), rev[n] = RevAt(applied[n]),
         \A k \in Keys : data[n][k] = EntryAt(applied[n], k)
  PROVE  NextStore(n)
<1> DEFINE op == log[applied[n] + 1]
<1>0. /\ applied[n] \in Nat /\ FSMTypeOK /\ Len(log) \in Nat /\ rev[n] \in Nat
      /\ applied[n] + 1 \in 1 .. Len(log)
      /\ op.key \in Keys /\ (op.type = "put" \/ op.type = "delete")
  BY ApplyShape, LenProperties DEF ShapeInv, FSMTypeOK
<1>1. /\ \A k \in Keys : k # op.key => data'[n][k] = data[n][k]
      /\ op.type = "put" =>
           data'[n][op.key] = NewEntry(data[n][op.key], op.key, op.value, rev[n] + 1)
      /\ op.type = "delete" => data'[n][op.key] = NoEntry
      /\ op.type = "put" \/ data[n][op.key] # NoEntry => rev'[n] = rev[n] + 1
      /\ ~(op.type = "put" \/ data[n][op.key] # NoEntry) => rev'[n] = rev[n]
      /\ applied'[n] = applied[n] + 1
  BY ApplyNode
<1>2. applied[n] \in 0 .. Len(log) /\ applied[n] + 1 <= Len(log)
      /\ (applied[n] + 1) - 1 = applied[n]
  BY <1>0
<1>3. data[n][op.key] # NoEntry <=> PresentAt(applied[n], op.key)
  <2>1. PresentAt(applied[n], op.key) => EntryAt(applied[n], op.key) \in Entry
    BY <1>0, <1>2, EntryAtType
  <2>2. ~PresentAt(applied[n], op.key) => EntryAt(applied[n], op.key) = NoEntry
    BY DEF EntryAt
  <2> QED
    BY <1>0, <2>1, <2>2, NoEntryAssumption
<1>4. ChangesAt(applied[n] + 1) <=> op.type = "put" \/ data[n][op.key] # NoEntry
  BY <1>2, <1>3 DEF ChangesAt
<1>5. rev'[n] = RevAt(applied[n] + 1)
  BY <1>0, <1>1, <1>4, RevNext
<1>6. data'[n][op.key] = EntryAt(applied[n] + 1, op.key)
  <2>1. EntryAt(applied[n] + 1, op.key) =
          IF op.type = "put"
          THEN NewEntry(EntryAt(applied[n], op.key), op.key, op.value, RevAt(applied[n]) + 1)
          ELSE NoEntry
    BY <1>0, <1>2, EntryNext
  <2> QED
    BY <1>0, <1>1, <2>1
<1>7. ASSUME NEW k \in Keys, k # op.key PROVE data'[n][k] = EntryAt(applied[n] + 1, k)
  <2>1. EntryAt(applied[n] + 1, k) = EntryAt(applied[n], k)
    BY <1>0, <1>7, OthersNext
  <2> QED
    BY <1>1, <1>7, <2>1
<1> QED
  BY <1>1, <1>5, <1>6, <1>7 DEF NextStore

(* Every step keeps a node that only ever applied the log equal to it. *)
LEMMA StoreStep ==
  ShapeInv /\ LogInv /\ LogDeterminesStore /\ [FSMNext]_fsmVars => LogDeterminesStore'
<1> SUFFICES ASSUME ShapeInv, LogInv, LogDeterminesStore, [FSMNext]_fsmVars,
                    NEW n \in Nodes, n \notin damaged', n \notin installed', n \notin restarted'
             PROVE  NextStore(n)
  BY StoreStable DEF LogDeterminesStore
<1>0. FSMTypeOK /\ n \notin damaged /\ n \notin installed /\ n \notin restarted
  BY LogGrows DEF ShapeInv
<1>1. /\ rev[n] = RevAt(applied[n]) /\ \A k \in Keys : data[n][k] = EntryAt(applied[n], k)
      /\ up[n]
  BY <1>0 DEF LogDeterminesStore, ShapeInv, NodeShape
<1>un. CASE Untouched(n)
  BY <1>1, <1>un DEF Untouched, NextStore
<1>ap. CASE Apply(n)
  BY <1>1, <1>ap, ApplyStore
<1>sn. CASE Snapshot(n)
  BY <1>1, <1>sn DEF Snapshot, NextStore
<1>no. ASSUME \/ ApplyFails(n) \/ Shutdown(n) \/ NewNode(n)
              \/ \E c \in Keys : NewNodeFails(n, c)
              \/ \E m \in Nodes : \/ InstallSnapshot(n, m)
                                  \/ \E c \in Keys : InstallSnapshotFails(n, m, c)
       PROVE  FALSE
  BY <1>1, <1>no DEF ApplyFails, Shutdown, NewNode, NewNodeFails, InstallSnapshot,
     InstallSnapshotFails, ReceiveSnapshot
<1> QED
  BY <1>0, <1>un, <1>ap, <1>sn, <1>no, StepOfNode

(* The empty store is the one of the empty prefix. *)
LEMMA StoreInit == FSMInit => LogDeterminesStore
<1> SUFFICES ASSUME FSMInit, NEW n \in Nodes
             PROVE  /\ rev[n] = RevAt(applied[n])
                    /\ \A k \in Keys : data[n][k] = EntryAt(applied[n], k)
  BY DEF LogDeterminesStore
<1>1. rev[n] = 0 /\ applied[n] = 0 /\ \A k \in Keys : data[n][k] = NoEntry
  BY DEF FSMInit
<1>2. RevAt(0) = 0
  BY RevZero
<1>3. ASSUME NEW k \in Keys PROVE EntryAt(0, k) = NoEntry
  <2>1. OpsOn(0, k) = {}
    BY DEF OpsOn
  <2> QED
    BY <2>1 DEF EntryAt, PresentAt
<1> QED
  BY <1>1, <1>2, <1>3

(* node.go Apply over bolt.go Put and Delete: a node that only ever applied   *)
(* the log holds exactly what the log says, every revision and version        *)
(* included.  So two such nodes at the same index hold the same store.        *)
THEOREM LogDeterminesStoreHolds == FSMSpec => []LogDeterminesStore
<1>1. ShapeInv => FSMTypeOK
  BY DEF ShapeInv
<1> QED
  BY <1>1, ShapeInit, LogInit, StoreInit, ShapeStep, LogStep, StoreStep, PTL DEF FSMSpec

=============================================================================
