------------------------ MODULE WatchableStoreProofs ------------------------
(***************************************************************************)
(* Proofs about WatchableStore, for every set of keys and values and every *)
(* capacity of the watch cache.                                            *)
(*                                                                         *)
(* WindowIsRecent needs that there is one writer (cluster mode: the Raft   *)
(* FSM goroutine), and it is not inductive alone: that a new event is      *)
(* above the floor and above the whole window follows from the store's own *)
(* invariant (BoltInv) and from the floor never passing the persisted      *)
(* revision.                                                               *)
(***************************************************************************)
EXTENDS WatchableStore, BoltStoreProofs, SequenceTheorems

(* At most one goroutine writes. *)
SingleWriter == \A a, b \in Writers : a = b

(* The inductive invariants: types for any number of writers, and the        *)
(* window for one.                                                           *)
TypeInv == BoltInv /\ WatchableTypeOK

WindowInv == TypeInv /\ floor <= meta /\ WindowIsRecent

-----------------------------------------------------------------------------
(* The event of a put reports the mutation the put commits. *)
LEMMA PutEventMut ==
  ASSUME NEW prev \in Entry \cup {NoEntry}, NEW k \in Keys, NEW v \in Values,
         NEW r \in Nat
  PROVE  /\ PutEvent(prev, k, v, r) \in Event
         /\ PutEvent(prev, k, v, r).Entry.Revision = r
         /\ MutOf(PutEvent(prev, k, v, r)) = Mut(r, k, "PUT", v)
<1> DEFINE e == NewEntry(prev, k, v, r)
<1>1. e \in Entry /\ e.Key = k /\ e.Value = v /\ e.Revision = r
  BY NewEntryFields
<1> HIDE DEF e
<1>2. PutEvent(prev, k, v, r) = [Type |-> "PUT", Entry |-> e, PrevEntry |-> prev]
  BY DEF PutEvent, e
<1>3. QED
  BY <1>1, <1>2 DEF Event, MutOf

(* The event of a delete reports the mutation the delete commits. *)
LEMMA DeleteEventMut ==
  ASSUME NEW prev \in Entry, NEW r \in Nat
  PROVE  /\ DeleteEvent(prev, r) \in Event
         /\ DeleteEvent(prev, r).Entry.Revision = r
         /\ MutOf(DeleteEvent(prev, r)) = Mut(r, prev.Key, "DELETE", prev.Value)
<1> DEFINE e == DeletedEntry(prev, r)
<1>1. e \in Entry /\ e.Key = prev.Key /\ e.Value = prev.Value /\ e.Revision = r
  BY DEF DeletedEntry, Entry
<1> HIDE DEF e
<1>2. DeleteEvent(prev, r) = [Type |-> "DELETE", Entry |-> e, PrevEntry |-> NoEntry]
  BY DEF DeleteEvent, e
<1>3. QED
  BY <1>1, <1>2 DEF Event, MutOf

(* An event carries a revision. *)
LEMMA EventRevision ==
  ASSUME NEW ev \in Event
  PROVE  ev.Entry.Revision \in Nat
BY DEF Event, Entry

(* Push keeps a window of at most Capacity events. *)
LEMMA PushType ==
  ASSUME window \in Seq(Event), Len(window) <= Capacity, NEW ev \in Event
  PROVE  /\ Push(window, ev, Capacity) \in Seq(Event)
         /\ Len(Push(window, ev, Capacity)) <= Capacity
<1>0. Capacity \in Nat /\ Capacity > 0 /\ Len(window) \in Nat
  BY WatchableAssumption, LenProperties
<1>1. CASE Len(window) < Capacity
  BY <1>0, <1>1, AppendProperties DEF Push
<1>2. CASE ~(Len(window) < Capacity)
  <2>1. Tail(window) \in Seq(Event) /\ Len(Tail(window)) = Len(window) - 1
    BY <1>0, <1>2, HeadTailProperties, EmptySeq
  <2>2. QED
    BY <1>0, <1>2, <2>1, AppendProperties DEF Push
<1>3. QED
  BY <1>1, <1>2

-----------------------------------------------------------------------------
(* Type correctness and the store's own invariant, one step per action. *)
LEMMA TypeInvNext == TypeInv /\ [WatchableNext]_wsVars => TypeInv'
<1> SUFFICES ASSUME TypeInv, [WatchableNext]_wsVars PROVE TypeInv'
  OBVIOUS
<1> DEFINE Rest == /\ window' \in Seq(Event) /\ Len(window') <= Capacity
                   /\ pend' \in [Writers -> Event \cup {NoEvent}] /\ floor' \in Nat
<1>0. /\ window \in Seq(Event) /\ Len(window) <= Capacity
      /\ pend \in [Writers -> Event \cup {NoEvent}] /\ floor \in Nat
      /\ data \in [Keys -> Entry \cup {NoEntry}] /\ rev \in Nat /\ meta \in Nat
  BY DEF TypeInv, WatchableTypeOK, BoltTypeOK
<1>1. BoltInv'
  <2>1. [BoltNext]_boltVars
    BY DEF WatchableNext, Write, WatchablePut, WatchablePutFails, WatchableDelete,
           WatchableDeleteFails, AppendPending, Stop, Restart, wsVars, BoltNext, boltVars
  <2>2. QED
    BY <2>1, BoltInvNext DEF TypeInv
<1>2. ASSUME NEW w \in Writers, NEW k \in Keys, NEW v \in Values, WatchablePut(w, k, v)
      PROVE  Rest
  <2>0. data[k] \in Entry \cup {NoEntry} /\ rev + 1 \in Nat
    BY <1>0
  <2>1. PutEvent(data[k], k, v, rev + 1) \in Event
    BY <2>0, PutEventMut
  <2>2. QED
    BY <1>0, <1>2, <2>1 DEF WatchablePut
<1>3. ASSUME NEW w \in Writers, NEW k \in Keys, WatchableDelete(w, k)
      PROVE  Rest
  <2>1. DeleteEvent(data[k], rev + 1) \in Event
    BY <1>0, <1>3, DeleteEventMut DEF WatchableDelete, Delete
  <2>2. QED
    BY <1>0, <1>3, <2>1 DEF WatchableDelete
<1>4. ASSUME UNCHANGED <<window, pend, floor>> PROVE Rest
  BY <1>0, <1>4
<1>5. ASSUME NEW w \in Writers, AppendPending(w) PROVE Rest
  <2>1. pend[w] \in Event
    BY <1>0, <1>5 DEF AppendPending
  <2>2. window' \in Seq(Event) /\ Len(window') <= Capacity
    BY <1>0, <1>5, <2>1, PushType DEF AppendPending
  <2>3. Len(window) < Capacity \/ Head(window) \in Event
    BY <1>0, WatchableAssumption, HeadTailProperties, EmptySeq
  <2>4. Evicted \in Nat
    BY <1>0, <2>3 DEF Evicted, Event, Entry
  <2>5. QED
    BY <1>0, <1>5, <2>2, <2>4 DEF AppendPending
<1>6. ASSUME Stop PROVE Rest
  BY <1>0, <1>6, WatchableAssumption DEF Stop
<1>7. Rest
  BY <1>2, <1>3, <1>4, <1>5, <1>6
     DEF WatchableNext, Write, WatchablePutFails, WatchableDeleteFails, Restart, wsVars
<1>8. QED
  BY <1>1, <1>7 DEF TypeInv, WatchableTypeOK, BoltInv

(* The watchable store starts well typed. *)
LEMMA TypeInvInit == WatchableInit => TypeInv
<1> SUFFICES ASSUME WatchableInit PROVE TypeInv
  OBVIOUS
<1>1. BoltInv
  BY BoltInvInit DEF WatchableInit
<1>2. QED
  BY <1>1, WatchableAssumption DEF WatchableInit, TypeInv, WatchableTypeOK, BoltInv

(* Type correctness of the watchable store, for any number of writers. *)
THEOREM WatchableTypeCorrect == WatchableSpec => []WatchableTypeOK
<1>1. TypeInv => WatchableTypeOK
  BY DEF TypeInv
<1>2. QED
  BY <1>1, TypeInvInit, TypeInvNext, PTL DEF WatchableSpec

-----------------------------------------------------------------------------
(* A new event for the mutation just committed, when no event is pending. *)
LEMMA CommitKeepsWindow ==
  ASSUME SingleWriter, WindowInv, NEW w \in Writers, NEW ev \in Event,
         pend[w] = NoEvent, pend' = [pend EXCEPT ![w] = ev],
         ev.Entry.Revision = rev + 1,
         hist' = hist \cup {MutOf(ev)}, MutOf(ev).Rev = rev + 1,
         UNCHANGED <<window, floor>>
  PROVE  WindowIsRecent'
<1>0. /\ pend \in [Writers -> Event \cup {NoEvent}]
      /\ floor \in Nat /\ meta \in Nat /\ rev \in Nat /\ floor <= meta /\ meta <= rev
      /\ \A m \in hist : m.Rev \in Nat /\ m.Rev <= meta
  BY DEF WindowInv, TypeInv, WatchableTypeOK, BoltInv, BoltTypeOK, RevisionDiscipline,
         HistoryBelowMeta, Mutation
<1>1. \A x \in Writers : x = w
  BY DEF SingleWriter
<1>2. Pending = {} /\ Pending' = {MutOf(ev)}
  BY <1>0, <1>1, WatchableAssumption DEF Pending
<1>3. InWindow' = InWindow
  BY DEF InWindow
<1>4. InWindow = {m \in hist : m.Rev > floor}
  BY <1>2 DEF WindowInv, WindowIsRecent
<1>5. InWindow' \cup Pending' = {m \in hist' : m.Rev > floor'}
  BY <1>0, <1>2, <1>3, <1>4
<1>6. \A i \in DOMAIN window : window[i].Entry.Revision <= meta
  <2> SUFFICES ASSUME NEW i \in DOMAIN window PROVE window[i].Entry.Revision <= meta
    OBVIOUS
  <2>1. MutOf(window[i]) \in hist
    BY <1>4 DEF InWindow
  <2>2. MutOf(window[i]).Rev = window[i].Entry.Revision
    BY DEF MutOf, Mut
  <2>3. QED
    BY <1>0, <2>1, <2>2
<1>7. \A i \in DOMAIN window : window[i].Entry.Revision \in Nat
  <2>1. window \in Seq(Event)
    BY DEF WindowInv, TypeInv, WatchableTypeOK
  <2>2. \A i \in DOMAIN window : window[i] \in Event
    BY <2>1
  <2>3. QED
    BY <2>2, EventRevision
<1>8. \A x \in Writers : pend'[x] = ev
  BY <1>0, <1>1
<1>9. QED
  BY <1>0, <1>5, <1>6, <1>7, <1>8 DEF WindowIsRecent, WindowOrdered, WindowInv

(* wc.Append moves the pending event to the end of the window; a full        *)
(* window loses its oldest event and the floor rises to it.                  *)
LEMMA AppendKeepsWindow ==
  ASSUME SingleWriter, WindowInv, NEW w \in Writers, AppendPending(w)
  PROVE  WindowIsRecent' /\ floor' <= meta'
<1> DEFINE ev == pend[w]
           n == Len(window)
<1>0. /\ pend \in [Writers -> Event \cup {NoEvent}] /\ ev \in Event /\ ev # NoEvent
      /\ floor \in Nat /\ meta \in Nat /\ floor <= meta /\ meta' = meta /\ hist' = hist
      /\ window \in Seq(Event) /\ n \in Nat /\ n <= Capacity
      /\ Capacity \in Nat /\ Capacity > 0
      /\ \A m \in hist : m.Rev \in Nat /\ m.Rev <= meta
  BY LenProperties, WatchableAssumption
     DEF AppendPending, WindowInv, TypeInv, WatchableTypeOK, BoltInv, BoltTypeOK,
         HistoryBelowMeta, Mutation
<1>1. \A x \in Writers : x = w
  BY DEF SingleWriter
<1>2. Pending = {MutOf(ev)} /\ Pending' = {} /\ \A x \in Writers : pend'[x] = NoEvent
  BY <1>0, <1>1 DEF Pending, AppendPending
<1>3. /\ WindowOrdered /\ floor < ev.Entry.Revision
      /\ \A i \in 1 .. n : window[i].Entry.Revision < ev.Entry.Revision
      /\ InWindow \cup {MutOf(ev)} = {m \in hist : m.Rev > floor}
  BY <1>0, <1>2 DEF WindowInv, WindowIsRecent
<1>4. /\ \A i \in 1 .. n : window[i] \in Event /\ window[i].Entry.Revision \in Nat
      /\ ev.Entry.Revision \in Nat
  <2>1. \A i \in 1 .. n : window[i] \in Event
    BY <1>0
  <2>2. QED
    BY <1>0, <2>1, EventRevision
<1>5. /\ InWindow = {MutOf(window[i]) : i \in 1 .. n}
      /\ \A i \in 1 .. n : MutOf(window[i]).Rev = window[i].Entry.Revision
      /\ MutOf(ev).Rev = ev.Entry.Revision
  BY <1>0 DEF InWindow, MutOf, Mut
<1>6. \A i \in 1 .. n : floor < window[i].Entry.Revision /\ window[i].Entry.Revision <= meta
  <2> SUFFICES ASSUME NEW i \in 1 .. n
               PROVE  floor < window[i].Entry.Revision /\ window[i].Entry.Revision <= meta
    OBVIOUS
  <2>1. MutOf(window[i]) \in {m \in hist : m.Rev > floor}
    BY <1>3, <1>5
  <2>2. QED
    BY <1>0, <1>4, <1>5, <2>1
<1> HIDE DEF ev, n
<1>7. CASE n < Capacity
  <2>1. window' = Append(window, ev) /\ floor' = floor
    BY <1>0, <1>7 DEF AppendPending, Push, Evicted, ev, n
  <2>2. /\ DOMAIN window' = 1 .. n + 1 /\ window'[n + 1] = ev
        /\ \A i \in 1 .. n : window'[i] = window[i]
    BY <1>0, <2>1, AppendProperties DEF n
  <2>3. WindowOrdered'
    <3>1. \A i, j \in 1 .. n : i < j => window[i].Entry.Revision < window[j].Entry.Revision
      BY <1>0, <1>3 DEF WindowOrdered, n
    <3>2. QED
      BY <1>0, <1>3, <2>2, <3>1 DEF WindowOrdered
  <2>4. InWindow' = InWindow \cup {MutOf(ev)}
    <3>1. InWindow' = {MutOf(window'[i]) : i \in 1 .. n + 1}
      BY <2>2 DEF InWindow, MutOf, Mut
    <3>2. QED
      BY <1>0, <1>5, <2>2, <3>1
  <2>5. QED
    BY <1>0, <1>2, <1>3, <2>1, <2>3, <2>4 DEF WindowIsRecent
<1>8. CASE n = Capacity
  <2>0. n >= 1 /\ window # <<>> /\ Head(window) = window[1]
    BY <1>0, <1>8 DEF n
  <2>1. window' = Append(Tail(window), ev)
    BY <1>0, <1>8 DEF AppendPending, Push, ev, n
  <2>2. floor' = window[1].Entry.Revision
    <3>1. Evicted = window[1].Entry.Revision
      BY <1>0, <1>8, <2>0 DEF Evicted, n
    <3>2. Evicted > floor
      BY <1>0, <1>4, <1>6, <2>0, <3>1
    <3>3. QED
      BY <3>1, <3>2 DEF AppendPending
  <2>3. /\ DOMAIN window' = 1 .. n /\ window'[n] = ev
        /\ \A i \in 1 .. n - 1 : window'[i] = window[i + 1]
    <3>1. /\ Tail(window) \in Seq(Event) /\ Len(Tail(window)) = n - 1
          /\ \A i \in 1 .. n - 1 : Tail(window)[i] = window[i + 1]
      BY <1>0, <2>0, HeadTailProperties DEF n
    <3>2. QED
      BY <1>0, <2>0, <2>1, <3>1, AppendProperties
  <2>4. \A i, j \in 1 .. n : i < j => window[i].Entry.Revision < window[j].Entry.Revision
    BY <1>0, <1>3 DEF WindowOrdered, n
  <2>5. WindowOrdered'
    <3> SUFFICES ASSUME NEW i \in 1 .. n, NEW j \in 1 .. n, i < j
                 PROVE  window'[i].Entry.Revision < window'[j].Entry.Revision
      BY <2>3 DEF WindowOrdered
    <3>1. i \in 1 .. n - 1 /\ i + 1 \in 1 .. n /\ window'[i] = window[i + 1]
      BY <1>0, <2>3
    <3>2. CASE j = n
      BY <1>3, <2>3, <3>1, <3>2
    <3>3. CASE j # n
      <4>1. j + 1 \in 1 .. n /\ i + 1 < j + 1 /\ window'[j] = window[j + 1]
        BY <1>0, <2>3, <3>3
      <4>2. QED
        BY <2>4, <3>1, <4>1
    <3>4. QED
      BY <3>2, <3>3
  <2>6. InWindow' = {MutOf(window[i]) : i \in 2 .. n} \cup {MutOf(ev)}
    <3>1. InWindow' = {MutOf(window'[i]) : i \in 1 .. n}
      BY <2>3 DEF InWindow, MutOf, Mut
    <3>2. \A i \in 2 .. n : i - 1 \in 1 .. n - 1 /\ window'[i - 1] = window[i]
      BY <1>0, <2>3
    <3>3. \A i \in 1 .. n : IF i = n THEN window'[i] = ev
                            ELSE i + 1 \in 2 .. n /\ window'[i] = window[i + 1]
      BY <1>0, <2>3
    <3>4. \A i \in 2 .. n : i - 1 \in 1 .. n
      BY <1>0
    <3>5. n \in 1 .. n
      BY <1>0, <2>0
    <3>6. QED
      BY <2>3, <3>1, <3>2, <3>3, <3>4, <3>5
  <2>7. InWindow' = {m \in hist : m.Rev > floor'}
    <3>1. ASSUME NEW m \in InWindow' PROVE m \in hist /\ m.Rev > floor'
      <4>1. CASE m = MutOf(ev)
        <5>1. MutOf(ev) \in hist
          BY <1>3
        <5>2. window[1].Entry.Revision < ev.Entry.Revision
          BY <1>0, <1>3, <2>0
        <5>3. QED
          BY <1>4, <1>5, <2>0, <2>2, <4>1, <5>1, <5>2
      <4>2. ASSUME NEW i \in 2 .. n, m = MutOf(window[i])
            PROVE  m \in hist /\ m.Rev > floor'
        <5>1. i \in 1 .. n /\ 1 \in 1 .. n /\ 1 < i
          BY <1>0
        <5>2. m \in hist
          BY <1>3, <1>5, <4>2, <5>1
        <5>3. window[1].Entry.Revision < window[i].Entry.Revision
          BY <2>4, <5>1
        <5>4. QED
          BY <1>4, <1>5, <2>2, <4>2, <5>1, <5>2, <5>3
      <4>3. QED
        BY <2>6, <3>1, <4>1, <4>2
    <3>2. ASSUME NEW m \in hist, m.Rev > floor' PROVE m \in InWindow'
      <4>1. window[1].Entry.Revision \in Nat /\ floor < window[1].Entry.Revision
        BY <1>0, <1>4, <1>6, <2>0
      <4>2. m.Rev > floor
        BY <1>0, <2>2, <3>2, <4>1
      <4>3. m \in InWindow \cup {MutOf(ev)}
        BY <1>3, <4>2
      <4>4. ASSUME NEW i \in 1 .. n, m = MutOf(window[i]) PROVE i \in 2 .. n
        <5>1. m.Rev = window[i].Entry.Revision
          BY <1>5, <4>4
        <5>2. i # 1
          BY <2>2, <3>2, <4>1, <5>1
        <5>3. QED
          BY <1>0, <5>2
      <4>5. QED
        BY <1>5, <2>6, <4>3, <4>4
    <3>3. QED
      BY <3>1, <3>2
  <2>8. floor' <= meta'
    BY <1>0, <1>6, <2>0, <2>2
  <2>9. QED
    BY <1>0, <1>2, <2>5, <2>7, <2>8 DEF WindowIsRecent
<1>9. QED
  BY <1>0, <1>7, <1>8

(* The window invariant, one step per action. *)
LEMMA WindowInvNext ==
  ASSUME SingleWriter
  PROVE  WindowInv /\ [WatchableNext]_wsVars => WindowInv'
<1> SUFFICES ASSUME WindowInv, [WatchableNext]_wsVars PROVE WindowInv'
  OBVIOUS
<1> DEFINE Goal == WindowIsRecent' /\ floor' <= meta'
<1>0. TypeInv'
  BY TypeInvNext DEF WindowInv
<1>1. /\ data \in [Keys -> Entry \cup {NoEntry}] /\ rev \in Nat /\ meta \in Nat
      /\ floor \in Nat /\ floor <= meta /\ meta <= rev /\ rev + 1 \in Nat
      /\ \A k \in Keys : data[k] # NoEntry => data[k].Key = k
      /\ \A m \in hist : m.Rev \in Nat /\ m.Rev <= meta
  BY DEF WindowInv, TypeInv, WatchableTypeOK, BoltInv, BoltTypeOK, RevisionDiscipline,
         HistoryBelowMeta, Mutation
<1>2. ASSUME NEW w \in Writers, NEW k \in Keys, NEW v \in Values, WatchablePut(w, k, v)
      PROVE  Goal
  <2>1. data[k] \in Entry \cup {NoEntry}
    BY <1>1
  <2> DEFINE ev == PutEvent(data[k], k, v, rev + 1)
  <2>2. /\ ev \in Event /\ ev.Entry.Revision = rev + 1
        /\ MutOf(ev) = Mut(rev + 1, k, "PUT", v) /\ MutOf(ev).Rev = rev + 1
    BY <1>1, <2>1, PutEventMut, MutFields
  <2>3. /\ pend[w] = NoEvent /\ pend' = [pend EXCEPT ![w] = ev]
        /\ hist' = hist \cup {Mut(rev + 1, k, "PUT", v)} /\ meta' = rev + 1
        /\ UNCHANGED <<window, floor>>
    BY <1>2 DEF WatchablePut, Put
  <2> HIDE DEF ev
  <2>4. WindowIsRecent'
    BY <2>2, <2>3, CommitKeepsWindow
  <2>5. QED
    BY <1>1, <2>3, <2>4
<1>3. ASSUME NEW w \in Writers, NEW k \in Keys, WatchableDelete(w, k)
      PROVE  Goal
  <2>1. data[k] \in Entry /\ data[k].Key = k /\ data[k].Value \in Values
    BY <1>1, <1>3 DEF WatchableDelete, Delete, Entry
  <2> DEFINE ev == DeleteEvent(data[k], rev + 1)
  <2>2. /\ ev \in Event /\ ev.Entry.Revision = rev + 1
        /\ MutOf(ev) = Mut(rev + 1, k, "DELETE", data[k].Value)
        /\ MutOf(ev).Rev = rev + 1
    BY <1>1, <2>1, DeleteEventMut, MutFields
  <2>3. /\ pend[w] = NoEvent /\ pend' = [pend EXCEPT ![w] = ev]
        /\ hist' = hist \cup {Mut(rev + 1, k, "DELETE", data[k].Value)}
        /\ meta' = rev + 1 /\ UNCHANGED <<window, floor>>
    BY <1>3 DEF WatchableDelete, Delete
  <2> HIDE DEF ev
  <2>4. WindowIsRecent'
    BY <2>2, <2>3, CommitKeepsWindow
  <2>5. QED
    BY <1>1, <2>3, <2>4
<1>4. ASSUME UNCHANGED <<hist, meta, window, pend, floor>> PROVE Goal
  BY <1>4 DEF WindowInv, WindowIsRecent, WindowOrdered, InWindow, Pending
<1>5. ASSUME NEW w \in Writers, AppendPending(w) PROVE Goal
  BY <1>5, AppendKeepsWindow
<1>6. ASSUME Stop PROVE Goal
  <2>1. /\ window' = <<>> /\ floor' = meta /\ hist' = hist /\ meta' = meta
        /\ \A w \in Writers : pend'[w] = NoEvent
    BY <1>6 DEF Stop, Close
  <2>2. InWindow' = {} /\ Pending' = {} /\ WindowOrdered'
    BY <2>1 DEF InWindow, Pending, WindowOrdered
  <2>3. {m \in hist' : m.Rev > floor'} = {}
    BY <1>1, <2>1
  <2>4. QED
    BY <1>1, <2>1, <2>2, <2>3 DEF WindowIsRecent
<1>7. Goal
  BY <1>2, <1>3, <1>4, <1>5, <1>6
     DEF WatchableNext, Write, WatchablePutFails, WatchableDeleteFails, Restart, wsVars,
         PutCommitFails, DeleteCommitFails, NewBoltStore
<1>8. QED
  BY <1>0, <1>7 DEF WindowInv

(* The window of an empty store is empty. *)
LEMMA WindowInvInit == WatchableInit => WindowInv
<1> SUFFICES ASSUME WatchableInit PROVE WindowInv
  OBVIOUS
<1>1. TypeInv
  BY TypeInvInit
<1>2. WindowIsRecent /\ floor <= meta
  BY DEF WatchableInit, BoltInit, WindowIsRecent, WindowOrdered, InWindow, Pending
<1>3. QED
  BY <1>1, <1>2 DEF WindowInv

(* With one writer the watch window is the committed history above its      *)
(* floor, in revision order, whatever is evicted, however often commits     *)
(* fail and the process restarts.                                           *)
THEOREM WindowIsRecentHolds ==
  ASSUME SingleWriter
  PROVE  WatchableSpec => []WindowIsRecent
<1>1. WatchableInit => WindowInv
  BY WindowInvInit
<1>2. WindowInv => WindowIsRecent
  BY DEF WindowInv
<1>3. WindowInv /\ [WatchableNext]_wsVars => WindowInv'
  BY WindowInvNext
<1>4. QED
  BY <1>1, <1>2, <1>3, PTL DEF WatchableSpec
-----------------------------------------------------------------------------
(* The events of a key in the window, each next to the one before it.        *)
Chained(w) ==
  \A i, j \in 1 .. Len(w) :
    /\ i < j
    /\ w[i].Entry.Key = w[j].Entry.Key
    /\ \A n \in i + 1 .. j - 1 : w[n].Entry.Key # w[j].Entry.Key
    => Follows(w[i], w[j])

(* Event i is the latest of its key. *)
Latest(w, i) == \A j \in 1 .. Len(w) : j > i => w[j].Entry.Key # w[i].Entry.Key

(* What an event leaves in the bucket of its key. *)
Left(ev) == IF ev.Type = "PUT" THEN ev.Entry ELSE NoEntry

(* The latest events of the keys in K say what the buckets d hold. *)
Tells(w, d, K) ==
  \A i \in 1 .. Len(w) :
    Latest(w, i) /\ w[i].Entry.Key \in K => d[w[i].Entry.Key] = Left(w[i])

(* Event ev can come next. *)
Leads(w, ev) ==
  \A i \in 1 .. Len(w) :
    Latest(w, i) /\ w[i].Entry.Key = ev.Entry.Key => Follows(w[i], ev)

(* The inductive invariant behind PrevEntryChains: it says in addition what  *)
(* the buckets hold, because the next event is made from them, and it counts *)
(* the pending event as the end of the window.                               *)
ChainInv ==
  /\ Chained(window)
  /\ \A w \in Writers :
       /\ pend[w] = NoEvent => Tells(window, data, Keys)
       /\ pend[w] # NoEvent =>
            /\ Leads(window, pend[w])
            /\ data[pend[w].Entry.Key] = Left(pend[w])
            /\ Tells(window, data, Keys \ {pend[w].Entry.Key})

(* A push keeps the window, perhaps without its oldest event, and adds one. *)
LEMMA PushShape ==
  ASSUME NEW w \in Seq(Event), NEW ev \in Event
  PROVE  \E d \in {0, 1} :
           /\ Push(w, ev, Capacity) \in Seq(Event)
           /\ Len(w) \in Nat
           /\ Len(w) + 1 - d \in Nat /\ Len(w) + 1 - d > 0
           /\ Len(Push(w, ev, Capacity)) = Len(w) + 1 - d
           /\ Push(w, ev, Capacity)[Len(w) + 1 - d] = ev
           /\ \A i \in 1 .. Len(w) - d :
                i + d \in 1 .. Len(w) /\ Push(w, ev, Capacity)[i] = w[i + d]
<1>0. Capacity \in Nat /\ Capacity > 0 /\ Len(w) \in Nat
  BY WatchableAssumption, LenProperties
<1>1. CASE Len(w) < Capacity
  <2>1. Push(w, ev, Capacity) = Append(w, ev)
    BY <1>1 DEF Push
  <2>2. /\ Append(w, ev) \in Seq(Event) /\ Len(Append(w, ev)) = Len(w) + 1
        /\ \A i \in 1 .. Len(w) : Append(w, ev)[i] = w[i]
        /\ Append(w, ev)[Len(w) + 1] = ev
    BY AppendProperties
  <2> DEFINE p == Append(w, ev)
  <2> HIDE DEF p
  <2>3. /\ p \in Seq(Event) /\ Len(p) = Len(w) + 1 - 0 /\ p[Len(w) + 1 - 0] = ev
        /\ \A i \in 1 .. Len(w) - 0 : i + 0 \in 1 .. Len(w) /\ p[i] = w[i + 0]
    BY <1>0, <2>2 DEF p
  <2> QED
    BY <1>0, <2>1, <2>3 DEF p
<1>2. CASE ~(Len(w) < Capacity)
  <2>1. Push(w, ev, Capacity) = Append(Tail(w), ev)
    BY <1>2 DEF Push
  <2>2. /\ Tail(w) \in Seq(Event) /\ Len(Tail(w)) = Len(w) - 1
        /\ \A i \in 1 .. Len(Tail(w)) : Tail(w)[i] = w[i + 1]
    BY <1>0, <1>2, HeadTailProperties, EmptySeq
  <2> DEFINE p == Append(Tail(w), ev)
  <2>3. /\ p \in Seq(Event) /\ Len(p) = Len(Tail(w)) + 1
        /\ \A i \in 1 .. Len(Tail(w)) : p[i] = Tail(w)[i]
        /\ p[Len(Tail(w)) + 1] = ev
    BY <2>2, AppendProperties
  <2> HIDE DEF p
  <2>4. /\ p \in Seq(Event) /\ Len(p) = Len(w) + 1 - 1 /\ p[Len(w) + 1 - 1] = ev
        /\ \A i \in 1 .. Len(w) - 1 : i + 1 \in 1 .. Len(w) /\ p[i] = w[i + 1]
    BY <1>0, <2>2, <2>3
  <2>5. Len(w) + 1 - 1 \in Nat /\ Len(w) + 1 - 1 > 0
    BY <1>0, <1>2
  <2> QED
    BY <1>0, <2>1, <2>4, <2>5 DEF p
<1> QED
  BY <1>1, <1>2


(* Pushing an event that leads on from the window's last of its key keeps the chain. *)
LEMMA PushChained ==
  ASSUME NEW w \in Seq(Event), NEW ev \in Event, Chained(w), Leads(w, ev)
  PROVE  Chained(Push(w, ev, Capacity))
<1> DEFINE p == Push(w, ev, Capacity)
<1>1. PICK s \in {0, 1} :
        /\ p \in Seq(Event) /\ Len(w) \in Nat
        /\ Len(w) + 1 - s \in Nat /\ Len(w) + 1 - s > 0
        /\ Len(p) = Len(w) + 1 - s /\ p[Len(w) + 1 - s] = ev
        /\ \A i \in 1 .. Len(w) - s : i + s \in 1 .. Len(w) /\ p[i] = w[i + s]
  BY PushShape
<1> HIDE DEF p
<1> SUFFICES ASSUME NEW i \in 1 .. Len(p), NEW j \in 1 .. Len(p), i < j,
                    p[i].Entry.Key = p[j].Entry.Key,
                    \A n \in i + 1 .. j - 1 : p[n].Entry.Key # p[j].Entry.Key
             PROVE  Follows(p[i], p[j])
  BY DEF Chained, p
<1>2. i \in 1 .. Len(w) - s /\ i + s \in 1 .. Len(w) /\ p[i] = w[i + s]
  BY <1>1
<1>3. CASE j = Len(w) + 1 - s
  <2>1. p[j] = ev
    BY <1>1, <1>3
  <2>2. ASSUME NEW h \in 1 .. Len(w), h > i + s PROVE w[h].Entry.Key # w[i + s].Entry.Key
    <3>1. h - s \in 1 .. Len(w) - s /\ h - s \in i + 1 .. j - 1 /\ (h - s) + s = h
      BY <1>1, <1>2, <1>3, <2>2
    <3>2. p[h - s] = w[h]
      BY <1>1, <3>1
    <3> QED
      BY <1>2, <3>1, <3>2
  <2>3. Latest(w, i + s)
    BY <2>2 DEF Latest
  <2> QED
    BY <1>2, <2>1, <2>3 DEF Leads
<1>4. CASE j # Len(w) + 1 - s
  <2>1. j \in 1 .. Len(w) - s /\ j + s \in 1 .. Len(w) /\ p[j] = w[j + s] /\ i + s < j + s
    BY <1>1, <1>4
  <2>2. ASSUME NEW h \in i + s + 1 .. j + s - 1 PROVE w[h].Entry.Key # w[j + s].Entry.Key
    <3>1. h - s \in 1 .. Len(w) - s /\ h - s \in i + 1 .. j - 1 /\ (h - s) + s = h
      BY <1>1, <1>2, <2>1
    <3>2. p[h - s] = w[h]
      BY <1>1, <3>1
    <3> QED
      BY <2>1, <3>1, <3>2
  <2>3. w[i + s].Entry.Key = w[j + s].Entry.Key
    BY <1>2, <2>1
  <2>4. Follows(w[i + s], w[j + s])
    BY <1>2, <2>1, <2>2, <2>3 DEF Chained
  <2> QED
    BY <1>2, <2>1, <2>4
<1> QED
  BY <1>3, <1>4

(* Pushing the event of a write makes the window tell of the key written. *)
LEMMA PushTells ==
  ASSUME NEW w \in Seq(Event), NEW ev \in Event, NEW d,
         Tells(w, d, Keys \ {ev.Entry.Key}), d[ev.Entry.Key] = Left(ev)
  PROVE  Tells(Push(w, ev, Capacity), d, Keys)
<1> DEFINE p == Push(w, ev, Capacity)
<1>1. PICK s \in {0, 1} :
        /\ p \in Seq(Event) /\ Len(w) \in Nat
        /\ Len(w) + 1 - s \in Nat /\ Len(w) + 1 - s > 0
        /\ Len(p) = Len(w) + 1 - s /\ p[Len(w) + 1 - s] = ev
        /\ \A i \in 1 .. Len(w) - s : i + s \in 1 .. Len(w) /\ p[i] = w[i + s]
  BY PushShape
<1> HIDE DEF p
<1> SUFFICES ASSUME NEW i \in 1 .. Len(p), Latest(p, i), p[i].Entry.Key \in Keys
             PROVE  d[p[i].Entry.Key] = Left(p[i])
  BY DEF Tells, p
<1>2. CASE i = Len(w) + 1 - s
  BY <1>1, <1>2
<1>3. CASE i \in 1 .. Len(w) - s
  <2>1. i + s \in 1 .. Len(w) /\ p[i] = w[i + s]
    BY <1>1, <1>3
  <2>2. Len(p) > i /\ Len(p) \in 1 .. Len(p)
    BY <1>1, <1>3
  <2>3. ev.Entry.Key # p[i].Entry.Key
    BY <1>1, <2>2 DEF Latest
  <2>4. ASSUME NEW j \in 1 .. Len(w), j > i + s
        PROVE  w[j].Entry.Key # w[i + s].Entry.Key
    <3>1. j - s \in 1 .. Len(w) - s /\ j - s > i /\ j - s \in 1 .. Len(p) /\ (j - s) + s = j
      BY <1>1, <2>4
    <3>2. p[j - s] = w[j]
      BY <1>1, <3>1
    <3> QED
      BY <2>1, <3>1, <3>2 DEF Latest
  <2>5. Latest(w, i + s)
    BY <2>4 DEF Latest
  <2> QED
    BY <2>1, <2>3, <2>5 DEF Tells
<1> QED
  BY <1>1, <1>2, <1>3

(* A commit makes its event from what the bucket holds. *)
LEMMA CommitChains ==
  ASSUME SingleWriter, TypeInv, ChainInv, NEW w \in Writers, NEW ev \in Event,
         pend[w] = NoEvent, pend' = [pend EXCEPT ![w] = ev], window' = window,
         data' = [data EXCEPT ![ev.Entry.Key] = Left(ev)],
         \A old \in Event : data[ev.Entry.Key] = Left(old) => Follows(old, ev)
  PROVE  ChainInv'
<1>0. /\ window \in Seq(Event) /\ pend \in [Writers -> Event \cup {NoEvent}]
      /\ DOMAIN data = Keys /\ ev.Entry.Key \in Keys /\ ev # NoEvent
      /\ Chained(window) /\ Tells(window, data, Keys)
  BY WatchableAssumption DEF TypeInv, WatchableTypeOK, BoltTypeOK, ChainInv, Event, Entry
<1>1. \A x \in Writers : x = w /\ pend'[x] = ev
  BY <1>0 DEF SingleWriter
<1>2. \A i \in 1 .. Len(window) : window[i] \in Event
  BY <1>0, ElementOfSeq
<1>3. Leads(window, ev)
  BY <1>0, <1>2 DEF Leads, Tells
<1>4. data'[ev.Entry.Key] = Left(ev)
  BY <1>0
<1>5. Tells(window, data', Keys \ {ev.Entry.Key})
  BY <1>0 DEF Tells
<1> QED
  BY <1>0, <1>1, <1>3, <1>4, <1>5 DEF ChainInv

(* With one writer every step keeps the chain of previous entries. *)
LEMMA ChainInvNext ==
  ASSUME SingleWriter
  PROVE  TypeInv /\ ChainInv /\ [WatchableNext]_wsVars => ChainInv'
<1> SUFFICES ASSUME TypeInv, ChainInv, [WatchableNext]_wsVars PROVE ChainInv'
  OBVIOUS
<1>0. /\ data \in [Keys -> Entry \cup {NoEntry}] /\ rev \in Nat /\ rev + 1 \in Nat
      /\ window \in Seq(Event) /\ pend \in [Writers -> Event \cup {NoEvent}]
      /\ \A k \in Keys : data[k] # NoEntry => data[k].Key = k
  BY DEF TypeInv, WatchableTypeOK, BoltInv, BoltTypeOK, RevisionDiscipline
<1>1. ASSUME NEW w \in Writers, NEW k \in Keys, NEW v \in Values, WatchablePut(w, k, v)
      PROVE  ChainInv'
  <2> DEFINE e == NewEntry(data[k], k, v, rev + 1)
             ev == PutEvent(data[k], k, v, rev + 1)
  <2>1. data[k] \in Entry \cup {NoEntry}
    BY <1>0
  <2>2. ev \in Event
    BY <1>0, <2>1, PutEventMut
  <2>3. e.Key = k
    BY DEF NewEntry
  <2>4. ev.Type = "PUT" /\ ev.Entry = e /\ ev.PrevEntry = data[k]
    BY DEF PutEvent
  <2>5. /\ pend[w] = NoEvent /\ pend' = [pend EXCEPT ![w] = ev] /\ window' = window
        /\ data' = [data EXCEPT ![k] = e]
    BY <1>1 DEF WatchablePut, Put
  <2> HIDE DEF e, ev
  <2>6. data' = [data EXCEPT ![ev.Entry.Key] = Left(ev)]
    BY <2>3, <2>4, <2>5 DEF Left
  <2>7. ASSUME NEW old \in Event, data[ev.Entry.Key] = Left(old) PROVE Follows(old, ev)
    <3>1. old.Type = "PUT" \/ old.Type = "DELETE"
      BY DEF Event
    <3> QED
      BY <2>3, <2>4, <2>7, <3>1 DEF Left, Follows
  <2> QED
    BY <2>2, <2>5, <2>6, <2>7, CommitChains
<1>2. ASSUME NEW w \in Writers, NEW k \in Keys, WatchableDelete(w, k)
      PROVE  ChainInv'
  <2> DEFINE e == DeletedEntry(data[k], rev + 1)
             ev == DeleteEvent(data[k], rev + 1)
  <2>1. data[k] \in Entry /\ data[k] # NoEntry /\ data[k].Key = k
    BY <1>0, <1>2 DEF WatchableDelete, Delete
  <2>2. ev \in Event /\ ev.Entry.Revision = rev + 1
    BY <1>0, <2>1, DeleteEventMut
  <2>3. e.Key = k
    BY <2>1 DEF DeletedEntry, Entry
  <2>4. ev.Type = "DELETE" /\ ev.Entry = e
    BY DEF DeleteEvent
  <2>5. /\ pend[w] = NoEvent /\ pend' = [pend EXCEPT ![w] = ev] /\ window' = window
        /\ data' = [data EXCEPT ![k] = NoEntry]
    BY <1>2 DEF WatchableDelete, Delete
  <2>6. e = DeletedEntry(data[k], ev.Entry.Revision)
    BY <2>2
  <2> HIDE DEF e, ev
  <2>7. data' = [data EXCEPT ![ev.Entry.Key] = Left(ev)]
    BY <2>3, <2>4, <2>5 DEF Left
  <2>8. ASSUME NEW old \in Event, data[ev.Entry.Key] = Left(old) PROVE Follows(old, ev)
    BY <2>1, <2>3, <2>4, <2>6, <2>8 DEF Left, Follows
  <2> QED
    BY <2>2, <2>5, <2>7, <2>8, CommitChains
<1>3. ASSUME UNCHANGED <<data, window, pend>> PROVE ChainInv'
  BY <1>3 DEF ChainInv
<1>4. ASSUME NEW w \in Writers, AppendPending(w) PROVE ChainInv'
  <2>1. /\ pend[w] \in Event /\ pend[w] # NoEvent /\ data' = data
        /\ window' = Push(window, pend[w], Capacity)
        /\ pend' = [pend EXCEPT ![w] = NoEvent]
    BY <1>0, <1>4 DEF AppendPending
  <2>2. \A x \in Writers : x = w /\ pend'[x] = NoEvent
    BY <1>0, <2>1 DEF SingleWriter
  <2>3. /\ Chained(window) /\ Leads(window, pend[w])
        /\ data[pend[w].Entry.Key] = Left(pend[w])
        /\ Tells(window, data, Keys \ {pend[w].Entry.Key})
    BY <2>1 DEF ChainInv
  <2>4. Chained(window')
    BY <1>0, <2>1, <2>3, PushChained
  <2>5. Tells(window', data', Keys)
    BY <1>0, <2>1, <2>3, PushTells
  <2> QED
    BY <2>2, <2>4, <2>5 DEF ChainInv
<1>5. ASSUME Stop PROVE ChainInv'
  <2>1. window' = <<>> /\ \A w \in Writers : pend'[w] = NoEvent
    BY <1>5 DEF Stop
  <2>2. Len(<<>>) = 0
    BY EmptySeq
  <2>3. Chained(window') /\ Tells(window', data', Keys)
    BY <2>1, <2>2 DEF Chained, Tells
  <2> QED
    BY <2>1, <2>3 DEF ChainInv
<1> QED
  BY <1>1, <1>2, <1>3, <1>4, <1>5
     DEF WatchableNext, Write, WatchablePutFails, WatchableDeleteFails, Restart, wsVars,
         PutCommitFails, DeleteCommitFails, NewBoltStore

(* watchable.go Put, Delete: with one writer, every event carries what the   *)
(* previous event of its key left behind, across failed commits, evictions   *)
(* and restarts: a watcher never sees a history of a key that has a gap.     *)
THEOREM PrevEntryChainsHolds ==
  ASSUME SingleWriter
  PROVE  WatchableSpec => []PrevEntryChains
<1>1. WatchableInit => TypeInv /\ ChainInv
  <2> SUFFICES ASSUME WatchableInit PROVE TypeInv /\ ChainInv
    OBVIOUS
  <2>1. BoltInv
    BY BoltInvInit DEF WatchableInit
  <2>2. TypeInv
    BY <2>1, WatchableAssumption DEF WatchableInit, TypeInv, WatchableTypeOK, BoltInv
  <2>3. window = <<>> /\ Len(<<>>) = 0 /\ \A w \in Writers : pend[w] = NoEvent
    BY EmptySeq DEF WatchableInit
  <2>4. ChainInv
    BY <2>3 DEF ChainInv, Chained, Tells
  <2> QED
    BY <2>2, <2>4
<1>2. TypeInv /\ ChainInv => PrevEntryChains
  <2> SUFFICES ASSUME TypeInv, ChainInv PROVE PrevEntryChains
    OBVIOUS
  <2>1. DOMAIN window = 1 .. Len(window)
    BY LenProperties DEF TypeInv, WatchableTypeOK
  <2> QED
    BY <2>1 DEF ChainInv, Chained, PrevEntryChains
<1>3. TypeInv /\ ChainInv /\ [WatchableNext]_wsVars => ChainInv'
  BY ChainInvNext
<1>4. QED
  BY <1>1, <1>2, <1>3, TypeInvNext, PTL DEF WatchableSpec
=============================================================================
