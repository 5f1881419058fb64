------------------------------ MODULE StoreOps ------------------------------
(***************************************************************************)
(* The data the store, its watch cache and its clients exchange, and the   *)
(* pure operations on it (store/store.go, store/bolt.go, store/watch.go).  *)
(* A key and a value are opaque; a watch prefix is the set of the keys     *)
(* that have it, so the empty prefix is the set of all keys.  JSON and     *)
(* big-endian encodings round-trip and are left out.  Revisions and        *)
(* versions are uint64 in the code; they grow by one per write and are     *)
(* natural numbers here.                                                   *)
(***************************************************************************)
EXTENDS Naturals, Sequences

CONSTANTS Keys,     \* the keys clients write
          Values,   \* the values they write
          NoEntry   \* the nil *Entry: the key is absent

(* store.Entry. *)
Entry == [Key : Keys, Value : Values, Revision : Nat,
          CreateRevision : Nat, ModRevision : Nat, Version : Nat]

ASSUME NoEntryAssumption == NoEntry \notin Entry

(* store.Event: what a watcher receives for one mutation. *)
Event == [Type : {"PUT", "DELETE"}, Entry : Entry,
          PrevEntry : Entry \cup {NoEntry}]

(* Mutant of NewEntry: an update restarts the key's life. *)
NewEntryResetsCreate(prev, k, v, newRev) ==
  [Key            |-> k,
   Value          |-> v,
   Revision       |-> newRev,
   CreateRevision |-> newRev,
   ModRevision    |-> newRev,
   Version        |-> IF prev = NoEntry THEN 1 ELSE prev.Version + 1]

(* The entry BoltStore.Put builds for key k and value v over the previous  *)
(* entry prev of k.                                                        *)
NewEntry(prev, k, v, newRev) ==
  [Key            |-> k,
   Value          |-> v,
   Revision       |-> newRev,
   CreateRevision |-> IF prev = NoEntry THEN newRev ELSE prev.CreateRevision,
   ModRevision    |-> newRev,
   Version        |-> IF prev = NoEntry THEN 1 ELSE prev.Version + 1]

(* The entry BoltStore.Delete returns: the removed one, whose Revision      *)
(* alone is overwritten.                                                    *)
DeletedEntry(prev, newRev) == [prev EXCEPT !.Revision = newRev]

(* Mutant of PutEvent: the previous entry is not passed on. *)
PutEventNoPrev(prev, k, v, newRev) ==
  [Type |-> "PUT", Entry |-> NewEntry(prev, k, v, newRev), PrevEntry |-> NoEntry]

(* The events WatchableStore.Put and WatchableStore.Delete append. *)
PutEvent(prev, k, v, newRev) ==
  [Type |-> "PUT", Entry |-> NewEntry(prev, k, v, newRev), PrevEntry |-> prev]

DeleteEvent(prev, newRev) ==
  [Type |-> "DELETE", Entry |-> DeletedEntry(prev, newRev), PrevEntry |-> NoEntry]

(* Mutant of Push: nothing is ever evicted. *)
PushKeepsAll(window, ev, capacity) == Append(window, ev)

(* What the ring buffer promises on an append: it keeps the most recent    *)
(* `capacity' events.                                                      *)
Push(window, ev, capacity) ==
  IF Len(window) < capacity THEN Append(window, ev) ELSE Append(Tail(window), ev)

(* getEventsLocked: the condition under which an event is returned. *)
Matches(ev, afterRev, prefix) ==
  ev.Entry.Revision > afterRev /\ ev.Entry.Key \in prefix

(* Mutant of Matching: the first revision after afterRev is skipped, too. *)
MatchingSkipsNext(window, afterRev, prefix) ==
  SelectSeq(window, LAMBDA ev : Matches(ev, afterRev + 1, prefix))

(* getEventsLocked: the events after a revision under a prefix, oldest     *)
(* first.  kept[n] is the result after n rounds of its loop.               *)
Matching(window, afterRev, prefix) ==
  LET kept[n \in 0 .. Len(window)] ==
        IF n = 0 THEN <<>>
        ELSE IF Matches(window[n], afterRev, prefix)
             THEN Append(kept[n - 1], window[n])
             ELSE kept[n - 1]
  IN  kept[Len(window)]
=============================================================================
