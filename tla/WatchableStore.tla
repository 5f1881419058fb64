--------------------------- MODULE WatchableStore ---------------------------
(***************************************************************************)
(* store/watchable.go: BoltStore and WatchCache put together.  A mutation  *)
(* is committed to BoltStore under its mutex and, after that mutex has     *)
(* been released, its event is appended to the watch cache: two steps of   *)
(* the writer, between which other writers, readers and a crash may come.  *)
(* In cluster mode the only writer is the Raft FSM goroutine; in           *)
(* standalone mode every HTTP PUT or DELETE is a writer of its own.        *)
(*                                                                         *)
(* The watch cache appears here as the window of recent events that the    *)
(* ring buffer of module WatchCache implements.                            *)
(***************************************************************************)
EXTENDS BoltStore

CONSTANTS Writers,    \* goroutines that write
          Capacity,   \* defaultWatchCacheSize
          NoEvent     \* the writer has no event to append

ASSUME WatchableAssumption == Capacity \in Nat \ {0} /\ NoEvent \notin Event

VARIABLES window,   \* the retained events, oldest first
          pend,     \* writer -> the event it has yet to append
          floor     \* history variable: the window holds nothing up to here

wsVars == <<data, meta, rev, open, hist, window, pend, floor>>

WatchableInit ==
  /\ BoltInit
  /\ window = <<>>
  /\ pend = [w \in Writers |-> NoEvent]
  /\ floor = 0

(* WatchableStore.Put up to the return of BoltStore.Put. *)
WatchablePut(w, k, v) ==
  /\ pend[w] = NoEvent
  /\ Put(k, v)
  /\ pend' = [pend EXCEPT ![w] = PutEvent(data[k], k, v, rev + 1)]
  /\ UNCHANGED <<window, floor>>

(* Mutant of WatchableDelete: a delete emits no event. *)
WatchableDeleteSilent(w, k) ==
  /\ pend[w] = NoEvent
  /\ Delete(k)
  /\ UNCHANGED <<window, pend, floor>>

(* WatchableStore.Delete up to the return of BoltStore.Delete. *)
WatchableDelete(w, k) ==
  /\ pend[w] = NoEvent
  /\ Delete(k)
  /\ pend' = [pend EXCEPT ![w] = DeleteEvent(data[k], rev + 1)]
  /\ UNCHANGED <<window, floor>>

(* The commit fails: the error is returned and no event is appended. *)
WatchablePutFails(w, k, v) ==
  /\ pend[w] = NoEvent
  /\ PutCommitFails(k, v)
  /\ UNCHANGED <<window, pend, floor>>

WatchableDeleteFails(w, k) ==
  /\ pend[w] = NoEvent
  /\ DeleteCommitFails(k)
  /\ UNCHANGED <<window, pend, floor>>

Evicted == IF Len(window) < Capacity THEN floor ELSE Head(window).Entry.Revision

(* The wc.Append of Put and Delete. *)
AppendPending(w) ==
  /\ open /\ pend[w] # NoEvent
  /\ window' = Push(window, pend[w], Capacity)
  /\ pend' = [pend EXCEPT ![w] = NoEvent]
  /\ floor' = IF Evicted > floor THEN Evicted ELSE floor
  /\ UNCHANGED <<data, meta, rev, open, hist>>

(* WatchableStore.Close, or the process stops: the window and the events    *)
(* that were not appended yet are gone.                                     *)
Stop ==
  /\ Close
  /\ window' = <<>>
  /\ pend' = [w \in Writers |-> NoEvent]
  /\ floor' = meta

(* NewBoltStore and NewWatchableStore on the same file. *)
Restart ==
  /\ NewBoltStore
  /\ UNCHANGED <<window, pend, floor>>

Write(w) ==
  \/ \E k \in Keys, v \in Values : WatchablePut(w, k, v) \/ WatchablePutFails(w, k, v)
  \/ \E k \in Keys : WatchableDelete(w, k) \/ WatchableDeleteFails(w, k)
  \/ AppendPending(w)

WatchableNext == (\E w \in Writers : Write(w)) \/ Stop \/ Restart

WatchableSpec == WatchableInit /\ [][WatchableNext]_wsVars
-----------------------------------------------------------------------------
(* Type invariant. *)
WatchableTypeOK ==
  /\ BoltTypeOK
  /\ window \in Seq(Event)
  /\ Len(window) <= Capacity
  /\ pend \in [Writers -> Event \cup {NoEvent}]
  /\ floor \in Nat

(* The mutation an event reports. *)
MutOf(ev) == Mut(ev.Entry.Revision, ev.Entry.Key, ev.Type, ev.Entry.Value)

InWindow == {MutOf(window[i]) : i \in DOMAIN window}

Pending == {MutOf(pend[w]) : w \in {x \in Writers : pend[x] # NoEvent}}

(* With one writer the window is exactly the most recent history: its       *)
(* events are in strict revision order, the event still to be appended is   *)
(* newer than all of them, and together they are the committed mutations    *)
(* above the floor, that is all but those evicted by newer ones or lost     *)
(* with an earlier process.                                                 *)
WindowOrdered ==
  \A i, j \in DOMAIN window :
    i < j => window[i].Entry.Revision < window[j].Entry.Revision

WindowIsRecent ==
  /\ WindowOrdered
  /\ \A w \in Writers : pend[w] # NoEvent =>
       /\ floor < pend[w].Entry.Revision
       /\ \A i \in DOMAIN window :
            window[i].Entry.Revision < pend[w].Entry.Revision
  /\ InWindow \cup Pending = {m \in hist : m.Rev > floor}

(* Event new can be the next event of its key after event old. *)
Follows(old, new) ==
  \/ old.Type = "DELETE" /\ new.Type = "PUT" /\ new.PrevEntry = NoEntry
  \/ old.Type = "PUT" /\ new.Type = "PUT" /\ new.PrevEntry = old.Entry
  \/ /\ old.Type = "PUT" /\ new.Type = "DELETE"
     /\ new.Entry = DeletedEntry(old.Entry, new.Entry.Revision)

(* An event says what its key held before: a PUT carries the entry that the *)
(* previous event of the same key in the window left behind, and none when  *)
(* that event was a DELETE (PrevEntry of WatchableStore.Put); a DELETE      *)
(* carries that entry itself, and never follows another DELETE.             *)
PrevEntryChains ==
  \A i, j \in DOMAIN window :
    /\ i < j
    /\ window[i].Entry.Key = window[j].Entry.Key
    /\ \A n \in i + 1 .. j - 1 : window[n].Entry.Key # window[j].Entry.Key
    => Follows(window[i], window[j])

(* store/store.go lines 25-27: asked for the events after revision N, the   *)
(* store "returns everything with Revision > N".  So no committed mutation  *)
(* is missing below an event that is already visible.                       *)
NoHoles ==
  \A i \in DOMAIN window, m \in hist :
    (floor < m.Rev /\ m.Rev < window[i].Entry.Revision) => m \in InWindow
=============================================================================
