----------------------------- MODULE WatchCache -----------------------------
(***************************************************************************)
(* store/watch.go: the ring buffer of recent events and the long-polling   *)
(* WaitForEvents.                                                          *)
(*                                                                         *)
(* Append, Close and one pass of WaitForEvents' loop run under wc.mu.  The *)
(* only place where another goroutine acts while a watcher holds wc.mu is  *)
(* between `go func()' and cond.Wait(): the timer goroutine broadcasts     *)
(* without the lock.  So the loop is split there: Arm starts the timer and *)
(* keeps the lock, Wait joins the condition's notify list and releases it. *)
(* A broadcast reaches the watchers that are on the notify list at that    *)
(* moment and nobody else.                                                 *)
(*                                                                         *)
(* The clock is one flag per call: its deadline has passed.  The timer is   *)
(* started with the time that remained, so it fires after the deadline.    *)
(* Unused ring slots hold Zero, the zero Event of make([]Event, capacity).  *)
(***************************************************************************)
EXTENDS StoreOps

CONSTANTS Watchers,   \* goroutines that call WaitForEvents
          Events,     \* the events that may be appended
          AfterRevs,  \* the afterRev arguments
          Prefixes,   \* the prefix arguments, each the set of its keys
          Capacity,   \* the size of the ring
          Zero,       \* the content of an unused slot
          Free,       \* wc.mu is not held
          MaxCount    \* bound: how many events are appended

ASSUME WatchAssumption ==
  /\ Capacity \in Nat \ {0}
  /\ MaxCount \in Nat
  /\ \A ev \in Events : ev.Entry.Key \in Keys /\ ev.Entry.Revision \in Nat
  /\ AfterRevs \subseteq Nat
  /\ Prefixes \subseteq SUBSET Keys
  /\ Zero \notin Events
  /\ Free \notin Watchers

VARIABLES buf,      \* wc.buf
          count,    \* wc.count: events appended so far
          closed,   \* wc.closed
          mu,       \* the watcher that holds wc.mu between its steps, or Free
          pc,       \* watcher -> "idle", "lock", "armed" or "waiting"
          call,     \* watcher -> the arguments of its call
          expired,  \* watcher -> the deadline of its call has passed
          timer,    \* watcher -> a timer goroutine of its call is running
          stray,    \* timer goroutines of abandoned waits may still broadcast
          result    \* watcher -> what its latest finished call returned

vars == <<buf, count, closed, mu, pc, call, expired, timer, stray, result>>

Calls == [after : AfterRevs, prefix : Prefixes]

Init == /\ buf = [i \in 0 .. Capacity - 1 |-> Zero]
        /\ count = 0
        /\ closed = FALSE
        /\ mu = Free
        /\ pc = [w \in Watchers |-> "idle"]
        /\ call \in [Watchers -> Calls]
        /\ expired = [w \in Watchers |-> FALSE]
        /\ timer = [w \in Watchers |-> FALSE]
        /\ stray = FALSE
        /\ result = [w \in Watchers |-> <<>>]

-----------------------------------------------------------------------------
(* Mutant of Oldest: one event too few is visited once the ring is full. *)
OldestSkipsOne == IF count > Capacity THEN count - Capacity + 1 ELSE 0

(* getEventsLocked: the ring holds events Oldest .. count - 1. *)
Oldest == IF count > Capacity THEN count - Capacity ELSE 0

(* The retained events in the order getEventsLocked visits them. *)
Window == [i \in 1 .. count - Oldest |-> buf[(Oldest + i - 1) % Capacity]]

GetEventsLocked(w) == Matching(Window, call[w].after, call[w].prefix)

(* cond.Broadcast: everybody on the notify list goes back for the lock. *)
Broadcast == [w \in Watchers |-> IF pc[w] = "waiting" THEN "lock" ELSE pc[w]]

(* Mutant of AppendEvent: the buffer grows instead of wrapping around. *)
AppendEventGrows(ev) ==
  /\ mu = Free /\ count < MaxCount
  /\ buf' = [i \in DOMAIN buf \cup {count} |-> IF i = count THEN ev ELSE buf[i]]
  /\ count' = count + 1
  /\ pc' = Broadcast
  /\ UNCHANGED <<closed, mu, call, expired, timer, stray, result>>

(* Mutant of AppendEvent: no broadcast. *)
AppendEventSilent(ev) ==
  /\ mu = Free /\ count < MaxCount
  /\ buf' = [buf EXCEPT ![count % Capacity] = ev]
  /\ count' = count + 1
  /\ UNCHANGED <<closed, mu, pc, call, expired, timer, stray, result>>

(* WatchCache.Append *)
AppendEvent(ev) ==
  /\ mu = Free /\ count < MaxCount
  /\ buf' = [buf EXCEPT ![count % Capacity] = ev]
  /\ count' = count + 1
  /\ pc' = Broadcast
  /\ UNCHANGED <<closed, mu, call, expired, timer, stray, result>>

(* Mutant of Close: no broadcast. *)
CloseSilent ==
  /\ mu = Free
  /\ closed' = TRUE
  /\ UNCHANGED <<buf, count, mu, pc, call, expired, timer, stray, result>>

(* WatchCache.Close *)
Close ==
  /\ mu = Free
  /\ closed' = TRUE
  /\ pc' = Broadcast
  /\ UNCHANGED <<buf, count, mu, call, expired, timer, stray, result>>

(* WaitForEvents is called: the deadline is set, the lock is wanted. *)
Call(w, c) ==
  /\ pc[w] = "idle"
  /\ pc' = [pc EXCEPT ![w] = "lock"]
  /\ call' = [call EXCEPT ![w] = c]
  /\ expired' = [expired EXCEPT ![w] = FALSE]
  /\ result' = [result EXCEPT ![w] = <<>>]
  /\ UNCHANGED <<buf, count, closed, mu, timer, stray>>

(* The deadline of w's call passes. *)
Deadline(w) ==
  /\ pc[w] # "idle" /\ ~expired[w]
  /\ expired' = [expired EXCEPT ![w] = TRUE]
  /\ UNCHANGED <<buf, count, closed, mu, pc, call, timer, stray, result>>

(* close(done) after cond.Wait returned: the timer goroutine of that wait   *)
(* ends, or has its timer ready too and chooses to broadcast later.         *)
AbandonTimer(w) ==
  /\ timer' = [timer EXCEPT ![w] = FALSE]
  /\ stray' \in (IF timer[w] THEN {stray, TRUE} ELSE {stray})

(* The three returns of the loop.  The lock is taken and released within.   *)
ReturnClosed(w) ==
  /\ pc[w] = "lock" /\ mu = Free
  /\ closed
  /\ AbandonTimer(w)
  /\ pc' = [pc EXCEPT ![w] = "idle"]
  /\ result' = [result EXCEPT ![w] = <<>>]
  /\ UNCHANGED <<buf, count, closed, mu, call, expired>>

ReturnEvents(w) ==
  /\ pc[w] = "lock" /\ mu = Free
  /\ ~closed /\ GetEventsLocked(w) # <<>>
  /\ AbandonTimer(w)
  /\ pc' = [pc EXCEPT ![w] = "idle"]
  /\ result' = [result EXCEPT ![w] = GetEventsLocked(w)]
  /\ UNCHANGED <<buf, count, closed, mu, call, expired>>

ReturnTimeout(w) ==
  /\ pc[w] = "lock" /\ mu = Free
  /\ ~closed /\ GetEventsLocked(w) = <<>> /\ expired[w]
  /\ AbandonTimer(w)
  /\ pc' = [pc EXCEPT ![w] = "idle"]
  /\ result' = [result EXCEPT ![w] = <<>>]
  /\ UNCHANGED <<buf, count, closed, mu, call, expired>>

(* Nothing to return yet: start the timer goroutine, still holding wc.mu. *)
Arm(w) ==
  /\ pc[w] = "lock" /\ mu = Free
  /\ ~closed /\ GetEventsLocked(w) = <<>> /\ ~expired[w]
  /\ mu' = w
  /\ pc' = [pc EXCEPT ![w] = "armed"]
  /\ timer' = [timer EXCEPT ![w] = TRUE]
  /\ stray' \in (IF timer[w] THEN {stray, TRUE} ELSE {stray})
  /\ UNCHANGED <<buf, count, closed, call, expired, result>>

(* cond.Wait: join the notify list, release wc.mu. *)
Wait(w) ==
  /\ pc[w] = "armed"
  /\ mu' = Free
  /\ pc' = [pc EXCEPT ![w] = "waiting"]
  /\ UNCHANGED <<buf, count, closed, call, expired, timer, stray, result>>

(* Mutant of TimerFire: the timer goroutine ends without a broadcast. *)
TimerFireSilent(w) ==
  /\ timer[w] /\ expired[w]
  /\ timer' = [timer EXCEPT ![w] = FALSE]
  /\ UNCHANGED <<buf, count, closed, mu, pc, call, expired, stray, result>>

(* The timer goroutine broadcasts; it does not take wc.mu. *)
TimerFire(w) ==
  /\ timer[w] /\ expired[w]
  /\ timer' = [timer EXCEPT ![w] = FALSE]
  /\ pc' = Broadcast
  /\ UNCHANGED <<buf, count, closed, mu, call, expired, stray, result>>

(* A timer goroutine whose wait was abandoned broadcasts after all; there   *)
(* may be more of them.                                                     *)
StrayFire ==
  /\ stray
  /\ stray' \in BOOLEAN
  /\ pc' = Broadcast
  /\ UNCHANGED <<buf, count, closed, mu, call, expired, timer, result>>

(* One pass of the loop once w has the lock. *)
Pass(w) == ReturnClosed(w) \/ ReturnEvents(w) \/ ReturnTimeout(w) \/ Arm(w)

Next ==
  \/ \E ev \in Events : AppendEvent(ev)
  \/ Close
  \/ \E w \in Watchers :
       \/ \E c \in Calls : Call(w, c)
       \/ Deadline(w)
       \/ Pass(w)
       \/ Wait(w)
       \/ TimerFire(w)
  \/ StrayFire

(* Go's mutex hands the lock over to a waiter it has starved (strong         *)
(* fairness of Pass), a runnable goroutine eventually runs, and time passes. *)
Fairness == \A w \in Watchers : /\ SF_vars(Pass(w))
                                /\ WF_vars(Wait(w))
                                /\ WF_vars(TimerFire(w))
                                /\ WF_vars(Deadline(w))

Spec == Init /\ [][Next]_vars

FairSpec == Spec /\ Fairness
-----------------------------------------------------------------------------
PcValues == {"idle", "lock", "armed", "waiting"}

(* Type invariant. *)
TypeOK ==
  /\ buf \in [0 .. Capacity - 1 -> Events \cup {Zero}]
  /\ count \in Nat
  /\ closed \in BOOLEAN
  /\ mu \in Watchers \cup {Free}
  /\ pc \in [Watchers -> PcValues]
  /\ call \in [Watchers -> Calls]
  /\ expired \in [Watchers -> BOOLEAN]
  /\ timer \in [Watchers -> BOOLEAN]
  /\ stray \in BOOLEAN
  /\ DOMAIN result = Watchers

(* No missed wakeup: a watcher asleep on the condition (or on its way into  *)
(* cond.Wait with the lock) has nothing to return, so no Append and no      *)
(* Close slipped between its check of the ring and its wait.                *)
NoMissedWakeup ==
  \A w \in Watchers : pc[w] \in {"armed", "waiting"} =>
    ~closed /\ GetEventsLocked(w) = <<>>

(* The ring buffer with its lock, condition variable and timers implements  *)
(* the window of the most recent events: every return hands over exactly    *)
(* the matching events of the window, in order, or nothing because of a     *)
(* close or a timeout.                                                      *)
Abstract == INSTANCE EventWindow WITH
              window <- Window,
              waiting <- [w \in Watchers |-> pc[w] # "idle"]

ImplementsEventWindow == Abstract!Spec

(* An event in the ring is not waited for: a call with a matching event     *)
(* keeps returning, or the event is overwritten first.                      *)
EventsAreDelivered ==
  \A w \in Watchers : []<>(pc[w] = "idle" \/ GetEventsLocked(w) = <<>>)

(* After Close every WaitForEvents call returns. *)
CloseReleasesWatchers ==
  \A w \in Watchers : []<>(pc[w] = "idle" \/ ~closed)

(* The timeout works for a watcher that sleeps on the condition with its    *)
(* timer still running when the deadline passes: the broadcast is not lost. *)
TimerWakesSleeper ==
  \A w \in Watchers :
    (pc[w] = "waiting" /\ timer[w] /\ expired[w]) ~> (pc[w] = "idle")

(* store/watch.go lines 74-75: WaitForEvents blocks until there are events  *)
(* "or until the timeout expires".                                          *)
TimeoutReturns ==
  \A w \in Watchers : []<>(pc[w] = "idle" \/ ~expired[w])
=============================================================================
