----------------------------- MODULE EventWindow -----------------------------
(***************************************************************************)
(* What the watch cache promises its callers, without the ring buffer, the *)
(* mutex, the condition variable and the timer goroutines: a window of the *)
(* most recent events, and calls that return the matching events, or       *)
(* nothing once the cache is closed or the deadline has passed with no     *)
(* match.  store/watch.go's comments state this contract; WatchCache       *)
(* implements it.                                                          *)
(***************************************************************************)
EXTENDS StoreOps

CONSTANTS Watchers, Events, AfterRevs, Prefixes, Capacity

VARIABLES window,   \* the retained events, oldest first
          closed,   \* Close was called
          waiting,  \* watcher -> a WaitForEvents call is in progress
          call,     \* watcher -> the arguments of its latest call
          expired,  \* watcher -> the deadline of that call has passed
          result    \* watcher -> what its latest finished call returned

wvars == <<window, closed, waiting, call, expired, result>>

Calls == [after : AfterRevs, prefix : Prefixes]

Init == /\ window = <<>>
        /\ closed = FALSE
        /\ waiting = [w \in Watchers |-> FALSE]
        /\ call \in [Watchers -> Calls]
        /\ expired = [w \in Watchers |-> FALSE]
        /\ result = [w \in Watchers |-> <<>>]

(* The events the call of w is waiting for. *)
Wanted(w) == Matching(window, call[w].after, call[w].prefix)

Add(ev) == /\ window' = Push(window, ev, Capacity)
           /\ UNCHANGED <<closed, waiting, call, expired, result>>

Shut == /\ closed' = TRUE
        /\ UNCHANGED <<window, waiting, call, expired, result>>

Begin(w, c) == /\ ~waiting[w]
               /\ waiting' = [waiting EXCEPT ![w] = TRUE]
               /\ call' = [call EXCEPT ![w] = c]
               /\ expired' = [expired EXCEPT ![w] = FALSE]
               /\ result' = [result EXCEPT ![w] = <<>>]
               /\ UNCHANGED <<window, closed>>

Expire(w) == /\ waiting[w]
             /\ expired' = [expired EXCEPT ![w] = TRUE]
             /\ UNCHANGED <<window, closed, waiting, call, result>>

(* A call returns every matching event of the window at one moment, or      *)
(* nothing because the cache is closed or because it expired with no match. *)
Finish(w) == /\ waiting[w]
             /\ waiting' = [waiting EXCEPT ![w] = FALSE]
             /\ \/ closed /\ result' = [result EXCEPT ![w] = <<>>]
                \/ /\ ~closed
                   /\ Wanted(w) # <<>> \/ expired[w]
                   /\ result' = [result EXCEPT ![w] = Wanted(w)]
             /\ UNCHANGED <<window, closed, call, expired>>

Next == \/ \E ev \in Events : Add(ev)
        \/ Shut
        \/ \E w \in Watchers : \/ \E c \in Calls : Begin(w, c)
                               \/ Expire(w)
                               \/ Finish(w)

Spec == Init /\ [][Next]_wvars
=============================================================================
