------------------------------ MODULE ClientLoop ------------------------------
(***************************************************************************)
(* sdk/client.go from the application's side: the goroutines that share    *)
(* c.mu.  The watch loop polls, applies a batch of events under the write  *)
(* lock and runs the OnChange callbacks in there; application goroutines   *)
(* call Get, GetAll, OnChange and Close at any time.  A callback may call  *)
(* back into the client, with the lock held by its own goroutine.          *)
(*                                                                         *)
(* What the server sends, and how the cursor, the cache file and a restart *)
(* interact, is in SDKClient.  Here the server sends the next events in    *)
(* order; event number r gives its key the value r, so that two states of  *)
(* the map never look alike.                                               *)
(***************************************************************************)
EXTENDS RWMutex, Naturals, Sequences, FiniteSets, SequencesExt

CONSTANTS Keys,
          Apps,          \* application goroutines
          Loop,          \* the watchLoop goroutine
          Callbacks,     \* the functions passed to OnChange
          Reentrant,     \* those that call a method of the client
          AnyKey,        \* OnChange's key ""
          PollTimeouts,  \* values of Config.PollTimeout, in milliseconds
          MaxRev         \* bound: events the server sends

ASSUME LoopAssumption ==
  /\ Loop \notin Apps
  /\ Nobody \notin Apps \cup {Loop}
  /\ Reentrant \subseteq Callbacks
  /\ AnyKey \notin Keys
  /\ PollTimeouts \subseteq Nat
  /\ MaxRev \in Nat

VARIABLES lpc,          \* where watchLoop is
          pollTimeout,  \* c.config.PollTimeout
          cancelled,    \* c.ctx is done
          configs,      \* c.configs; 0 is an absent key
          revision,     \* c.revision
          watchers,     \* c.watchers: key -> its callbacks
          batch,        \* events of the response not applied yet
          next,         \* the revision of the response
          todo,         \* callbacks to run for the event just applied
          call,         \* application goroutine -> the call it is in
          closed,       \* history variable: a Close has returned
          applied,      \* history variable: [key, old, new] of every event
          views,        \* history variable: the map after every batch
          regAt,        \* history variable: Len(applied) when a callback
                        \* was registered
          notified,     \* history variable: what each callback was told
          failed        \* history variable: the last poll failed and the
                        \* loop has not slept since

dataVars == <<configs, revision, watchers, batch, next, todo>>
histVars == <<closed, applied, views, regAt, notified>>
loopVars == <<lockVars, lpc, pollTimeout, cancelled, dataVars, call, histVars, failed>>

Idle == [op |-> "idle"]

(* New: a zero PollTimeout becomes 30 seconds.  The full pull is done. *)
LoopInit ==
  /\ LockInit
  /\ lpc = "top"
  /\ pollTimeout \in {IF t = 0 THEN 30000 ELSE t : t \in PollTimeouts}
  /\ cancelled = FALSE
  /\ configs = [k \in Keys |-> 0]
  /\ revision = 0
  /\ watchers = [k \in Keys \cup {AnyKey} |-> <<>>]
  /\ batch = <<>>
  /\ next = 0
  /\ todo = <<>>
  /\ call = [a \in Apps |-> Idle]
  /\ closed = FALSE
  /\ applied = <<>>
  /\ views = <<[n |-> 0, configs |-> [k \in Keys |-> 0]]>>
  /\ regAt = [f \in Callbacks |-> 0]
  /\ notified = [f \in Callbacks |-> <<>>]
  /\ failed = FALSE

-----------------------------------------------------------------------------
(* The watch loop. *)

(* The select at the top: return when the context is done. *)
LoopExit ==
  /\ lpc = "top" /\ cancelled
  /\ lpc' = "exited"
  /\ UNCHANGED <<lockVars, pollTimeout, cancelled, dataVars, call, histVars, failed>>

(* The three places where the loop reads under c.mu: the revision to ask     *)
(* for, the copy for the cache file, and the number of configs.              *)
Section == [top |-> "revision", save |-> "file", count |-> "configs"]
After == [revision |-> "poll", file |-> "count", configs |-> "respond"]

LoopRLock ==
  /\ lpc \in DOMAIN Section
  /\ lpc = "top" => ~cancelled
  /\ RLock(Loop)
  /\ lpc' = Section[lpc]
  /\ UNCHANGED <<pollTimeout, cancelled, dataVars, call, histVars, failed>>

(* saveToCache without a CacheDir. *)
NoCache ==
  /\ lpc = "save"
  /\ lpc' = "count"
  /\ UNCHANGED <<lockVars, pollTimeout, cancelled, dataVars, call, histVars, failed>>

(* Mutant of LoopRUnlock: saveToCache returns without RUnlock. *)
LoopRUnlockForgotten ==
  /\ lpc \in DOMAIN After
  /\ Loop \in readers
  /\ IF lpc = "file" THEN UNCHANGED lockVars ELSE RUnlock(Loop)
  /\ lpc' = After[lpc]
  /\ UNCHANGED <<pollTimeout, cancelled, dataVars, call, histVars, failed>>

LoopRUnlock ==
  /\ lpc \in DOMAIN After
  /\ RUnlock(Loop)
  /\ lpc' = After[lpc]
  /\ UNCHANGED <<pollTimeout, cancelled, dataVars, call, histVars, failed>>

(* handleWatch refuses a timeout of no whole second. *)
Accepted == pollTimeout \div 1000 > 0

(* c.client.Get fails, or its own timeout ends it.  It does not know c.ctx. *)
PollError ==
  /\ lpc = "poll"
  /\ lpc' = "backoff"
  /\ failed' = TRUE
  /\ UNCHANGED <<lockVars, pollTimeout, cancelled, dataVars, call, histVars>>

(* sleep: the backoff is over, or the context is done. *)
BackoffOver ==
  /\ lpc = "backoff"
  /\ lpc' = "top"
  /\ failed' = FALSE
  /\ UNCHANGED <<lockVars, pollTimeout, cancelled, dataVars, call, histVars>>

(* The body does not decode: continue, without sleep. *)
PollGarbage ==
  /\ lpc = "poll"
  /\ lpc' = "top"
  /\ failed' = TRUE
  /\ UNCHANGED <<lockVars, pollTimeout, cancelled, dataVars, call, histVars>>

(* The server refuses the request.  The loop does not look at the status:    *)
(* the JSON error decodes to a response without events and revision.         *)
PollRefused ==
  /\ lpc = "poll" /\ ~Accepted
  /\ lpc' = "top"
  /\ failed' = TRUE
  /\ UNCHANGED <<lockVars, pollTimeout, cancelled, dataVars, call, histVars>>

(* The server deletes only what is there. *)
Sendable(es) ==
  \A i \in DOMAIN es : es[i].type = "DELETE" =>
    \/ configs[es[i].key] # 0
    \/ \E j \in 1 .. i - 1 : es[j].key = es[i].key

(* A response with the events es, of the revisions after the current one.    *)
PollAnswer(es) ==
  /\ lpc = "poll" /\ Accepted /\ Sendable(es)
  /\ revision + Len(es) <= MaxRev
  /\ batch' = es
  /\ next' = revision + Len(es)
  /\ lpc' = IF es = <<>> THEN "respond" ELSE "apply"
  /\ failed' = FALSE
  /\ UNCHANGED <<lockVars, pollTimeout, cancelled, configs, revision, watchers, todo,
                 call, histVars>>

ApplyLock ==
  /\ lpc = "apply"
  /\ Announce(Loop)
  /\ lpc' = "applying"
  /\ UNCHANGED <<pollTimeout, cancelled, dataVars, call, histVars, failed>>

(* Mutant of ApplyEnter: the map is changed under a lock that lets readers   *)
(* stay inside.                                                              *)
ApplyEnterShared ==
  /\ lpc = "applying"
  /\ announced = Loop
  /\ writer' = Loop
  /\ announced' = Nobody
  /\ UNCHANGED <<readers, blocked>>
  /\ UNCHANGED <<lpc, pollTimeout, cancelled, dataVars, call, histVars, failed>>

ApplyEnter ==
  /\ lpc = "applying"
  /\ Enter(Loop)
  /\ UNCHANGED <<lpc, pollTimeout, cancelled, dataVars, call, histVars, failed>>

(* Mutant of ApplyEvent: the callbacks of "" are forgotten. *)
ApplyEventKeyOnly ==
  /\ lpc = "applying" /\ writer = Loop
  /\ todo = <<>> /\ batch # <<>>
  /\ LET e == Head(batch)
         r == next - Len(batch) + 1
         change == [key |-> e.key, old |-> configs[e.key],
                    new |-> IF e.type = "PUT" THEN r ELSE 0]
     IN  /\ configs' = [configs EXCEPT ![e.key] = change.new]
         /\ applied' = Append(applied, change)
         /\ todo' = watchers[e.key]
  /\ batch' = Tail(batch)
  /\ UNCHANGED <<lockVars, lpc, pollTimeout, cancelled, revision, watchers, next, call,
                 closed, views, regAt, notified, failed>>

(* applyEvents, one event up to its callbacks: those of the key first, then  *)
(* those of "".                                                              *)
ApplyEvent ==
  /\ lpc = "applying" /\ writer = Loop
  /\ todo = <<>> /\ batch # <<>>
  /\ LET e == Head(batch)
         r == next - Len(batch) + 1
         change == [key |-> e.key, old |-> configs[e.key],
                    new |-> IF e.type = "PUT" THEN r ELSE 0]
     IN  /\ configs' = [configs EXCEPT ![e.key] = change.new]
         /\ applied' = Append(applied, change)
         /\ todo' = watchers[e.key] \o watchers[AnyKey]
  /\ batch' = Tail(batch)
  /\ UNCHANGED <<lockVars, lpc, pollTimeout, cancelled, revision, watchers, next, call,
                 closed, views, regAt, notified, failed>>

(* fn(key, oldVal, newVal) returns. *)
RunCallback ==
  /\ lpc = "applying" /\ todo # <<>>
  /\ notified' = [notified EXCEPT ![Head(todo)] = Append(@, Last(applied))]
  /\ todo' = Tail(todo)
  /\ UNCHANGED <<lockVars, lpc, pollTimeout, cancelled, configs, revision, watchers,
                 batch, next, call, closed, applied, views, regAt, failed>>

(* fn calls back into the client: Get and GetAll join the blocked readers,   *)
(* OnChange waits for the announced writers, Close cancels and waits for the *)
(* loop.  All three wait for the goroutine they run on.                      *)
Reenter ==
  /\ lpc = "applying" /\ todo # <<>> /\ Head(todo) \in Reentrant
  /\ \/ RLock(Loop) /\ UNCHANGED cancelled
     \/ UNCHANGED <<lockVars, cancelled>>
     \/ cancelled' = TRUE /\ UNCHANGED lockVars
  /\ lpc' = "stuck"
  /\ UNCHANGED <<pollTimeout, dataVars, call, histVars, failed>>

ApplyUnlock ==
  /\ lpc = "applying" /\ writer = Loop
  /\ batch = <<>> /\ todo = <<>>
  /\ Unlock(Loop)
  /\ views' = Append(views, [n |-> Len(applied), configs |-> configs])
  /\ lpc' = "save"
  /\ UNCHANGED <<pollTimeout, cancelled, dataVars, call, closed, applied, regAt,
                 notified, failed>>

(* wr.Revision > 0: c.revision = wr.Revision under the lock. *)
AdoptLock ==
  /\ lpc = "respond"
  /\ IF next > 0 THEN Announce(Loop) /\ lpc' = "adopting"
                 ELSE UNCHANGED lockVars /\ lpc' = "top"
  /\ UNCHANGED <<pollTimeout, cancelled, dataVars, call, histVars, failed>>

(* Mutant of AdoptRevision: the next poll asks for events after the next one. *)
AdoptRevisionOffByOne ==
  /\ lpc = "adopting"
  /\ EnterAndUnlock(Loop)
  /\ revision' = next + 1
  /\ lpc' = "top"
  /\ UNCHANGED <<pollTimeout, cancelled, configs, watchers, batch, next, todo, call,
                 histVars, failed>>

AdoptRevision ==
  /\ lpc = "adopting"
  /\ EnterAndUnlock(Loop)
  /\ revision' = next
  /\ lpc' = "top"
  /\ UNCHANGED <<pollTimeout, cancelled, configs, watchers, batch, next, todo, call,
                 histVars, failed>>
-----------------------------------------------------------------------------
(* The application. *)

(* Get (one key) and GetAll (all keys): RLock, then the keys one by one.     *)
CallRead(a, S) ==
  /\ call[a] = Idle
  /\ RLock(a)
  /\ call' = [call EXCEPT ![a] = [op |-> "read", left |-> S, got |-> [k \in {} |-> 0],
                                  told |-> Len(applied)]]
  /\ UNCHANGED <<lpc, pollTimeout, cancelled, dataVars, histVars, failed>>

CopyKey(a, k) ==
  /\ a \in readers /\ call[a].op = "read" /\ k \in call[a].left
  /\ call' = [call EXCEPT ![a].left = @ \ {k},
                          ![a].got = [j \in DOMAIN @ \cup {k} |-> IF j = k THEN configs[k] ELSE @[j]]]
  /\ UNCHANGED <<lockVars, lpc, pollTimeout, cancelled, dataVars, histVars, failed>>

ReturnRead(a) ==
  /\ call[a].op = "read" /\ call[a].left = {}
  /\ RUnlock(a)
  /\ call' = [call EXCEPT ![a] = Idle]
  /\ UNCHANGED <<lpc, pollTimeout, cancelled, dataVars, histVars, failed>>

Registered == UNION {ToSet(watchers[k]) : k \in DOMAIN watchers}

InOnChange == {call[a].fn : a \in {b \in Apps : call[b].op \in {"onchange", "register"}}}

CallOnChange(a, k, f) ==
  /\ call[a] = Idle
  /\ f \notin Registered \cup InOnChange
  /\ call' = [call EXCEPT ![a] = [op |-> "onchange", key |-> k, fn |-> f]]
  /\ UNCHANGED <<lockVars, lpc, pollTimeout, cancelled, dataVars, histVars, failed>>

OnChangeLock(a) ==
  /\ call[a].op = "onchange"
  /\ Announce(a)
  /\ call' = [call EXCEPT ![a].op = "register"]
  /\ UNCHANGED <<lpc, pollTimeout, cancelled, dataVars, histVars, failed>>

OnChange(a) ==
  /\ call[a].op = "register"
  /\ EnterAndUnlock(a)
  /\ watchers' = [watchers EXCEPT ![call[a].key] = Append(@, call[a].fn)]
  /\ regAt' = [regAt EXCEPT ![call[a].fn] = Len(applied)]
  /\ call' = [call EXCEPT ![a] = Idle]
  /\ UNCHANGED <<lpc, pollTimeout, cancelled, configs, revision, batch, next, todo,
                 closed, applied, views, notified, failed>>

(* Close: cancel, then wait for the loop. *)
CallClose(a) ==
  /\ call[a] = Idle
  /\ cancelled' = TRUE
  /\ call' = [call EXCEPT ![a] = [op |-> "close"]]
  /\ UNCHANGED <<lockVars, lpc, pollTimeout, dataVars, histVars, failed>>

(* Mutant of ReturnClose: Close does not wait for the loop. *)
ReturnCloseAtOnce(a) ==
  /\ call[a].op = "close"
  /\ call' = [call EXCEPT ![a] = Idle]
  /\ closed' = TRUE
  /\ UNCHANGED <<lockVars, lpc, pollTimeout, cancelled, dataVars, applied, views, regAt,
                 notified, failed>>

ReturnClose(a) ==
  /\ call[a].op = "close" /\ lpc = "exited"
  /\ call' = [call EXCEPT ![a] = Idle]
  /\ closed' = TRUE
  /\ UNCHANGED <<lockVars, lpc, pollTimeout, cancelled, dataVars, applied, views, regAt,
                 notified, failed>>
-----------------------------------------------------------------------------
Change == [type : {"PUT", "DELETE"}, key : Keys]

(* A response holds one or two events here. *)
Responses == {<<>>} \cup {<<e>> : e \in Change} \cup (Change \X Change)

Poll == PollError \/ PollGarbage \/ PollRefused \/ \E es \in Responses : PollAnswer(es)

LoopStep ==
  \/ LoopExit \/ LoopRLock \/ NoCache \/ LoopRUnlock \/ Poll \/ BackoffOver
  \/ ApplyLock \/ ApplyEnter \/ ApplyEvent \/ RunCallback \/ ApplyUnlock
  \/ AdoptLock \/ AdoptRevision

(* What moves a call of a on, other than the lock's own queue of writers. *)
AppStep(a) ==
  \/ ReturnRead(a) \/ OnChange(a) \/ ReturnClose(a)
  \/ \E k \in Keys : CopyKey(a, k)

LoopNext ==
  \/ LoopStep \/ Reenter
  \/ \E a \in Apps :
       \/ \E S \in {{k} : k \in Keys} \cup {Keys} : CallRead(a, S)
       \/ \E k \in Keys \cup {AnyKey}, f \in Callbacks : CallOnChange(a, k, f)
       \/ OnChangeLock(a) \/ CallClose(a) \/ AppStep(a)

LoopSpec == LoopInit /\ [][LoopNext]_loopVars

(* Goroutines run; a poll ends, since the HTTP client has a timeout; Go's    *)
(* mutex hands itself over to a writer that has waited too long, so OnChange *)
(* has its turn although the loop keeps locking.                             *)
LoopFairness ==
  /\ WF_loopVars(LoopStep)
  /\ \A a \in Apps : WF_loopVars(AppStep(a)) /\ SF_loopVars(OnChangeLock(a))

LoopFairSpec == LoopSpec /\ LoopFairness
-----------------------------------------------------------------------------
LoopPCs == {"top", "revision", "poll", "backoff", "apply", "applying", "save", "file",
            "count", "configs", "respond", "adopting", "stuck", "exited"}

Views == [Keys -> 0 .. MaxRev]

Told == [key : Keys, old : 0 .. MaxRev, new : 0 .. MaxRev]

Call == {Idle} \cup [op : {"close"}]
          \cup [op : {"onchange", "register"}, key : Keys \cup {AnyKey}, fn : Callbacks]
          \cup [op : {"read"}, left : SUBSET Keys,
                got : UNION {[S -> 0 .. MaxRev] : S \in SUBSET Keys},
                told : 0 .. MaxRev]

(* Type invariant. *)
LoopTypeOK ==
  /\ writer \in {Loop, Nobody}
  /\ announced \in Apps \cup {Loop, Nobody}
  /\ readers \subseteq Apps \cup {Loop}
  /\ blocked \subseteq Apps \cup {Loop}
  /\ lpc \in LoopPCs
  /\ pollTimeout \in Nat
  /\ cancelled \in BOOLEAN
  /\ configs \in Views
  /\ revision \in 0 .. MaxRev
  /\ watchers \in [Keys \cup {AnyKey} -> Seq(Callbacks)]
  /\ batch \in Seq(Change)
  /\ next \in 0 .. MaxRev
  /\ todo \in Seq(Callbacks)
  /\ call \in [Apps -> Call]
  /\ closed \in BOOLEAN
  /\ applied \in Seq(Told)
  /\ views \in Seq([n : 0 .. MaxRev, configs : Views])
  /\ regAt \in [Callbacks -> 0 .. MaxRev]
  /\ notified \in [Callbacks -> Seq(Told)]
  /\ failed \in BOOLEAN

(* What Get and GetAll return is the map between two batches, never in the   *)
(* middle of one, and never older than what a callback had been told when    *)
(* the call was made: an application that is told of a change and then reads *)
(* finds it, together with the rest of its batch.                            *)
ReadsAreWholeBatches ==
  \A a \in Apps : (call[a].op = "read" /\ call[a].left = {}) =>
    \E i \in DOMAIN views :
      /\ views[i].n >= call[a].told
      /\ \A k \in DOMAIN call[a].got : call[a].got[k] = views[i].configs[k]

(* The changes of s after the first n to the keys K. *)
Since(s, n, K) ==
  LET due[i \in 0 .. Len(s)] ==
        IF i <= n THEN <<>>
        ELSE IF s[i].key \in K THEN Append(due[i - 1], s[i]) ELSE due[i - 1]
  IN  due[Len(s)]

(* The keys whose changes callback f asked for. *)
Wanted(f) == {k \in Keys : \E j \in {k, AnyKey} : f \in ToSet(watchers[j])}

(* The changes since its registration that callback f asked for. *)
Due(f) == Since(applied, regAt[f], Wanted(f))

(* A callback is told of every change to its keys from the moment OnChange   *)
(* returned, once, in order, with the value before and after; only those     *)
(* that applyEvents has yet to run for the current event are one behind.     *)
CallbacksMissNothing ==
  \A f \in Registered :
    notified[f] = IF f \in ToSet(todo) THEN Front(Due(f)) ELSE Due(f)

(* README.md line 246: Close "waits for all in-flight callbacks to finish".  *)
(* Once any Close has returned, no callback runs and the map stays as it is. *)
QuietAfterClose == [][closed => UNCHANGED <<configs, revision, applied, notified>>]_loopVars

(* As long as no callback calls back into the client, every Get, GetAll,     *)
(* OnChange and Close returns, whatever the polls do: neither the loop's own *)
(* locking, nor writers waiting for readers, nor an endless run of failed    *)
(* polls can block the application.                                          *)
CallsReturn ==
  [](lpc # "stuck") => \A a \in Apps : []<>(call[a] = Idle)

(* README.md line 245: the loop survives "serialization errors with          *)
(* constant-backoff retries"; docs/day6.md line 61: "if error ->             *)
(* sleep(retryBackoff) + retry".  No request follows a failed one at once.   *)
RetriesArePaced == lpc = "poll" => ~failed
=============================================================================
