-------------------------- MODULE ClientLoopProofs --------------------------
(***************************************************************************)
(* Proofs about ClientLoop, for every set of application goroutines, keys  *)
(* and callbacks, reentrant or not, and any number of events.              *)
(***************************************************************************)
EXTENDS ClientLoop, TLAPS, WellFoundedInduction

-----------------------------------------------------------------------------
(* Type correctness.  The numbers stay within their bound because every     *)
(* event is counted once: the events applied and those still in the batch   *)
(* add up to the revision of the response, and between two responses to the *)
(* revision the loop polls with.                                            *)

Settled == {"top", "revision", "poll", "backoff", "exited"}

CountInv ==
  /\ lpc \in Settled => Len(applied) = revision
  /\ lpc \notin Settled => Len(applied) + Len(batch) = next /\ revision <= next
  /\ lpc \notin {"apply", "applying", "stuck"} => batch = <<>>
  /\ todo # <<>> => applied # <<>>

LoopTypeInv == LoopTypeOK /\ CountInv

(* What the record of a call holds. *)
LEMMA CallShape ==
  ASSUME NEW c \in Call
  PROVE  /\ c.op \in {"idle", "close", "onchange", "register", "read"}
         /\ c.op = "idle" <=> c = Idle
         /\ c.op \in {"onchange", "register"} =>
              c \in [op : {"onchange", "register"}, key : Keys \cup {AnyKey}, fn : Callbacks]
         /\ c.op = "read" =>
              c \in [op : {"read"}, left : SUBSET Keys,
                     got : UNION {[S -> 0 .. MaxRev] : S \in SUBSET Keys},
                     told : 0 .. MaxRev]
<1>1. c \in {Idle} \/ c \in [op : {"close"}]
      \/ c \in [op : {"onchange", "register"}, key : Keys \cup {AnyKey}, fn : Callbacks]
      \/ c \in [op : {"read"}, left : SUBSET Keys,
                got : UNION {[S -> 0 .. MaxRev] : S \in SUBSET Keys}, told : 0 .. MaxRev]
  BY Zenon DEF Call
<1> QED
  BY <1>1 DEF Idle

(* The loop starts well typed, with nothing applied. *)
LEMMA LoopTypeInit == LoopInit => LoopTypeInv
<1> SUFFICES ASSUME LoopInit PROVE LoopTypeInv
  OBVIOUS
<1> USE LoopAssumption DEF LoopInit
<1>1. writer \in {Loop, Nobody} /\ announced \in Apps \cup {Loop, Nobody}
      /\ readers \subseteq Apps \cup {Loop} /\ blocked \subseteq Apps \cup {Loop}
  BY DEF LockInit
<1>2. pollTimeout \in Nat
  OBVIOUS
<1>3. configs \in Views /\ views \in Seq([n : 0 .. MaxRev, configs : Views])
  BY DEF Views
<1>4. call \in [Apps -> Call]
  BY DEF Call
<1>5. /\ lpc \in LoopPCs /\ revision \in 0 .. MaxRev /\ next \in 0 .. MaxRev
      /\ watchers \in [Keys \cup {AnyKey} -> Seq(Callbacks)] /\ batch \in Seq(Change)
      /\ todo \in Seq(Callbacks) /\ applied \in Seq(Told)
      /\ regAt \in [Callbacks -> 0 .. MaxRev] /\ notified \in [Callbacks -> Seq(Told)]
  BY DEF LoopPCs
<1>6. cancelled \in BOOLEAN /\ closed \in BOOLEAN /\ failed \in BOOLEAN
  <2>1. cancelled = FALSE /\ closed = FALSE /\ failed = FALSE
    OBVIOUS
  <2> QED
    BY ONLY <2>1, Zenon
<1>7. LoopTypeOK
  BY <1>1, <1>2, <1>3, <1>4, <1>5, <1>6 DEF LoopTypeOK
<1>8. CountInv
  BY DEF CountInv, Settled
<1> QED
  BY <1>7, <1>8 DEF LoopTypeInv

Goroutines == Apps \cup {Loop}

(* Every step of the client does to its lock what one goroutine may do. *)
LEMMA LockSteps ==
  ASSUME [LoopNext]_loopVars
  PROVE  \/ UNCHANGED lockVars
         \/ \E g \in Goroutines : RLock(g) \/ RUnlock(g) \/ Announce(g) \/ EnterAndUnlock(g)
         \/ Enter(Loop) \/ Unlock(Loop)
<1> DEFINE Goal ==
      \/ UNCHANGED lockVars
      \/ \E g \in Goroutines : RLock(g) \/ RUnlock(g) \/ Announce(g) \/ EnterAndUnlock(g)
      \/ Enter(Loop) \/ Unlock(Loop)
<1>1. Loop \in Goroutines /\ \A a \in Apps : a \in Goroutines
  BY DEF Goroutines
<1>2. ASSUME LoopStep PROVE Goal
  BY <1>1, <1>2, Zenon
     DEF LoopStep, LoopExit, LoopRLock, NoCache, LoopRUnlock, Poll, PollError, PollGarbage,
         PollRefused, PollAnswer, BackoffOver, ApplyLock, ApplyEnter, ApplyEvent,
         RunCallback, ApplyUnlock, AdoptLock, AdoptRevision
<1>3. ASSUME Reenter PROVE Goal
  BY <1>1, <1>3, Zenon DEF Reenter
<1>4. ASSUME NEW a \in Apps, AppStep(a) PROVE Goal
  BY <1>1, <1>4, Zenon DEF AppStep, ReturnRead, OnChange, ReturnClose, CopyKey
<1>5. ASSUME NEW a \in Apps, NEW S, CallRead(a, S) PROVE Goal
  BY <1>1, <1>5, Zenon DEF CallRead
<1>6. ASSUME NEW a \in Apps, NEW k, NEW f, CallOnChange(a, k, f) PROVE Goal
  BY <1>6, Zenon DEF CallOnChange
<1>7. ASSUME NEW a \in Apps, OnChangeLock(a) \/ CallClose(a) PROVE Goal
  BY <1>1, <1>7, Zenon DEF OnChangeLock, CallClose
<1>8. ASSUME UNCHANGED loopVars PROVE Goal
  BY <1>8, Zenon DEF loopVars
<1> HIDE DEF Goal
<1>9. Goal
  BY <1>2, <1>3, <1>4, <1>5, <1>6, <1>7, <1>8, Zenon DEF LoopNext
<1> QED
  BY <1>9 DEF Goal

(* The lock holds goroutines. *)
LEMMA LockTypeNext ==
  ASSUME LoopTypeOK, [LoopNext]_loopVars
  PROVE  /\ writer' \in {Loop, Nobody}
         /\ announced' \in Apps \cup {Loop, Nobody}
         /\ readers' \subseteq Apps \cup {Loop}
         /\ blocked' \subseteq Apps \cup {Loop}
<1>1. /\ writer \in {Loop, Nobody} /\ announced \in Apps \cup {Loop, Nobody}
      /\ readers \subseteq Goroutines /\ blocked \subseteq Goroutines
  BY DEF LoopTypeOK, Goroutines
<1>2. CASE UNCHANGED lockVars
  BY <1>1, <1>2 DEF lockVars, Goroutines
<1>3. CASE \E g \in Goroutines : RLock(g) \/ RUnlock(g) \/ Announce(g) \/ EnterAndUnlock(g)
  BY <1>1, <1>3 DEF Goroutines, RLock, RUnlock, Announce, EnterAndUnlock, AdmitBlocked
<1>4. CASE Enter(Loop) \/ Unlock(Loop)
  BY <1>1, <1>4 DEF Enter, Unlock, AdmitBlocked, Goroutines
<1> QED
  BY <1>2, <1>3, <1>4, LockSteps

(* No step leaves the Boolean flags with another value. *)
LEMMA FlagTypeNext ==
  ASSUME LoopTypeOK, [LoopNext]_loopVars
  PROVE  cancelled' \in BOOLEAN /\ closed' \in BOOLEAN /\ failed' \in BOOLEAN
<1> DEFINE Goal == cancelled' \in BOOLEAN /\ closed' \in BOOLEAN /\ failed' \in BOOLEAN
<1>1. cancelled \in BOOLEAN /\ closed \in BOOLEAN /\ failed \in BOOLEAN
  BY Zenon DEF LoopTypeOK
<1>2. ASSUME LoopStep PROVE Goal
  BY <1>1, <1>2, Zenon
     DEF LoopStep, LoopExit, LoopRLock, NoCache, LoopRUnlock, Poll, PollError, PollGarbage,
         PollRefused, PollAnswer, BackoffOver, ApplyLock, ApplyEnter, ApplyEvent,
         RunCallback, ApplyUnlock, AdoptLock, AdoptRevision, histVars
<1>3. ASSUME Reenter PROVE Goal
  BY <1>1, <1>3, Zenon DEF Reenter, histVars
<1>4. ASSUME NEW a \in Apps, AppStep(a) PROVE Goal
  BY <1>1, <1>4, Zenon DEF AppStep, ReturnRead, OnChange, ReturnClose, CopyKey, histVars
<1>5. ASSUME NEW a \in Apps, NEW S, CallRead(a, S) PROVE Goal
  BY <1>1, <1>5, Zenon DEF CallRead, histVars
<1>6. ASSUME NEW a \in Apps, NEW k, NEW f, CallOnChange(a, k, f) PROVE Goal
  BY <1>1, <1>6, Zenon DEF CallOnChange, histVars
<1>7. ASSUME NEW a \in Apps, OnChangeLock(a) \/ CallClose(a) PROVE Goal
  BY <1>1, <1>7, Zenon DEF OnChangeLock, CallClose, histVars
<1>8. ASSUME UNCHANGED loopVars PROVE Goal
  BY <1>1, <1>8, Zenon DEF loopVars, histVars
<1> HIDE DEF Goal
<1>9. Goal
  BY <1>2, <1>3, <1>4, <1>5, <1>6, <1>7, <1>8, Zenon DEF LoopNext
<1> QED
  BY <1>9 DEF Goal

(* The variables that hold the configuration and its history. *)
stored == <<pollTimeout, configs, revision, watchers, batch, next, todo, applied, views,
            regAt, notified>>

StoredOK ==
  /\ pollTimeout \in Nat
  /\ configs \in Views
  /\ revision \in 0 .. MaxRev
  /\ watchers \in [Keys \cup {AnyKey} -> Seq(Callbacks)]
  /\ batch \in Seq(Change)
  /\ next \in 0 .. MaxRev
  /\ todo \in Seq(Callbacks)
  /\ applied \in Seq(Told)
  /\ views \in Seq([n : 0 .. MaxRev, configs : Views])
  /\ regAt \in [Callbacks -> 0 .. MaxRev]
  /\ notified \in [Callbacks -> Seq(Told)]

(* What the client stores keeps its type while nothing writes it. *)
LEMMA StoredSame == ASSUME StoredOK, UNCHANGED stored PROVE StoredOK'
BY DEF StoredOK, stored

(* Never more events are applied than the server may send. *)
LEMMA AppliedBound ==
  ASSUME LoopTypeInv
  PROVE  /\ Len(applied) \in 0 .. MaxRev
         /\ Len(batch) \in Nat
         /\ batch # <<>> => Len(applied) + 1 \in 0 .. MaxRev
<1>1. /\ applied \in Seq(Told) /\ batch \in Seq(Change) /\ revision \in 0 .. MaxRev
      /\ next \in 0 .. MaxRev /\ MaxRev \in Nat /\ CountInv
  BY LoopAssumption DEF LoopTypeInv, LoopTypeOK
<1>2. Len(applied) \in Nat /\ Len(batch) \in Nat /\ (batch # <<>> => Len(batch) >= 1)
  BY <1>1
<1>3. CASE lpc \in Settled
  <2>1. Len(applied) = revision /\ batch = <<>>
    BY <1>1, <1>3 DEF CountInv, Settled
  <2> QED
    BY <1>1, <1>2, <2>1
<1>4. CASE lpc \notin Settled
  <2>1. Len(applied) + Len(batch) = next
    BY <1>1, <1>4 DEF CountInv
  <2> QED
    BY <1>1, <1>2, <2>1
<1> QED
  BY <1>3, <1>4

(* Starting and ending calls. *)
LEMMA CallTypeNext ==
  ASSUME LoopTypeInv, [LoopNext]_loopVars
  PROVE  call' \in [Apps -> Call]
<1> DEFINE Goal == call' \in [Apps -> Call]
<1>0. call \in [Apps -> Call] /\ configs \in Views
  BY DEF LoopTypeInv, LoopTypeOK
<1>1. ASSUME UNCHANGED call PROVE Goal
  BY <1>0, <1>1
<1>2. ASSUME NEW a \in Apps, NEW c \in Call, call' = [call EXCEPT ![a] = c] PROVE Goal
  BY <1>0, <1>2
<1>3. Idle \in Call /\ [op |-> "close"] \in Call
  BY DEF Call
<1>4. ASSUME NEW a \in Apps, NEW S \in SUBSET Keys, CallRead(a, S) PROVE Goal
  <2> DEFINE c == [op |-> "read", left |-> S, got |-> [k \in {} |-> 0], told |-> Len(applied)]
  <2>1. [k \in {} |-> 0] \in [{} -> 0 .. MaxRev]
    OBVIOUS
  <2>2. [k \in {} |-> 0] \in UNION {[T -> 0 .. MaxRev] : T \in SUBSET Keys}
    BY <2>1
  <2>3. c \in Call
    BY <2>2, AppliedBound DEF Call
  <2> QED
    BY <1>2, <1>4, <2>3 DEF CallRead
<1>5. ASSUME NEW a \in Apps, NEW k \in Keys, CopyKey(a, k) PROVE Goal
  <2>1. /\ call[a].op = "read" /\ call[a] \in Call
        /\ call' = [call EXCEPT ![a].left = @ \ {k},
                                ![a].got = [j \in DOMAIN @ \cup {k} |->
                                              IF j = k THEN configs[k] ELSE @[j]]]
    BY <1>0, <1>5 DEF CopyKey
  <2>2. call[a] \in [op : {"read"}, left : SUBSET Keys,
                     got : UNION {[S -> 0 .. MaxRev] : S \in SUBSET Keys}, told : 0 .. MaxRev]
    BY <2>1, CallShape
  <2>3. PICK S \in SUBSET Keys : call[a].got \in [S -> 0 .. MaxRev]
    BY <2>2
  <2> DEFINE g == [j \in DOMAIN call[a].got \cup {k} |->
                     IF j = k THEN configs[k] ELSE call[a].got[j]]
             c == [op |-> "read", left |-> call[a].left \ {k}, got |-> g, told |-> call[a].told]
  <2>4. g \in [S \cup {k} -> 0 .. MaxRev]
    BY <1>0, <2>3 DEF Views
  <2>5. g \in UNION {[T -> 0 .. MaxRev] : T \in SUBSET Keys}
    BY <2>4
  <2> HIDE DEF g
  <2>6. c \in Call
    BY <2>2, <2>5 DEF Call
  <2>7. call'[a] = c
    BY <1>0, <2>1, <2>2 DEF g
  <2>8. DOMAIN call' = Apps /\ \A b \in Apps : b # a => call'[b] = call[b]
    BY <1>0, <2>1
  <2>9. call' = [b \in Apps |-> call'[b]]
    BY <1>0, <2>1
  <2> QED
    BY <1>0, <2>6, <2>7, <2>8, <2>9
<1>6. ASSUME NEW a \in Apps, ReturnRead(a) \/ OnChange(a) \/ ReturnClose(a) PROVE Goal
  BY <1>2, <1>3, <1>6 DEF ReturnRead, OnChange, ReturnClose
<1>7. ASSUME NEW a \in Apps, NEW k \in Keys \cup {AnyKey}, NEW f \in Callbacks,
             CallOnChange(a, k, f)
      PROVE  Goal
  <2>1. [op |-> "onchange", key |-> k, fn |-> f] \in Call
    BY DEF Call
  <2> QED
    BY <1>2, <1>7, <2>1 DEF CallOnChange
<1>8. ASSUME NEW a \in Apps, OnChangeLock(a) PROVE Goal
  <2>1. call[a].op = "onchange" /\ call[a] \in Call
        /\ call' = [call EXCEPT ![a].op = "register"]
    BY <1>0, <1>8 DEF OnChangeLock
  <2>2. call[a] \in [op : {"onchange", "register"}, key : Keys \cup {AnyKey}, fn : Callbacks]
    BY <2>1, CallShape
  <2>3. [call[a] EXCEPT !.op = "register"] \in Call
    BY <2>2 DEF Call
  <2>4. call' = [call EXCEPT ![a] = [call[a] EXCEPT !.op = "register"]]
    BY <2>1
  <2> QED
    BY <1>2, <2>3, <2>4
<1>9. ASSUME NEW a \in Apps, CallClose(a) PROVE Goal
  BY <1>2, <1>3, <1>9 DEF CallClose
<1>10. ASSUME LoopStep \/ Reenter PROVE Goal
  <2>1. UNCHANGED call
    BY <1>10, Zenon
       DEF LoopStep, LoopExit, LoopRLock, NoCache, LoopRUnlock, Poll, PollError, PollGarbage,
           PollRefused, PollAnswer, BackoffOver, ApplyLock, ApplyEnter, ApplyEvent,
           RunCallback, ApplyUnlock, AdoptLock, AdoptRevision, Reenter
  <2> QED
    BY <1>1, <2>1
<1>11. ASSUME UNCHANGED loopVars PROVE Goal
  BY <1>1, <1>11 DEF loopVars
<1>12. \A S \in {{k} : k \in Keys} \cup {Keys} : S \in SUBSET Keys
  OBVIOUS
<1> HIDE DEF Goal
<1>13. Goal
  BY <1>4, <1>5, <1>6, <1>7, <1>8, <1>9, <1>10, <1>11, <1>12, Zenon DEF LoopNext, AppStep
<1> QED
  BY <1>13 DEF Goal

(* What applyEvents does with one event. *)
LEMMA ApplyEventEffect ==
  ASSUME LoopTypeInv, ApplyEvent
  PROVE  \E k \in Keys, v \in 0 .. MaxRev :
           /\ configs' = [configs EXCEPT ![k] = v]
           /\ applied' = Append(applied, [key |-> k, old |-> configs[k], new |-> v])
           /\ [key |-> k, old |-> configs[k], new |-> v] \in Told
           /\ todo' = watchers[k] \o watchers[AnyKey]
           /\ batch \in Seq(Change) /\ batch # <<>> /\ batch' = Tail(batch)
<1> DEFINE e == Head(batch)
           r == next - Len(batch) + 1
           v == IF e.type = "PUT" THEN r ELSE 0
<1>1. batch \in Seq(Change) /\ batch # <<>> /\ lpc = "applying" /\ batch' = Tail(batch)
  BY DEF ApplyEvent, LoopTypeInv, LoopTypeOK
<1>2. e \in Change
  BY <1>1
<1>3. e.key \in Keys
  BY <1>2 DEF Change
<1>4. Len(applied) + Len(batch) = next
  BY <1>1 DEF LoopTypeInv, CountInv, Settled
<1>5. r = Len(applied) + 1
  BY <1>4, <1>1, AppliedBound
<1>6. r \in 0 .. MaxRev /\ 0 \in 0 .. MaxRev
  BY <1>1, <1>5, AppliedBound, LoopAssumption
<1>7. v \in 0 .. MaxRev
  BY <1>6
<1>8. configs[e.key] \in 0 .. MaxRev
  BY <1>3 DEF LoopTypeInv, LoopTypeOK, Views
<1>9. [key |-> e.key, old |-> configs[e.key], new |-> v] \in Told
  BY <1>3, <1>7, <1>8 DEF Told
<1>10. /\ configs' = [configs EXCEPT ![e.key] = v]
       /\ applied' = Append(applied, [key |-> e.key, old |-> configs[e.key], new |-> v])
       /\ todo' = watchers[e.key] \o watchers[AnyKey]
  BY DEF ApplyEvent
<1> HIDE DEF v
<1> QED
  BY <1>1, <1>3, <1>7, <1>9, <1>10

(* Every step keeps the type of what the client stores. *)
LEMMA StoredNext ==
  ASSUME LoopTypeInv, [LoopNext]_loopVars
  PROVE  StoredOK'
<1>0. StoredOK /\ call \in [Apps -> Call]
  BY DEF LoopTypeInv, LoopTypeOK, StoredOK
<1> USE LoopAssumption
<1>1. ASSUME UNCHANGED stored PROVE StoredOK'
  BY <1>0, <1>1, StoredSame
<1>2. ASSUME NEW es \in Responses, PollAnswer(es) PROVE StoredOK'
  <2>1. es \in Seq(Change) /\ Len(es) \in Nat
    <3>1. CASE es = <<>>
      BY <3>1
    <3>2. CASE es \in {<<e>> : e \in Change}
      <4>1. PICK e \in Change : es = <<e>>
        BY <3>2, Zenon
      <4> QED
        BY <4>1
    <3>3. CASE es \in Change \X Change
      <4>1. PICK e \in Change, f \in Change : es = <<e, f>>
        BY <3>3
      <4> QED
        BY <4>1
    <3> QED
      BY <3>1, <3>2, <3>3, Zenon DEF Responses
  <2>2. batch' = es /\ next' = revision + Len(es) /\ revision + Len(es) <= MaxRev
        /\ UNCHANGED <<pollTimeout, configs, revision, watchers, todo, applied, views,
                       regAt, notified>>
    BY <1>2 DEF PollAnswer, histVars
  <2>3. next' \in 0 .. MaxRev
    BY <1>0, <2>1, <2>2 DEF StoredOK
  <2> QED
    BY <1>0, <2>1, <2>2, <2>3 DEF StoredOK
<1>3. ASSUME ApplyEvent PROVE StoredOK'
  <2>1. PICK k \in Keys, v \in 0 .. MaxRev :
           /\ configs' = [configs EXCEPT ![k] = v]
           /\ applied' = Append(applied, [key |-> k, old |-> configs[k], new |-> v])
           /\ [key |-> k, old |-> configs[k], new |-> v] \in Told
           /\ todo' = watchers[k] \o watchers[AnyKey]
           /\ batch \in Seq(Change) /\ batch # <<>> /\ batch' = Tail(batch)
    BY <1>3, ApplyEventEffect
  <2>2. configs' \in Views
    BY <1>0, <2>1 DEF StoredOK, Views
  <2>3. applied' \in Seq(Told) /\ batch' \in Seq(Change)
    BY <1>0, <2>1 DEF StoredOK
  <2>4. watchers[k] \in Seq(Callbacks) /\ watchers[AnyKey] \in Seq(Callbacks)
    BY <1>0 DEF StoredOK
  <2>5. todo' \in Seq(Callbacks)
    BY <2>1, <2>4
  <2>6. UNCHANGED <<pollTimeout, revision, watchers, next, views, regAt, notified>>
    BY <1>3 DEF ApplyEvent
  <2> QED
    BY <1>0, <2>2, <2>3, <2>5, <2>6 DEF StoredOK
<1>4. ASSUME RunCallback, applied # <<>> PROVE StoredOK'
  <2>1. /\ todo # <<>> /\ todo' = Tail(todo)
        /\ notified' = [notified EXCEPT ![Head(todo)] = Append(@, Last(applied))]
        /\ UNCHANGED <<pollTimeout, configs, revision, watchers, batch, next, applied,
                       views, regAt>>
    BY <1>4 DEF RunCallback
  <2>2. Last(applied) \in Told
    BY <1>0, <1>4 DEF StoredOK, Last
  <2>3. Head(todo) \in Callbacks /\ todo' \in Seq(Callbacks)
    BY <1>0, <2>1 DEF StoredOK
  <2>4. notified' \in [Callbacks -> Seq(Told)]
    BY <1>0, <2>1, <2>2, <2>3 DEF StoredOK
  <2> QED
    BY <1>0, <2>1, <2>3, <2>4 DEF StoredOK
<1>5. ASSUME ApplyUnlock PROVE StoredOK'
  <2>1. /\ views' = Append(views, [n |-> Len(applied), configs |-> configs])
        /\ UNCHANGED <<pollTimeout, configs, revision, watchers, batch, next, todo, applied,
                       regAt, notified>>
    BY <1>5 DEF ApplyUnlock, dataVars
  <2>2. [n |-> Len(applied), configs |-> configs] \in [n : 0 .. MaxRev, configs : Views]
    BY <1>0, AppliedBound DEF StoredOK
  <2>3. views' \in Seq([n : 0 .. MaxRev, configs : Views])
    BY <1>0, <2>1, <2>2 DEF StoredOK
  <2> QED
    BY <1>0, <2>1, <2>3 DEF StoredOK
<1>6. ASSUME AdoptRevision PROVE StoredOK'
  <2>1. /\ revision' = next
        /\ UNCHANGED <<pollTimeout, configs, watchers, batch, next, todo, applied, views,
                       regAt, notified>>
    BY <1>6 DEF AdoptRevision, histVars
  <2> QED
    BY <1>0, <2>1 DEF StoredOK
<1>7. ASSUME NEW a \in Apps, OnChange(a) PROVE StoredOK'
  <2>1. /\ call[a].op = "register" /\ call[a] \in Call
        /\ watchers' = [watchers EXCEPT ![call[a].key] = Append(@, call[a].fn)]
        /\ regAt' = [regAt EXCEPT ![call[a].fn] = Len(applied)]
        /\ UNCHANGED <<pollTimeout, configs, revision, batch, next, todo, applied, views,
                       notified>>
    BY <1>0, <1>7 DEF OnChange
  <2>2. call[a].key \in Keys \cup {AnyKey} /\ call[a].fn \in Callbacks
    BY <2>1, CallShape
  <2>3. watchers' \in [Keys \cup {AnyKey} -> Seq(Callbacks)]
    BY <1>0, <2>1, <2>2 DEF StoredOK
  <2>4. regAt' \in [Callbacks -> 0 .. MaxRev]
    BY <1>0, <2>1, <2>2, AppliedBound DEF StoredOK
  <2> QED
    BY <1>0, <2>1, <2>3, <2>4 DEF StoredOK
<1>8. ASSUME \/ LoopExit \/ LoopRLock \/ NoCache \/ LoopRUnlock \/ PollError \/ PollGarbage
             \/ PollRefused \/ BackoffOver \/ ApplyLock \/ ApplyEnter \/ AdoptLock \/ Reenter
      PROVE  StoredOK'
  <2>1. UNCHANGED stored
    BY <1>8, Zenon
       DEF LoopExit, LoopRLock, NoCache, LoopRUnlock, PollError, PollGarbage, PollRefused,
           BackoffOver, ApplyLock, ApplyEnter, AdoptLock, Reenter, stored, dataVars, histVars
  <2> QED
    BY <1>1, <2>1
<1>9. ASSUME NEW a \in Apps,
             \/ \E S : CallRead(a, S)
             \/ \E k, f : CallOnChange(a, k, f)
             \/ OnChangeLock(a) \/ CallClose(a) \/ ReturnRead(a) \/ ReturnClose(a)
             \/ \E k : CopyKey(a, k)
      PROVE  StoredOK'
  <2>1. UNCHANGED stored
    BY <1>9, Zenon
       DEF CallRead, CallOnChange, OnChangeLock, CallClose, ReturnRead, ReturnClose, CopyKey,
           stored, dataVars, histVars
  <2> QED
    BY <1>1, <2>1
<1>10. ASSUME UNCHANGED loopVars PROVE StoredOK'
  <2>1. UNCHANGED stored
    BY <1>10, Zenon DEF loopVars, stored, dataVars, histVars
  <2> QED
    BY <1>1, <2>1
<1>11. ASSUME RunCallback PROVE StoredOK'
  <2>1. applied # <<>>
    BY <1>11 DEF RunCallback, LoopTypeInv, CountInv
  <2> QED
    BY <1>4, <1>11, <2>1
<1>12. ASSUME LoopStep \/ Reenter PROVE StoredOK'
  BY <1>2, <1>3, <1>5, <1>6, <1>8, <1>11, <1>12, Zenon DEF LoopStep, Poll
<1>13. ASSUME NEW a \in Apps,
              \/ \E S \in {{k} : k \in Keys} \cup {Keys} : CallRead(a, S)
              \/ \E k \in Keys \cup {AnyKey}, f \in Callbacks : CallOnChange(a, k, f)
              \/ OnChangeLock(a) \/ CallClose(a) \/ AppStep(a)
       PROVE  StoredOK'
  BY <1>7, <1>9, <1>13, Zenon DEF AppStep
<1> QED
  BY <1>10, <1>12, <1>13, Zenon DEF LoopNext

(* Every step leaves the loop at one of its program points. *)
LEMMA LpcNext ==
  ASSUME LoopTypeInv, [LoopNext]_loopVars
  PROVE  lpc' \in LoopPCs
<1>0. lpc \in LoopPCs
  BY DEF LoopTypeInv, LoopTypeOK
<1>1. ASSUME LoopStep \/ Reenter PROVE lpc' \in LoopPCs
  <2>1. \A p \in DOMAIN Section : Section[p] \in LoopPCs
    BY DEF Section, LoopPCs
  <2>2. \A p \in DOMAIN After : After[p] \in LoopPCs
    BY DEF After, LoopPCs
  <2>3. ASSUME LoopRLock \/ LoopRUnlock PROVE lpc' \in LoopPCs
    BY <2>1, <2>2, <2>3 DEF LoopRLock, LoopRUnlock
  <2>4. ASSUME \/ LoopExit \/ NoCache \/ Poll \/ BackoffOver \/ ApplyLock \/ ApplyEnter
               \/ ApplyEvent \/ RunCallback \/ ApplyUnlock \/ AdoptLock \/ AdoptRevision
               \/ Reenter
        PROVE  lpc' \in LoopPCs
    BY <1>0, <2>4
       DEF LoopPCs, LoopExit, NoCache, Poll, PollError, PollGarbage, PollRefused, PollAnswer,
           BackoffOver, ApplyLock, ApplyEnter, ApplyEvent, RunCallback, ApplyUnlock,
           AdoptLock, AdoptRevision, Reenter
  <2> QED
    BY <1>1, <2>3, <2>4, Zenon DEF LoopStep
<1>2. ASSUME NEW a \in Apps,
             \/ \E S \in {{k} : k \in Keys} \cup {Keys} : CallRead(a, S)
             \/ \E k \in Keys \cup {AnyKey}, f \in Callbacks : CallOnChange(a, k, f)
             \/ OnChangeLock(a) \/ CallClose(a) \/ AppStep(a)
      PROVE  UNCHANGED lpc
  BY <1>2, Zenon DEF CallRead, CallOnChange, OnChangeLock, CallClose, AppStep, ReturnRead,
                     ReturnClose, CopyKey, OnChange
<1>3. ASSUME UNCHANGED loopVars PROVE UNCHANGED lpc
  BY <1>3 DEF loopVars
<1> QED
  BY <1>0, <1>1, <1>2, <1>3, Zenon DEF LoopNext

(* What the application's goroutines do. *)
AppNext(a) ==
  \/ \E S \in {{k} : k \in Keys} \cup {Keys} : CallRead(a, S)
  \/ \E k \in Keys \cup {AnyKey}, f \in Callbacks : CallOnChange(a, k, f)
  \/ OnChangeLock(a) \/ CallClose(a) \/ AppStep(a)

(* A step is one of the loop, of a callback that calls back, or of an application. *)
LEMMA LoopNextParts ==
  LoopNext <=> LoopStep \/ Reenter \/ \E a \in Apps : AppNext(a)
BY Zenon DEF LoopNext, AppNext

(* They leave the loop where it is, and all that it works on. *)
LEMMA AppLeaves ==
  ASSUME NEW a \in Apps, AppNext(a)
  PROVE  UNCHANGED <<lpc, configs, revision, batch, next, todo, applied, views, notified>>
BY Zenon
   DEF AppNext, CallRead, CallOnChange, OnChangeLock, CallClose, AppStep, ReturnRead,
       ReturnClose, CopyKey, OnChange, dataVars, histVars

(* Every step keeps the revision in step with the changes applied. *)
LEMMA CountNext ==
  ASSUME LoopTypeInv, [LoopNext]_loopVars
  PROVE  CountInv'
<1>0. /\ CountInv /\ applied \in Seq(Told) /\ batch \in Seq(Change) /\ lpc \in LoopPCs
      /\ revision \in 0 .. MaxRev /\ next \in 0 .. MaxRev /\ todo \in Seq(Callbacks)
      /\ Len(applied) \in Nat /\ Len(batch) \in Nat
  BY AppliedBound DEF LoopTypeInv, LoopTypeOK
<1>1. ASSUME UNCHANGED <<batch, next, revision, applied, todo>>,
             lpc' \in Settled <=> lpc \in Settled,
             batch = <<>> \/ lpc' \in {"apply", "applying", "stuck"}
      PROVE  CountInv'
  BY <1>0, <1>1 DEF CountInv
<1>2. ASSUME LoopRLock \/ LoopRUnlock PROVE CountInv'
  <2>1. /\ \A p \in DOMAIN Section :
             Section[p] \in Settled <=> p \in Settled
        /\ \A p \in DOMAIN Section : p \notin {"apply", "applying", "stuck"}
    BY DEF Section, Settled
  <2>2. /\ \A p \in DOMAIN After : After[p] \in Settled <=> p \in Settled
        /\ \A p \in DOMAIN After : p \notin {"apply", "applying", "stuck"}
    BY DEF After, Settled
  <2>3. UNCHANGED <<batch, next, revision, applied, todo>>
    BY <1>2 DEF LoopRLock, LoopRUnlock, dataVars, histVars
  <2>4. (lpc' \in Settled <=> lpc \in Settled) /\ lpc \notin {"apply", "applying", "stuck"}
    BY <1>2, <2>1, <2>2 DEF LoopRLock, LoopRUnlock
  <2> QED
    BY <1>0, <1>1, <2>3, <2>4 DEF CountInv
<1>3. ASSUME \/ LoopExit \/ NoCache \/ PollError \/ PollGarbage \/ PollRefused \/ BackoffOver
             \/ ApplyLock \/ ApplyEnter \/ Reenter \/ ApplyUnlock
      PROVE  CountInv'
  <2>1. /\ UNCHANGED <<batch, next, revision, applied, todo>>
        /\ lpc' \in Settled <=> lpc \in Settled
        /\ lpc \notin {"apply", "applying", "stuck"} \/ lpc' \in {"apply", "applying", "stuck"}
           \/ batch = <<>>
    BY <1>3
       DEF LoopExit, NoCache, PollError, PollGarbage, PollRefused, BackoffOver, ApplyLock,
           ApplyEnter, Reenter, ApplyUnlock, dataVars, histVars, Settled
  <2> QED
    BY <1>0, <1>1, <2>1 DEF CountInv
<1>4. ASSUME NEW es \in Responses, PollAnswer(es) PROVE CountInv'
  <2>1. StoredOK'
    BY StoredNext
  <2>2. /\ lpc = "poll" /\ batch' = es /\ next' = revision + Len(es)
        /\ lpc' = IF es = <<>> THEN "respond" ELSE "apply"
        /\ UNCHANGED <<revision, applied, todo>>
    BY <1>4 DEF PollAnswer, histVars
  <2>3. Len(es) \in Nat
    BY <2>1, <2>2 DEF StoredOK
  <2>4. Len(applied) = revision
    BY <1>0, <2>2 DEF CountInv, Settled
  <2> QED
    BY <1>0, <2>2, <2>3, <2>4 DEF CountInv, Settled
<1>5. ASSUME ApplyEvent PROVE CountInv'
  <2>1. PICK c : applied' = Append(applied, c) /\ c \in Told
    BY <1>5, ApplyEventEffect, Zenon
  <2>2. /\ lpc = "applying" /\ lpc' = lpc /\ batch # <<>> /\ batch' = Tail(batch)
        /\ UNCHANGED <<next, revision>>
    BY <1>5 DEF ApplyEvent
  <2>3. Len(applied') = Len(applied) + 1 /\ applied' # <<>>
    BY <1>0, <2>1
  <2>4. Len(batch') = Len(batch) - 1
    BY <1>0, <2>2
  <2>5. Len(applied) + Len(batch) = next /\ revision <= next
    BY <1>0, <2>2 DEF CountInv, Settled
  <2>6. Len(applied') + Len(batch') = next
    BY <1>0, <2>3, <2>4, <2>5
  <2>7. lpc' = "applying" /\ next' = next /\ revision' = revision
    BY <2>2
  <2> QED
    BY <2>3, <2>5, <2>6, <2>7 DEF CountInv, Settled
<1>6. ASSUME RunCallback PROVE CountInv'
  <2>1. UNCHANGED <<lpc, batch, next, revision, applied>> /\ todo # <<>>
    BY <1>6 DEF RunCallback
  <2> QED
    BY <1>0, <2>1 DEF CountInv
<1>7. ASSUME AdoptLock PROVE CountInv'
  <2>1. /\ UNCHANGED <<batch, next, revision, applied, todo>> /\ lpc = "respond"
        /\ lpc' = IF next > 0 THEN "adopting" ELSE "top"
    BY <1>7 DEF AdoptLock, dataVars, histVars
  <2>2. Len(applied) + Len(batch) = next /\ revision <= next /\ batch = <<>>
    BY <1>0, <2>1 DEF CountInv, Settled
  <2>3. Len(applied) = next
    BY <1>0, <2>2
  <2> QED
    BY <1>0, <2>1, <2>2, <2>3 DEF CountInv, Settled
<1>8. ASSUME AdoptRevision PROVE CountInv'
  <2>1. /\ UNCHANGED <<batch, next, applied, todo>> /\ lpc = "adopting" /\ lpc' = "top"
        /\ revision' = next
    BY <1>8 DEF AdoptRevision, histVars
  <2>2. Len(applied) + Len(batch) = next /\ batch = <<>>
    BY <1>0, <2>1 DEF CountInv, Settled
  <2>3. Len(applied) = next
    BY <1>0, <2>2
  <2> QED
    BY <1>0, <2>1, <2>2, <2>3 DEF CountInv, Settled
<1>9. ASSUME UNCHANGED <<lpc, revision, batch, next, todo, applied>> PROVE CountInv'
  BY <1>0, <1>9 DEF CountInv
<1>10. ASSUME NEW a \in Apps, AppNext(a) PROVE CountInv'
  BY <1>9, <1>10, AppLeaves
<1>11. ASSUME UNCHANGED loopVars PROVE CountInv'
  BY <1>9, <1>11 DEF loopVars, dataVars, histVars
<1>12. ASSUME LoopStep \/ Reenter PROVE CountInv'
  BY <1>2, <1>3, <1>4, <1>5, <1>6, <1>7, <1>8, <1>12, Zenon DEF LoopStep, Poll
<1> QED
  BY <1>10, <1>11, <1>12, LoopNextParts, Zenon

(* The type invariant of the client is inductive. *)
LEMMA LoopTypeNext == LoopTypeInv /\ [LoopNext]_loopVars => LoopTypeInv'
<1> SUFFICES ASSUME LoopTypeInv, [LoopNext]_loopVars PROVE LoopTypeInv'
  OBVIOUS
<1>1. LoopTypeOK
  BY DEF LoopTypeInv
<1>2. LoopTypeOK'
  BY <1>1, LockTypeNext, FlagTypeNext, CallTypeNext, StoredNext, LpcNext, Zenon
     DEF LoopTypeOK, StoredOK
<1> QED
  BY <1>2, CountNext DEF LoopTypeInv

(* The shared state of the client keeps its types: in particular no event   *)
(* is counted twice or forgotten on its way from a response to the map and  *)
(* the revision, so that all numbers stay within the bound on events.       *)
THEOREM LoopTypeCorrect == LoopSpec => []LoopTypeOK
<1>1. LoopTypeInv => LoopTypeOK
  BY DEF LoopTypeInv
<1> QED
  BY <1>1, LoopTypeInit, LoopTypeNext, PTL DEF LoopSpec

-----------------------------------------------------------------------------
(* Who is inside the lock.  The loop alone takes it for more than one       *)
(* assignment, only to apply a batch, and while it has it nobody reads.     *)
LockInv ==
  /\ writer = Loop => readers = {} /\ announced = Nobody /\ lpc \in {"applying", "stuck"}
  /\ todo # <<>> => writer = Loop

(* Nobody can take part in the lock but readers that queue up. *)
LEMMA WriterStays ==
  ASSUME LoopTypeOK, LockInv, writer = Loop, NEW g \in Goroutines,
         RLock(g) \/ RUnlock(g) \/ Announce(g) \/ EnterAndUnlock(g)
  PROVE  writer' = Loop /\ readers' = {} /\ announced' = Nobody
<1>1. readers = {} /\ announced = Nobody /\ Nobody # Loop /\ g # Nobody
  BY LoopAssumption DEF LockInv, Goroutines
<1>2. ~ WriterFree
  BY <1>1 DEF WriterFree
<1> QED
  BY <1>1, <1>2 DEF RLock, RUnlock, Announce, EnterAndUnlock

(* Readers, and writers that only announce themselves, leave the lock's holder alone. *)
LEMMA WriterSame ==
  ASSUME NEW g, RLock(g) \/ RUnlock(g) \/ Announce(g) \/ EnterAndUnlock(g)
  PROVE  writer' = writer
BY DEF RLock, RUnlock, Announce, EnterAndUnlock

(* Every step keeps the mutual exclusion of configs' lock. *)
LEMMA LockNext ==
  ASSUME LoopTypeInv, LockInv, [LoopNext]_loopVars
  PROVE  LockInv'
<1>0. /\ LoopTypeOK /\ writer \in {Loop, Nobody} /\ Loop # Nobody
      /\ Loop \in Goroutines /\ \A a \in Apps : a \in Goroutines
  BY LoopAssumption DEF LoopTypeInv, LoopTypeOK, Goroutines
<1>1. ASSUME NEW g \in Goroutines,
             RLock(g) \/ RUnlock(g) \/ Announce(g) \/ EnterAndUnlock(g),
             UNCHANGED todo, lpc \in {"applying", "stuck"} => lpc' \in {"applying", "stuck"}
      PROVE  LockInv'
  <2>1. writer' = writer
    BY <1>1, WriterSame
  <2>2. writer = Loop => readers' = {} /\ announced' = Nobody
    BY <1>0, <1>1, WriterStays
  <2> QED
    BY <1>1, <2>1, <2>2 DEF LockInv
<1>2. ASSUME UNCHANGED lockVars, todo' # <<>> => todo # <<>>,
             lpc \in {"applying", "stuck"} => lpc' \in {"applying", "stuck"}
      PROVE  LockInv'
  BY <1>2 DEF LockInv, lockVars
<1>3. ASSUME \/ LoopExit \/ LoopRLock \/ NoCache \/ LoopRUnlock \/ PollError \/ PollGarbage
             \/ PollRefused \/ BackoffOver \/ ApplyLock \/ AdoptLock \/ AdoptRevision
             \/ \E es \in Responses : PollAnswer(es)
      PROVE  LockInv'
  <2>1. UNCHANGED todo /\ lpc \notin {"applying", "stuck"}
    BY <1>3
       DEF LoopExit, LoopRLock, NoCache, LoopRUnlock, PollError, PollGarbage, PollRefused,
           BackoffOver, ApplyLock, AdoptLock, AdoptRevision, PollAnswer, dataVars, Section,
           After
  <2>2. \/ UNCHANGED lockVars
        \/ \E g \in Goroutines : RLock(g) \/ RUnlock(g) \/ Announce(g) \/ EnterAndUnlock(g)
    BY <1>0, <1>3, Zenon
       DEF LoopExit, LoopRLock, NoCache, LoopRUnlock, PollError, PollGarbage, PollRefused,
           BackoffOver, ApplyLock, AdoptLock, AdoptRevision, PollAnswer
  <2> QED
    BY <1>1, <1>2, <2>1, <2>2
<1>4. ASSUME ApplyEnter PROVE LockInv'
  BY <1>0, <1>4 DEF ApplyEnter, Enter, LockInv, dataVars
<1>5. ASSUME ApplyEvent PROVE LockInv'
  BY <1>0, <1>5 DEF ApplyEvent, LockInv, lockVars
<1>6. ASSUME RunCallback PROVE LockInv'
  BY <1>2, <1>6 DEF RunCallback
<1>7. ASSUME ApplyUnlock PROVE LockInv'
  BY <1>0, <1>7 DEF ApplyUnlock, Unlock, LockInv, dataVars
<1>8. ASSUME Reenter PROVE LockInv'
  <2>1. UNCHANGED todo /\ lpc' = "stuck" /\ (RLock(Loop) \/ UNCHANGED lockVars)
    BY <1>8 DEF Reenter, dataVars
  <2> QED
    BY <1>0, <1>1, <1>2, <2>1
<1>9. ASSUME NEW a \in Apps, AppNext(a) PROVE LockInv'
  <2>1. UNCHANGED <<lpc, todo>>
    BY <1>9, AppLeaves
  <2>2. \/ UNCHANGED lockVars
        \/ RLock(a) \/ RUnlock(a) \/ Announce(a) \/ EnterAndUnlock(a)
    BY <1>9, Zenon
       DEF AppNext, CallRead, CallOnChange, OnChangeLock, CallClose, AppStep, ReturnRead,
           ReturnClose, CopyKey, OnChange
  <2> QED
    BY <1>0, <1>1, <1>2, <2>1, <2>2
<1>10. ASSUME UNCHANGED loopVars PROVE LockInv'
  BY <1>2, <1>10 DEF loopVars, dataVars
<1>11. ASSUME LoopStep \/ Reenter PROVE LockInv'
  BY <1>3, <1>4, <1>5, <1>6, <1>7, <1>8, <1>11, Zenon DEF LoopStep, Poll
<1> QED
  BY <1>9, <1>10, <1>11, LoopNextParts, Zenon

(* Once a Close has returned, the loop has ended. *)
QuietInv == closed => lpc = "exited"

(* Once closed no step changes the view, and every step keeps what closing promises. *)
LEMMA QuietNext ==
  ASSUME QuietInv, [LoopNext]_loopVars
  PROVE  QuietInv' /\ (closed => UNCHANGED <<configs, revision, applied, notified>>)
<1> DEFINE Goal == QuietInv' /\ (closed => UNCHANGED <<configs, revision, applied, notified>>)
<1>1. ASSUME LoopStep \/ Reenter PROVE Goal
  <2>1. lpc # "exited"
    BY <1>1
       DEF LoopStep, LoopExit, LoopRLock, NoCache, LoopRUnlock, Poll, PollError, PollGarbage,
           PollRefused, PollAnswer, BackoffOver, ApplyLock, ApplyEnter, ApplyEvent,
           RunCallback, ApplyUnlock, AdoptLock, AdoptRevision, Reenter, Section, After
  <2>2. UNCHANGED closed
    BY <1>1, Zenon
       DEF LoopStep, LoopExit, LoopRLock, NoCache, LoopRUnlock, Poll, PollError, PollGarbage,
           PollRefused, PollAnswer, BackoffOver, ApplyLock, ApplyEnter, ApplyEvent,
           RunCallback, ApplyUnlock, AdoptLock, AdoptRevision, Reenter, histVars
  <2> QED
    BY <2>1, <2>2, Zenon DEF QuietInv
<1>2. ASSUME NEW a \in Apps, AppNext(a) PROVE Goal
  <2>1. UNCHANGED <<lpc, configs, revision, applied, notified>>
    BY <1>2, AppLeaves
  <2>2. UNCHANGED closed \/ lpc = "exited"
    BY <1>2, Zenon
       DEF AppNext, CallRead, CallOnChange, OnChangeLock, CallClose, AppStep, ReturnRead,
           ReturnClose, CopyKey, OnChange, histVars
  <2>3. lpc' = lpc
    BY <2>1
  <2>4. QuietInv'
    BY <2>2, <2>3, Zenon DEF QuietInv
  <2> QED
    BY <2>1, <2>4
<1>3. ASSUME UNCHANGED loopVars PROVE Goal
  BY <1>3, Zenon DEF loopVars, QuietInv, dataVars, histVars
<1> HIDE DEF Goal
<1>4. Goal
  BY <1>1, <1>2, <1>3, LoopNextParts, Zenon
<1> QED
  BY <1>4 DEF Goal

(* After any Close has returned, no event is applied, no callback runs and  *)
(* the revision stays: the loop ends before Close returns, and nothing      *)
(* starts it again.                                                         *)
THEOREM QuietAfterCloseHolds == LoopSpec => QuietAfterClose
<1>1. LoopInit => QuietInv
  BY DEF LoopInit, QuietInv
<1>2. QuietInv /\ [LoopNext]_loopVars => QuietInv'
  BY QuietNext
<1>3. QuietInv /\ [LoopNext]_loopVars
        => [closed => UNCHANGED <<configs, revision, applied, notified>>]_loopVars
  BY QuietNext
<1> QED
  BY <1>1, <1>2, <1>3, PTL DEF LoopSpec, QuietAfterClose

-----------------------------------------------------------------------------
(* What Get and GetAll see.  A reader inside the lock has copied from the    *)
(* map as it is, and while the loop is not inside, the map is the last view; *)
(* a reader that waits has copied nothing.                                   *)

(* Call c of goroutine a, with the readers R, the waiting readers B, the map *)
(* m and n events applied.                                                   *)
ReadOK(a, c, R, B, m, n) ==
  /\ c.told <= n
  /\ \/ a \in R /\ \A k \in DOMAIN c.got : c.got[k] = m[k]
     \/ a \in B /\ DOMAIN c.got = {} /\ (c.left # {} \/ Keys = {})

ReadInv ==
  /\ views # <<>>
  /\ writer = Nobody => views[Len(views)] = [n |-> Len(applied), configs |-> configs]
  /\ \A a \in Apps : call[a].op = "read" =>
       ReadOK(a, call[a], readers, blocked, configs, Len(applied))

(* A reader keeps its place, or comes in. *)
LEMMA ReaderStays ==
  ASSUME LoopTypeOK, LockInv, NEW a \in Apps, NEW c, NEW m, NEW n,
         ReadOK(a, c, readers, blocked, m, n),
         \/ UNCHANGED lockVars
         \/ \E g \in Goroutines : \/ RLock(g) \/ Announce(g) \/ EnterAndUnlock(g)
                                  \/ RUnlock(g) /\ g # a
         \/ Enter(Loop) \/ Unlock(Loop)
  PROVE  ReadOK(a, c, readers', blocked', m, n)
<1>1. a \in readers => a \in readers'
  BY DEF lockVars, RLock, Announce, EnterAndUnlock, RUnlock, Enter, Unlock, AdmitBlocked
<1>2. a \in blocked => a \in blocked' \/ a \in readers'
  BY DEF lockVars, RLock, Announce, EnterAndUnlock, RUnlock, Enter, Unlock, AdmitBlocked
<1> QED
  BY <1>1, <1>2 DEF ReadOK

(* Every step keeps a read in progress equal to the view its lock protects. *)
LEMMA ReadInvNext ==
  ASSUME LoopTypeInv, LockInv, ReadInv, [LoopNext]_loopVars
  PROVE  ReadInv'
<1>0. /\ LoopTypeOK /\ writer \in {Loop, Nobody} /\ Loop # Nobody /\ Loop \notin Apps
      /\ Loop \in Goroutines /\ (\A a \in Apps : a \in Goroutines)
      /\ call \in [Apps -> Call] /\ applied \in Seq(Told) /\ Len(applied) \in Nat
      /\ views \in Seq([n : 0 .. MaxRev, configs : Views])
      /\ configs \in Views
  BY LoopAssumption DEF LoopTypeInv, LoopTypeOK, Goroutines
<1> DEFINE Moves(a) ==
      \/ UNCHANGED lockVars
      \/ \E g \in Goroutines : \/ RLock(g) \/ Announce(g) \/ EnterAndUnlock(g)
                               \/ RUnlock(g) /\ g # a
      \/ Enter(Loop) \/ Unlock(Loop)
    Reads(a) == call[a].op = "read" =>
                  ReadOK(a, call[a], readers, blocked, configs, Len(applied))
    ViewsOK == /\ views # <<>>
               /\ writer = Nobody =>
                    views[Len(views)] = [n |-> Len(applied), configs |-> configs]
<1>1. ViewsOK /\ \A a \in Apps : Reads(a)
  BY DEF ReadInv
<1>2. SUFFICES ViewsOK' /\ \A a \in Apps : Reads(a)'
  BY DEF ReadInv
<1>3. ASSUME NEW a \in Apps, Moves(a), UNCHANGED <<configs, applied>>, call'[a] = call[a]
      PROVE  Reads(a)'
  <2>1. call[a].op = "read" =>
          ReadOK(a, call[a], readers', blocked', configs, Len(applied))
    BY <1>0, <1>1, <1>3, ReaderStays
  <2> QED
    BY <1>3, <2>1
<1>4. ASSUME UNCHANGED <<configs, applied, views, writer>> PROVE ViewsOK'
  BY <1>1, <1>4
<1>5. ASSUME LoopStep \/ Reenter PROVE UNCHANGED call
  BY <1>5, Zenon
     DEF LoopStep, LoopExit, LoopRLock, NoCache, LoopRUnlock, Poll, PollError, PollGarbage,
         PollRefused, PollAnswer, BackoffOver, ApplyLock, ApplyEnter, ApplyEvent,
         RunCallback, ApplyUnlock, AdoptLock, AdoptRevision, Reenter
<1>6. ASSUME LoopStep \/ Reenter, UNCHANGED <<configs, applied>> PROVE \A a \in Apps : Reads(a)'
  <2> TAKE a \in Apps
  <2>1. \/ UNCHANGED lockVars
        \/ RLock(Loop) \/ RUnlock(Loop) \/ Announce(Loop) \/ EnterAndUnlock(Loop)
        \/ Enter(Loop) \/ Unlock(Loop)
    BY <1>6, Zenon
       DEF LoopStep, LoopExit, LoopRLock, NoCache, LoopRUnlock, Poll, PollError, PollGarbage,
           PollRefused, PollAnswer, BackoffOver, ApplyLock, ApplyEnter, ApplyEvent,
           RunCallback, ApplyUnlock, AdoptLock, AdoptRevision, Reenter
  <2>2. Moves(a)
    BY <1>0, <2>1, Zenon
  <2>3. call'[a] = call[a]
    BY <1>5, <1>6
  <2> HIDE DEF Moves, Reads
  <2> QED
    BY <1>3, <1>6, <2>2, <2>3
<1>7. ASSUME \/ LoopExit \/ LoopRLock \/ NoCache \/ LoopRUnlock \/ Poll \/ BackoffOver
             \/ ApplyLock \/ RunCallback \/ AdoptLock \/ AdoptRevision \/ Reenter
      PROVE  ViewsOK' /\ \A a \in Apps : Reads(a)'
  <2>1. UNCHANGED <<configs, applied, views>>
    BY <1>7, Zenon
       DEF LoopExit, LoopRLock, NoCache, LoopRUnlock, Poll, PollError, PollGarbage,
           PollRefused, PollAnswer, BackoffOver, ApplyLock, RunCallback, AdoptLock,
           AdoptRevision, Reenter, dataVars, histVars
  <2>2. UNCHANGED lockVars \/ \E g : RLock(g) \/ RUnlock(g) \/ Announce(g) \/ EnterAndUnlock(g)
    BY <1>7, Zenon
       DEF LoopExit, LoopRLock, NoCache, LoopRUnlock, Poll, PollError, PollGarbage,
           PollRefused, PollAnswer, BackoffOver, ApplyLock, RunCallback, AdoptLock,
           AdoptRevision, Reenter
  <2>3. UNCHANGED writer
    BY <2>2, WriterSame DEF lockVars
  <2>4. LoopStep \/ Reenter
    BY <1>7, Zenon DEF LoopStep
  <2> HIDE DEF ViewsOK, Reads
  <2> QED
    BY <1>4, <1>6, <2>1, <2>3, <2>4
<1>8. ASSUME ApplyEnter PROVE ViewsOK' /\ \A a \in Apps : Reads(a)'
  <2>1. UNCHANGED <<configs, applied, views>> /\ writer' = Loop
    BY <1>8 DEF ApplyEnter, Enter, dataVars, histVars
  <2>2. ViewsOK'
    BY <1>0, <1>1, <2>1
  <2>3. LoopStep
    BY <1>8, Zenon DEF LoopStep
  <2> HIDE DEF Reads
  <2> QED
    BY <1>6, <2>1, <2>2, <2>3
<1>9. ASSUME ApplyUnlock PROVE ViewsOK' /\ \A a \in Apps : Reads(a)'
  <2>1. /\ UNCHANGED <<configs, applied>>
        /\ views' = Append(views, [n |-> Len(applied), configs |-> configs])
    BY <1>9 DEF ApplyUnlock, dataVars
  <2> DEFINE v == [n |-> Len(applied), configs |-> configs]
  <2>2. v \in [n : 0 .. MaxRev, configs : Views]
    BY <1>0, AppliedBound
  <2> HIDE DEF v
  <2>3. views' # <<>> /\ views'[Len(views')] = v
    BY <1>0, <2>1, <2>2 DEF v
  <2>4. ViewsOK'
    BY <2>1, <2>3 DEF v
  <2>5. LoopStep
    BY <1>9, Zenon DEF LoopStep
  <2> HIDE DEF Reads, ViewsOK
  <2> QED
    BY <1>6, <2>1, <2>4, <2>5
<1>10. ASSUME ApplyEvent PROVE ViewsOK' /\ \A a \in Apps : Reads(a)'
  <2>1. writer = Loop /\ UNCHANGED <<lockVars, views>> /\ UNCHANGED call
    BY <1>10 DEF ApplyEvent
  <2>2. readers = {} /\ writer' = Loop /\ UNCHANGED <<readers, blocked>>
    BY <2>1 DEF LockInv, lockVars
  <2>3. ViewsOK'
    BY <1>0, <1>1, <2>1, <2>2
  <2>4. PICK c : applied' = Append(applied, c) /\ c \in Told
    BY <1>10, ApplyEventEffect, Zenon
  <2>5. Len(applied') = Len(applied) + 1
    BY <1>0, <2>4
  <2>6. ASSUME NEW a \in Apps, call[a].op = "read"
        PROVE  ReadOK(a, call[a], readers, blocked, configs', Len(applied'))
    <3>1. ReadOK(a, call[a], readers, blocked, configs, Len(applied))
      BY <1>1, <2>6
    <3>2. call[a].told \in Nat
      BY <1>0, <2>6, CallShape
    <3> QED
      BY <1>0, <2>2, <2>5, <3>1, <3>2 DEF ReadOK
  <2> QED
    BY <2>1, <2>2, <2>3, <2>6
<1>11. ASSUME NEW b \in Apps, AppNext(b) PROVE ViewsOK' /\ \A a \in Apps : Reads(a)'
  <2>1. UNCHANGED <<configs, applied, views>>
    BY <1>11, AppLeaves
  <2>2. \/ UNCHANGED lockVars
        \/ RLock(b) \/ RUnlock(b) \/ Announce(b) \/ EnterAndUnlock(b)
    BY <1>11, Zenon
       DEF AppNext, CallRead, CallOnChange, OnChangeLock, CallClose, AppStep, ReturnRead,
           ReturnClose, CopyKey, OnChange
  <2>3. UNCHANGED writer
    BY <2>2, WriterSame DEF lockVars
  <2>4. ViewsOK'
    BY <1>4, <2>1, <2>3
  <2>5. ASSUME NEW a \in Apps, a # b PROVE Reads(a)'
    <3>1. call'[a] = call[a]
      BY <1>0, <1>11, <2>5
         DEF AppNext, CallRead, CallOnChange, OnChangeLock, CallClose, AppStep, ReturnRead,
             ReturnClose, CopyKey, OnChange
    <3>2. Moves(a)
      BY <1>0, <2>2, <2>5, Zenon
    <3> HIDE DEF Moves, Reads
    <3> QED
      BY <1>3, <2>1, <3>1, <3>2
  <2>6. ASSUME NEW S \in {{k} : k \in Keys} \cup {Keys}, CallRead(b, S) PROVE Reads(b)'
    <3> DEFINE c == [op |-> "read", left |-> S, got |-> [k \in {} |-> 0],
                     told |-> Len(applied)]
    <3>1. call'[b] = c /\ RLock(b)
      BY <1>0, <2>6 DEF CallRead
    <3>2. DOMAIN c.got = {} /\ c.told = Len(applied) /\ c.left = S
      OBVIOUS
    <3>3. S # {} \/ Keys = {}
      OBVIOUS
    <3>4. b \in readers' \/ b \in blocked'
      BY <3>1 DEF RLock
    <3> HIDE DEF c
    <3>5. ReadOK(b, c, readers', blocked', configs, Len(applied))
      BY <1>0, <3>2, <3>3, <3>4 DEF ReadOK
    <3> QED
      BY <2>1, <3>1, <3>5
  <2>7. ASSUME NEW k \in Keys, CopyKey(b, k) PROVE Reads(b)'
    <3>1. /\ call[b].op = "read" /\ call[b] \in Call /\ b \in readers /\ UNCHANGED lockVars
          /\ call' = [call EXCEPT ![b].left = @ \ {k},
                                  ![b].got = [j \in DOMAIN @ \cup {k} |->
                                                IF j = k THEN configs[k] ELSE @[j]]]
      BY <1>0, <2>7 DEF CopyKey
    <3>2. call[b] \in [op : {"read"}, left : SUBSET Keys,
                       got : UNION {[S -> 0 .. MaxRev] : S \in SUBSET Keys},
                       told : 0 .. MaxRev]
      BY <3>1, CallShape
    <3> DEFINE g == [j \in DOMAIN call[b].got \cup {k} |->
                       IF j = k THEN configs[k] ELSE call[b].got[j]]
               c == [op |-> "read", left |-> call[b].left \ {k}, got |-> g,
                     told |-> call[b].told]
    <3>3. call'[b] = c
      BY <1>0, <3>1, <3>2
    <3>4. /\ call[b].told <= Len(applied)
          /\ \A j \in DOMAIN call[b].got : call[b].got[j] = configs[j]
      BY <1>1, <3>1 DEF ReadOK
    <3>5. \A j \in DOMAIN g : g[j] = configs[j]
      BY <3>4
    <3> HIDE DEF g
    <3>6. ReadOK(b, c, readers, blocked, configs, Len(applied))
      BY <3>1, <3>4, <3>5 DEF ReadOK
    <3> HIDE DEF c
    <3>7. UNCHANGED <<readers, blocked>>
      BY <3>1 DEF lockVars
    <3> QED
      BY <2>1, <3>3, <3>6, <3>7
  <2>8. ASSUME ReturnRead(b) \/ OnChange(b) \/ ReturnClose(b) \/ CallClose(b) \/ OnChangeLock(b)
               \/ \E k \in Keys \cup {AnyKey}, f \in Callbacks : CallOnChange(b, k, f)
        PROVE  Reads(b)'
    <3>1. call'[b].op \in {"idle", "close", "register", "onchange"}
      <4>1. ASSUME OnChangeLock(b) PROVE call'[b].op = "register"
        <5>1. call[b].op = "onchange" /\ call[b] \in Call
              /\ call' = [call EXCEPT ![b].op = "register"]
          BY <1>0, <4>1 DEF OnChangeLock
        <5>2. call[b] \in [op : {"onchange", "register"}, key : Keys \cup {AnyKey}, fn : Callbacks]
          BY <5>1, CallShape
        <5> QED
          BY <1>0, <5>1, <5>2
      <4>2. Idle.op = "idle"
        BY DEF Idle
      <4> QED
        BY <1>0, <2>8, <4>1, <4>2
           DEF ReturnRead, OnChange, ReturnClose, CallClose, CallOnChange
    <3> QED
      BY <3>1
  <2>9. Reads(b)'
    BY <1>11, <2>6, <2>7, <2>8, Zenon DEF AppNext, AppStep
  <2> HIDE DEF ViewsOK, Reads
  <2> QED
    BY <2>4, <2>5, <2>9
<1>12. ASSUME UNCHANGED loopVars PROVE ViewsOK' /\ \A a \in Apps : Reads(a)'
  <2>1. UNCHANGED <<configs, applied, views, call, lockVars>>
    BY <1>12 DEF loopVars, dataVars, histVars
  <2>2. UNCHANGED <<writer, readers, blocked>>
    BY <2>1 DEF lockVars
  <2> QED
    BY <1>1, <2>1, <2>2
<1> HIDE DEF ViewsOK, Reads
<1>13. ASSUME LoopStep \/ Reenter PROVE ViewsOK' /\ \A a \in Apps : Reads(a)'
  BY <1>7, <1>8, <1>9, <1>10, <1>13, Zenon DEF LoopStep
<1> QED
  BY <1>11, <1>12, <1>13, LoopNextParts, Zenon

BatchesInv == LoopTypeInv /\ LockInv /\ ReadInv

(* No read has begun in the initial state. *)
LEMMA BatchesInvInit == LoopInit => BatchesInv
<1> SUFFICES ASSUME LoopInit PROVE BatchesInv
  OBVIOUS
<1>1. LoopTypeInv
  BY LoopTypeInit
<1>2. LockInv
  BY LoopAssumption DEF LoopInit, LockInit, LockInv
<1>3. /\ applied = <<>> /\ configs = [k \in Keys |-> 0] /\ call = [a \in Apps |-> Idle]
      /\ views = <<[n |-> 0, configs |-> [k \in Keys |-> 0]]>>
  BY DEF LoopInit
<1>4. ReadInv
  BY <1>3 DEF ReadInv, Idle
<1> QED
  BY <1>1, <1>2, <1>4 DEF BatchesInv

(* The invariant behind whole-batch reads is inductive. *)
LEMMA BatchesInvNext == BatchesInv /\ [LoopNext]_loopVars => BatchesInv'
BY LoopTypeNext, LockNext, ReadInvNext DEF BatchesInv

(* It implies that a read returns the view after a whole number of batches. *)
LEMMA BatchesAreWhole == BatchesInv => ReadsAreWholeBatches
<1> SUFFICES ASSUME BatchesInv, NEW a \in Apps, call[a].op = "read", call[a].left = {}
             PROVE  \E i \in DOMAIN views :
                      /\ views[i].n >= call[a].told
                      /\ \A k \in DOMAIN call[a].got : call[a].got[k] = views[i].configs[k]
  BY DEF ReadsAreWholeBatches
<1>1. /\ LoopTypeInv /\ LockInv /\ ReadInv /\ writer \in {Loop, Nobody}
      /\ views \in Seq([n : 0 .. MaxRev, configs : Views]) /\ views # <<>>
      /\ applied \in Seq(Told) /\ call[a] \in Call
  BY DEF BatchesInv, LoopTypeInv, LoopTypeOK, ReadInv
<1>2. call[a].told \in Nat
  BY <1>1, CallShape
<1>3. ReadOK(a, call[a], readers, blocked, configs, Len(applied))
  BY <1>1 DEF ReadInv
<1>4. CASE a \in readers /\ \A k \in DOMAIN call[a].got : call[a].got[k] = configs[k]
  <2>1. writer = Nobody
    BY <1>1, <1>4 DEF LockInv
  <2>2. views[Len(views)] = [n |-> Len(applied), configs |-> configs]
    BY <1>1, <2>1 DEF ReadInv
  <2>3. Len(views) \in DOMAIN views
    BY <1>1
  <2>4. views[Len(views)].n = Len(applied) /\ views[Len(views)].configs = configs
    BY <2>2
  <2>5. Len(applied) >= call[a].told
    BY <1>1, <1>2, <1>3 DEF ReadOK
  <2> QED
    BY <1>4, <2>3, <2>4, <2>5
<1>5. CASE DOMAIN call[a].got = {} /\ Keys = {}
  <2>1. Told = {}
    BY <1>5 DEF Told
  <2>2. Len(applied) = 0
    BY <1>1, <2>1
  <2>3. call[a].told = 0
    BY <1>2, <1>3, <2>2 DEF ReadOK
  <2> DEFINE R == [n : 0 .. MaxRev, configs : Views]
  <2>4. 1 \in DOMAIN views /\ views[1] \in R
    <3>1. views \in Seq(R) /\ views # <<>>
      BY <1>1
    <3> HIDE DEF R
    <3> QED
      BY <3>1
  <2>5. views[1].n \in Nat
    BY <2>4, LoopAssumption
  <2> QED
    BY <1>5, <2>3, <2>4, <2>5
<1> QED
  BY <1>3, <1>4, <1>5 DEF ReadOK

(* Get and GetAll return the map between two batches, no older than what    *)
(* the caller had been told: for any number of readers, writers that queue  *)
(* in front of them and callbacks that run inside the lock.                 *)
THEOREM ReadsAreWholeBatchesHolds == LoopSpec => []ReadsAreWholeBatches
BY BatchesInvInit, BatchesInvNext, BatchesAreWhole, PTL DEF LoopSpec

-----------------------------------------------------------------------------
(* What a callback was told.  Since is a recursive function; what one more   *)
(* change adds to it follows by induction, in the form of the least          *)
(* counterexample.                                                           *)

(* A nonempty set of natural numbers has a least element. *)
LEMMA LeastNatural ==
  ASSUME NEW T \in SUBSET Nat, T # {}
  PROVE  \E m \in T : \A k \in T : m <= k
<1> DEFINE R == OpToRel(<, Nat)
<1>1. IsWellFoundedOn(R, Nat)
  BY NatLessThanWellFounded, Zenon
<1> HIDE DEF R
<1>2. PICK m \in T : \A k \in T : ~ (<<k, m>> \in R)
  BY <1>1, WFMin
<1>3. \A k \in T : ~ (k < m)
  BY <1>2 DEF R, OpToRel
<1> QED
  BY <1>3

(* One round of Since. *)
Round(due, s, n, K, i) ==
  IF i <= n THEN <<>>
  ELSE IF s[i].key \in K THEN Append(due[i - 1], s[i]) ELSE due[i - 1]

IsSince(due, s, n, K, m) == due = [i \in 0 .. m |-> Round(due, s, n, K, i)]

(* The recursion is well defined. *)
LEMMA SinceRuns ==
  ASSUME NEW s, NEW n \in Nat, NEW K, NEW l \in Nat
  PROVE  \E due : IsSince(due, s, n, K, l)
<1> DEFINE T == {m \in Nat : ~ \E due : IsSince(due, s, n, K, m)}
<1>1. SUFFICES ASSUME T # {} PROVE FALSE
  OBVIOUS
<1>2. PICK m \in T : \A k \in T : m <= k
  BY <1>1, LeastNatural
<1>3. m # 0
  <2> SUFFICES ASSUME m = 0 PROVE FALSE
    OBVIOUS
  <2> DEFINE f == [i \in 0 .. 0 |-> <<>>]
  <2>1. IsSince(f, s, n, K, 0)
    BY DEF IsSince, Round
  <2> QED
    BY <2>1
<1>4. m - 1 \in Nat /\ m - 1 \notin T
  BY <1>2, <1>3
<1>5. PICK f : IsSince(f, s, n, K, m - 1)
  BY <1>4
<1> DEFINE g == [i \in 0 .. m |-> IF i = m THEN Round(f, s, n, K, m) ELSE f[i]]
<1>6. ASSUME NEW i \in 0 .. m PROVE g[i] = Round(g, s, n, K, i)
  <2>1. i # 0 => g[i - 1] = f[i - 1]
    BY <1>4
  <2>2. Round(g, s, n, K, i) = Round(f, s, n, K, i)
    BY <2>1 DEF Round
  <2>3. CASE i = m
    BY <2>2, <2>3
  <2>4. CASE i # m
    <3>1. i \in 0 .. m - 1
      BY <1>4, <2>4
    <3>2. f[i] = Round(f, s, n, K, i)
      BY <1>5, <3>1, Zenon DEF IsSince
    <3> QED
      BY <2>2, <2>4, <3>2
  <2> QED
    BY <2>3, <2>4
<1>7. IsSince(g, s, n, K, m)
  <2> DEFINE h == [i \in 0 .. m |-> Round(g, s, n, K, i)]
  <2>1. \A i \in 0 .. m : g[i] = h[i]
    BY <1>6
  <2>2. DOMAIN g = 0 .. m /\ DOMAIN h = 0 .. m
    OBVIOUS
  <2>3. g = h
    BY <2>1, <2>2
  <2> QED
    BY <2>3 DEF IsSince
<1> QED
  BY <1>7

(* Since(s, n, K) is the last value of a run over s that filters one event at a time. *)
LEMMA SinceIsRun ==
  ASSUME NEW E, NEW s \in Seq(E), NEW n \in Nat, NEW K
  PROVE  \E due : IsSince(due, s, n, K, Len(s)) /\ Since(s, n, K) = due[Len(s)]
<1> DEFINE due == CHOOSE due : IsSince(due, s, n, K, Len(s))
<1>1. IsSince(due, s, n, K, Len(s))
  <2>1. Len(s) \in Nat
    OBVIOUS
  <2>2. \E f : IsSince(f, s, n, K, Len(s))
    BY <2>1, SinceRuns
  <2> QED
    BY <2>2, Zenon
<1>2. Since(s, n, K) = due[Len(s)]
  BY Zenon DEF Since, IsSince, Round
<1> QED
  BY <1>1, <1>2, Zenon

(* Nothing is due at the moment of the registration. *)
LEMMA SinceNone ==
  ASSUME NEW E, NEW s \in Seq(E), NEW K
  PROVE  Since(s, Len(s), K) = <<>>
<1>1. Len(s) \in Nat /\ Len(s) \in 0 .. Len(s) /\ Len(s) <= Len(s)
  OBVIOUS
<1>2. PICK due : IsSince(due, s, Len(s), K, Len(s)) /\ Since(s, Len(s), K) = due[Len(s)]
  BY <1>1, SinceIsRun
<1>3. due[Len(s)] = Round(due, s, Len(s), K, Len(s))
  BY <1>1, <1>2, Zenon DEF IsSince
<1> QED
  BY <1>1, <1>2, <1>3 DEF Round

(* One more change. *)
LEMMA SinceNext ==
  ASSUME NEW E, NEW s \in Seq(E), NEW c \in E, NEW n \in 0 .. Len(s), NEW K
  PROVE  Since(Append(s, c), n, K) =
           IF c.key \in K THEN Append(Since(s, n, K), c) ELSE Since(s, n, K)
<1> DEFINE t == Append(s, c)
           l == Len(s)
<1>1. l \in Nat /\ n \in Nat /\ n <= l
  OBVIOUS
<1>2. t \in Seq(E) /\ Len(t) = l + 1 /\ t[l + 1] = c /\ \A i \in 1 .. l : t[i] = s[i]
  OBVIOUS
<1>3. PICK f : IsSince(f, s, n, K, l) /\ Since(s, n, K) = f[l]
  BY <1>1, SinceIsRun
<1> HIDE DEF t
<1>4. PICK g : IsSince(g, t, n, K, Len(t)) /\ Since(t, n, K) = g[Len(t)]
  BY <1>1, <1>2, SinceIsRun
<1> HIDE DEF l
<1>5. \A i \in 0 .. l : f[i] = Round(f, s, n, K, i)
  BY <1>3, Zenon DEF IsSince
<1>6. \A i \in 0 .. l + 1 : g[i] = Round(g, t, n, K, i)
  BY <1>2, <1>4, Zenon DEF IsSince
<1> DEFINE T == {i \in 0 .. l : g[i] # f[i]}
<1>7. T = {}
  <2> SUFFICES ASSUME T # {} PROVE FALSE
    OBVIOUS
  <2>1. T \in SUBSET Nat
    BY <1>1
  <2>2. PICK i \in T : \A k \in T : i <= k
    BY <2>1, LeastNatural
  <2>3. i \in 0 .. l /\ i \in 0 .. l + 1 /\ i \in Nat
    BY <1>1
  <2>4. g[i] = Round(g, t, n, K, i) /\ f[i] = Round(f, s, n, K, i)
    BY <1>5, <1>6, <2>3
  <2>5. CASE i <= n
    BY <2>4, <2>5 DEF Round
  <2>6. CASE ~ (i <= n)
    <3>1. i \in 1 .. l /\ i - 1 \in 0 .. l /\ ~ (i <= i - 1)
      BY <1>1, <2>3, <2>6
    <3>2. g[i - 1] = f[i - 1] /\ t[i] = s[i]
      BY <1>2, <2>2, <3>1
    <3> QED
      BY <2>4, <3>2 DEF Round
  <2> QED
    BY <2>5, <2>6
<1>8. g[l] = f[l]
  BY <1>1, <1>7
<1>9. g[l + 1] = Round(g, t, n, K, l + 1) /\ ~ (l + 1 <= n) /\ (l + 1) - 1 = l
  BY <1>1, <1>6
<1>10. g[l + 1] = IF c.key \in K THEN Append(g[l], c) ELSE g[l]
  BY <1>2, <1>9 DEF Round
<1> QED
  BY <1>2, <1>3, <1>4, <1>8, <1>10 DEF t

(* No callback is registered twice, and so none runs twice for one event.   *)
NoTwice(w) ==
  \A j, k \in DOMAIN w : \A x \in DOMAIN w[j], y \in DOMAIN w[k] :
    w[j][x] = w[k][y] => j = k /\ x = y

(* A callback registered once sits at one place of one list. *)
LEMMA NoTwiceApply ==
  ASSUME NEW w, NoTwice(w), NEW j \in DOMAIN w, NEW k \in DOMAIN w,
         NEW x \in DOMAIN w[j], NEW y \in DOMAIN w[k], w[j][x] = w[k][y]
  PROVE  j = k /\ x = y
BY DEF NoTwice

Registering(c) == c.op \in {"onchange", "register"}

RegInv ==
  /\ NoTwice(watchers)
  /\ \A a \in Apps : Registering(call[a]) => call[a].fn \notin Registered
  /\ \A a, b \in Apps :
       Registering(call[a]) /\ Registering(call[b]) /\ call[a].fn = call[b].fn => a = b
  /\ \A x, y \in DOMAIN todo : todo[x] = todo[y] => x = y
  /\ ToSet(todo) \subseteq Registered

(* A callback that is still to run for the current event is one change      *)
(* behind what is due, the others are not.                                  *)
ToldInv ==
  /\ \A f \in Callbacks : regAt[f] <= Len(applied)
  /\ \A f \in Callbacks \ Registered : notified[f] = <<>>
  /\ \A f \in Registered :
       /\ f \in ToSet(todo) => Due(f) = Append(notified[f], Last(applied))
       /\ f \notin ToSet(todo) => Due(f) = notified[f]

(* A callback is registered when some key's list has it. *)
LEMMA InRegistered ==
  ASSUME NEW f
  PROVE  f \in Registered <=> \E k \in DOMAIN watchers : f \in ToSet(watchers[k])
BY DEF Registered

(* Only callbacks are registered. *)
LEMMA RegisteredCallbacks ==
  ASSUME LoopTypeOK, NEW f \in Registered
  PROVE  f \in Callbacks
<1>1. PICK k \in DOMAIN watchers : f \in ToSet(watchers[k])
  BY InRegistered
<1>2. watchers[k] \in Seq(Callbacks)
  BY <1>1 DEF LoopTypeOK
<1> QED
  BY <1>1, <1>2 DEF ToSet

(* What OnChange adds. *)
LEMMA OnChangeEffect ==
  ASSUME LoopTypeInv, RegInv, NEW a \in Apps, OnChange(a)
  PROVE  LET f == call[a].fn IN
         /\ f \in Callbacks /\ f \notin Registered
         /\ Registered' = Registered \cup {f}
         /\ NoTwice(watchers')
         /\ regAt' = [regAt EXCEPT ![f] = Len(applied)]
         /\ \A g \in Registered : Wanted(g)' = Wanted(g)
<1> DEFINE f == call[a].fn
           q == call[a].key
<1>0. /\ watchers \in [Keys \cup {AnyKey} -> Seq(Callbacks)]
      /\ call[a] \in Call /\ call[a].op = "register"
  BY DEF LoopTypeInv, LoopTypeOK, OnChange
<1>1. f \in Callbacks /\ q \in Keys \cup {AnyKey}
  BY <1>0, CallShape
<1>2. f \notin Registered
  BY <1>0 DEF RegInv, Registering
<1>3. /\ watchers' = [watchers EXCEPT ![q] = Append(@, f)]
      /\ regAt' = [regAt EXCEPT ![f] = Len(applied)]
  BY DEF OnChange
<1> HIDE DEF f, q
<1>4. /\ DOMAIN watchers = Keys \cup {AnyKey} /\ DOMAIN watchers' = Keys \cup {AnyKey}
      /\ watchers'[q] = Append(watchers[q], f)
      /\ \A k \in Keys \cup {AnyKey} : watchers[k] \in Seq(Callbacks)
      /\ \A k \in Keys \cup {AnyKey} : k # q => watchers'[k] = watchers[k]
  BY <1>0, <1>1, <1>3
<1>5. ToSet(watchers'[q]) = ToSet(watchers[q]) \cup {f}
  <2>1. watchers[q] \in Seq(Callbacks)
    BY <1>1, <1>4
  <2> DEFINE s == watchers[q]
  <2>2. DOMAIN Append(s, f) = DOMAIN s \cup {Len(s) + 1} /\ Append(s, f)[Len(s) + 1] = f
        /\ \A i \in DOMAIN s : Append(s, f)[i] = s[i]
    BY <1>1, <2>1
  <2> QED
    BY <1>4, <2>2 DEF ToSet
<1>6. \A k \in Keys \cup {AnyKey} : k # q => ToSet(watchers'[k]) = ToSet(watchers[k])
  BY <1>4
<1>7. Registered' = Registered \cup {f}
  <2>1. Registered = UNION {ToSet(watchers[k]) : k \in Keys \cup {AnyKey}}
    BY <1>4 DEF Registered
  <2>2. Registered' = UNION {ToSet(watchers'[k]) : k \in Keys \cup {AnyKey}}
    BY <1>4 DEF Registered
  <2> QED
    BY <1>1, <1>5, <1>6, <2>1, <2>2
<1>8. ASSUME NEW g \in Registered PROVE Wanted(g)' = Wanted(g)
  <2>1. g # f
    BY <1>2
  <2>2. \A k \in Keys \cup {AnyKey} : g \in ToSet(watchers'[k]) <=> g \in ToSet(watchers[k])
    BY <1>5, <1>6, <2>1
  <2> QED
    BY <2>2 DEF Wanted
<1>9. \A k \in Keys \cup {AnyKey} : \A x \in DOMAIN watchers[k] : watchers[k][x] # f
  <2> SUFFICES ASSUME NEW k \in Keys \cup {AnyKey}, NEW x \in DOMAIN watchers[k],
                      watchers[k][x] = f
               PROVE  FALSE
    OBVIOUS
  <2>1. f \in ToSet(watchers[k])
    BY DEF ToSet
  <2> QED
    BY <1>2, <1>4, <2>1, InRegistered
<1>10. NoTwice(watchers')
  <2> SUFFICES ASSUME NEW j \in DOMAIN watchers', NEW k \in DOMAIN watchers',
                      NEW x \in DOMAIN watchers'[j], NEW y \in DOMAIN watchers'[k],
                      watchers'[j][x] = watchers'[k][y]
               PROVE  j = k /\ x = y
    BY DEF NoTwice
  <2>1. j \in Keys \cup {AnyKey} /\ k \in Keys \cup {AnyKey}
    BY <1>4
  <2> DEFINE New(i, z) == i = q /\ z = Len(watchers[q]) + 1
  <2>2. ASSUME NEW i \in Keys \cup {AnyKey}, NEW z \in DOMAIN watchers'[i]
        PROVE  \/ New(i, z) /\ watchers'[i][z] = f
               \/ z \in DOMAIN watchers[i] /\ watchers'[i][z] = watchers[i][z]
    <3>1. CASE i # q
      BY <1>4, <3>1
    <3>2. CASE i = q
      <4>1. watchers[q] \in Seq(Callbacks)
        BY <1>1, <1>4
      <4> QED
        BY <1>1, <1>4, <3>2, <4>1
    <3> QED
      BY <3>1, <3>2
  <2>3. CASE New(j, x) /\ watchers'[j][x] = f
    <3>1. New(k, y)
      BY <1>9, <2>1, <2>2, <2>3
    <3> QED
      BY <2>3, <3>1
  <2>4. CASE x \in DOMAIN watchers[j] /\ watchers'[j][x] = watchers[j][x]
    <3>1. y \in DOMAIN watchers[k] /\ watchers'[k][y] = watchers[k][y]
      BY <1>9, <2>1, <2>2, <2>4
    <3>2. NoTwice(watchers)
      BY DEF RegInv
    <3>3. watchers[j][x] = watchers[k][y] /\ j \in DOMAIN watchers /\ k \in DOMAIN watchers
      BY <1>4, <2>1, <2>4, <3>1
    <3> QED
      BY <2>4, <3>1, <3>2, <3>3, NoTwiceApply
  <2> QED
    BY <2>1, <2>2, <2>3, <2>4
<1> QED
  BY <1>1, <1>2, <1>3, <1>7, <1>8, <1>10 DEF f

(* A step of the application that registers nothing starts at most one      *)
(* OnChange, with a callback nobody uses yet.                               *)
LEMMA AppRegisters ==
  ASSUME LoopTypeInv, NEW a \in Apps, AppNext(a), ~ OnChange(a)
  PROVE  /\ UNCHANGED <<watchers, regAt>>
         /\ \A b \in Apps : Registering(call'[b]) =>
              \/ Registering(call[b]) /\ call'[b].fn = call[b].fn
              \/ b = a /\ call'[b].fn \notin Registered \cup InOnChange
<1>0. call \in [Apps -> Call]
  BY DEF LoopTypeInv, LoopTypeOK
<1> DEFINE Goal == \A b \in Apps : Registering(call'[b]) =>
                     \/ Registering(call[b]) /\ call'[b].fn = call[b].fn
                     \/ b = a /\ call'[b].fn \notin Registered \cup InOnChange
<1>1. UNCHANGED <<watchers, regAt>>
  BY Zenon
     DEF AppNext, CallRead, CallOnChange, OnChangeLock, CallClose, AppStep, ReturnRead,
         ReturnClose, CopyKey, dataVars, histVars
<1>2. ASSUME NEW c, ~ Registering(c), call' = [call EXCEPT ![a] = c] PROVE Goal
  BY <1>0, <1>2
<1>3. ASSUME NEW S, CallRead(a, S) PROVE Goal
  <2> DEFINE c == [op |-> "read", left |-> S, got |-> [k \in {} |-> 0], told |-> Len(applied)]
  <2>1. ~ Registering(c)
    BY DEF Registering
  <2> QED
    BY <1>2, <1>3, <2>1 DEF CallRead
<1>4. ASSUME ReturnRead(a) \/ ReturnClose(a) PROVE Goal
  <2>1. ~ Registering(Idle)
    BY DEF Registering, Idle
  <2> QED
    BY <1>2, <1>4, <2>1 DEF ReturnRead, ReturnClose
<1>5. ASSUME CallClose(a) PROVE Goal
  <2>1. ~ Registering([op |-> "close"])
    BY DEF Registering
  <2> QED
    BY <1>2, <1>5, <2>1 DEF CallClose
<1>6. ASSUME NEW k, CopyKey(a, k) PROVE Goal
  <2>1. /\ call[a].op = "read" /\ call[a] \in Call
        /\ call' = [call EXCEPT ![a].left = @ \ {k},
                                ![a].got = [j \in DOMAIN @ \cup {k} |->
                                              IF j = k THEN configs[k] ELSE @[j]]]
    BY <1>0, <1>6 DEF CopyKey
  <2>2. call[a] \in [op : {"read"}, left : SUBSET Keys,
                     got : UNION {[S -> 0 .. MaxRev] : S \in SUBSET Keys}, told : 0 .. MaxRev]
    BY <2>1, CallShape
  <2>3. call'[a].op = "read" /\ \A b \in Apps : b # a => call'[b] = call[b]
    BY <1>0, <2>1, <2>2
  <2> QED
    BY <2>3 DEF Registering
<1>7. ASSUME NEW k, NEW f, CallOnChange(a, k, f) PROVE Goal
  <2> DEFINE c == [op |-> "onchange", key |-> k, fn |-> f]
  <2>1. f \notin Registered \cup InOnChange /\ call' = [call EXCEPT ![a] = c]
    BY <1>7 DEF CallOnChange
  <2>2. c.fn = f
    OBVIOUS
  <2> HIDE DEF c
  <2> QED
    BY <1>0, <2>1, <2>2
<1>8. ASSUME OnChangeLock(a) PROVE Goal
  <2>1. call[a].op = "onchange" /\ call[a] \in Call
        /\ call' = [call EXCEPT ![a].op = "register"]
    BY <1>0, <1>8 DEF OnChangeLock
  <2>2. call[a] \in [op : {"onchange", "register"}, key : Keys \cup {AnyKey}, fn : Callbacks]
    BY <2>1, CallShape
  <2>3. call'[a].fn = call[a].fn /\ \A b \in Apps : b # a => call'[b] = call[b]
    BY <1>0, <2>1, <2>2
  <2> QED
    BY <2>1, <2>3 DEF Registering
<1>9. Goal
  <2> HIDE DEF Goal
  <2> QED
    BY <1>3, <1>4, <1>5, <1>6, <1>7, <1>8, Zenon DEF AppNext, AppStep
<1> QED
  BY <1>1, <1>9

(* The steps of the loop do not touch the registrations. *)
LEMMA LoopRegisters ==
  ASSUME LoopStep \/ Reenter
  PROVE  UNCHANGED <<watchers, regAt, call>>
BY Zenon
   DEF LoopStep, LoopExit, LoopRLock, NoCache, LoopRUnlock, Poll, PollError, PollGarbage,
       PollRefused, PollAnswer, BackoffOver, ApplyLock, ApplyEnter, ApplyEvent,
       RunCallback, ApplyUnlock, AdoptLock, AdoptRevision, Reenter, dataVars, histVars

(* Only two of them touch the callbacks to run. *)
LEMMA LoopTells ==
  ASSUME LoopStep \/ Reenter
  PROVE  ApplyEvent \/ RunCallback \/ UNCHANGED <<todo, applied, notified>>
BY Zenon
   DEF LoopStep, LoopExit, LoopRLock, NoCache, LoopRUnlock, Poll, PollError, PollGarbage,
       PollRefused, PollAnswer, BackoffOver, ApplyLock, ApplyEnter,
       ApplyUnlock, AdoptLock, AdoptRevision, Reenter, dataVars, histVars

(* The callbacks of an event. *)
LEMMA EventCallbacks ==
  ASSUME LoopTypeInv, RegInv, NEW k \in Keys
  PROVE  LET t == watchers[k] \o watchers[AnyKey] IN
         /\ \A x, y \in DOMAIN t : t[x] = t[y] => x = y
         /\ \A f : f \in ToSet(t) <=> k \in Wanted(f)
         /\ ToSet(t) \subseteq Registered
<1> DEFINE u == watchers[k]
           v == watchers[AnyKey]
           t == u \o v
<1>0. /\ u \in Seq(Callbacks) /\ v \in Seq(Callbacks) /\ k # AnyKey
      /\ k \in DOMAIN watchers /\ AnyKey \in DOMAIN watchers
  BY LoopAssumption DEF LoopTypeInv, LoopTypeOK
<1>1. /\ \A x, y \in DOMAIN u : u[x] = u[y] => x = y
      /\ \A x, y \in DOMAIN v : v[x] = v[y] => x = y
      /\ \A x \in DOMAIN u, y \in DOMAIN v : u[x] # v[y]
  BY <1>0, Zenon DEF RegInv, NoTwice
<1>2. ToSet(u) \subseteq Registered /\ ToSet(v) \subseteq Registered
  BY <1>0, InRegistered
<1>3. \A f : k \in Wanted(f) <=> f \in ToSet(u) \/ f \in ToSet(v)
  BY DEF Wanted
<1> HIDE DEF u, v
<1>4. \A x \in DOMAIN t : \/ x \in DOMAIN u /\ t[x] = u[x]
                          \/ x - Len(u) \in DOMAIN v /\ t[x] = v[x - Len(u)] /\ x > Len(u)
  BY <1>0
<1>5. \A x, y \in DOMAIN t : t[x] = t[y] => x = y
  <2> SUFFICES ASSUME NEW x \in DOMAIN t, NEW y \in DOMAIN t, t[x] = t[y] PROVE x = y
    OBVIOUS
  <2>1. x \in Int /\ y \in Int /\ Len(u) \in Int
    BY <1>0
  <2> HIDE DEF t
  <2>2. CASE x \in DOMAIN u /\ t[x] = u[x]
    <3>1. y \in DOMAIN u /\ t[y] = u[y]
      BY <1>1, <1>4, <2>2
    <3> QED
      BY <1>1, <2>2, <3>1
  <2>3. CASE x - Len(u) \in DOMAIN v /\ t[x] = v[x - Len(u)]
    <3>1. y - Len(u) \in DOMAIN v /\ t[y] = v[y - Len(u)]
      BY <1>1, <1>4, <2>3
    <3>2. x - Len(u) = y - Len(u)
      BY <1>1, <2>3, <3>1
    <3> QED
      BY <2>1, <3>2
  <2> QED
    BY <1>4, <2>2, <2>3
<1>6. ToSet(t) = ToSet(u) \cup ToSet(v)
  <2>1. \A f \in ToSet(t) : f \in ToSet(u) \/ f \in ToSet(v)
    BY <1>4 DEF ToSet
  <2>2. \A x \in DOMAIN u : x \in DOMAIN t /\ t[x] = u[x]
    BY <1>0
  <2>3. \A y \in DOMAIN v : y + Len(u) \in DOMAIN t /\ t[y + Len(u)] = v[y]
    BY <1>0
  <2>4. \A f \in ToSet(u) \cup ToSet(v) : f \in ToSet(t)
    BY <2>2, <2>3 DEF ToSet
  <2> QED
    BY <2>1, <2>4
<1> HIDE DEF t
<1>7. /\ \A x, y \in DOMAIN t : t[x] = t[y] => x = y
      /\ \A f : f \in ToSet(t) <=> k \in Wanted(f)
      /\ ToSet(t) \subseteq Registered
  BY <1>2, <1>3, <1>5, <1>6
<1> QED
  BY <1>7 DEF t, u, v

(* One callback less to run. *)
LEMMA TailCallbacks ==
  ASSUME NEW E, NEW s \in Seq(E), s # <<>>, \A x, y \in DOMAIN s : s[x] = s[y] => x = y
  PROVE  /\ Tail(s) \in Seq(E)
         /\ \A x, y \in DOMAIN Tail(s) : Tail(s)[x] = Tail(s)[y] => x = y
         /\ ToSet(Tail(s)) = ToSet(s) \ {Head(s)}
         /\ Head(s) \in ToSet(s)
<1> DEFINE t == Tail(s)
<1>1. t \in Seq(E) /\ Len(t) = Len(s) - 1 /\ Len(s) \in Nat /\ Len(s) > 0
      /\ DOMAIN s = 1 .. Len(s) /\ DOMAIN t = 1 .. Len(t)
      /\ \A x \in DOMAIN t : t[x] = s[x + 1]
      /\ Head(s) = s[1]
  OBVIOUS
<1> HIDE DEF t
<1>2. \A x \in DOMAIN t : x + 1 \in DOMAIN s /\ x + 1 # 1 /\ x \in Nat
  BY <1>1
<1>3. \A x, y \in DOMAIN t : t[x] = t[y] => x = y
  <2> SUFFICES ASSUME NEW x \in DOMAIN t, NEW y \in DOMAIN t, t[x] = t[y] PROVE x = y
    OBVIOUS
  <2>1. x + 1 = y + 1
    BY <1>1, <1>2
  <2> QED
    BY <1>2, <2>1
<1>4. 1 \in DOMAIN s
  BY <1>1
<1>5. \A x \in DOMAIN s : x # 1 => x - 1 \in DOMAIN t /\ t[x - 1] = s[x]
  BY <1>1
<1>6. ToSet(t) = ToSet(s) \ {Head(s)}
  <2>1. ASSUME NEW f \in ToSet(t) PROVE f \in ToSet(s) \ {Head(s)}
    <3>1. PICK x \in DOMAIN t : f = t[x]
      BY DEF ToSet
    <3>2. f = s[x + 1] /\ x + 1 \in DOMAIN s /\ x + 1 # 1
      BY <1>1, <1>2, <3>1
    <3> QED
      BY <1>1, <1>4, <3>2 DEF ToSet
  <2>2. ASSUME NEW f \in ToSet(s) \ {Head(s)} PROVE f \in ToSet(t)
    <3>1. PICK x \in DOMAIN s : f = s[x]
      BY DEF ToSet
    <3>2. x # 1
      BY <1>1, <3>1
    <3> QED
      BY <1>5, <3>1, <3>2 DEF ToSet
  <2> QED
    BY <2>1, <2>2
<1>7. Head(s) \in ToSet(s)
  BY <1>1, <1>4 DEF ToSet
<1> QED
  BY <1>1, <1>3, <1>6, <1>7 DEF t

(* Every step keeps each callback registered once, or about to be. *)
LEMMA RegInvNext ==
  ASSUME LoopTypeInv, LockInv, RegInv, [LoopNext]_loopVars
  PROVE  RegInv'
<1> DEFINE TodoOK(t) == \A x, y \in DOMAIN t : t[x] = t[y] => x = y
           CallsOK ==
             /\ \A a \in Apps : Registering(call[a]) => call[a].fn \notin Registered
             /\ \A a, b \in Apps :
                  Registering(call[a]) /\ Registering(call[b]) /\ call[a].fn = call[b].fn => a = b
<1>0. NoTwice(watchers) /\ CallsOK /\ TodoOK(todo) /\ ToSet(todo) \subseteq Registered
  BY Zenon DEF RegInv
<1>1. SUFFICES NoTwice(watchers') /\ CallsOK' /\ TodoOK(todo') /\ ToSet(todo') \subseteq Registered'
  BY Zenon DEF RegInv
<1>2. ASSUME UNCHANGED <<watchers, call>>
      PROVE  NoTwice(watchers') /\ CallsOK' /\ Registered' = Registered
  BY <1>0, <1>2 DEF Registered
<1> HIDE DEF TodoOK
<1>3. ASSUME LoopStep \/ Reenter
      PROVE  NoTwice(watchers') /\ CallsOK' /\ TodoOK(todo') /\ ToSet(todo') \subseteq Registered'
  <2>1. NoTwice(watchers') /\ CallsOK' /\ Registered' = Registered
    BY <1>2, <1>3, LoopRegisters
  <2>2. CASE UNCHANGED todo
    BY <1>0, <2>1, <2>2
  <2>3. CASE ApplyEvent
    <3>1. PICK k \in Keys : todo' = watchers[k] \o watchers[AnyKey]
      BY <2>3, ApplyEventEffect, Zenon
    <3>2. TodoOK(todo') /\ ToSet(todo') \subseteq Registered
      BY <3>1, EventCallbacks DEF TodoOK
    <3> QED
      BY <2>1, <3>2
  <2>4. CASE RunCallback
    <3>1. todo \in Seq(Callbacks) /\ todo # <<>> /\ todo' = Tail(todo)
      BY <2>4 DEF LoopTypeInv, LoopTypeOK, RunCallback
    <3>2. TodoOK(Tail(todo)) /\ ToSet(Tail(todo)) \subseteq ToSet(todo)
      BY <1>0, <3>1, TailCallbacks DEF TodoOK
    <3> QED
      BY <1>0, <2>1, <3>1, <3>2
  <2> QED
    BY <1>3, <2>2, <2>3, <2>4, LoopTells
<1>4. ASSUME NEW a \in Apps, AppNext(a), ~ OnChange(a)
      PROVE  NoTwice(watchers') /\ CallsOK' /\ TodoOK(todo') /\ ToSet(todo') \subseteq Registered'
  <2>1. UNCHANGED todo
    BY <1>4, AppLeaves
  <2>2. UNCHANGED watchers
    BY <1>4, AppRegisters
  <2>3. Registered' = Registered
    BY <2>2 DEF Registered
  <2>4. \A b \in Apps : Registering(call'[b]) =>
          \/ Registering(call[b]) /\ call'[b].fn = call[b].fn
          \/ b = a /\ call'[b].fn \notin Registered \cup InOnChange
    BY <1>4, AppRegisters
  <2>5. \A b \in Apps : Registering(call[b]) => call[b].fn \in InOnChange
    BY DEF InOnChange, Registering
  <2>6. \A b \in Apps : Registering(call'[b]) => call'[b].fn \notin Registered
    BY <1>0, <2>4
  <2>7. ASSUME NEW b \in Apps, NEW c \in Apps, Registering(call'[b]), Registering(call'[c]),
               call'[b].fn = call'[c].fn
        PROVE  b = c
    BY <1>0, <2>4, <2>5, <2>7
  <2>8. CallsOK'
    BY <2>3, <2>6, <2>7
  <2> QED
    BY <1>0, <2>1, <2>2, <2>3, <2>8
<1>5. ASSUME NEW a \in Apps, OnChange(a)
      PROVE  NoTwice(watchers') /\ CallsOK' /\ TodoOK(todo') /\ ToSet(todo') \subseteq Registered'
  <2>1. UNCHANGED todo
    BY <1>5 DEF OnChange
  <2>2. NoTwice(watchers') /\ Registered' = Registered \cup {call[a].fn}
    BY <1>5, OnChangeEffect
  <2>3. /\ call \in [Apps -> Call] /\ call' = [call EXCEPT ![a] = Idle]
        /\ Registering(call[a])
    BY <1>5 DEF OnChange, LoopTypeInv, LoopTypeOK, Registering
  <2>4. ~ Registering(Idle)
    BY DEF Registering, Idle
  <2>5. \A b \in Apps : Registering(call'[b]) => b # a /\ call'[b] = call[b]
    BY <2>3, <2>4
  <2>6. CallsOK'
    BY <1>0, <2>2, <2>3, <2>5
  <2> QED
    BY <1>0, <2>1, <2>2, <2>6
<1>6. ASSUME UNCHANGED loopVars
      PROVE  NoTwice(watchers') /\ CallsOK' /\ TodoOK(todo') /\ ToSet(todo') \subseteq Registered'
  <2>1. UNCHANGED <<watchers, call, todo>>
    BY <1>6 DEF loopVars, dataVars
  <2> QED
    BY <1>0, <1>2, <2>1
<1> HIDE DEF CallsOK
<1> QED
  BY <1>3, <1>4, <1>5, <1>6, LoopNextParts, Zenon

(* Every step keeps each callback told of exactly the events it is due. *)
LEMMA ToldInvNext ==
  ASSUME LoopTypeInv, LockInv, RegInv, ToldInv, [LoopNext]_loopVars
  PROVE  ToldInv'
<1>0. /\ LoopTypeOK /\ applied \in Seq(Told) /\ Len(applied) \in Nat
      /\ regAt \in [Callbacks -> 0 .. MaxRev] /\ notified \in [Callbacks -> Seq(Told)]
      /\ todo \in Seq(Callbacks)
      /\ \A f \in Callbacks : regAt[f] \in 0 .. Len(applied)
  BY LoopAssumption DEF LoopTypeInv, LoopTypeOK, ToldInv
<1> DEFINE Late(f) == f \in ToSet(todo) => Due(f) = Append(notified[f], Last(applied))
           Told0(f) == f \notin ToSet(todo) => Due(f) = notified[f]
           RegOK == \A f \in Callbacks : regAt[f] <= Len(applied)
           NewOK == \A f \in Callbacks \ Registered : notified[f] = <<>>
           DueOK == \A f \in Registered : Late(f) /\ Told0(f)
<1>1. RegOK /\ NewOK /\ DueOK
  BY Zenon DEF ToldInv
<1>2. SUFFICES RegOK' /\ NewOK' /\ DueOK'
  BY Zenon DEF ToldInv
<1>3. ASSUME UNCHANGED <<watchers, regAt, applied, notified, todo>>
      PROVE  RegOK' /\ NewOK' /\ DueOK'
  <2>1. Registered' = Registered /\ \A f : Wanted(f)' = Wanted(f)
    BY <1>3 DEF Registered, Wanted
  <2>2. \A f : Due(f)' = Due(f)
    BY <1>3, <2>1 DEF Due
  <2> QED
    BY <1>1, <1>3, <2>1, <2>2
<1>4. ASSUME LoopStep \/ Reenter
      PROVE  Registered' = Registered /\ (\A f : Wanted(f)' = Wanted(f)) /\ UNCHANGED regAt
  BY <1>4, LoopRegisters DEF Registered, Wanted
<1>5. ASSUME ApplyEvent PROVE RegOK' /\ NewOK' /\ DueOK'
  <2>1. PICK k \in Keys, v \in 0 .. MaxRev :
          /\ applied' = Append(applied, [key |-> k, old |-> configs[k], new |-> v])
          /\ [key |-> k, old |-> configs[k], new |-> v] \in Told
          /\ todo' = watchers[k] \o watchers[AnyKey]
    BY <1>5, ApplyEventEffect, Zenon
  <2> DEFINE c == [key |-> k, old |-> configs[k], new |-> v]
  <2>2. applied' = Append(applied, c) /\ c \in Told /\ c.key = k
    BY <2>1
  <2> HIDE DEF c
  <2>3. Len(applied') = Len(applied) + 1 /\ Last(applied') = c
    BY <1>0, <2>2 DEF Last
  <2>4. todo = <<>> /\ UNCHANGED notified
    BY <1>5 DEF ApplyEvent
  <2>5. LoopStep
    BY <1>5, Zenon DEF LoopStep
  <2>6. Registered' = Registered /\ (\A f : Wanted(f)' = Wanted(f)) /\ UNCHANGED regAt
    BY <1>4, <2>5
  <2>7. \A f : f \in ToSet(todo') <=> k \in Wanted(f)
    BY <2>1, EventCallbacks
  <2>8. RegOK'
    BY <1>0, <2>3, <2>6
  <2>9. NewOK'
    BY <1>1, <2>4, <2>6
  <2>10. ASSUME NEW f \in Registered PROVE Late(f)' /\ Told0(f)'
    <3>1. f \in Callbacks /\ regAt[f] \in 0 .. Len(applied)
      BY <1>0, RegisteredCallbacks
    <3>2. f \notin ToSet(todo)
      BY <2>4 DEF ToSet
    <3>3. Due(f) = notified[f]
      BY <1>1, <3>2
    <3>4. Due(f)' = Since(Append(applied, c), regAt[f], Wanted(f))
      BY <2>2, <2>6 DEF Due
    <3>5. Since(Append(applied, c), regAt[f], Wanted(f)) =
            IF c.key \in Wanted(f) THEN Append(Since(applied, regAt[f], Wanted(f)), c)
                                   ELSE Since(applied, regAt[f], Wanted(f))
      BY <1>0, <2>2, <3>1, SinceNext
    <3>6. Due(f)' = IF k \in Wanted(f) THEN Append(notified[f], c) ELSE notified[f]
      BY <2>2, <3>3, <3>4, <3>5 DEF Due
    <3> QED
      BY <2>3, <2>4, <2>7, <3>6
  <2> QED
    BY <2>6, <2>8, <2>9, <2>10
<1>6. ASSUME RunCallback PROVE RegOK' /\ NewOK' /\ DueOK'
  <2> DEFINE h == Head(todo)
  <2>1. /\ todo # <<>> /\ todo' = Tail(todo) /\ UNCHANGED applied
        /\ notified' = [notified EXCEPT ![h] = Append(@, Last(applied))]
    BY <1>6 DEF RunCallback
  <2>2. ToSet(todo') = ToSet(todo) \ {h} /\ h \in ToSet(todo)
    BY <1>0, <2>1, TailCallbacks DEF RegInv
  <2>3. h \in Registered /\ h \in Callbacks
    BY <1>0, <2>2, RegisteredCallbacks DEF RegInv
  <2> HIDE DEF h
  <2>4. /\ notified'[h] = Append(notified[h], Last(applied))
        /\ \A f \in Callbacks : f # h => notified'[f] = notified[f]
    BY <1>0, <2>1, <2>3
  <2>5. LoopStep
    BY <1>6, Zenon DEF LoopStep
  <2>6. Registered' = Registered /\ (\A f : Wanted(f)' = Wanted(f)) /\ UNCHANGED regAt
    BY <1>4, <2>5
  <2>7. \A f : Due(f)' = Due(f)
    BY <2>1, <2>6 DEF Due
  <2>8. RegOK'
    BY <1>1, <2>1, <2>6
  <2>9. NewOK'
    BY <1>1, <2>3, <2>4, <2>6
  <2>10. ASSUME NEW f \in Registered PROVE Late(f)' /\ Told0(f)'
    <3>1. f \in Callbacks /\ Late(f) /\ Told0(f) /\ Late(h)
      BY <1>0, <1>1, <2>3, RegisteredCallbacks
    <3>2. CASE f = h
      BY <2>2, <2>4, <2>7, <3>1, <3>2
    <3>3. CASE f # h
      BY <2>1, <2>2, <2>4, <2>7, <3>1, <3>3
    <3> QED
      BY <3>2, <3>3
  <2> QED
    BY <2>6, <2>8, <2>9, <2>10
<1>7. ASSUME LoopStep \/ Reenter PROVE RegOK' /\ NewOK' /\ DueOK'
  <2> HIDE DEF RegOK, NewOK, DueOK
  <2>1. UNCHANGED <<watchers, regAt>>
    BY <1>7, LoopRegisters
  <2>2. ASSUME UNCHANGED <<todo, applied, notified>> PROVE RegOK' /\ NewOK' /\ DueOK'
    BY <1>3, <2>1, <2>2
  <2> QED
    BY <1>5, <1>6, <1>7, <2>2, LoopTells, Zenon
<1>8. ASSUME NEW a \in Apps, AppNext(a), ~ OnChange(a) PROVE RegOK' /\ NewOK' /\ DueOK'
  <2>1. UNCHANGED <<watchers, regAt>>
    BY <1>8, AppRegisters
  <2>2. UNCHANGED <<applied, notified, todo>>
    BY <1>8, AppLeaves
  <2> HIDE DEF RegOK, NewOK, DueOK
  <2> QED
    BY <1>3, <2>1, <2>2
<1>9. ASSUME NEW a \in Apps, OnChange(a) PROVE RegOK' /\ NewOK' /\ DueOK'
  <2>1. PICK g : /\ g \in Callbacks /\ g \notin Registered
                 /\ Registered' = Registered \cup {g}
                 /\ regAt' = [regAt EXCEPT ![g] = Len(applied)]
                 /\ \A f \in Registered : Wanted(f)' = Wanted(f)
    BY <1>9, OnChangeEffect
  <2>2. UNCHANGED <<applied, notified, todo>>
    BY <1>9 DEF OnChange
  <2>3. regAt'[g] = Len(applied) /\ \A f \in Callbacks : f # g => regAt'[f] = regAt[f]
    BY <1>0, <2>1
  <2>4. RegOK'
    <3>1. ASSUME NEW f \in Callbacks PROVE regAt'[f] <= Len(applied)
      <4>1. CASE f = g
        BY <1>0, <2>3, <4>1
      <4>2. CASE f # g
        BY <1>1, <2>3, <4>2
      <4> QED
        BY <4>1, <4>2
    <3> QED
      BY <2>2, <3>1
  <2>5. NewOK'
    BY <1>1, <2>1, <2>2
  <2>6. ASSUME NEW f \in Registered PROVE Late(f)' /\ Told0(f)'
    <3>1. f # g /\ f \in Callbacks
      BY <1>0, <2>1, RegisteredCallbacks
    <3>2. Due(f)' = Due(f)
      BY <2>1, <2>2, <2>3, <3>1 DEF Due
    <3> QED
      BY <1>1, <2>2, <3>2
  <2>7. Late(g)' /\ Told0(g)'
    <3>1. g \notin ToSet(todo)
      BY <2>1 DEF RegInv
    <3>2. Due(g)' = Since(applied, Len(applied), Wanted(g)')
      BY <2>2, <2>3 DEF Due
    <3>3. Due(g)' = <<>>
      BY <1>0, <3>2, SinceNone
    <3>4. notified[g] = <<>>
      BY <1>1, <2>1
    <3> QED
      BY <2>2, <3>1, <3>3, <3>4
  <2> QED
    BY <2>1, <2>4, <2>5, <2>6, <2>7
<1>10. ASSUME UNCHANGED loopVars PROVE RegOK' /\ NewOK' /\ DueOK'
  <2>1. UNCHANGED <<watchers, regAt, applied, notified, todo>>
    BY <1>10 DEF loopVars, dataVars, histVars
  <2> HIDE DEF RegOK, NewOK, DueOK
  <2> QED
    BY <1>3, <2>1
<1> HIDE DEF RegOK, NewOK, DueOK
<1> QED
  BY <1>7, <1>8, <1>9, <1>10, LoopNextParts, Zenon

CallbackInv == LoopTypeInv /\ LockInv /\ RegInv /\ ToldInv

(* No callback is registered and none is told anything in the initial state. *)
LEMMA CallbackInvInit == LoopInit => CallbackInv
<1> SUFFICES ASSUME LoopInit PROVE CallbackInv
  OBVIOUS
<1>1. LoopTypeInv /\ LockInv
  BY BatchesInvInit DEF BatchesInv
<1>2. /\ watchers = [k \in Keys \cup {AnyKey} |-> <<>>]
      /\ todo = <<>> /\ applied = <<>> /\ call = [a \in Apps |-> Idle]
      /\ regAt = [f \in Callbacks |-> 0] /\ notified = [f \in Callbacks |-> <<>>]
  BY DEF LoopInit
<1>3. Registered = {}
  BY <1>2 DEF Registered, ToSet
<1>4. RegInv
  BY <1>2 DEF RegInv, NoTwice, Registering, Idle, ToSet
<1>5. ToldInv
  BY <1>2, <1>3 DEF ToldInv
<1> QED
  BY <1>1, <1>4, <1>5 DEF CallbackInv

(* The invariant behind the callbacks is inductive. *)
LEMMA CallbackInvNext == CallbackInv /\ [LoopNext]_loopVars => CallbackInv'
BY LoopTypeNext, LockNext, RegInvNext, ToldInvNext DEF CallbackInv

(* It implies that a registered callback missed no event of its key. *)
LEMMA CallbacksAreTold == CallbackInv => CallbacksMissNothing
<1> SUFFICES ASSUME CallbackInv, NEW f \in Registered
             PROVE  notified[f] = IF f \in ToSet(todo) THEN Front(Due(f)) ELSE Due(f)
  BY DEF CallbacksMissNothing
<1>1. LoopTypeOK /\ applied \in Seq(Told) /\ notified \in [Callbacks -> Seq(Told)]
  BY DEF CallbackInv, LoopTypeInv, LoopTypeOK
<1>2. f \in Callbacks
  BY <1>1, RegisteredCallbacks
<1>3. CASE f \notin ToSet(todo)
  BY <1>3 DEF CallbackInv, ToldInv
<1>4. CASE f \in ToSet(todo)
  <2> DEFINE s == notified[f]
             c == Last(applied)
  <2>1. s \in Seq(Told) /\ Due(f) = Append(s, c)
    BY <1>1, <1>2, <1>4 DEF CallbackInv, ToldInv
  <2> HIDE DEF s, c
  <2>2. Front(Append(s, c)) = s
    BY <2>1 DEF Front
  <2> QED
    BY <1>4, <2>1, <2>2 DEF s
<1> QED
  BY <1>3, <1>4

(* A callback is told of every change to its keys from the moment OnChange   *)
(* returned, once and in order: for any number of callbacks, keys and        *)
(* goroutines that register while the loop applies events.                   *)
THEOREM CallbacksMissNothingHolds == LoopSpec => []CallbacksMissNothing
BY CallbackInvInit, CallbackInvNext, CallbacksAreTold, PTL DEF LoopSpec

=============================================================================
