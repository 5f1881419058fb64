-------------------------- MODULE WatchCacheProofs --------------------------
(***************************************************************************)
(* Proofs about WatchCache, for any number of watchers, any events and any *)
(* capacity: type correctness, no missed wakeup, and that the ring buffer  *)
(* with its lock, condition variable and timers implements EventWindow.    *)
(*                                                                         *)
(* NoMissedWakeup is inductive together with the fact that a watcher       *)
(* between Arm and Wait holds the lock (LockHeld): that is what keeps      *)
(* Append and Close out of the gap.                                        *)
(***************************************************************************)
EXTENDS WatchCache, SequenceTheorems, TLAPS

(* A watcher on its way into cond.Wait holds wc.mu. *)
LockHeld == \A w \in Watchers : pc[w] = "armed" => mu = w

(* The inductive invariant. *)
Inv == TypeOK /\ LockHeld /\ NoMissedWakeup

-----------------------------------------------------------------------------
(* Positions in the ring. *)
LEMMA ModRange ==
  ASSUME NEW a \in Nat, NEW c \in Nat \ {0}
  PROVE  a % c \in 0 .. c - 1 /\ a = c * (a \div c) + (a % c) /\ a \div c \in Int
BY Z3

(* Two of the last `capacity' events never share a slot. *)
LEMMA SlotsDistinct ==
  ASSUME NEW a \in Nat, NEW b \in Nat, NEW c \in Nat \ {0}, a < b, b - a < c
  PROVE  a % c # b % c
<1> SUFFICES ASSUME a % c = b % c PROVE FALSE
  OBVIOUS
<1> DEFINE p == a \div c
           q == b \div c
<1>1. a = c * p + (a % c) /\ b = c * q + (b % c) /\ p \in Int /\ q \in Int
  BY ModRange
<1> HIDE DEF p, q
<1>2. b - a = c * (q - p)
  <2>1. a % c \in Int /\ b % c \in Int
    BY ModRange
  <2>2. c * (q - p) = c * q - c * p
    BY <1>1
  <2>3. QED
    BY <1>1, <2>1, <2>2
<1>3. q - p >= 1
  <2> SUFFICES ASSUME q - p <= 0 PROVE FALSE
    BY <1>1
  <2>1. c * (q - p) <= 0
    BY <1>1
  <2>2. QED
    BY <1>2, <2>1
<1>4. c * (q - p) >= c
  BY <1>1, <1>3
<1>5. QED
  BY <1>2, <1>4

-----------------------------------------------------------------------------
(* The ring has at least one slot. *)
LEMMA CapacityPositive == Capacity \in Nat /\ Capacity > 0
BY WatchAssumption

(* What a broadcast does to the program counters. *)
LEMMA BroadcastType ==
  ASSUME pc \in [Watchers -> PcValues]
  PROVE  /\ Broadcast \in [Watchers -> PcValues]
         /\ \A w \in Watchers : /\ Broadcast[w] # "waiting"
                                /\ Broadcast[w] = "armed" <=> pc[w] = "armed"
                                /\ Broadcast[w] = "idle" <=> pc[w] = "idle"
BY DEF Broadcast, PcValues

(* Type correctness, one step per action. *)
LEMMA TypeOKNext == TypeOK /\ [Next]_vars => TypeOK'
<1> SUFFICES ASSUME TypeOK, [Next]_vars PROVE TypeOK'
  OBVIOUS
<1> USE DEF TypeOK
<1>1. ASSUME NEW ev \in Events, AppendEvent(ev) PROVE TypeOK'
  <2>1. count % Capacity \in 0 .. Capacity - 1
    BY WatchAssumption, ModRange
  <2>2. buf' \in [0 .. Capacity - 1 -> Events \cup {Zero}]
    BY <1>1, <2>1 DEF AppendEvent
  <2>3. QED
    BY <1>1, <2>2, BroadcastType DEF AppendEvent
<1>2. CASE Close
  BY <1>2, BroadcastType DEF Close
<1>3. ASSUME NEW w \in Watchers, NEW c \in Calls, Call(w, c) PROVE TypeOK'
  BY <1>3 DEF Call, PcValues
<1>4. ASSUME NEW w \in Watchers, Deadline(w) PROVE TypeOK'
  BY <1>4 DEF Deadline
<1>5. ASSUME NEW w \in Watchers, ReturnClosed(w) PROVE TypeOK'
  BY <1>5 DEF ReturnClosed, AbandonTimer, PcValues
<1>6. ASSUME NEW w \in Watchers, ReturnEvents(w) PROVE TypeOK'
  BY <1>6 DEF ReturnEvents, AbandonTimer, PcValues
<1>7. ASSUME NEW w \in Watchers, ReturnTimeout(w) PROVE TypeOK'
  BY <1>7 DEF ReturnTimeout, AbandonTimer, PcValues
<1>8. ASSUME NEW w \in Watchers, Arm(w) PROVE TypeOK'
  BY <1>8 DEF Arm, PcValues
<1>9. ASSUME NEW w \in Watchers, Wait(w) PROVE TypeOK'
  BY <1>9 DEF Wait, PcValues
<1>10. ASSUME NEW w \in Watchers, TimerFire(w) PROVE TypeOK'
  BY <1>10, BroadcastType DEF TimerFire
<1>11. CASE StrayFire
  BY <1>11, BroadcastType DEF StrayFire
<1>12. CASE UNCHANGED vars
  BY <1>12 DEF vars
<1>13. QED
  BY <1>1, <1>2, <1>3, <1>4, <1>5, <1>6, <1>7, <1>8, <1>9, <1>10, <1>11, <1>12
     DEF Next, Pass

(* The initial state satisfies the invariant. *)
LEMMA InvInit == Init => Inv
<1> SUFFICES ASSUME Init PROVE Inv
  OBVIOUS
<1>1. TypeOK
  BY WatchAssumption DEF Init, TypeOK, PcValues
<1>2. \A w \in Watchers : pc[w] = "idle"
  BY DEF Init
<1>3. QED
  BY <1>1, <1>2 DEF Inv, LockHeld, NoMissedWakeup

(* The ring, the arguments and the closed flag decide what a call would get. *)
LEMMA SameEvents ==
  ASSUME UNCHANGED <<buf, count>>, NEW w \in Watchers, call'[w] = call[w]
  PROVE  GetEventsLocked(w)' = GetEventsLocked(w)
BY DEF GetEventsLocked, Window, Oldest

(* A step under a free lock that broadcasts leaves nobody asleep. *)
LEMMA BroadcastKeepsInv ==
  ASSUME Inv, mu = Free, mu' = mu, pc' = Broadcast
  PROVE  LockHeld' /\ NoMissedWakeup'
<1>1. \A w \in Watchers : pc[w] # "armed"
  BY WatchAssumption DEF Inv, LockHeld
<1>2. \A w \in Watchers : pc'[w] \notin {"armed", "waiting"}
  BY <1>1, BroadcastType DEF Inv, TypeOK
<1>3. QED
  BY <1>2 DEF LockHeld, NoMissedWakeup

(* A broadcast at any time only takes watchers off the notify list. *)
LEMMA WakeKeepsInv ==
  ASSUME Inv, UNCHANGED <<buf, count, closed, mu, call>>, pc' = Broadcast
  PROVE  LockHeld' /\ NoMissedWakeup'
<1>1. \A w \in Watchers : pc'[w] \in {"armed", "waiting"} => pc[w] = "armed"
  BY BroadcastType DEF Inv, TypeOK
<1>2. \A w \in Watchers : GetEventsLocked(w)' = GetEventsLocked(w)
  BY SameEvents
<1>3. QED
  BY <1>1, <1>2, BroadcastType DEF Inv, LockHeld, NoMissedWakeup, TypeOK

(* A step of w that leaves w neither armed nor asleep. *)
LEMMA AwakeKeepsInv ==
  ASSUME Inv, NEW w \in Watchers, NEW p \in {"idle", "lock"},
         UNCHANGED <<buf, count, closed, mu>>,
         \A x \in Watchers \ {w} : call'[x] = call[x],
         pc' = [pc EXCEPT ![w] = p]
  PROVE  LockHeld' /\ NoMissedWakeup'
<1>1. \A x \in Watchers : pc'[x] \in {"armed", "waiting"} =>
        x # w /\ pc'[x] = pc[x]
  BY DEF Inv, TypeOK
<1>2. \A x \in Watchers \ {w} : GetEventsLocked(x)' = GetEventsLocked(x)
  BY SameEvents
<1>3. QED
  BY <1>1, <1>2 DEF Inv, LockHeld, NoMissedWakeup

(* Every step of the cache, its watchers and its timers preserves it. *)
LEMMA InvNext == Inv /\ [Next]_vars => Inv'
<1> SUFFICES ASSUME Inv, [Next]_vars PROVE Inv'
  OBVIOUS
<1>0. TypeOK'
  BY TypeOKNext DEF Inv
<1>1. ASSUME NEW ev \in Events, AppendEvent(ev) PROVE LockHeld' /\ NoMissedWakeup'
  BY <1>1, BroadcastKeepsInv DEF AppendEvent
<1>2. ASSUME Close PROVE LockHeld' /\ NoMissedWakeup'
  BY <1>2, BroadcastKeepsInv DEF Close
<1>3. ASSUME NEW w \in Watchers, NEW c \in Calls, Call(w, c)
      PROVE  LockHeld' /\ NoMissedWakeup'
  <2>1. \A x \in Watchers \ {w} : call'[x] = call[x]
    BY <1>3 DEF Call, Inv, TypeOK
  <2>2. QED
    BY <1>3, <2>1, AwakeKeepsInv DEF Call
<1>4. ASSUME UNCHANGED <<buf, count, closed, mu, pc, call>>
      PROVE  LockHeld' /\ NoMissedWakeup'
  BY <1>4, SameEvents DEF Inv, LockHeld, NoMissedWakeup
<1>5. ASSUME NEW w \in Watchers, ReturnClosed(w) \/ ReturnEvents(w) \/ ReturnTimeout(w)
      PROVE  LockHeld' /\ NoMissedWakeup'
  BY <1>5, AwakeKeepsInv DEF ReturnClosed, ReturnEvents, ReturnTimeout
<1>6. ASSUME NEW w \in Watchers, Arm(w) PROVE LockHeld' /\ NoMissedWakeup'
  <2>1. \A x \in Watchers : pc[x] # "armed"
    BY <1>6, WatchAssumption DEF Arm, Inv, LockHeld
  <2>2. \A x \in Watchers : pc'[x] = IF x = w THEN "armed" ELSE pc[x]
    BY <1>6 DEF Arm, Inv, TypeOK
  <2>3. \A x \in Watchers : GetEventsLocked(x)' = GetEventsLocked(x)
    BY <1>6, SameEvents DEF Arm
  <2>4. closed' = closed /\ ~closed /\ GetEventsLocked(w) = <<>> /\ mu' = w
    BY <1>6 DEF Arm
  <2>5. QED
    BY <2>1, <2>2, <2>3, <2>4 DEF Inv, LockHeld, NoMissedWakeup
<1>7. ASSUME NEW w \in Watchers, Wait(w) PROVE LockHeld' /\ NoMissedWakeup'
  <2>1. \A x \in Watchers : pc'[x] = IF x = w THEN "waiting" ELSE pc[x]
    BY <1>7 DEF Wait, Inv, TypeOK
  <2>2. mu = w /\ pc[w] = "armed"
    BY <1>7 DEF Wait, Inv, LockHeld
  <2>3. \A x \in Watchers : pc'[x] # "armed"
    BY <2>1, <2>2 DEF Inv, LockHeld
  <2>4. \A x \in Watchers : GetEventsLocked(x)' = GetEventsLocked(x)
    BY <1>7, SameEvents DEF Wait
  <2>5. closed' = closed
    BY <1>7 DEF Wait
  <2>6. QED
    BY <2>1, <2>2, <2>3, <2>4, <2>5 DEF Inv, LockHeld, NoMissedWakeup
<1>8. ASSUME NEW w \in Watchers, TimerFire(w) PROVE LockHeld' /\ NoMissedWakeup'
  BY <1>8, WakeKeepsInv DEF TimerFire
<1>9. ASSUME StrayFire PROVE LockHeld' /\ NoMissedWakeup'
  BY <1>9, WakeKeepsInv DEF StrayFire
<1>10. LockHeld' /\ NoMissedWakeup'
  BY <1>1, <1>2, <1>3, <1>4, <1>5, <1>6, <1>7, <1>8, <1>9
     DEF Next, Pass, Deadline, vars
<1>11. QED
  BY <1>0, <1>10 DEF Inv

(* The inductive invariant holds in every reachable state of the watch cache. *)
THEOREM Invariance == Spec => []Inv
BY InvInit, InvNext, PTL DEF Spec

(* Type correctness of the watch cache. *)
THEOREM TypeCorrect == Spec => []TypeOK
<1>1. Inv => TypeOK
  BY DEF Inv
<1>2. QED
  BY <1>1, Invariance, PTL

(* No watcher ever sleeps on events it should return or on a closed cache:   *)
(* no Append and no Close gets between a watcher's check and its wait.        *)
THEOREM NoMissedWakeupHolds == Spec => []NoMissedWakeup
<1>1. Inv => NoMissedWakeup
  BY DEF Inv
<1>2. QED
  BY <1>1, Invariance, PTL

-----------------------------------------------------------------------------
(* The ring as a sequence: its length and where its elements are. *)
RingIsSequence ==
  /\ Oldest \in Nat /\ Oldest <= count
  /\ count - Oldest = (IF count < Capacity THEN count ELSE Capacity)
  /\ count - Oldest \in Nat
  /\ Window \in Seq(Events \cup {Zero})
  /\ Len(Window) = count - Oldest
  /\ \A i \in 1 .. count - Oldest :
       Window[i] = buf[(Oldest + i - 1) % Capacity]

(* The ring holds a sequence: the last events, oldest first. *)
LEMMA WindowShape == TypeOK => RingIsSequence
<1> SUFFICES ASSUME TypeOK PROVE RingIsSequence
  OBVIOUS
<1>1. /\ Oldest \in Nat /\ Oldest <= count /\ count \in Nat
      /\ count - Oldest = (IF count < Capacity THEN count ELSE Capacity)
      /\ count - Oldest \in Nat
  BY CapacityPositive DEF TypeOK, Oldest
<1>2. \A i \in 1 .. count - Oldest :
        buf[(Oldest + i - 1) % Capacity] \in Events \cup {Zero}
  <2> SUFFICES ASSUME NEW i \in 1 .. count - Oldest
               PROVE  buf[(Oldest + i - 1) % Capacity] \in Events \cup {Zero}
    OBVIOUS
  <2>1. Oldest + i - 1 \in Nat
    BY <1>1
  <2>2. (Oldest + i - 1) % Capacity \in 0 .. Capacity - 1
    BY <2>1, WatchAssumption, ModRange
  <2>3. QED
    BY <2>2 DEF TypeOK
<1>3. Window \in Seq(Events \cup {Zero}) /\ Len(Window) = count - Oldest
  BY <1>1, <1>2 DEF Window
<1>4. QED
  BY <1>1, <1>3 DEF Window, RingIsSequence

(* Append on the ring is Push on the window: the new event takes the slot of *)
(* the oldest one and no other.                                              *)
LEMMA AppendIsPush ==
  ASSUME TypeOK, NEW ev \in Events, AppendEvent(ev)
  PROVE  Window' = Push(Window, ev, Capacity)
<1> DEFINE T == Push(Window, ev, Capacity)
           N == count - Oldest
<1>0. TypeOK' /\ Capacity \in Nat /\ Capacity > 0 /\ count \in Nat /\ count' = count + 1
  BY TypeOKNext, CapacityPositive DEF AppendEvent, Next, TypeOK
<1>1. /\ Window \in Seq(Events \cup {Zero}) /\ Len(Window) = N /\ N \in Nat
      /\ N = (IF count < Capacity THEN count ELSE Capacity)
      /\ Oldest = count - N
      /\ \A i \in 1 .. N : Window[i] = buf[(Oldest + i - 1) % Capacity]
  BY WindowShape DEF TypeOK, RingIsSequence
<1>2. /\ Window' \in Seq(Events \cup {Zero}) /\ Len(Window') = count' - Oldest'
      /\ count' - Oldest' = (IF count' < Capacity THEN count' ELSE Capacity)
      /\ Oldest' \in Nat
      /\ \A i \in 1 .. count' - Oldest' :
           Window'[i] = buf'[(Oldest' + i - 1) % Capacity]
  <2>1. RingIsSequence'
    BY <1>0, WindowShape, PTL
  <2>2. QED
    BY <2>1 DEF RingIsSequence
<1>3. \A a \in Nat : a < count /\ count - a < Capacity =>
        buf'[a % Capacity] = buf[a % Capacity]
  <2> SUFFICES ASSUME NEW a \in Nat, a < count, count - a < Capacity
               PROVE  buf'[a % Capacity] = buf[a % Capacity]
    OBVIOUS
  <2>1. a % Capacity # count % Capacity
    BY <1>0, WatchAssumption, SlotsDistinct
  <2>2. a % Capacity \in 0 .. Capacity - 1
    BY <1>0, ModRange
  <2>3. QED
    BY <2>1, <2>2 DEF AppendEvent, TypeOK
<1>4. buf'[count % Capacity] = ev
  <2>1. count % Capacity \in 0 .. Capacity - 1
    BY <1>0, ModRange
  <2>2. QED
    BY <2>1 DEF AppendEvent, TypeOK
<1> HIDE DEF N
<1>5. CASE count < Capacity
  <2>1. N = count /\ Oldest = 0 /\ Oldest' = 0 /\ count' - Oldest' = count + 1
    BY <1>0, <1>1, <1>5 DEF Oldest
  <2>2. T = Append(Window, ev)
    BY <1>1, <1>5, <2>1 DEF Push
  <2>3. T \in Seq(Events \cup {Zero}) /\ Len(T) = count + 1
    BY <1>0, <1>1, <2>1, <2>2
  <2>4. ASSUME NEW i \in 1 .. count + 1 PROVE Window'[i] = T[i]
    <3>0. Window'[i] = buf'[(i - 1) % Capacity] /\ i - 1 \in Nat
      BY <1>0, <1>2, <2>1
    <3>1. CASE i = count + 1
      BY <1>0, <1>1, <1>4, <2>1, <2>2, <3>0, <3>1
    <3>2. CASE i # count + 1
      <4>1. i \in 1 .. count
        BY <1>0, <3>2
      <4>2. T[i] = Window[i]
        BY <1>1, <2>1, <2>2, <4>1
      <4>3. Window[i] = buf[(i - 1) % Capacity]
        BY <1>1, <2>1, <4>1
      <4>4. i - 1 < count /\ count - (i - 1) < Capacity
            => buf'[(i - 1) % Capacity] = buf[(i - 1) % Capacity]
        BY <1>3, <3>0
      <4>5. i - 1 < count /\ count - (i - 1) < Capacity
        BY <1>0, <1>5, <4>1
      <4>6. QED
        BY <3>0, <4>2, <4>3, <4>4, <4>5
    <3>3. QED
      BY <3>1, <3>2
  <2>5. QED
    <3>1. Len(Window') = Len(T)
      BY <1>2, <2>1, <2>3
    <3>2. QED
      BY <1>2, <2>1, <2>3, <2>4, <3>1, SeqEqual
<1>6. CASE count >= Capacity
  <2>1. /\ N = Capacity /\ Oldest = count - Capacity
        /\ Oldest' = count + 1 - Capacity /\ count' - Oldest' = Capacity
    BY <1>0, <1>1, <1>6 DEF Oldest
  <2>2. T = Append(Tail(Window), ev)
    BY <1>0, <1>1, <1>6, <2>1 DEF Push
  <2>3. /\ Tail(Window) \in Seq(Events \cup {Zero}) /\ Len(Tail(Window)) = Capacity - 1
        /\ \A i \in 1 .. Capacity - 1 : Tail(Window)[i] = Window[i + 1]
    BY <1>0, <1>1, <2>1, HeadTailProperties
  <2>4. T \in Seq(Events \cup {Zero}) /\ Len(T) = Capacity
    BY <1>0, <2>2, <2>3
  <2>5. ASSUME NEW i \in 1 .. Capacity PROVE Window'[i] = T[i]
    <3>0. /\ Window'[i] = buf'[(count + i - Capacity) % Capacity]
          /\ count + i - Capacity \in Nat
      <4>1. Oldest' + i - 1 = count + i - Capacity
        BY <1>0, <2>1
      <4>2. QED
        BY <1>0, <1>2, <1>6, <2>1, <4>1
    <3>1. CASE i = Capacity
      <4>1. count + i - Capacity = count
        BY <1>0, <3>1
      <4>2. T[i] = ev
        BY <1>0, <2>2, <2>3, <3>1
      <4>3. QED
        BY <1>4, <3>0, <4>1, <4>2
    <3>2. CASE i # Capacity
      <4>1. i \in 1 .. Capacity - 1 /\ i + 1 \in 1 .. Capacity
        BY <1>0, <3>2
      <4>2. T[i] = Window[i + 1]
        BY <1>0, <2>2, <2>3, <4>1
      <4>3. Oldest + (i + 1) - 1 = count + i - Capacity
        BY <1>0, <2>1
      <4>4. Window[i + 1] = buf[(count + i - Capacity) % Capacity]
        BY <1>1, <2>1, <4>1, <4>3
      <4>5. count + i - Capacity < count /\ count - (count + i - Capacity) < Capacity
        BY <1>0, <4>1
      <4>6. buf'[(count + i - Capacity) % Capacity] = buf[(count + i - Capacity) % Capacity]
        BY <1>3, <3>0, <4>5
      <4>7. QED
        BY <3>0, <4>2, <4>4, <4>6
    <3>3. QED
      BY <3>1, <3>2
  <2>6. QED
    <3>1. Len(Window') = Len(T) /\ Len(T) = Capacity
      BY <1>2, <2>1, <2>4
    <3>2. QED
      BY <1>2, <2>4, <2>5, <3>1, SeqEqual
<1>7. QED
  BY <1>0, <1>5, <1>6

-----------------------------------------------------------------------------
(* What the abstract call of w waits for is what getEventsLocked returns. *)
LEMMA WantedIsEvents ==
  ASSUME NEW w \in Watchers
  PROVE  Abstract!Wanted(w) = GetEventsLocked(w)
BY DEF Abstract!Wanted, Abstract!Matching, Abstract!Matches, GetEventsLocked,
       Matching, Matches

(* The abstract view of who is in a call. *)
Waiting == [w \in Watchers |-> pc[w] # "idle"]

(* A broadcast starts and ends no call. *)
LEMMA BroadcastKeepsWaiting ==
  ASSUME TypeOK, pc' = Broadcast
  PROVE  Waiting' = Waiting
BY BroadcastType DEF TypeOK, Waiting

(* A ring that is not written is the same window. *)
LEMMA SameWindow ==
  ASSUME UNCHANGED <<buf, count>>
  PROVE  Window' = Window
BY DEF Window, Oldest

(* A step of w between two states of the same call is invisible. *)
LEMMA InnerStepKeepsWaiting ==
  ASSUME TypeOK, NEW w \in Watchers, NEW p \in PcValues \ {"idle"},
         pc[w] # "idle", pc' = [pc EXCEPT ![w] = p]
  PROVE  Waiting' = Waiting
BY DEF TypeOK, Waiting

(* A return ends the call of w and of nobody else. *)
LEMMA ReturnEndsCall ==
  ASSUME TypeOK, NEW w \in Watchers, pc' = [pc EXCEPT ![w] = "idle"]
  PROVE  Waiting' = [Waiting EXCEPT ![w] = FALSE]
BY DEF TypeOK, Waiting

(* The empty ring is the empty window. *)
LEMMA RefinementInit == Init => Abstract!Init
<1> SUFFICES ASSUME Init PROVE Abstract!Init
  OBVIOUS
<1>1. RingIsSequence /\ count = 0
  BY InvInit, WindowShape DEF Inv, Init
<1>2. Window = <<>>
  BY <1>1, EmptySeq DEF RingIsSequence
<1>3. Waiting = [w \in Watchers |-> FALSE]
  BY DEF Init, Waiting
<1>4. QED
  BY <1>2, <1>3 DEF Init, Abstract!Init, Calls, Abstract!Calls, Waiting

(* Every step of the ring buffer is a step of the abstract window or leaves  *)
(* it as it is.                                                              *)
LEMMA RefinementNext == Inv /\ [Next]_vars => [Abstract!Next]_(Abstract!wvars)
<1> SUFFICES ASSUME Inv, [Next]_vars PROVE [Abstract!Next]_(Abstract!wvars)
  OBVIOUS
<1> DEFINE Stutter == UNCHANGED <<Window, closed, Waiting, call, expired, result>>
<1>0. TypeOK
  BY DEF Inv
<1>1. ASSUME NEW ev \in Events, AppendEvent(ev) PROVE Abstract!Add(ev)
  <2>1. Window' = Abstract!Push(Window, ev, Capacity)
    BY <1>0, <1>1, AppendIsPush DEF Push, Abstract!Push
  <2>2. Waiting' = Waiting
    BY <1>0, <1>1, BroadcastKeepsWaiting DEF AppendEvent
  <2>3. QED
    BY <1>1, <2>1, <2>2 DEF AppendEvent, Abstract!Add, Waiting
<1>2. ASSUME Close PROVE Abstract!Shut
  <2>1. Window' = Window
    BY <1>2, SameWindow DEF Close
  <2>2. Waiting' = Waiting
    BY <1>0, <1>2, BroadcastKeepsWaiting DEF Close
  <2>3. QED
    BY <1>2, <2>1, <2>2 DEF Close, Abstract!Shut, Waiting
<1>3. ASSUME NEW w \in Watchers, NEW c \in Calls, Call(w, c) PROVE Abstract!Begin(w, c)
  <2>1. Window' = Window
    BY <1>3, SameWindow DEF Call
  <2>2. ~Waiting[w] /\ Waiting' = [Waiting EXCEPT ![w] = TRUE]
    BY <1>0, <1>3 DEF Call, TypeOK, Waiting
  <2>3. QED
    BY <1>3, <2>1, <2>2 DEF Call, Abstract!Begin, Waiting
<1>4. ASSUME NEW w \in Watchers, Deadline(w) PROVE Abstract!Expire(w)
  <2>1. Window' = Window /\ Waiting' = Waiting /\ Waiting[w]
    BY <1>4, SameWindow DEF Deadline, Waiting
  <2>2. QED
    BY <1>4, <2>1 DEF Deadline, Abstract!Expire, Waiting
<1>5. ASSUME NEW w \in Watchers, ReturnClosed(w) \/ ReturnEvents(w) \/ ReturnTimeout(w)
      PROVE  Abstract!Finish(w)
  <2>1. Window' = Window
    BY <1>5, SameWindow DEF ReturnClosed, ReturnEvents, ReturnTimeout
  <2>2. Waiting[w] /\ Waiting' = [Waiting EXCEPT ![w] = FALSE]
    <3>1. pc' = [pc EXCEPT ![w] = "idle"] /\ pc[w] = "lock"
      BY <1>5 DEF ReturnClosed, ReturnEvents, ReturnTimeout
    <3>2. QED
      BY <1>0, <3>1, ReturnEndsCall DEF Waiting
  <2>3. \/ closed /\ result' = [result EXCEPT ![w] = <<>>]
        \/ /\ ~closed
           /\ Abstract!Wanted(w) # <<>> \/ expired[w]
           /\ result' = [result EXCEPT ![w] = Abstract!Wanted(w)]
    BY <1>5, WantedIsEvents DEF ReturnClosed, ReturnEvents, ReturnTimeout
  <2>4. UNCHANGED <<closed, call, expired>>
    BY <1>5 DEF ReturnClosed, ReturnEvents, ReturnTimeout
  <2>5. QED
    BY <2>1, <2>2, <2>3, <2>4 DEF Abstract!Finish, Waiting
<1>6. ASSUME NEW w \in Watchers, Arm(w) \/ Wait(w) PROVE Stutter
  <2>1. Window' = Window
    BY <1>6, SameWindow DEF Arm, Wait
  <2>2. Waiting' = Waiting
    BY <1>0, <1>6, InnerStepKeepsWaiting DEF Arm, Wait, PcValues
  <2>3. QED
    BY <1>6, <2>1, <2>2 DEF Arm, Wait
<1>7. ASSUME (\E w \in Watchers : TimerFire(w)) \/ StrayFire PROVE Stutter
  <2>1. Window' = Window
    BY <1>7, SameWindow DEF TimerFire, StrayFire
  <2>2. Waiting' = Waiting
    BY <1>0, <1>7, BroadcastKeepsWaiting DEF TimerFire, StrayFire
  <2>3. QED
    BY <1>7, <2>1, <2>2 DEF TimerFire, StrayFire
<1>8. ASSUME UNCHANGED vars PROVE Stutter
  BY <1>8, SameWindow DEF vars, Waiting
<1>9. Stutter => UNCHANGED Abstract!wvars
  BY DEF Abstract!wvars, Waiting
<1> HIDE DEF Stutter
<1>10. QED
  BY <1>1, <1>2, <1>3, <1>4, <1>5, <1>6, <1>7, <1>8, <1>9
     DEF Next, Pass, Abstract!Next, Calls, Abstract!Calls

(* The ring buffer with its lock, condition variable and timer goroutines    *)
(* implements the window of recent events, for any number of watchers and    *)
(* any capacity: a WaitForEvents call returns exactly the matching events of *)
(* the window at one moment, or nothing after a close or a timeout.          *)
THEOREM Refinement == Spec => ImplementsEventWindow
<1>1. Inv /\ [Next]_vars => [Abstract!Next]_(Abstract!wvars)
  BY RefinementNext
<1>2. Init => Abstract!Init
  BY RefinementInit
<1>3. QED
  BY <1>1, <1>2, Invariance, PTL DEF Spec, ImplementsEventWindow, Abstract!Spec

=============================================================================
