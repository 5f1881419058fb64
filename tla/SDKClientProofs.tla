--------------------------- MODULE SDKClientProofs ---------------------------
(***************************************************************************)
(* Proofs about SDKClient, for every namespace, window capacity and number *)
(* of restarts.  The types hold for any set of writers; that the client's  *)
(* map never goes back in time, and that a pull or a poll loses only what  *)
(* came too late for it or had left the window, are proved for one writer, *)
(* the Raft FSM goroutine of cluster mode.                                 *)
(***************************************************************************)
EXTENDS SDKClient, WatchableStoreProofs, WellFoundedInduction

-----------------------------------------------------------------------------
(* What getEventsLocked returns.  Its loop is a recursive function; what it *)
(* has kept after n rounds follows by induction on n, in the form of the    *)
(* least counterexample.                                                    *)

(* A nonempty set of natural numbers has a least element. *)
LEMMA LeastNatural ==
  ASSUME NEW T \in SUBSET Nat, T # {}
  PROVE  \E m \in T : \A k \in T : m <= k
<1> DEFINE R == OpToRel(<, Nat)
<1>1. IsWellFoundedOn(R, Nat)
  BY NatLessThanWellFounded, Zenon
<1> HIDE DEF R
<1>2. PICK m \in T : \A k \in T : ~ (<<k, m>> \in R)
  BY <1>1, WFMin
<1>3. \A k \in T : ~ (k < m)
  BY <1>2 DEF R, OpToRel
<1> QED
  BY <1>3

(* kept is the loop of getEventsLocked over the first n events of w. *)
IsLoop(kept, w, a, p, n) ==
  kept = [i \in 0 .. n |->
            IF i = 0 THEN <<>>
            ELSE IF Matches(w[i], a, p) THEN Append(kept[i - 1], w[i])
                 ELSE kept[i - 1]]

(* The loop has a run of any length. *)
LEMMA LoopRuns ==
  ASSUME NEW w, NEW a, NEW p, NEW n \in Nat
  PROVE  \E kept : IsLoop(kept, w, a, p, n)
<1> DEFINE T == {m \in Nat : ~ \E kept : IsLoop(kept, w, a, p, m)}
<1>1. SUFFICES ASSUME T # {} PROVE FALSE
  OBVIOUS
<1>2. PICK m \in T : \A k \in T : m <= k
  BY <1>1, LeastNatural
<1>3. m # 0
  <2> SUFFICES ASSUME m = 0 PROVE FALSE
    OBVIOUS
  <2> DEFINE f == [i \in 0 .. 0 |-> <<>>]
  <2>1. IsLoop(f, w, a, p, 0)
    BY DEF IsLoop
  <2> QED
    BY <2>1
<1>4. m - 1 \in Nat /\ m - 1 \notin T
  BY <1>2, <1>3
<1>5. PICK f : IsLoop(f, w, a, p, m - 1)
  BY <1>4
<1> DEFINE last == IF Matches(w[m], a, p) THEN Append(f[m - 1], w[m]) ELSE f[m - 1]
           g == [i \in 0 .. m |-> IF i = m THEN last ELSE f[i]]
           step(i) == IF i = 0 THEN <<>>
                      ELSE IF Matches(w[i], a, p) THEN Append(g[i - 1], w[i])
                           ELSE g[i - 1]
<1>6. ASSUME NEW i \in 0 .. m PROVE g[i] = step(i)
  <2>1. CASE i = m
    <3>1. g[m] = last /\ g[m - 1] = f[m - 1]
      BY <1>3, <1>4
    <3> QED
      BY <2>1, <3>1, <1>3
  <2>2. CASE i = 0
    <3>1. g[0] = f[0]
      BY <1>3
    <3>2. f[0] = <<>>
      BY <1>4, <1>5 DEF IsLoop
    <3> QED
      BY <2>2, <3>1, <3>2
  <2>3. CASE i # m /\ i # 0
    <3>1. i \in 0 .. m - 1 /\ i - 1 \in 0 .. m - 1 /\ i - 1 \in 0 .. m /\ i - 1 # m
      BY <2>3, <1>4
    <3>2. g[i] = f[i] /\ g[i - 1] = f[i - 1]
      BY <2>3, <3>1
    <3>3. f[i] = IF Matches(w[i], a, p) THEN Append(f[i - 1], w[i]) ELSE f[i - 1]
      BY <1>5, <3>1, <2>3 DEF IsLoop
    <3> QED
      BY <2>3, <3>2, <3>3
  <2> QED
    BY <2>1, <2>2, <2>3
<1>7. g = [i \in 0 .. m |-> step(i)]
  <2> DEFINE h == [i \in 0 .. m |-> step(i)]
  <2>1. \A i \in 0 .. m : g[i] = h[i]
    BY <1>6
  <2>2. DOMAIN g = 0 .. m /\ DOMAIN h = 0 .. m
    OBVIOUS
  <2> QED
    BY <2>1, <2>2
<1>8. IsLoop(g, w, a, p, m)
  BY <1>7 DEF IsLoop
<1> QED
  BY <1>8

(* Matching is the result of such a run. *)
LEMMA MatchingLoop ==
  ASSUME NEW E, NEW w \in Seq(E), NEW a, NEW p
  PROVE  \E kept : /\ IsLoop(kept, w, a, p, Len(w))
                   /\ Matching(w, a, p) = kept[Len(w)]
<1> DEFINE kept == CHOOSE kept : IsLoop(kept, w, a, p, Len(w))
<1>1. IsLoop(kept, w, a, p, Len(w))
  <2>1. Len(w) \in Nat
    OBVIOUS
  <2>2. \E f : IsLoop(f, w, a, p, Len(w))
    BY <2>1, LoopRuns
  <2> QED
    BY <2>2, Zenon
<1>2. Matching(w, a, p) = kept[Len(w)]
  BY Zenon DEF Matching, IsLoop
<1> QED
  BY <1>1, <1>2, Zenon

(* The events s are those among the first n of w that match, in their       *)
(* order.                                                                   *)
Selects(s, w, a, p, n) ==
  /\ \A i \in 1 .. Len(s) : \E j \in 1 .. n : s[i] = w[j] /\ Matches(w[j], a, p)
  /\ \A j \in 1 .. n : Matches(w[j], a, p) => \E i \in 1 .. Len(s) : s[i] = w[j]
  /\ \A i, j \in 1 .. Len(s) : i < j =>
       \E x, y \in 1 .. n : x < y /\ s[i] = w[x] /\ s[j] = w[y]

(* One round of the loop. *)
LEMMA SelectsNext ==
  ASSUME NEW E, NEW w \in Seq(E), NEW a, NEW p, NEW s \in Seq(E),
         NEW n \in 1 .. Len(w), Selects(s, w, a, p, n - 1),
         NEW t, t = IF Matches(w[n], a, p) THEN Append(s, w[n]) ELSE s
  PROVE  t \in Seq(E) /\ Selects(t, w, a, p, n)
<1>1. CASE ~ Matches(w[n], a, p)
  <2>1. t = s
    BY <1>1
  <2>2. \A j \in 1 .. n : j \in 1 .. n - 1 \/ j = n
    OBVIOUS
  <2>3. 1 .. n - 1 \subseteq 1 .. n
    OBVIOUS
  <2>4. \A j \in 1 .. n : Matches(w[j], a, p) => j \in 1 .. n - 1
    BY <1>1, <2>2
  <2> QED
    BY <2>1, <2>3, <2>4 DEF Selects
<1>2. CASE Matches(w[n], a, p)
  <2>1. t = Append(s, w[n]) /\ w[n] \in E
    BY <1>2
  <2>2. t \in Seq(E) /\ Len(t) = Len(s) + 1 /\ t[Len(s) + 1] = w[n]
        /\ \A i \in 1 .. Len(s) : t[i] = s[i]
    BY <2>1
  <2>3. ASSUME NEW i \in 1 .. Len(t)
        PROVE  \E j \in 1 .. n : t[i] = w[j] /\ Matches(w[j], a, p)
    <3>1. CASE i = Len(s) + 1
      BY <1>2, <2>2, <3>1
    <3>2. CASE i \in 1 .. Len(s)
      <4>1. PICK j \in 1 .. n - 1 : s[i] = w[j] /\ Matches(w[j], a, p)
        BY <3>2 DEF Selects
      <4> QED
        BY <2>2, <3>2, <4>1
    <3> QED
      BY <2>2, <3>1, <3>2
  <2>4. ASSUME NEW j \in 1 .. n, Matches(w[j], a, p)
        PROVE  \E i \in 1 .. Len(t) : t[i] = w[j]
    <3>1. CASE j = n
      BY <2>2, <3>1
    <3>2. CASE j \in 1 .. n - 1
      <4>1. PICK i \in 1 .. Len(s) : s[i] = w[j]
        BY <2>4, <3>2 DEF Selects
      <4> QED
        BY <2>2, <4>1
    <3> QED
      BY <3>1, <3>2
  <2>5. ASSUME NEW i \in 1 .. Len(t), NEW j \in 1 .. Len(t), i < j
        PROVE  \E x, y \in 1 .. n : x < y /\ t[i] = w[x] /\ t[j] = w[y]
    <3>1. i \in 1 .. Len(s)
      BY <2>2, <2>5
    <3>2. CASE j = Len(s) + 1
      <4>1. PICK x \in 1 .. n - 1 : s[i] = w[x]
        BY <3>1 DEF Selects
      <4>2. x \in 1 .. n /\ n \in 1 .. n /\ x < n
        OBVIOUS
      <4> QED
        BY <2>2, <3>1, <3>2, <4>1, <4>2
    <3>3. CASE j \in 1 .. Len(s)
      <4>1. PICK x \in 1 .. n - 1, y \in 1 .. n - 1 :
              x < y /\ s[i] = w[x] /\ s[j] = w[y]
        BY <2>5, <3>1, <3>3 DEF Selects
      <4>2. x \in 1 .. n /\ y \in 1 .. n
        OBVIOUS
      <4> QED
        BY <2>2, <3>1, <3>3, <4>1, <4>2
    <3> QED
      BY <2>2, <3>2, <3>3
  <2>6. Selects(t, w, a, p, n)
    BY <2>3, <2>4, <2>5, Zenon DEF Selects
  <2> QED
    BY <2>2, <2>6
<1> QED
  BY <1>1, <1>2

(* Matching returns the matching events, all of them, in their order. *)
LEMMA MatchingSelects ==
  ASSUME NEW E, NEW w \in Seq(E), NEW a, NEW p
  PROVE  Matching(w, a, p) \in Seq(E) /\ Selects(Matching(w, a, p), w, a, p, Len(w))
<1>1. PICK kept : /\ IsLoop(kept, w, a, p, Len(w))
                  /\ Matching(w, a, p) = kept[Len(w)]
  BY MatchingLoop
<1>2. Len(w) \in Nat
  OBVIOUS
<1>3. kept[0] = <<>>
  BY <1>1, <1>2 DEF IsLoop
<1>4. ASSUME NEW n \in 1 .. Len(w)
      PROVE  kept[n] = IF Matches(w[n], a, p) THEN Append(kept[n - 1], w[n])
                       ELSE kept[n - 1]
  <2>1. n \in 0 .. Len(w) /\ n # 0
    BY <1>2
  <2> QED
    BY <1>1, <2>1, Zenon DEF IsLoop
<1> DEFINE Good(n) == kept[n] \in Seq(E) /\ Selects(kept[n], w, a, p, n)
           T == {n \in 0 .. Len(w) : ~ Good(n)}
<1>5. Good(0)
  BY <1>3 DEF Selects
<1>6. T = {}
  <2> SUFFICES ASSUME T # {} PROVE FALSE
    OBVIOUS
  <2>1. T \in SUBSET Nat
    BY <1>2
  <2>2. PICK n \in T : \A k \in T : n <= k
    BY <2>1, LeastNatural
  <2>3. n # 0
    BY <1>5
  <2>4. n \in 1 .. Len(w) /\ n - 1 \in 0 .. Len(w) /\ ~ (n <= n - 1)
    BY <1>2, <2>3
  <2>5. Good(n - 1)
    BY <2>2, <2>4
  <2>6. Good(n)
    BY <1>4, <2>4, <2>5, SelectsNext
  <2> QED
    BY <2>6
<1>7. Good(Len(w))
  BY <1>2, <1>6
<1> QED
  BY <1>1, <1>7

(* A nonempty set of positions has a greatest element. *)
LEMMA GreatestNatural ==
  ASSUME NEW n \in Nat, NEW T \in SUBSET (1 .. n), T # {}
  PROVE  \E m \in T : \A k \in T : k <= m
<1> DEFINE U == {j \in 0 .. n : n - j \in T}
<1>1. U \in SUBSET Nat
  OBVIOUS
<1>2. U # {}
  <2>1. PICK k \in T : TRUE
    OBVIOUS
  <2>2. k \in 1 .. n
    OBVIOUS
  <2>3. n - k \in 0 .. n /\ n - (n - k) = k
    BY <2>2
  <2> QED
    BY <2>3
<1>3. PICK j \in U : \A i \in U : j <= i
  BY <1>1, <1>2, LeastNatural
<1>4. ASSUME NEW k \in T PROVE k <= n - j
  <2>1. k \in 1 .. n
    OBVIOUS
  <2>2. n - k \in 0 .. n /\ n - (n - k) = k
    BY <2>1
  <2>3. j <= n - k
    BY <1>3, <2>2
  <2> QED
    BY <2>1, <2>3
<1> QED
  BY <1>3, <1>4

-----------------------------------------------------------------------------
(* Type correctness. *)

(* applyEvents over a batch: key k holds what the last of its events says.  *)
LEMMA ApplyLast ==
  ASSUME NEW base, NEW events \in Seq(Event), NEW k \in Watched,
         NEW i \in DOMAIN events, events[i].Entry.Key = k,
         \A j \in DOMAIN events : events[j].Entry.Key = k => j <= i
  PROVE  ApplyEvents(base, events)[k] =
           IF events[i].Type = "PUT" THEN events[i].Entry.Value ELSE Absent
<1> DEFINE on == {j \in DOMAIN events : events[j].Entry.Key = k}
           top == CHOOSE j \in on : \A x \in on : x <= j
<1>1. i \in on /\ \A x \in on : x <= i
  OBVIOUS
<1>2. top \in on /\ \A x \in on : x <= top
  BY <1>1, Zenon
<1>3. top = i
  <2>1. top \in DOMAIN events /\ top <= i /\ i <= top
    BY <1>1, <1>2
  <2>2. DOMAIN events \subseteq Nat
    OBVIOUS
  <2> QED
    BY <2>1, <2>2
<1>4. on # {}
  BY <1>1
<1>5. ApplyEvents(base, events)[k] =
        IF on = {} THEN base[k]
        ELSE IF events[top].Type = "PUT" THEN events[top].Entry.Value ELSE Absent
  BY Zenon DEF ApplyEvents
<1> QED
  BY <1>3, <1>4, <1>5

(* A key without an event keeps its value. *)
LEMMA ApplyNone ==
  ASSUME NEW base, NEW events, NEW k \in Watched,
         \A j \in DOMAIN events : events[j].Entry.Key # k
  PROVE  ApplyEvents(base, events)[k] = base[k]
<1>1. {j \in DOMAIN events : events[j].Entry.Key = k} = {}
  OBVIOUS
<1> QED
  BY <1>1 DEF ApplyEvents

(* The last event of a key, if it has one. *)
LEMMA LastEvent ==
  ASSUME NEW events \in Seq(Event), NEW k,
         NEW j \in DOMAIN events, events[j].Entry.Key = k
  PROVE  \E i \in DOMAIN events :
           /\ events[i].Entry.Key = k
           /\ \A x \in DOMAIN events : events[x].Entry.Key = k => x <= i
<1> DEFINE T == {x \in DOMAIN events : events[x].Entry.Key = k}
<1>1. Len(events) \in Nat /\ DOMAIN events = 1 .. Len(events)
  OBVIOUS
<1>2. T \in SUBSET (1 .. Len(events)) /\ T # {}
  BY <1>1
<1>3. PICK i \in T : \A x \in T : x <= i
  BY <1>1, <1>2, GreatestNatural
<1> QED
  BY <1>3

(* Applying events to a view gives a view. *)
LEMMA ApplyType ==
  ASSUME NEW base \in View, NEW events \in Seq(Event)
  PROVE  ApplyEvents(base, events) \in View
<1>1. ASSUME NEW k \in Watched
      PROVE  ApplyEvents(base, events)[k] \in Values \cup {Absent}
  <2>1. CASE \A j \in DOMAIN events : events[j].Entry.Key # k
    BY <2>1, ApplyNone DEF View
  <2>2. CASE \E j \in DOMAIN events : events[j].Entry.Key = k
    <3>1. PICK i \in DOMAIN events :
            /\ events[i].Entry.Key = k
            /\ \A x \in DOMAIN events : events[x].Entry.Key = k => x <= i
      BY <2>2, LastEvent
    <3>2. ApplyEvents(base, events)[k] =
            IF events[i].Type = "PUT" THEN events[i].Entry.Value ELSE Absent
      BY <3>1, ApplyLast
    <3>3. events[i] \in Event
      OBVIOUS
    <3>4. events[i].Entry.Value \in Values
      BY <3>3 DEF Event, Entry
    <3> QED
      BY <3>2, <3>4
  <2> QED
    BY <2>1, <2>2
<1> DEFINE g == ApplyEvents(base, events)
<1>2. g = [k \in Watched |-> g[k]]
  BY DEF ApplyEvents
<1> HIDE DEF g
<1> QED
  BY <1>1, <1>2 DEF View, g

(* Merging two views gives a view. *)
LEMMA MergeType ==
  ASSUME NEW base \in View, NEW over \in View
  PROVE  Merge(base, over) \in View
BY DEF Merge, View

(* Every step of the composition is a step of the store, or leaves it alone. *)
LEMMA StoreStep == [SDKNext]_sdkVars => [WatchableNext]_wsVars
<1>1. ASSUME ClientStep PROVE UNCHANGED wsVars
  BY <1>1 DEF ClientStep, HandleList, FullPull, FullPullFails, LoadFromCache,
              WaitForEvents, WatchRespond, WatchFails, SaveToCache, Adopt
<1>2. ASSUME ClientRestart PROVE UNCHANGED wsVars
  BY <1>2 DEF ClientRestart
<1>3. ASSUME ServerStop PROVE Stop
  BY <1>3 DEF ServerStop
<1>4. ASSUME UNCHANGED sdkVars PROVE UNCHANGED wsVars
  BY <1>4 DEF sdkVars
<1> QED
  BY <1>1, <1>2, <1>3, <1>4, Zenon DEF SDKNext, WatchableNext

(* The mutation an event reports. *)
LEMMA MutOfType ==
  ASSUME NEW ev \in Event
  PROVE  /\ MutOf(ev) \in Mutation
         /\ MutOf(ev).Rev = ev.Entry.Revision
         /\ MutOf(ev).Key = ev.Entry.Key
         /\ MutOf(ev).Type = ev.Type
         /\ MutOf(ev).Value = ev.Entry.Value
<1>1. /\ ev.Type \in {"PUT", "DELETE"} /\ ev.Entry.Revision \in Nat
      /\ ev.Entry.Key \in Keys /\ ev.Entry.Value \in Values
  BY DEF Event, Entry
<1> QED
  BY <1>1 DEF MutOf, Mut, Mutation

(* The type of the store and its revision bookkeeping, and of the client.   *)
SDKTypeInv == TypeInv /\ SDKTypeOK

(* The client's variables have their types. *)
ClientTypeOK ==
  /\ cpc \in {"new", "listed", "fallback", "poll", "respond", "saving", "saved"}
  /\ configs \in View
  /\ revision \in Nat
  /\ pulled \in View
  /\ got \in Seq(Event)
  /\ next \in Nat
  /\ file \in File \cup {NoFile, Corrupt}
  /\ crashes \in 0 .. MaxCrashes
  /\ seen \subseteq Mutation
  /\ range \in [lo : Nat, hi : Nat]
  /\ delivered \subseteq Mutation

(* The types of the composition are those of the store and of the client. *)
LEMMA TypeParts == SDKTypeInv <=> TypeInv /\ ClientTypeOK
BY Zenon DEF SDKTypeInv, TypeInv, SDKTypeOK, ClientTypeOK

(* The empty view is a view. *)
LEMMA EmptyType == Empty \in View
BY DEF Empty, View

(* Every step keeps the client's variables well typed. *)
LEMMA ClientTypeNext == SDKTypeInv /\ [SDKNext]_sdkVars => ClientTypeOK'
<1> SUFFICES ASSUME SDKTypeInv, [SDKNext]_sdkVars PROVE ClientTypeOK'
  OBVIOUS
<1> USE ClientAssumption
<1>0. /\ ClientTypeOK /\ TypeInv /\ rev \in Nat /\ meta \in Nat /\ floor \in Nat /\ hist \subseteq Mutation
      /\ window \in Seq(Event) /\ data \in [Keys -> Entry \cup {NoEntry}]
  BY TypeParts DEF TypeInv, WatchableTypeOK, BoltTypeOK
<1>1. CASE HandleList
  <2>1. pulled' \in View
    BY <1>0, <1>1 DEF HandleList, View, Entry
  <2>2. seen' \subseteq Mutation
    BY <1>0, <1>1 DEF HandleList
  <2> QED
    BY <1>0, <1>1, <2>1, <2>2 DEF HandleList, ClientTypeOK
<1>2. CASE FullPull
  <2>1. configs' \in View
    BY <1>0, <1>2, MergeType DEF FullPull, ClientTypeOK
  <2> QED
    BY <1>0, <1>2, <2>1, EmptyType DEF FullPull, ClientTypeOK
<1>3. CASE FullPullFails
  BY <1>0, <1>3, EmptyType DEF FullPullFails, ClientTypeOK
<1>4. CASE LoadFromCache
  <2>1. CASE file \in {NoFile, Corrupt}
    BY <1>0, <1>4, <2>1 DEF LoadFromCache, ClientTypeOK
  <2>2. CASE file \notin {NoFile, Corrupt}
    <3>1. file.configs \in View /\ file.revision \in Nat /\ file.delivered \subseteq Mutation
      BY <1>0, <2>2 DEF ClientTypeOK, File
    <3>2. configs' \in View /\ revision' \in Nat /\ delivered' \subseteq Mutation
      BY <1>0, <1>4, <2>2, <3>1, MergeType DEF LoadFromCache, ClientTypeOK
    <3> QED
      BY <1>0, <1>4, <3>2 DEF LoadFromCache, ClientTypeOK
  <2> QED
    BY <2>1, <2>2
<1>5. CASE WaitForEvents
  <2>1. got' \in Seq(Event)
    BY <1>0, <1>5, MatchingSelects DEF WaitForEvents
  <2>2. Newest \in Nat
    <3>1. CASE window = <<>>
      BY <1>0, <3>1 DEF Newest
    <3>2. CASE window # <<>>
      <4>1. window[Len(window)] \in Event
        BY <1>0, <3>2
      <4> QED
        BY <3>2, <4>1 DEF Newest, Event, Entry
    <3> QED
      BY <3>1, <3>2
  <2>3. range' \in [lo : Nat, hi : Nat]
    BY <1>0, <1>5, <2>2 DEF WaitForEvents
  <2> QED
    BY <1>0, <1>5, <2>1, <2>3 DEF WaitForEvents, ClientTypeOK
<1>6. CASE WatchRespond
  <2>1. configs' \in View
    BY <1>0, <1>6, ApplyType DEF WatchRespond, ClientTypeOK
  <2>2. \A i \in DOMAIN got : MutOf(got[i]) \in Mutation
    <3>1. \A i \in DOMAIN got : got[i] \in Event
      BY <1>0 DEF ClientTypeOK
    <3> QED
      BY <3>1, MutOfType
  <2>3. delivered' \subseteq Mutation
    BY <1>0, <1>6, <2>2 DEF WatchRespond, ClientTypeOK
  <2> QED
    BY <1>0, <1>6, <2>1, <2>3 DEF WatchRespond, ClientTypeOK
<1>7. CASE WatchFails
  BY <1>0, <1>7 DEF WatchFails, ClientTypeOK
<1>8. CASE SaveToCache
  <2>1. [configs |-> configs, revision |-> revision, delivered |-> delivered] \in File
    BY <1>0 DEF ClientTypeOK, File
  <2>2. file' \in File \cup {NoFile, Corrupt}
    BY <1>0, <1>8, <2>1 DEF SaveToCache, ClientTypeOK
  <2> QED
    BY <1>0, <1>8, <2>2 DEF SaveToCache, ClientTypeOK
<1>9. CASE Adopt
  BY <1>0, <1>9 DEF Adopt, ClientTypeOK
<1>10. CASE ClientRestart
  BY <1>0, <1>10, EmptyType DEF ClientRestart, ClientTypeOK
<1>11. CASE ServerStop
  <2>1. cpc' \in {"new", "listed", "fallback", "poll", "respond", "saving", "saved"}
    BY <1>0, <1>11 DEF ServerStop, ClientTypeOK
  <2> QED
    BY <1>0, <1>11, <2>1, EmptyType DEF ServerStop, ClientTypeOK
<1>12. CASE UNCHANGED clientVars
  BY <1>0, <1>12 DEF clientVars, ClientTypeOK
<1>13. CASE ClientStep
  BY <1>1, <1>2, <1>3, <1>4, <1>5, <1>6, <1>7, <1>8, <1>9, <1>13 DEF ClientStep
<1> QED
  BY <1>10, <1>11, <1>12, <1>13, Zenon DEF SDKNext, sdkVars

(* Store and client start well typed. *)
LEMMA SDKTypeInvInit == SDKInit => SDKTypeInv
<1> SUFFICES ASSUME SDKInit PROVE SDKTypeInv
  OBVIOUS
<1>1. TypeInv
  BY TypeInvInit DEF SDKInit
<1>2. ClientTypeOK
  BY EmptyType, ClientAssumption DEF SDKInit, ClientTypeOK
<1> QED
  BY <1>1, <1>2, TypeParts

(* The type invariant of the composition is inductive. *)
LEMMA SDKTypeInvNext == SDKTypeInv /\ [SDKNext]_sdkVars => SDKTypeInv'
<1> SUFFICES ASSUME SDKTypeInv, [SDKNext]_sdkVars PROVE SDKTypeInv'
  OBVIOUS
<1>1. TypeInv'
  BY StoreStep, TypeInvNext DEF SDKTypeInv
<1>2. ClientTypeOK'
  BY ClientTypeNext
<1> QED
  BY <1>1, <1>2 DEF SDKTypeInv, TypeInv, SDKTypeOK, ClientTypeOK

(* The client, its cache file and the responses of the server keep their    *)
(* types, whatever fails in between and however many writers there are.     *)
THEOREM SDKTypeCorrect == SDKSpec => []SDKTypeOK
<1>1. SDKTypeInv => SDKTypeOK
  BY DEF SDKTypeInv
<1> QED
  BY SDKTypeInvInit, SDKTypeInvNext, <1>1, PTL DEF SDKSpec

-----------------------------------------------------------------------------
(* What a step of the store does to the history and the window that the     *)
(* client has to know: new mutations have new revisions above the persisted *)
(* one, and a mutation leaves the window only below the floor.              *)

UniqueRevisions == \A m, n \in hist : m.Rev = n.Rev => m = n

(* What WindowInv says about single mutations. *)
LEMMA WindowFacts ==
  ASSUME WindowInv
  PROVE  /\ meta \in Nat /\ rev \in Nat /\ floor \in Nat /\ meta <= rev
         /\ \A m \in hist : m \in Mutation /\ m.Rev \in Nat /\ m.Rev <= meta /\ 1 <= m.Rev
         /\ window \in Seq(Event)
         /\ \A m \in InWindow : m \in hist /\ m.Rev > floor
<1>1. /\ meta \in Nat /\ rev \in Nat /\ floor \in Nat /\ meta <= rev
      /\ hist \subseteq Mutation /\ window \in Seq(Event)
      /\ \A m \in hist : 1 <= m.Rev /\ m.Rev <= meta
  BY DEF WindowInv, TypeInv, WatchableTypeOK, BoltInv, BoltTypeOK, RevisionDiscipline,
         HistoryBelowMeta
<1>2. \A m \in hist : m.Rev \in Nat
  BY <1>1 DEF Mutation
<1>3. InWindow \cup Pending = {m \in hist : m.Rev > floor}
  BY DEF WindowInv, WindowIsRecent
<1>4. \A m \in InWindow : m \in hist /\ m.Rev > floor
  BY <1>3, Zenon
<1> QED
  BY <1>1, <1>2, <1>4

(* The committed history only grows, by mutations above the committed revision. *)
LEMMA HistGrows ==
  ASSUME WindowInv, UniqueRevisions, [WatchableNext]_wsVars
  PROVE  /\ hist \subseteq hist' /\ meta <= meta'
         /\ \A m \in hist' \ hist : m.Rev > meta
         /\ UniqueRevisions'
<1> DEFINE Goal == /\ hist \subseteq hist' /\ meta <= meta'
                   /\ \A m \in hist' \ hist : m.Rev > meta
                   /\ UniqueRevisions'
<1>0. /\ meta \in Nat /\ rev \in Nat /\ meta <= rev
      /\ data \in [Keys -> Entry \cup {NoEntry}]
      /\ \A m \in hist : m.Rev \in Nat /\ m.Rev <= meta
  BY WindowFacts DEF WindowInv, TypeInv, WatchableTypeOK, BoltTypeOK
<1>1. ASSUME NEW m, m.Rev = rev + 1, hist' = hist \cup {m}, meta' = rev + 1
      PROVE  Goal
  <2>1. \A n \in hist : n.Rev # m.Rev
    BY <1>0, <1>1
  <2>2. UniqueRevisions'
    BY <1>1, <2>1 DEF UniqueRevisions
  <2> QED
    BY <1>0, <1>1, <2>2
<1>2. ASSUME NEW k \in Keys, NEW v \in Values, Put(k, v) PROVE Goal
  <2>1. Mut(rev + 1, k, "PUT", v).Rev = rev + 1
    BY <1>0, MutFields
  <2> QED
    BY <1>1, <1>2, <2>1 DEF Put
<1>3. ASSUME NEW k \in Keys, Delete(k) PROVE Goal
  <2>1. data[k].Value \in Values
    BY <1>0, <1>3 DEF Delete, Entry
  <2>2. Mut(rev + 1, k, "DELETE", data[k].Value).Rev = rev + 1
    BY <1>0, <2>1, MutFields
  <2> QED
    BY <1>1, <1>3, <2>2 DEF Delete
<1>4. ASSUME UNCHANGED <<hist, meta>> PROVE Goal
  BY <1>0, <1>4 DEF UniqueRevisions
<1> QED
  BY <1>2, <1>3, <1>4
     DEF WatchableNext, Write, WatchablePut, WatchableDelete, WatchablePutFails,
         WatchableDeleteFails, AppendPending, Stop, Restart, wsVars, PutCommitFails,
         DeleteCommitFails, Close, NewBoltStore

(* The floor only rises, and a mutation leaves the window only by falling below it. *)
LEMMA WindowLeaves ==
  ASSUME SingleWriter, WindowInv, UniqueRevisions, [WatchableNext]_wsVars
  PROVE  /\ floor <= floor'
         /\ \A m \in InWindow : m.Rev <= floor' \/ m \in InWindow'
<1> DEFINE Goal == /\ floor <= floor'
                   /\ \A m \in InWindow : m.Rev <= floor' \/ m \in InWindow'
<1>0. /\ floor \in Nat /\ meta \in Nat /\ floor <= meta
      /\ \A m \in InWindow : m \in hist /\ m.Rev \in Nat /\ m.Rev <= meta
      /\ window \in Seq(Event)
  BY WindowFacts DEF WindowInv
<1>1. WindowInv'
  BY WindowInvNext
<1>2. ASSUME UNCHANGED <<window, floor>> PROVE Goal
  BY <1>0, <1>2 DEF InWindow
<1>3. ASSUME NEW w \in Writers, AppendPending(w) PROVE Goal
  <2>1. /\ pend \in [Writers -> Event \cup {NoEvent}]
        /\ pend' = [pend EXCEPT ![w] = NoEvent] /\ hist' = hist
    BY <1>3 DEF AppendPending, WindowInv, TypeInv, WatchableTypeOK
  <2>2. \A x \in Writers : pend'[x] = NoEvent
    BY <2>1 DEF SingleWriter
  <2>3. Pending' = {}
    BY <2>2 DEF Pending
  <2>4. InWindow' = {m \in hist : m.Rev > floor'}
    BY <1>1, <2>1, <2>3 DEF WindowInv, WindowIsRecent
  <2>5. floor' \in Nat
    BY <1>1 DEF WindowInv, TypeInv, WatchableTypeOK
  <2>6. floor <= floor'
    <3>1. floor' = IF Evicted > floor THEN Evicted ELSE floor
      BY <1>3 DEF AppendPending
    <3> QED
      BY <1>0, <2>5, <3>1
  <2> QED
    BY <1>0, <2>4, <2>5, <2>6
<1>4. ASSUME Stop PROVE Goal
  BY <1>0, <1>4 DEF Stop
<1> QED
  BY <1>2, <1>3, <1>4
     DEF WatchableNext, Write, WatchablePut, WatchableDelete, WatchablePutFails,
         WatchableDeleteFails, Restart, wsVars

-----------------------------------------------------------------------------
(* Replaying mutations. *)

(* A set of mutations in which no two share a revision. *)
Distinct(D) == \A m, n \in D : m.Rev = n.Rev => m = n

Mirrors(map, D) == \A k \in Watched : map[k] = Replay(D, k)

(* The latest mutation of a key decides what it holds. *)
LEMMA ReplayLast ==
  ASSUME NEW D \in SUBSET Mutation, Distinct(D), NEW k, NEW m \in D, m.Key = k,
         \A n \in D : n.Key = k => n.Rev <= m.Rev
  PROVE  Replay(D, k) = IF m.Type = "PUT" THEN m.Value ELSE Absent
<1> DEFINE on == {n \in D : n.Key = k}
           last == CHOOSE x \in on : \A n \in on : n.Rev <= x.Rev
<1>1. m \in on /\ \A n \in on : n.Rev <= m.Rev
  OBVIOUS
<1>2. last \in on /\ \A n \in on : n.Rev <= last.Rev
  BY <1>1, Zenon
<1>3. last \in D /\ last.Rev <= m.Rev /\ m.Rev <= last.Rev
  BY <1>1, <1>2
<1>4. \A n \in D : n.Rev \in Nat /\ n.Type \in {"PUT", "DELETE"}
  BY DEF Mutation
<1>5. last.Rev = m.Rev
  BY <1>3, <1>4
<1>6. last = m
  BY <1>3, <1>5 DEF Distinct
<1>7. on # {}
  BY <1>1
<1>8. Replay(D, k) = IF on = {} \/ last.Type = "DELETE" THEN Absent ELSE last.Value
  BY Zenon DEF Replay
<1>9. m.Type = "PUT" \/ m.Type = "DELETE"
  BY <1>4
<1> QED
  BY <1>6, <1>7, <1>8, <1>9

(* A key with no mutation is absent from a replay. *)
LEMMA ReplayNone ==
  ASSUME NEW D, NEW k, \A m \in D : m.Key # k
  PROVE  Replay(D, k) = Absent
<1>1. {m \in D : m.Key = k} = {}
  OBVIOUS
<1> QED
  BY <1>1 DEF Replay

(* Mutations of other keys do not matter. *)
LEMMA ReplaySame ==
  ASSUME NEW D, NEW E, NEW k, {m \in D : m.Key = k} = {m \in E : m.Key = k}
  PROVE  Replay(D, k) = Replay(E, k)
<1> DEFINE Last(S) == CHOOSE m \in S : \A n \in S : n.Rev <= m.Rev
           Held(S) == IF S = {} \/ Last(S).Type = "DELETE" THEN Absent ELSE Last(S).Value
           d == {m \in D : m.Key = k}
           e == {m \in E : m.Key = k}
<1>1. Replay(D, k) = Held(d) /\ Replay(E, k) = Held(e)
  BY Zenon DEF Replay
<1>2. d = e
  OBVIOUS
<1> HIDE DEF d, e, Held
<1> QED
  BY <1>1, <1>2

(* Of finitely many revisions one is the latest. *)
LEMMA LatestExists ==
  ASSUME NEW D \in SUBSET Mutation, NEW b \in Nat,
         \A m \in D : 1 <= m.Rev /\ m.Rev <= b,
         NEW k, NEW m \in D, m.Key = k
  PROVE  \E x \in D : x.Key = k /\ \A n \in D : n.Key = k => n.Rev <= x.Rev
<1> DEFINE on == {n \in D : n.Key = k}
           T == {n.Rev : n \in on}
<1>1. \A n \in D : n.Rev \in Nat
  BY DEF Mutation
<1>2. T \in SUBSET (1 .. b) /\ T # {}
  BY <1>1
<1>3. PICK r \in T : \A i \in T : i <= r
  BY <1>2, GreatestNatural
<1>4. PICK x \in on : x.Rev = r
  OBVIOUS
<1> QED
  BY <1>3, <1>4

(* The entries a full pull lists are the replayed history. *)
LEMMA ListMirrors ==
  ASSUME WindowInv, UniqueRevisions,
         NEW map, map = [k \in Watched |->
                           IF data[k] = NoEntry THEN Absent ELSE data[k].Value]
  PROVE  Mirrors(map, {m \in hist : m.Key \in Watched})
<1> SUFFICES ASSUME NEW k \in Watched
             PROVE  map[k] = Replay({m \in hist : m.Key \in Watched}, k)
  BY DEF Mirrors
<1>0. /\ hist \in SUBSET Mutation /\ meta \in Nat /\ k \in Keys
      /\ \A m \in hist : 1 <= m.Rev /\ m.Rev <= meta
      /\ data[k] \in Entry \cup {NoEntry}
  BY WindowFacts, ClientAssumption DEF WindowInv, TypeInv, WatchableTypeOK, BoltTypeOK
<1>1. Replay({m \in hist : m.Key \in Watched}, k) = Replay(hist, k)
  <2>1. {m \in {n \in hist : n.Key \in Watched} : m.Key = k} = {m \in hist : m.Key = k}
    OBVIOUS
  <2> QED
    BY <2>1, ReplaySame
<1>2. Distinct(hist)
  BY DEF UniqueRevisions, Distinct
<1>3. IF data[k] = NoEntry
      THEN \A m \in Of(k) : IsLast(m, Of(k)) => m.Type = "DELETE"
      ELSE IsLast(Mut(data[k].ModRevision, k, "PUT", data[k].Value), Of(k))
  BY <1>0 DEF WindowInv, TypeInv, BoltInv, DataMatchesHistory
<1>4. CASE data[k] = NoEntry
  <2>1. map[k] = Absent
    BY <1>4
  <2>2. CASE \A m \in hist : m.Key # k
    BY <2>1, <2>2, <1>1, ReplayNone
  <2>3. CASE \E m \in hist : m.Key = k
    <3>1. PICK x \in hist : x.Key = k /\ \A n \in hist : n.Key = k => n.Rev <= x.Rev
      BY <1>0, <2>3, LatestExists
    <3>2. IsLast(x, Of(k)) /\ x \in Of(k)
      BY <3>1 DEF IsLast, Of
    <3>3. x.Type = "DELETE"
      BY <1>3, <1>4, <3>2
    <3> QED
      BY <1>0, <1>1, <1>2, <2>1, <3>1, <3>3, ReplayLast
  <2> QED
    BY <2>2, <2>3
<1>5. CASE data[k] # NoEntry
  <2> DEFINE m == Mut(data[k].ModRevision, k, "PUT", data[k].Value)
  <2>1. m.Key = k /\ m.Type = "PUT" /\ m.Value = data[k].Value
    BY DEF Mut
  <2>2. m \in hist /\ \A n \in hist : n.Key = k => n.Rev <= m.Rev
    BY <1>3, <1>5 DEF IsLast, Of
  <2> HIDE DEF m
  <2>3. map[k] = data[k].Value
    BY <1>5
  <2> QED
    BY <1>0, <1>1, <1>2, <2>1, <2>2, <2>3, ReplayLast
<1> QED
  BY <1>4, <1>5

(* A batch in revision order, above or among what was delivered, applied to *)
(* a map that mirrors the latter.                                           *)
LEMMA ApplyMirrors ==
  ASSUME NEW base, NEW events \in Seq(Event), NEW D, NEW H \in SUBSET Mutation,
         Distinct(H), D \subseteq H, Mirrors(base, D),
         \A i \in DOMAIN events : MutOf(events[i]) \in H,
         \A i, j \in DOMAIN events :
           i < j => events[i].Entry.Revision < events[j].Entry.Revision,
         \A m \in D : \/ \A i \in DOMAIN events : m.Rev < events[i].Entry.Revision
                      \/ \E i \in DOMAIN events : m = MutOf(events[i])
  PROVE  Mirrors(ApplyEvents(base, events),
                 D \cup {MutOf(events[i]) : i \in DOMAIN events})
<1> DEFINE E == D \cup {MutOf(events[i]) : i \in DOMAIN events}
<1> SUFFICES ASSUME NEW k \in Watched
             PROVE  ApplyEvents(base, events)[k] = Replay(E, k)
  BY DEF Mirrors
<1>0. \A i \in DOMAIN events :
        /\ events[i] \in Event /\ events[i].Entry.Revision \in Nat
        /\ MutOf(events[i]).Rev = events[i].Entry.Revision
        /\ MutOf(events[i]).Key = events[i].Entry.Key
        /\ MutOf(events[i]).Type = events[i].Type
        /\ MutOf(events[i]).Value = events[i].Entry.Value
  <2>1. \A i \in DOMAIN events : events[i] \in Event
    OBVIOUS
  <2> QED
    BY <2>1, MutOfType DEF Event, Entry
<1>1. E \in SUBSET Mutation /\ Distinct(E)
  BY DEF Distinct
<1>2. CASE \A j \in DOMAIN events : events[j].Entry.Key # k
  <2>1. ApplyEvents(base, events)[k] = base[k]
    BY <1>2, ApplyNone
  <2>2. {m \in E : m.Key = k} = {m \in D : m.Key = k}
    BY <1>0, <1>2
  <2>3. Replay(E, k) = Replay(D, k)
    BY <2>2, ReplaySame
  <2> QED
    BY <2>1, <2>3 DEF Mirrors
<1>3. CASE \E j \in DOMAIN events : events[j].Entry.Key = k
  <2>1. PICK i \in DOMAIN events :
          /\ events[i].Entry.Key = k
          /\ \A x \in DOMAIN events : events[x].Entry.Key = k => x <= i
    BY <1>3, LastEvent
  <2>2. ApplyEvents(base, events)[k] =
          IF events[i].Type = "PUT" THEN events[i].Entry.Value ELSE Absent
    BY <2>1, ApplyLast
  <2>3. ASSUME NEW x \in DOMAIN events, events[x].Entry.Key = k
        PROVE  events[x].Entry.Revision <= events[i].Entry.Revision
    <3>1. x <= i /\ x \in Nat /\ i \in Nat
      BY <2>1, <2>3
    <3>2. x = i \/ x < i
      BY <3>1
    <3> QED
      BY <1>0, <3>2
  <2>4. ASSUME NEW n \in E, n.Key = k PROVE n.Rev <= events[i].Entry.Revision
    <3>1. CASE \E x \in DOMAIN events : n = MutOf(events[x])
      BY <1>0, <2>3, <2>4, <3>1
    <3>2. CASE \A x \in DOMAIN events : n.Rev < events[x].Entry.Revision
      <4>1. n.Rev \in Nat
        BY <1>1 DEF Mutation
      <4> QED
        BY <1>0, <3>2, <4>1
    <3> QED
      BY <3>1, <3>2
  <2> DEFINE m == MutOf(events[i])
  <2>5. m \in E /\ m.Key = k /\ m.Rev = events[i].Entry.Revision
        /\ m.Type = events[i].Type /\ m.Value = events[i].Entry.Value
    BY <1>0, <2>1
  <2>6. \A n \in E : n.Key = k => n.Rev <= m.Rev
    BY <2>4, <2>5
  <2> HIDE DEF m, E
  <2>7. Replay(E, k) = IF m.Type = "PUT" THEN m.Value ELSE Absent
    BY <1>1, <2>5, <2>6, ReplayLast
  <2> QED
    BY <2>2, <2>5, <2>7
<1> QED
  BY <1>2, <1>3

-----------------------------------------------------------------------------
(* The inductive invariant of the mirror.                                   *)
(*                                                                         *)
(* That the map mirrors what was delivered is not inductive: applying a     *)
(* batch could put an old value over a newer one if the batch left out a    *)
(* delivered mutation above its first event.  It cannot, because a          *)
(* delivered mutation is at or below the cursor, or at or below the floor   *)
(* of the window, or still in the window and then delivered again.  The     *)
(* same has to hold of the cache file, whose cursor may lag behind what it  *)
(* holds, and of a batch between WaitForEvents and the response.            *)

(* The committed mutations of the namespace. *)
Known == {m \in hist : m.Key \in Watched}

(* A client with cursor r that holds D: what lies above the cursor was       *)
(* evicted or will be delivered again from the window W above the floor f.   *)
Covered(D, r, f, W) == \A m \in D : m.Rev <= r \/ m.Rev <= f \/ m \in W

(* The events g of a response being built for a client that holds D. *)
BatchOK(g, D, K, f, W) ==
  /\ \A i \in DOMAIN g : MutOf(g[i]) \in K /\ (MutOf(g[i]).Rev <= f \/ MutOf(g[i]) \in W)
  /\ \A i, j \in DOMAIN g : i < j => g[i].Entry.Revision < g[j].Entry.Revision
  /\ \A m \in D : \/ \A i \in DOMAIN g : m.Rev < g[i].Entry.Revision
                  \/ \E i \in DOMAIN g : m = MutOf(g[i])

(* Of the mutations K they leave out none above the cursor r between lo and  *)
(* hi.                                                                       *)
BatchFull(g, K, r, lo, hi) ==
  \A m \in K : m.Rev > r /\ lo < m.Rev /\ m.Rev <= hi => \E i \in DOMAIN g : m = MutOf(g[i])

HoldInv ==
  /\ delivered \subseteq Known
  /\ Mirrors(configs, delivered)
  /\ Covered(delivered, revision, floor, InWindow)

FileInv ==
  file \notin {NoFile, Corrupt} =>
    /\ file.delivered \subseteq Known
    /\ Mirrors(file.configs, file.delivered)
    /\ Covered(file.delivered, file.revision, floor, InWindow)

StartInv == cpc \in {"new", "listed", "fallback"} => configs = Empty /\ delivered = {}

PullInv ==
  cpc = "listed" =>
    /\ seen \subseteq Known /\ Mirrors(pulled, seen)
    /\ range.hi <= meta
    /\ \A m \in Known : m.Rev <= range.hi => m \in seen

NextInv ==
  cpc \in {"saving", "saved"} /\ next > 0 => \A m \in delivered : m.Rev <= next

BatchInv ==
  cpc = "respond" =>
    /\ BatchOK(got, delivered, Known, floor, InWindow)
    /\ range.hi <= meta
    /\ BatchFull(got, Known, revision, range.lo, range.hi)

MirrorInv ==
  /\ UniqueRevisions
  /\ HoldInv
  /\ FileInv
  /\ StartInv
  /\ PullInv
  /\ NextInv
  /\ BatchInv

(* A step of the store keeps a client covered. *)
LEMMA CoveredNext ==
  ASSUME SingleWriter, WindowInv, UniqueRevisions, [WatchableNext]_wsVars,
         NEW D, NEW r, D \subseteq Known, Covered(D, r, floor, InWindow)
  PROVE  D \subseteq Known' /\ Covered(D, r, floor', InWindow')
<1>1. hist \subseteq hist' /\ floor <= floor'
      /\ \A m \in InWindow : m.Rev <= floor' \/ m \in InWindow'
  BY HistGrows, WindowLeaves
<1>2. floor \in Nat /\ floor' \in Nat /\ \A m \in D : m.Rev \in Nat
  <2>1. WindowInv'
    BY WindowInvNext
  <2> QED
    BY <2>1, WindowFacts DEF WindowInv, TypeInv, WatchableTypeOK, Known
<1>3. D \subseteq Known'
  BY <1>1 DEF Known
<1>4. ASSUME NEW m \in D PROVE m.Rev <= r \/ m.Rev <= floor' \/ m \in InWindow'
  <2>1. m.Rev <= r \/ m.Rev <= floor \/ m \in InWindow
    BY DEF Covered
  <2> QED
    BY <1>1, <1>2, <2>1
<1> QED
  BY <1>3, <1>4 DEF Covered

(* A step of the store keeps the promises of a batch: what it commits is     *)
(* newer than anything in the range of the batch.                            *)
LEMMA BatchNext ==
  ASSUME SingleWriter, WindowInv, UniqueRevisions, [WatchableNext]_wsVars,
         NEW g, NEW D, NEW r, NEW lo, NEW hi \in Nat,
         BatchOK(g, D, Known, floor, InWindow), hi <= meta,
         BatchFull(g, Known, r, lo, hi)
  PROVE  /\ BatchOK(g, D, Known', floor', InWindow')
         /\ hi <= meta'
         /\ BatchFull(g, Known', r, lo, hi)
<1>1. /\ hist \subseteq hist' /\ floor <= floor' /\ meta <= meta'
      /\ \A m \in hist' \ hist : m.Rev > meta
      /\ \A m \in InWindow : m.Rev <= floor' \/ m \in InWindow'
  BY HistGrows, WindowLeaves
<1>2. WindowInv'
  BY WindowInvNext
<1>3. /\ floor \in Nat /\ floor' \in Nat /\ meta \in Nat /\ meta' \in Nat
      /\ \A m \in hist : m.Rev \in Nat
      /\ \A m \in hist' : m.Rev \in Nat
  <2>1. hist' \subseteq Mutation
    BY <1>2 DEF WindowInv, TypeInv, WatchableTypeOK, BoltTypeOK
  <2>2. \A m \in hist' : m.Rev \in Nat
    BY <2>1 DEF Mutation
  <2> QED
    BY <1>2, <2>2, WindowFacts DEF WindowInv, TypeInv, WatchableTypeOK, BoltTypeOK
<1>4. ASSUME NEW i \in DOMAIN g
      PROVE  MutOf(g[i]) \in Known' /\ (MutOf(g[i]).Rev <= floor' \/ MutOf(g[i]) \in InWindow')
  <2> DEFINE m == MutOf(g[i])
  <2>1. m \in Known /\ (m.Rev <= floor \/ m \in InWindow)
    BY Zenon DEF BatchOK
  <2> HIDE DEF m
  <2>2. m \in Known' /\ (m.Rev <= floor' \/ m \in InWindow')
    BY <1>1, <1>3, <2>1 DEF Known
  <2> QED
    BY <2>2 DEF m
<1>5. BatchOK(g, D, Known', floor', InWindow')
  BY <1>4, Zenon DEF BatchOK
<1>6. ASSUME NEW m \in Known', m.Rev > r, lo < m.Rev, m.Rev <= hi
      PROVE  \E i \in DOMAIN g : m = MutOf(g[i])
  <2>1. m \in hist' /\ m.Key \in Watched
    BY DEF Known
  <2>2. m \in hist
    BY <1>1, <1>3, <1>6, <2>1
  <2>3. m \in Known
    BY <2>1, <2>2 DEF Known
  <2> QED
    BY <1>6, <2>3 DEF BatchFull
<1>7. BatchFull(g, Known', r, lo, hi)
  BY <1>6 DEF BatchFull
<1> QED
  BY <1>1, <1>3, <1>5, <1>7

(* What the events of a poll are at the moment WaitForEvents returns. *)
LEMMA WaitBatch ==
  ASSUME SDKTypeInv, WindowInv, MirrorInv, NEW g, g = Matching(window, revision, Watched)
  PROVE  /\ BatchOK(g, delivered, Known, floor, InWindow)
         /\ Newest <= meta
         /\ BatchFull(g, Known, revision, floor, Newest)
<1>1. /\ window \in Seq(Event) /\ floor \in Nat /\ meta \in Nat /\ floor <= meta
      /\ \A m \in hist : m.Rev \in Nat /\ m.Rev <= meta
      /\ \A m \in InWindow : m \in hist /\ m.Rev > floor
  BY WindowFacts DEF WindowInv
<1>2. g \in Seq(Event) /\ Selects(g, window, revision, Watched, Len(window))
  BY <1>1, MatchingSelects
<1>3. DOMAIN g = 1 .. Len(g) /\ DOMAIN window = 1 .. Len(window) /\ Len(window) \in Nat
  BY <1>1, <1>2
<1>4. revision \in Nat /\ delivered \subseteq Known
      /\ Covered(delivered, revision, floor, InWindow)
  BY DEF SDKTypeInv, SDKTypeOK, MirrorInv, HoldInv
<1>5. \A j \in DOMAIN window :
        /\ window[j] \in Event /\ window[j].Entry.Revision \in Nat
        /\ MutOf(window[j]).Rev = window[j].Entry.Revision
        /\ MutOf(window[j]).Key = window[j].Entry.Key
        /\ MutOf(window[j]) \in InWindow
  <2>1. \A j \in DOMAIN window : window[j] \in Event
    BY <1>1
  <2>2. \A j \in DOMAIN window : MutOf(window[j]) \in InWindow
    BY DEF InWindow
  <2> QED
    BY <2>1, <2>2, MutOfType DEF Event, Entry
<1>6. ASSUME NEW i \in DOMAIN g
      PROVE  \E j \in DOMAIN window : /\ g[i] = window[j]
                                      /\ window[j].Entry.Revision > revision
                                      /\ window[j].Entry.Key \in Watched
  <2>1. PICK j \in 1 .. Len(window) :
          g[i] = window[j] /\ Matches(window[j], revision, Watched)
    BY <1>2, <1>3, Zenon DEF Selects
  <2> QED
    BY <1>3, <2>1 DEF Matches
<1>7. ASSUME NEW m \in InWindow, m.Rev > revision, m.Key \in Watched
      PROVE  \E i \in DOMAIN g : m = MutOf(g[i])
  <2>1. PICK j \in DOMAIN window : m = MutOf(window[j])
    BY DEF InWindow
  <2>2. Matches(window[j], revision, Watched)
    BY <1>5, <1>7, <2>1 DEF Matches
  <2>3. PICK i \in 1 .. Len(g) : g[i] = window[j]
    BY <1>2, <1>3, <2>2, Zenon DEF Selects
  <2> QED
    BY <1>3, <2>1, <2>3
<1>8. ASSUME NEW i \in DOMAIN g
      PROVE  MutOf(g[i]) \in Known /\ (MutOf(g[i]).Rev <= floor \/ MutOf(g[i]) \in InWindow)
  <2>1. PICK j \in DOMAIN window : g[i] = window[j] /\ window[j].Entry.Key \in Watched
    BY <1>6
  <2>2. MutOf(window[j]) \in InWindow /\ MutOf(window[j]).Key \in Watched
    BY <1>5, <2>1
  <2>3. MutOf(window[j]) \in Known
    BY <1>1, <2>2 DEF Known
  <2> QED
    BY <2>1, <2>2, <2>3
<1>9. ASSUME NEW i \in DOMAIN g, NEW j \in DOMAIN g, i < j
      PROVE  g[i].Entry.Revision < g[j].Entry.Revision
  <2>1. PICK x \in 1 .. Len(window), y \in 1 .. Len(window) :
          x < y /\ g[i] = window[x] /\ g[j] = window[y]
    BY <1>2, <1>3, <1>9 DEF Selects
  <2>2. WindowOrdered
    BY DEF WindowInv, WindowIsRecent
  <2> QED
    BY <1>3, <2>1, <2>2 DEF WindowOrdered
<1>10. ASSUME NEW m \in delivered
       PROVE  \/ \A i \in DOMAIN g : m.Rev < g[i].Entry.Revision
              \/ \E i \in DOMAIN g : m = MutOf(g[i])
  <2>1. m.Rev <= revision \/ m.Rev <= floor \/ m \in InWindow
    BY <1>4 DEF Covered
  <2>2. m \in hist /\ m.Key \in Watched /\ m.Rev \in Nat
    BY <1>1, <1>4 DEF Known
  <2>3. \A i \in DOMAIN g : /\ g[i].Entry.Revision \in Nat
                            /\ g[i].Entry.Revision > revision
                            /\ g[i].Entry.Revision > floor
    <3> TAKE i \in DOMAIN g
    <3>1. PICK j \in DOMAIN window : /\ g[i] = window[j]
                                     /\ window[j].Entry.Revision > revision
      BY <1>6
    <3>2. MutOf(window[j]).Rev > floor
      BY <1>1, <1>5
    <3> QED
      BY <1>5, <3>1, <3>2
  <2>4. CASE m.Rev <= revision \/ m.Rev <= floor
    BY <1>1, <1>4, <2>2, <2>3, <2>4
  <2>5. CASE m \in InWindow /\ m.Rev > revision
    BY <1>7, <2>2, <2>5
  <2> QED
    BY <1>4, <2>1, <2>2, <2>4, <2>5
<1>11. BatchOK(g, delivered, Known, floor, InWindow)
  BY <1>8, <1>9, <1>10, Zenon DEF BatchOK
<1>12. CASE window = <<>>
  <2>1. Newest = floor
    BY <1>12 DEF Newest
  <2>2. \A m \in Known : ~ (floor < m.Rev /\ m.Rev <= floor)
    BY <1>1 DEF Known
  <2> QED
    BY <1>1, <1>11, <2>1, <2>2 DEF BatchFull
<1>13. CASE window # <<>>
  <2>1. Len(window) \in DOMAIN window
    BY <1>1, <1>13
  <2>2. Newest = window[Len(window)].Entry.Revision
    BY <1>13 DEF Newest
  <2>3. Newest = MutOf(window[Len(window)]).Rev /\ Newest \in Nat /\ Newest <= meta
    BY <1>1, <1>5, <2>1, <2>2
  <2>4. ASSUME NEW m \in Known, m.Rev > revision, floor < m.Rev, m.Rev <= Newest
        PROVE  \E i \in DOMAIN g : m = MutOf(g[i])
    <3>1. m \in hist /\ m.Key \in Watched /\ m.Rev \in Nat
      BY <1>1 DEF Known
    <3>2. m \in InWindow \cup Pending
      BY <1>1, <2>4, <3>1 DEF WindowInv, WindowIsRecent
    <3>3. m \notin Pending
      <4> SUFFICES ASSUME m \in Pending PROVE FALSE
        OBVIOUS
      <4>1. PICK w \in Writers : pend[w] # NoEvent /\ m = MutOf(pend[w])
        BY DEF Pending
      <4>2. pend[w] \in Event
        BY <4>1 DEF WindowInv, TypeInv, WatchableTypeOK
      <4>3. m.Rev = pend[w].Entry.Revision
        BY <4>1, <4>2, MutOfType
      <4>4. Newest < m.Rev
        BY <2>1, <2>2, <4>1, <4>3 DEF WindowInv, WindowIsRecent
      <4> QED
        BY <2>3, <2>4, <3>1, <4>4
    <3> QED
      BY <1>7, <2>4, <3>1, <3>2, <3>3
  <2> QED
    BY <1>11, <2>3, <2>4 DEF BatchFull
<1> QED
  BY <1>12, <1>13

(* Merging onto the empty view changes nothing. *)
LEMMA MergeEmpty ==
  ASSUME NEW over \in View
  PROVE  Merge(Empty, over) = over
BY DEF Merge, Empty, View

(* The steps of the client, with the store left alone. *)
LEMMA MirrorInvClient ==
  ASSUME SDKTypeInv, WindowInv, MirrorInv, ClientStep \/ ClientRestart
  PROVE  MirrorInv'
<1>0. UNCHANGED wsVars
  BY DEF ClientStep, HandleList, FullPull, FullPullFails, LoadFromCache,
         WaitForEvents, WatchRespond, WatchFails, SaveToCache, Adopt, ClientRestart
<1>1. /\ Known' = Known /\ floor' = floor /\ InWindow' = InWindow /\ meta' = meta
      /\ UniqueRevisions'
  BY <1>0 DEF wsVars, Known, InWindow, UniqueRevisions, MirrorInv
<1>2. /\ meta \in Nat /\ rev \in Nat /\ floor \in Nat /\ meta <= rev
      /\ \A m \in hist : m \in Mutation /\ m.Rev \in Nat /\ m.Rev <= meta
      /\ \A m \in Known : m \in hist /\ m.Rev \in Nat /\ m.Rev <= rev
  BY WindowFacts DEF Known
<1>3. ClientTypeOK
  BY TypeParts
<1>4. HoldInv /\ FileInv /\ StartInv /\ PullInv /\ NextInv /\ BatchInv
  BY DEF MirrorInv
<1> DEFINE Goal == HoldInv' /\ FileInv' /\ StartInv' /\ PullInv' /\ NextInv' /\ BatchInv'
<1>5. ASSUME UNCHANGED file PROVE FileInv'
  BY <1>1, <1>4, <1>5 DEF FileInv
<1>6. ASSUME UNCHANGED <<configs, revision, delivered>> PROVE HoldInv'
  BY <1>1, <1>4, <1>6 DEF HoldInv
<1>7. Mirrors(Empty, {})
  BY ReplayNone DEF Mirrors, Empty
<1>a. ASSUME HandleList PROVE Goal
  <2>1. UNCHANGED <<configs, revision, delivered, file>> /\ cpc' = "listed" /\ cpc = "new"
    BY <1>a DEF HandleList
  <2>2. StartInv'
    BY <1>4, <2>1 DEF StartInv
  <2>3. seen' = Known
    BY <1>a DEF HandleList, Known
  <2>4. Mirrors(pulled', Known)
    BY <1>a, ListMirrors DEF HandleList, Known, MirrorInv
  <2>5. range'.hi = meta
    BY <1>a DEF HandleList
  <2>6. PullInv'
    BY <1>1, <1>2, <2>3, <2>4, <2>5 DEF PullInv
  <2> QED
    BY <1>5, <1>6, <2>1, <2>2, <2>6 DEF NextInv, BatchInv
<1>b. ASSUME FullPull PROVE Goal
  <2>1. configs = Empty /\ seen \subseteq Known /\ Mirrors(pulled, seen)
    BY <1>b, <1>4 DEF FullPull, StartInv, PullInv
  <2>2. /\ configs' = Merge(configs, pulled) /\ revision' = rev /\ next' = rev
        /\ delivered' = seen /\ cpc' = "saving" /\ file' = file
    BY <1>b DEF FullPull
  <2>3. configs' = pulled
    BY <1>3, <2>1, <2>2, MergeEmpty DEF ClientTypeOK
  <2>4. \A m \in seen : m.Rev <= rev
    BY <1>2, <2>1
  <2>5. HoldInv'
    BY <1>1, <2>1, <2>2, <2>3, <2>4 DEF HoldInv, Covered
  <2>6. NextInv'
    BY <2>2, <2>4 DEF NextInv
  <2> QED
    BY <1>5, <2>2, <2>5, <2>6 DEF StartInv, PullInv, BatchInv
<1>c. ASSUME FullPullFails PROVE Goal
  <2>1. UNCHANGED <<configs, revision, delivered, file>> /\ cpc' = "fallback"
        /\ cpc \in {"new", "listed"}
    BY <1>c DEF FullPullFails
  <2>2. StartInv'
    BY <1>4, <2>1 DEF StartInv
  <2> QED
    BY <1>5, <1>6, <2>1, <2>2 DEF PullInv, NextInv, BatchInv
<1>d. ASSUME LoadFromCache PROVE Goal
  <2>1. UNCHANGED file /\ cpc' = "poll" /\ cpc = "fallback"
    BY <1>d DEF LoadFromCache
  <2>2. HoldInv'
    <3>1. CASE file \in {NoFile, Corrupt}
      BY <1>d, <1>6, <3>1 DEF LoadFromCache
    <3>2. CASE file \notin {NoFile, Corrupt}
      <4>1. configs = Empty
        BY <1>4, <2>1 DEF StartInv
      <4>2. /\ configs' = Merge(configs, file.configs) /\ revision' = file.revision
            /\ delivered' = file.delivered
        BY <1>d, <3>2 DEF LoadFromCache
      <4>3. file.configs \in View
        BY <1>3, <3>2 DEF ClientTypeOK, File
      <4>4. configs' = file.configs
        BY <4>1, <4>2, <4>3, MergeEmpty
      <4> QED
        BY <1>1, <1>4, <3>2, <4>2, <4>4 DEF FileInv, HoldInv
    <3> QED
      BY <3>1, <3>2
  <2> QED
    BY <1>5, <2>1, <2>2 DEF StartInv, PullInv, NextInv, BatchInv
<1>e. ASSUME WaitForEvents PROVE Goal
  <2>1. /\ UNCHANGED <<configs, revision, delivered, file>> /\ cpc' = "respond"
        /\ got' = Matching(window, revision, Watched)
        /\ range' = [lo |-> floor, hi |-> Newest]
    BY <1>e DEF WaitForEvents
  <2>2. /\ BatchOK(got', delivered, Known, floor, InWindow)
        /\ Newest <= meta
        /\ BatchFull(got', Known, revision, floor, Newest)
    BY <2>1, WaitBatch
  <2>3. range'.lo = floor /\ range'.hi = Newest
    BY <2>1
  <2>4. BatchInv'
    BY <1>1, <2>1, <2>2, <2>3 DEF BatchInv
  <2> QED
    BY <1>5, <1>6, <2>1, <2>4 DEF StartInv, PullInv, NextInv
<1>f. ASSUME WatchRespond PROVE Goal
  <2>1. /\ cpc = "respond" /\ next' = rev /\ configs' = ApplyEvents(configs, got)
        /\ delivered' = delivered \cup {MutOf(got[i]) : i \in DOMAIN got}
        /\ UNCHANGED <<revision, file>> /\ cpc' \in {"saving", "saved"}
    BY <1>f DEF WatchRespond
  <2>2. BatchOK(got, delivered, Known, floor, InWindow)
    BY <1>4, <2>1 DEF BatchInv
  <2>3. delivered \subseteq Known /\ Mirrors(configs, delivered)
        /\ Covered(delivered, revision, floor, InWindow)
    BY <1>4 DEF HoldInv
  <2>4. \A i \in DOMAIN got : /\ MutOf(got[i]) \in Known
                              /\ MutOf(got[i]).Rev <= floor \/ MutOf(got[i]) \in InWindow
    BY <2>2, Zenon DEF BatchOK
  <2>5. delivered' \subseteq Known
    BY <2>1, <2>3, <2>4
  <2>6. Known \in SUBSET Mutation /\ Distinct(Known)
    BY <1>2 DEF MirrorInv, UniqueRevisions, Distinct, Known
  <2>7. got \in Seq(Event)
    BY <1>3 DEF ClientTypeOK
  <2>8. /\ \A i, j \in DOMAIN got : i < j => got[i].Entry.Revision < got[j].Entry.Revision
        /\ \A m \in delivered : \/ \A i \in DOMAIN got : m.Rev < got[i].Entry.Revision
                                \/ \E i \in DOMAIN got : m = MutOf(got[i])
    BY <2>2, Zenon DEF BatchOK
  <2>9. Mirrors(ApplyEvents(configs, got),
                delivered \cup {MutOf(got[i]) : i \in DOMAIN got})
    BY <2>3, <2>4, <2>6, <2>7, <2>8, ApplyMirrors
  <2>10. Covered(delivered', revision, floor, InWindow)
    <3> SUFFICES ASSUME NEW m \in delivered'
                 PROVE  m.Rev <= revision \/ m.Rev <= floor \/ m \in InWindow
      BY DEF Covered
    <3>1. CASE m \in delivered
      BY <2>3, <3>1 DEF Covered
    <3>2. CASE \E i \in DOMAIN got : m = MutOf(got[i])
      BY <2>4, <3>2
    <3> QED
      BY <2>1, <3>1, <3>2
  <2>11. HoldInv'
    BY <1>1, <2>1, <2>5, <2>9, <2>10 DEF HoldInv
  <2>12. NextInv'
    BY <1>2, <2>1, <2>5 DEF NextInv
  <2> QED
    BY <1>5, <2>1, <2>11, <2>12 DEF StartInv, PullInv, BatchInv
<1>g. ASSUME WatchFails PROVE Goal
  <2>1. UNCHANGED <<configs, revision, delivered, file>> /\ cpc' = "poll"
    BY <1>g DEF WatchFails
  <2> QED
    BY <1>5, <1>6, <2>1 DEF StartInv, PullInv, NextInv, BatchInv
<1>h. ASSUME SaveToCache PROVE Goal
  <2> DEFINE new == [configs |-> configs, revision |-> revision, delivered |-> delivered]
  <2>1. /\ UNCHANGED <<configs, revision, delivered, next>> /\ cpc' = "saved"
        /\ cpc = "saving" /\ file' \in {new, file, Corrupt}
    BY <1>h DEF SaveToCache
  <2>2. new.configs = configs /\ new.revision = revision /\ new.delivered = delivered
    OBVIOUS
  <2> HIDE DEF new
  <2>3. FileInv'
    <3>1. CASE file' = new
      BY <1>1, <1>4, <2>2, <3>1 DEF FileInv, HoldInv
    <3>2. CASE file' = Corrupt
      BY <3>2 DEF FileInv
    <3> QED
      BY <1>5, <2>1, <3>1, <3>2
  <2>4. NextInv'
    BY <1>4, <2>1 DEF NextInv
  <2> QED
    BY <1>6, <2>1, <2>3, <2>4 DEF StartInv, PullInv, BatchInv
<1>i. ASSUME Adopt PROVE Goal
  <2>1. /\ UNCHANGED <<configs, delivered, file>> /\ cpc' = "poll" /\ cpc = "saved"
        /\ revision' = IF next > 0 THEN next ELSE revision
    BY <1>i DEF Adopt
  <2>2. Covered(delivered, revision', floor, InWindow)
    BY <1>4, <2>1 DEF NextInv, HoldInv, Covered
  <2>3. HoldInv'
    BY <1>1, <1>4, <2>1, <2>2 DEF HoldInv
  <2> QED
    BY <1>5, <2>1, <2>3 DEF StartInv, PullInv, NextInv, BatchInv
<1>j. ASSUME ClientRestart PROVE Goal
  <2>1. /\ UNCHANGED file /\ cpc' = "new" /\ configs' = Empty /\ delivered' = {}
    BY <1>j DEF ClientRestart
  <2>2. HoldInv'
    BY <1>7, <2>1 DEF HoldInv, Covered
  <2> QED
    BY <1>5, <2>1, <2>2 DEF StartInv, PullInv, NextInv, BatchInv
<1>8. Goal
  BY <1>a, <1>b, <1>c, <1>d, <1>e, <1>f, <1>g, <1>h, <1>i, <1>j DEF ClientStep
<1> QED
  BY <1>1, <1>8 DEF MirrorInv

(* The steps of the store: writers, a stop and a restart. *)
LEMMA MirrorInvStore ==
  ASSUME SingleWriter, SDKTypeInv, WindowInv, MirrorInv, [WatchableNext]_wsVars,
         UNCHANGED <<configs, revision, next, file, delivered>>,
         \/ UNCHANGED <<cpc, pulled, got, seen, range>>
         \/ /\ cpc' \notin {"listed", "respond"}
            /\ cpc' = cpc \/ <<cpc, cpc'>> \in {<<"listed", "fallback">>, <<"respond", "poll">>}
  PROVE  MirrorInv'
<1>1. UniqueRevisions /\ UniqueRevisions' /\ hist \subseteq hist'
  BY HistGrows DEF MirrorInv
<1>2. HoldInv /\ FileInv /\ StartInv /\ PullInv /\ NextInv /\ BatchInv
  BY DEF MirrorInv
<1>3. HoldInv'
  <2>1. delivered \subseteq Known' /\ Covered(delivered, revision, floor', InWindow')
    BY <1>1, <1>2, CoveredNext DEF HoldInv
  <2> QED
    BY <1>2, <2>1 DEF HoldInv
<1>4. FileInv'
  <2> SUFFICES ASSUME file \notin {NoFile, Corrupt}
               PROVE  /\ file.delivered \subseteq Known'
                      /\ Mirrors(file.configs, file.delivered)
                      /\ Covered(file.delivered, file.revision, floor', InWindow')
    BY DEF FileInv
  <2>1. /\ file.delivered \subseteq Known
        /\ Mirrors(file.configs, file.delivered)
        /\ Covered(file.delivered, file.revision, floor, InWindow)
    BY <1>2 DEF FileInv
  <2> QED
    BY <1>1, <2>1, CoveredNext
<1>5. StartInv' /\ NextInv'
  BY <1>2 DEF StartInv, NextInv
<1>6. PullInv'
  <2>1. CASE cpc' # "listed"
    BY <2>1 DEF PullInv
  <2>2. CASE cpc' = "listed"
    <3>1. cpc = "listed" /\ UNCHANGED <<pulled, seen, range>>
      BY <2>2
    <3>2. /\ seen \subseteq Known /\ Mirrors(pulled, seen) /\ range.hi <= meta
          /\ \A m \in Known : m.Rev <= range.hi => m \in seen
      BY <1>2, <3>1 DEF PullInv
    <3>3. meta <= meta' /\ \A m \in hist' \ hist : m.Rev > meta
      BY <1>1, HistGrows
    <3>4. range.hi \in Nat /\ meta \in Nat /\ meta' \in Nat /\ \A m \in hist' : m.Rev \in Nat
      <4>1. WindowInv'
        BY WindowInvNext
      <4>2. hist' \subseteq Mutation /\ meta' \in Nat
        BY <4>1 DEF WindowInv, TypeInv, WatchableTypeOK, BoltTypeOK
      <4> QED
        BY <4>2, WindowFacts DEF Mutation, SDKTypeInv, SDKTypeOK
    <3>5. \A m \in Known' : m.Rev <= range.hi => m \in seen
      BY <3>2, <3>3, <3>4 DEF Known
    <3> QED
      BY <1>1, <3>1, <3>2, <3>3, <3>4, <3>5 DEF PullInv, Known
  <2> QED
    BY <2>1, <2>2
<1>7. BatchInv'
  <2>1. CASE cpc' # "respond"
    BY <2>1 DEF BatchInv
  <2>2. CASE cpc' = "respond"
    <3>1. cpc = "respond" /\ UNCHANGED <<got, range>>
      BY <2>2
    <3>2. range.hi \in Nat
      BY DEF SDKTypeInv, SDKTypeOK
    <3>3. /\ BatchOK(got, delivered, Known, floor, InWindow) /\ range.hi <= meta
          /\ BatchFull(got, Known, revision, range.lo, range.hi)
      BY <1>2, <3>1 DEF BatchInv
    <3>4. /\ BatchOK(got, delivered, Known', floor', InWindow') /\ range.hi <= meta'
          /\ BatchFull(got, Known', revision, range.lo, range.hi)
      BY <1>1, <3>2, <3>3, BatchNext
    <3> QED
      BY <3>1, <3>4 DEF BatchInv
  <2> QED
    BY <2>1, <2>2
<1> QED
  BY <1>1, <1>3, <1>4, <1>5, <1>6, <1>7 DEF MirrorInv

(* The invariant of the whole system, for one writer. *)
ClientInv == SDKTypeInv /\ WindowInv /\ MirrorInv

(* The client starts with nothing read and nothing lost. *)
LEMMA ClientInvInit == SDKInit => ClientInv
<1> SUFFICES ASSUME SDKInit PROVE ClientInv
  OBVIOUS
<1>1. SDKTypeInv /\ WindowInv
  BY SDKTypeInvInit, WindowInvInit DEF SDKInit
<1>2. /\ hist = {} /\ cpc = "new" /\ configs = Empty /\ delivered = {} /\ file = NoFile
  BY DEF SDKInit, WatchableInit, BoltInit
<1>3. Mirrors(Empty, {})
  BY ReplayNone DEF Mirrors, Empty
<1>4. HoldInv
  BY <1>2, <1>3 DEF HoldInv, Covered
<1>5. MirrorInv
  BY <1>2, <1>4 DEF MirrorInv, UniqueRevisions, FileInv, StartInv, PullInv, NextInv, BatchInv
<1> QED
  BY <1>1, <1>5 DEF ClientInv

(* The invariant behind the client's view is inductive. *)
LEMMA ClientInvNext ==
  ASSUME SingleWriter
  PROVE  ClientInv /\ [SDKNext]_sdkVars => ClientInv'
<1> SUFFICES ASSUME ClientInv, [SDKNext]_sdkVars PROVE ClientInv'
  OBVIOUS
<1>0. SDKTypeInv /\ WindowInv /\ MirrorInv
  BY DEF ClientInv
<1>1. SDKTypeInv'
  BY <1>0, SDKTypeInvNext
<1>2. [WatchableNext]_wsVars
  BY StoreStep
<1>3. WindowInv'
  BY <1>0, <1>2, WindowInvNext
<1>4. CASE ClientStep \/ ClientRestart
  BY <1>0, <1>1, <1>3, <1>4, MirrorInvClient DEF ClientInv
<1>5. CASE UNCHANGED clientVars
  <2>1. UNCHANGED <<configs, revision, next, file, delivered>>
        /\ UNCHANGED <<cpc, pulled, got, seen, range>>
    BY <1>5 DEF clientVars
  <2>2. MirrorInv'
    BY <1>0, <1>2, <2>1, MirrorInvStore
  <2> QED
    BY <1>1, <1>3, <2>2 DEF ClientInv
<1>6. CASE ServerStop
  <2>1. UNCHANGED <<configs, revision, next, file, delivered>>
    BY <1>6 DEF ServerStop
  <2>2. /\ cpc' \notin {"listed", "respond"}
        /\ cpc' = cpc \/ <<cpc, cpc'>> \in {<<"listed", "fallback">>, <<"respond", "poll">>}
    BY <1>6 DEF ServerStop
  <2>3. MirrorInv'
    BY <1>0, <1>2, <2>1, <2>2, MirrorInvStore
  <2> QED
    BY <1>1, <1>3, <2>3 DEF ClientInv
<1> QED
  BY <1>4, <1>5, <1>6, Zenon DEF SDKNext, sdkVars

(* It holds in every reachable state. *)
LEMMA ClientInvariance ==
  ASSUME SingleWriter
  PROVE  SDKSpec => []ClientInv
<1>1. ClientInv /\ [SDKNext]_sdkVars => ClientInv'
  BY ClientInvNext
<1> QED
  BY <1>1, ClientInvInit, PTL DEF SDKSpec

(* With one writer, the client's map is always the mutations it was given,  *)
(* replayed in revision order, through full pulls, batches, evictions,      *)
(* failed commits, crashes of either side, a lagging or broken cache file   *)
(* and everything that is delivered twice because of them.                  *)
THEOREM ViewMatchesDeliveredHolds ==
  ASSUME SingleWriter
  PROVE  SDKSpec => []ViewMatchesDelivered
<1>1. ClientInv => ViewMatchesDelivered
  BY DEF ClientInv, MirrorInv, HoldInv, Mirrors, ViewMatchesDelivered
<1>2. SDKSpec => []ClientInv
  BY ClientInvariance
<1> QED
  BY <1>1, <1>2, PTL

(* With one writer, a mutation that a full pull steps over was committed     *)
(* after List had read the entries, and one that a poll steps over was out   *)
(* of the window when WaitForEvents returned, or was appended after that.    *)
THEOREM LossesExplainedHolds ==
  ASSUME SingleWriter
  PROVE  SDKSpec => LossesExplained
<1> DEFINE A == FullPull \/ WatchRespond =>
                  \A m \in hist :
                    /\ m.Key \in Watched /\ m.Rev > revision /\ m.Rev <= next'
                    /\ m \notin delivered'
                    => m.Rev <= range.lo \/ m.Rev > range.hi
<1>1. ASSUME ClientInv PROVE A
  <2> SUFFICES ASSUME FullPull \/ WatchRespond, NEW m \in hist, m.Key \in Watched,
                      m.Rev > revision, m.Rev <= next', m \notin delivered',
                      ~ (m.Rev <= range.lo \/ m.Rev > range.hi)
               PROVE  FALSE
    OBVIOUS
  <2>1. m \in Known
    BY DEF Known
  <2>2. m.Rev \in Nat /\ range.lo \in Nat /\ range.hi \in Nat
    BY <1>1, WindowFacts DEF ClientInv, SDKTypeInv, SDKTypeOK
  <2>3. CASE FullPull
    <3>1. \A x \in Known : x.Rev <= range.hi => x \in seen
      BY <1>1, <2>3 DEF ClientInv, MirrorInv, PullInv, FullPull
    <3> QED
      BY <2>1, <2>2, <2>3, <3>1 DEF FullPull
  <2>4. CASE WatchRespond
    <3>1. BatchFull(got, Known, revision, range.lo, range.hi)
      BY <1>1, <2>4 DEF ClientInv, MirrorInv, BatchInv, WatchRespond
    <3>2. \E i \in DOMAIN got : m = MutOf(got[i])
      BY <2>1, <2>2, <3>1 DEF BatchFull
    <3> QED
      BY <2>4, <3>2 DEF WatchRespond
  <2> QED
    BY <2>3, <2>4
<1>2. SDKSpec => []ClientInv
  BY ClientInvariance
<1> QED
  BY <1>1, <1>2, PTL DEF LossesExplained

=============================================================================
