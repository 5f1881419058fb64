-------------------------- MODULE RaftServerProofs --------------------------
(***************************************************************************)
(* Proofs about RaftServer, for any set of nodes and of clients, any number *)
(* of elections and any interleaving of forwards, lost leaderships and      *)
(* broken connections.                                                      *)
(***************************************************************************)
EXTENDS RaftServer, TLAPS, SequenceTheorems, FiniteSetTheorems

-----------------------------------------------------------------------------
(* Ending handlers preserves the types of what it touches. *)
LEMMA AnswerAllType ==
  ASSUME RSTypeOK, NEW R \in SUBSET Requests, NEW s \in Statuses, NEW v \in Nat,
         AnswerAll(R, s, v)
  PROVE  /\ pc' \in [Requests -> {"idle", "handle", "apply", "wait", "done"}]
         /\ ans' \in [Requests -> [status : Statuses, rev : Nat] \cup {None}]
         /\ proc' \in [Nodes -> {"joining", "serving", "exited"}]
         /\ at' = at /\ op' = op /\ relayed' = relayed
<1>1. [status |-> s, rev |-> v] \in [status : Statuses, rev : Nat]
  OBVIOUS
<1>2. proc \in [Nodes -> {"joining", "serving", "exited"}]
  BY DEF RSTypeOK
<1>3. proc' \in [Nodes -> {"joining", "serving", "exited"}]
  BY <1>2 DEF AnswerAll
<1> QED
  BY <1>1, <1>3 DEF AnswerAll, RSTypeOK

(* Answering one request, likewise. *)
LEMMA AnswerType ==
  ASSUME RSTypeOK, NEW r \in Requests, NEW s \in Statuses, NEW v \in Nat,
         Answer(r, s, v), UNCHANGED raftVars
  PROVE  RSTypeOK'
<1>1. AnswerAll({r}, s, v) /\ {r} \in SUBSET Requests
  BY DEF Answer
<1>2. /\ pc' \in [Requests -> {"idle", "handle", "apply", "wait", "done"}]
      /\ ans' \in [Requests -> [status : Statuses, rev : Nat] \cup {None}]
      /\ proc' \in [Nodes -> {"joining", "serving", "exited"}]
      /\ at' = at /\ op' = op /\ relayed' = relayed
  BY <1>1, AnswerAllType
<1> QED
  BY <1>2 DEF RSTypeOK, raftVars, storeVars

(* Responding is answering with the FSM's result, or with its error. *)
LEMMA RespondIsAnswer ==
  ASSUME RSTypeOK, NEW r \in Requests, Respond(r)
  PROVE  \E s \in {200, 201, 404, 500}, v \in Nat :
           /\ Answer(r, s, v)
           /\ pc[r] = "wait" /\ result[r] # None
           /\ s = 500 <=> result[r].err = "store"
           /\ s = 404 <=> result[r].err = "notfound"
           /\ r \in Clients /\ op[r] = "put" /\ result[r].err = "none" =>
                /\ s = 201 <=> ~result[r].prev
                /\ v = result[r].rev
           /\ r \in Clients /\ op[r] = "delete" /\ result[r].err = "none" =>
                v = rev[at[r]]
<1> DEFINE f == result[r]
<1>0. f \in Results /\ pc[r] = "wait" /\ result[r] # None
  BY DEF Respond, FutureDone, RSTypeOK
<1>1. /\ f.err \in {"none", "notfound", "store"} /\ f.prev \in BOOLEAN /\ f.rev \in Nat
      /\ at[r] \in Nodes /\ rev[at[r]] \in Nat /\ op[r] \in {"put", "delete"}
      /\ r \in Nodes \/ r \in Clients
      /\ ~(r \in Nodes /\ r \in Clients)
  BY <1>0, ServerAssumption DEF RSTypeOK, Results, Requests
<1>2. (CASE f.err = "store" -> Answer(r, 500, 0)
         [] f.err = "notfound" -> Answer(r, 404, 0)
         [] f.err = "none" /\ r \in Nodes -> Answer(r, 200, 0)
         [] f.err = "none" /\ r \in Clients /\ op[r] = "put" ->
              Answer(r, IF f.prev THEN 200 ELSE 201, f.rev)
         [] f.err = "none" /\ r \in Clients /\ op[r] = "delete" ->
              Answer(r, 200, rev[at[r]]))
  BY DEF Respond
<1> HIDE DEF f, Answer
<1>f. f = result[r]
  BY DEF f
<1>3. CASE f.err = "store"
  <2>1. Answer(r, 500, 0)
    BY <1>2, <1>3
  <2> QED
    BY <1>0, <1>3, <1>f, <2>1
<1>4. CASE f.err = "notfound"
  <2>1. Answer(r, 404, 0)
    BY <1>2, <1>4
  <2> QED
    BY <1>0, <1>4, <1>f, <2>1
<1>5. CASE f.err = "none" /\ r \in Nodes
  <2>1. Answer(r, 200, 0)
    BY <1>2, <1>5, <1>1
  <2> QED
    BY <1>0, <1>1, <1>5, <1>f, <2>1
<1>6. CASE f.err = "none" /\ r \in Clients /\ op[r] = "put"
  <2>1. Answer(r, IF f.prev THEN 200 ELSE 201, f.rev)
    BY <1>2, <1>6, <1>1
  <2>2. CASE f.prev
    BY <1>0, <1>1, <1>6, <1>f, <2>1, <2>2
  <2>3. CASE ~f.prev
    BY <1>0, <1>1, <1>6, <1>f, <2>1, <2>3
  <2> QED
    BY <2>2, <2>3
<1>7. CASE f.err = "none" /\ r \in Clients /\ op[r] = "delete"
  <2>1. Answer(r, 200, rev[at[r]])
    BY <1>2, <1>7, <1>1
  <2> QED
    BY <1>0, <1>1, <1>7, <1>f, <2>1
<1> QED
  BY <1>1, <1>3, <1>4, <1>5, <1>6, <1>7

-----------------------------------------------------------------------------
(* The types are inductive. *)
LEMMA TypeInit == RSInit => RSTypeOK
<1> SUFFICES ASSUME RSInit PROVE RSTypeOK
  OBVIOUS
<1>1. <<>> \in Seq(Requests) /\ Len(<<>>) = 0
  BY EmptySeq
<1> QED
  BY <1>1, ServerAssumption DEF RSInit, RSTypeOK, Requests, AllKeys

(* Every step keeps the server well typed. *)
LEMMA TypeStep == RSTypeOK /\ [RSNext]_rsVars => RSTypeOK'
<1> SUFFICES ASSUME RSTypeOK, [RSNext]_rsVars PROVE RSTypeOK'
  OBVIOUS
<1>len. /\ Len(log) \in Nat /\ Len(proposed) \in Nat
        /\ \A i \in 1 .. Len(proposed) : proposed[i] \in Requests
  BY LenProperties DEF RSTypeOK
<1>el. ASSUME NEW n \in Nodes, Elect(n) PROVE RSTypeOK'
  <2>1. PICK k \in 0 .. Len(proposed) : log' = log \o SubSeq(proposed, 1, k)
    BY <1>el DEF Elect
  <2>2. k \in Int /\ SubSeq(proposed, 1, k) \in Seq(Requests)
    BY <1>len, SubSeqProperties
  <2>3. log' \in Seq(Requests) /\ Len(log') = Len(log) + Len(SubSeq(proposed, 1, k))
    BY <2>1, <2>2, ConcatProperties DEF RSTypeOK
  <2>4. Len(SubSeq(proposed, 1, k)) \in Nat
    BY <2>2, LenProperties
  <2>5. Len(log) <= Len(log')
    BY <1>len, <2>3, <2>4
  <2>6. proposed' \in Seq(Requests)
    BY <1>el, EmptySeq DEF Elect
  <2>7. \A m \in Nodes : applied'[m] <= Len(log')
    BY <1>el, <1>len, <2>3, <2>4, <2>5 DEF Elect, RSTypeOK, storeVars
  <2>8. /\ leader' = n /\ members' = members
        /\ UNCHANGED <<applied, keys, rev, failed, result>>
        /\ state' = [state EXCEPT ![n] = "leader"]
        /\ view' = [view EXCEPT ![n] = n]
        /\ UNCHANGED <<proc, pc, at, op, relayed, ans>>
    BY <1>el DEF Elect, reqVars, storeVars
  <2>9. elections' \in 0 .. MaxElections
    BY <1>el, ServerAssumption DEF Elect, RSTypeOK
  <2> QED
    BY <2>3, <2>6, <2>7, <2>8, <2>9 DEF RSTypeOK
<1>sl. ASSUME NEW n \in Nodes, StopsLeading(n), members' \subseteq Nodes,
              UNCHANGED <<log, proposed, elections, storeVars>>
       PROVE  RSTypeOK'
  <2> DEFINE lost == {r \in Requests : at[r] = n /\ pc[r] = "wait" /\ result[r] = None}
  <2>1. lost \in SUBSET Requests /\ AnswerAll(lost, 500, 0) /\ 500 \in Statuses
    BY <1>sl DEF StopsLeading, LostStatus, Statuses
  <2> HIDE DEF lost
  <2>2. /\ pc' \in [Requests -> {"idle", "handle", "apply", "wait", "done"}]
        /\ ans' \in [Requests -> [status : Statuses, rev : Nat] \cup {None}]
        /\ proc' \in [Nodes -> {"joining", "serving", "exited"}]
        /\ at' = at /\ op' = op /\ relayed' = relayed
    BY <2>1, AnswerAllType
  <2>3. /\ state' = [state EXCEPT ![n] = "follower"]
        /\ view' = [view EXCEPT ![n] = NoNode]
        /\ leader' = IF leader = n THEN NoNode ELSE leader
    BY <1>sl DEF StopsLeading
  <2>4. /\ state' \in [Nodes -> {"leader", "follower"}]
        /\ view' \in [Nodes -> Nodes \cup {NoNode}]
        /\ leader' \in Nodes \cup {NoNode}
    BY <2>3 DEF RSTypeOK
  <2> QED
    BY <1>sl, <2>2, <2>4 DEF RSTypeOK, storeVars
<1>sd. ASSUME NEW n \in Nodes, StepDown(n) PROVE RSTypeOK'
  BY <1>sd, <1>sl DEF StepDown, RSTypeOK
<1>an2. ASSUME NEW n \in Nodes, NEW ok \in BOOLEAN, ApplyNext(n, ok)
        PROVE  /\ keys' \in [Nodes -> SUBSET AllKeys] /\ rev' \in [Nodes -> Nat]
               /\ result' \in [Requests -> Results \cup {None}]
               /\ applied' \in [Nodes -> Nat]
               /\ \A m \in Nodes : applied'[m] <= Len(log)
  <2> DEFINE r == log[applied[n] + 1]
  <2>1. /\ applied[n] \in Nat /\ applied[n] < Len(log)
        /\ applied' = [applied EXCEPT ![n] = @ + 1] /\ FSMApply(n, r, ok)
    BY <1>an2 DEF ApplyNext, RSTypeOK
  <2>2. r \in Requests /\ KeyOf(r) \in AllKeys
    BY <1>len, <2>1, ElementOfSeq DEF RSTypeOK, KeyOf, AllKeys
  <2> HIDE DEF r
  <2>3. keys' \in [Nodes -> SUBSET AllKeys]
    BY <2>1, <2>2 DEF FSMApply, RSTypeOK
  <2>4. rev' \in [Nodes -> Nat]
    BY <2>1, <2>2 DEF FSMApply, RSTypeOK
  <2>5. \/ result' = result
        \/ \E e \in {"none", "notfound", "store"}, b \in BOOLEAN, v \in Nat :
             result' = [result EXCEPT ![r] = [err |-> e, prev |-> b, rev |-> v]]
    <3>1. rev[n] + 1 \in Nat /\ (KeyOf(r) \in keys[n]) \in BOOLEAN
      BY DEF RSTypeOK
    <3> DEFINE e == CASE op[r] = "delete" /\ ~(KeyOf(r) \in keys[n]) -> "notfound"
                      [] ~ok -> "store" [] OTHER -> "none"
    <3>2. e \in {"none", "notfound", "store"}
      OBVIOUS
    <3>3. \/ result' = result
          \/ result' = [result EXCEPT ![r] = [err |-> e, prev |-> KeyOf(r) \in keys[n],
                                              rev |-> rev[n] + 1]]
      BY <2>1 DEF FSMApply
    <3> HIDE DEF e
    <3> QED
      BY <3>1, <3>2, <3>3
  <2>6. result' \in [Requests -> Results \cup {None}]
    <3>1. result \in [Requests -> Results \cup {None}]
      BY DEF RSTypeOK
    <3>2. ASSUME NEW e \in {"none", "notfound", "store"}, NEW b \in BOOLEAN, NEW v \in Nat
          PROVE  [err |-> e, prev |-> b, rev |-> v] \in Results
      BY DEF Results
    <3>3. ASSUME NEW f \in Results, result' = [result EXCEPT ![r] = f]
          PROVE  result' \in [Requests -> Results \cup {None}]
      BY <2>2, <3>1, <3>3
    <3> QED
      BY <2>5, <3>1, <3>2, <3>3
  <2>7. applied \in [Nodes -> Nat] /\ applied[n] + 1 \in Nat /\ applied[n] + 1 <= Len(log)
    BY <1>len, <2>1 DEF RSTypeOK
  <2>8. applied' \in [Nodes -> Nat] /\ \A m \in Nodes : applied'[m] <= Len(log)
    BY <2>1, <2>7 DEF RSTypeOK
  <2> QED
    BY <2>3, <2>4, <2>6, <2>8
<1>ae. ASSUME NEW n \in Nodes, ApplyEntry(n) PROVE RSTypeOK'
  <2>1. ApplyNext(n, TRUE) /\ failed' = failed
    BY <1>ae DEF ApplyEntry
  <2> QED
    BY <2>1, <1>an2 DEF ApplyNext, RSTypeOK, reqVars
<1>af. ASSUME NEW n \in Nodes, ApplyFails(n) PROVE RSTypeOK'
  <2>1. ApplyNext(n, FALSE) /\ failed' = failed \cup {<<n, applied[n] + 1>>}
    BY <1>af DEF ApplyFails
  <2>2. applied[n] + 1 \in Nat
    BY DEF RSTypeOK
  <2>3. failed' \subseteq Nodes \X Nat
    BY <2>1, <2>2 DEF RSTypeOK
  <2>4. UNCHANGED <<state, leader, view, members, log, proposed, elections,
                    proc, pc, at, op, relayed, ans>>
    BY <2>1 DEF ApplyNext, reqVars
  <2>5. /\ keys' \in [Nodes -> SUBSET AllKeys] /\ rev' \in [Nodes -> Nat]
        /\ result' \in [Requests -> Results \cup {None}]
        /\ applied' \in [Nodes -> Nat]
        /\ \A m \in Nodes : applied'[m] <= Len(log)
    BY <2>1, <1>an2
  <2> QED
    BY <2>3, <2>4, <2>5 DEF RSTypeOK
<1>ll. ASSUME NEW n \in Nodes, LearnLeader(n) PROVE RSTypeOK'
  BY <1>ll DEF LearnLeader, RSTypeOK, reqVars, storeVars
<1>ce. CASE CommitEntry
  <2>1. Head(proposed) \in Requests /\ Tail(proposed) \in Seq(Requests)
    BY <1>ce, HeadTailProperties DEF CommitEntry, RSTypeOK
  <2>2. Append(log, Head(proposed)) \in Seq(Requests)
        /\ Len(Append(log, Head(proposed))) = Len(log) + 1
    BY <2>1, AppendProperties DEF RSTypeOK
  <2>3. /\ log' = Append(log, Head(proposed)) /\ proposed' = Tail(proposed)
        /\ UNCHANGED <<state, leader, view, members, elections, applied, keys, rev,
                       failed, result, proc, pc, at, op, relayed, ans>>
    BY <1>ce DEF CommitEntry, reqVars, storeVars
  <2>4. \A n \in Nodes : applied'[n] <= Len(log')
    BY <1>len, <2>2, <2>3 DEF RSTypeOK
  <2> QED
    BY <2>1, <2>2, <2>3, <2>4 DEF RSTypeOK
<1>is. ASSUME NEW c \in Clients, NEW n \in Nodes, NEW o \in {"put", "delete"}, Issue(c, n, o)
       PROVE  RSTypeOK'
  BY <1>is DEF Issue, RSTypeOK, raftVars, storeVars, Requests
<1>sr. CASE SelfRegister
  BY <1>sr DEF SelfRegister, RSTypeOK, raftVars, storeVars
<1>sg. CASE SelfRegisterGivesUp
  <2>1. Answer(Boot, 500, 0) /\ UNCHANGED raftVars /\ Boot \in Requests /\ 500 \in Statuses
    BY <1>sg, ServerAssumption DEF SelfRegisterGivesUp, Requests, Statuses
  <2> QED
    BY <2>1, AnswerType
<1>pj. ASSUME NEW n \in Nodes, NEW m \in Nodes, PostJoin(n, m) PROVE RSTypeOK'
  BY <1>pj DEF PostJoin, RSTypeOK, raftVars, storeVars
<1>lv. ASSUME NEW n \in Nodes, NEW m \in Nodes, Leave(m, n) PROVE RSTypeOK'
  <2>1. members' \subseteq Nodes /\ UNCHANGED <<log, proposed, elections, storeVars>>
    BY <1>lv DEF Leave, RSTypeOK
  <2>2. CASE StopsLeading(m)
    BY <2>1, <2>2, <1>sl
  <2>3. CASE UNCHANGED <<state, view, leader, reqVars>>
    BY <2>1, <2>3 DEF RSTypeOK, reqVars, storeVars
  <2> QED
    BY <1>lv, <2>2, <2>3 DEF Leave
<1>fb. ASSUME NEW r \in Requests, ForwardBreaks(r) PROVE RSTypeOK'
  <2>1. [status |-> 400, rev |-> 0] \in [status : Statuses, rev : Nat]
    BY DEF Statuses
  <2> QED
    BY <1>fb, <2>1 DEF ForwardBreaks, RSTypeOK, raftVars, storeVars
<1>ld. ASSUME NEW r \in Requests, Lead(r) PROVE RSTypeOK'
  BY <1>ld DEF Lead, RSTypeOK, raftVars, storeVars
<1>fw. ASSUME NEW r \in Requests, Forward(r) PROVE RSTypeOK'
  <2>1. LeaderHTTPAddr(at[r]) \in Nodes
    BY <1>fw DEF Forward, LeaderHTTPAddr, RSTypeOK
  <2> QED
    BY <1>fw, <2>1 DEF Forward, RSTypeOK, raftVars, storeVars
<1>an. ASSUME NEW r \in Requests,
              ForwardFails(r) \/ Unavailable(r) \/ JoinRefused(r) \/ ApplyRefused(r)
       PROVE  RSTypeOK'
  <2>1. \E s \in Statuses : Answer(r, s, 0) /\ UNCHANGED raftVars
    BY <1>an DEF ForwardFails, Unavailable, JoinRefused, ApplyRefused, Statuses
  <2> QED
    BY <2>1, AnswerType
<1>jn. ASSUME NEW r \in Requests, Join(r) PROVE RSTypeOK'
  <2>1. pc' = [pc EXCEPT ![r] = "apply"] \/ pc' = [pc EXCEPT ![r] = "wait"]
    BY <1>jn DEF Join
  <2>2. members' \subseteq Nodes
    BY <1>jn DEF Join, RSTypeOK
  <2>3. pc' \in [Requests -> {"idle", "handle", "apply", "wait", "done"}]
    BY <2>1 DEF RSTypeOK
  <2> QED
    BY <1>jn, <2>2, <2>3 DEF Join, RSTypeOK, storeVars
<1>pr. ASSUME NEW r \in Requests, Propose(r) PROVE RSTypeOK'
  <2>1. Append(proposed, r) \in Seq(Requests)
    BY AppendProperties DEF RSTypeOK
  <2> QED
    BY <1>pr, <2>1 DEF Propose, RSTypeOK, storeVars
<1>rs. ASSUME NEW r \in Requests, Respond(r) PROVE RSTypeOK'
  <2>1. PICK s \in {200, 201, 404, 500}, v \in Nat : Answer(r, s, v)
    BY <1>rs, RespondIsAnswer
  <2>2. UNCHANGED raftVars /\ s \in Statuses
    BY <1>rs DEF Respond, Statuses
  <2> QED
    BY <2>1, <2>2, AnswerType
<1>un. CASE UNCHANGED rsVars
  BY <1>un DEF RSTypeOK, rsVars, raftVars, storeVars, reqVars
<1> QED
  BY <1>el, <1>sd, <1>ae, <1>af, <1>ll, <1>ce, <1>is, <1>sr, <1>sg, <1>pj, <1>lv, <1>fb,
     <1>ld, <1>fw, <1>an, <1>jn, <1>pr, <1>rs, <1>un DEF RSNext, Handle

-----------------------------------------------------------------------------
(* The requests that are in the log or on their way into it. *)
Queue == log \o proposed

Queued(r) == \E i \in 1 .. Len(Queue) : Queue[i] = r

(* The inductive invariant about requests.  A request is not queued before    *)
(* its handler proposes it, which it does once; an answer that ends the       *)
(* sender's wait with a result or with "try again" ends the handler too, and  *)
(* "try again" means that the request never got that far.                     *)
RequestInv ==
  /\ \A i, j \in 1 .. Len(Queue) : Queue[i] = Queue[j] => i = j
  /\ \A r \in Requests :
       /\ pc[r] \in {"idle", "handle", "apply"} => ~Queued(r)
       /\ Answered(r, {200, 201, 404, 503}) => pc[r] = "done"
       /\ Answered(r, {503}) => ~Queued(r)

(* What the FSM's result for r, which is entry j of the log, says of the log  *)
(* as the store of r's node has it.                                           *)
ResultAt(r, j) ==
  LET found == Present(at[r], KeyOf(r), j - 1)
  IN  /\ result[r].prev <=> found
      /\ result[r].err = "notfound" <=> op[r] = "delete" /\ ~found
      /\ result[r].err = "store" <=> <<at[r], j>> \in failed
      /\ result[r].err # "notfound" => result[r].rev = RevAt(at[r], j)

(* A store is what the log makes of it, and a future holds the result of the  *)
(* request's own entry.                                                       *)
StoreInv ==
  /\ \A n \in Nodes, j \in Nat : <<n, j>> \in failed => j <= applied[n]
  /\ \A n \in Nodes : /\ \A k \in AllKeys : k \in keys[n] <=> Present(n, k, applied[n])
                      /\ rev[n] = RevAt(n, applied[n])
  /\ \A r \in Requests : result[r] # None =>
       /\ pc[r] \in {"wait", "done"}
       /\ \E j \in 1 .. applied[at[r]] : log[j] = r /\ ResultAt(r, j)

(* What the answer of r, which is entry j of the log, says of it. *)
AnswerAt(r, j) ==
  LET found == Present(at[r], KeyOf(r), j - 1)
  IN  /\ <<at[r], j>> \notin failed
      /\ r \in Clients /\ op[r] = "put" => /\ ans[r].status = 201 <=> ~found
                                           /\ ans[r].rev = RevAt(at[r], j)
      /\ r \in Clients /\ op[r] = "delete" =>
           /\ ans[r].status = 404 <=> ~found
           /\ ans[r].status = 200 =>
                \E h \in j .. applied[at[r]] : ans[r].rev = RevAt(at[r], h)

AnswerInv ==
  \A r \in Requests : Answered(r, {200, 201, 404}) =>
    \E j \in 1 .. applied[at[r]] : log[j] = r /\ AnswerAt(r, j)

ServerInv == RSTypeOK /\ RequestInv /\ StoreInv /\ AnswerInv

(* The queue is a sequence of requests that begins with the log. *)
LEMMA QueueSeq ==
  ASSUME RSTypeOK
  PROVE  /\ Queue \in Seq(Requests) /\ Len(Queue) \in Nat
         /\ DOMAIN Queue = 1 .. Len(Queue)
         /\ Len(Queue) = Len(log) + Len(proposed)
         /\ Len(log) \in Nat /\ Len(proposed) \in Nat
         /\ \A i \in 1 .. Len(log) : Queue[i] = log[i]
         /\ \A i \in 1 .. Len(proposed) : Queue[Len(log) + i] = proposed[i]
<1>1. log \in Seq(Requests) /\ proposed \in Seq(Requests)
  BY DEF RSTypeOK
<1>2. Len(log) \in Nat /\ Len(proposed) \in Nat
  BY <1>1, LenProperties
<1>3. /\ Queue \in Seq(Requests)
      /\ Len(Queue) = Len(log) + Len(proposed)
      /\ \A i \in 1 .. Len(log) + Len(proposed) : Queue[i] =
           IF i <= Len(log) THEN log[i] ELSE proposed[i - Len(log)]
  BY <1>1, ConcatProperties DEF Queue
<1>4. Len(Queue) \in Nat /\ DOMAIN Queue = 1 .. Len(Queue)
  BY <1>3, LenProperties
<1>5. ASSUME NEW i \in 1 .. Len(log) PROVE Queue[i] = log[i]
  BY <1>2, <1>3
<1>6. ASSUME NEW i \in 1 .. Len(proposed) PROVE Queue[Len(log) + i] = proposed[i]
  BY <1>2, <1>3
<1> QED
  BY <1>2, <1>3, <1>4, <1>5, <1>6

(* A step leaves a prefix of the queue, or adds to it one request that has    *)
(* been waiting to be proposed; and the log only grows.                       *)
LEMMA QueueStep ==
  ASSUME RSTypeOK, RSTypeOK', [RSNext]_rsVars
  PROVE  /\ \/ /\ Len(Queue') <= Len(Queue)
               /\ \A i \in 1 .. Len(Queue') : Queue'[i] = Queue[i]
            \/ \E r \in Requests :
                 /\ pc[r] = "apply" /\ pc'[r] = "wait"
                 /\ Len(Queue') = Len(Queue) + 1
                 /\ \A i \in 1 .. Len(Queue) : Queue'[i] = Queue[i]
                 /\ Queue'[Len(Queue) + 1] = r
         /\ Len(log) <= Len(log')
         /\ \A i \in 1 .. Len(log) : log'[i] = log[i]
<1>q. /\ Queue \in Seq(Requests) /\ Len(Queue) \in Nat
      /\ Len(Queue) = Len(log) + Len(proposed)
      /\ Len(log) \in Nat /\ Len(proposed) \in Nat
      /\ \A i \in 1 .. Len(log) : Queue[i] = log[i]
      /\ \A i \in 1 .. Len(proposed) : Queue[Len(log) + i] = proposed[i]
  BY QueueSeq
<1>s. log \in Seq(Requests) /\ proposed \in Seq(Requests)
  BY DEF RSTypeOK
<1>0. CASE log' = log /\ proposed' = proposed
  <2>1. Queue' = Queue
    BY <1>0 DEF Queue
  <2> QED
    BY <1>0, <1>q, <2>1
<1>1. ASSUME NEW n \in Nodes, Elect(n)
      PROVE  /\ Len(Queue') <= Len(Queue)
             /\ \A i \in 1 .. Len(Queue') : Queue'[i] = Queue[i]
             /\ Len(log) <= Len(log')
             /\ \A i \in 1 .. Len(log) : log'[i] = log[i]
  <2>1. PICK k \in 0 .. Len(proposed) : log' = log \o SubSeq(proposed, 1, k)
    BY <1>1 DEF Elect
  <2> DEFINE u == SubSeq(proposed, 1, k)
  <2>2. u \in Seq(Requests) /\ Len(u) = k /\ \A i \in 1 .. k : u[i] = proposed[i]
    <3>1. k \in Int /\ \A i \in 1 .. k : proposed[i] \in Requests
      BY <1>s, <1>q, ElementOfSeq
    <3>2. /\ u \in Seq(Requests)
          /\ Len(u) = IF 1 <= k THEN k - 1 + 1 ELSE 0
          /\ \A i \in 1 .. k - 1 + 1 : u[i] = proposed[1 + i - 1]
      BY <3>1, SubSeqProperties
    <3> HIDE DEF u
    <3> QED
      BY <3>1, <3>2
  <2> HIDE DEF u
  <2>3. log' \o <<>> = log' /\ proposed' = <<>>
    BY <1>1, ConcatEmptySeq DEF Elect, RSTypeOK
  <2>4. Queue' = log \o u
    BY <2>1, <2>3 DEF Queue, u
  <2>5. /\ Len(log \o u) = Len(log) + k
        /\ \A i \in 1 .. Len(log) + k : (log \o u)[i] =
             IF i <= Len(log) THEN log[i] ELSE u[i - Len(log)]
    BY <1>s, <2>2, ConcatProperties
  <2>6. ASSUME NEW i \in 1 .. Len(log) + k PROVE (log \o u)[i] = Queue[i]
    <3>1. CASE i <= Len(log)
      BY <1>q, <2>5, <3>1
    <3>2. CASE i > Len(log)
      <4>1. i - Len(log) \in 1 .. k /\ i - Len(log) \in 1 .. Len(proposed)
            /\ i = Len(log) + (i - Len(log))
        BY <1>q, <3>2
      <4>2. (log \o u)[i] = u[i - Len(log)]
        BY <1>q, <2>5, <3>2
      <4>3. Queue[Len(log) + (i - Len(log))] = proposed[i - Len(log)]
        BY <1>q, <4>1
      <4> QED
        BY <2>2, <4>1, <4>2, <4>3
    <3>3. i <= Len(log) \/ i > Len(log)
      BY <1>q
    <3> QED
      BY <3>1, <3>2, <3>3
  <2>7. log' = log \o u
    BY <1>1, <2>1 DEF Elect, u
  <2> QED
    BY <1>q, <2>4, <2>5, <2>6, <2>7
<1>2. ASSUME CommitEntry
      PROVE  /\ Queue' = Queue
             /\ Len(log) <= Len(log')
             /\ \A i \in 1 .. Len(log) : log'[i] = log[i]
  <2>1. /\ log' = Append(log, Head(proposed)) /\ proposed' = Tail(proposed)
        /\ proposed # <<>>
    BY <1>2 DEF CommitEntry
  <2>2. /\ Head(proposed) = proposed[1] /\ Len(proposed') = Len(proposed) - 1
        /\ \A i \in 1 .. Len(proposed') : proposed'[i] = proposed[i + 1]
        /\ Head(proposed) \in Requests /\ Len(proposed) > 0
    BY <1>s, <2>1, HeadTailProperties, EmptySeq
  <2>3. /\ Len(log') = Len(log) + 1
        /\ \A i \in 1 .. Len(log) : log'[i] = log[i]
        /\ log'[Len(log) + 1] = proposed[1]
    BY <1>s, <2>1, <2>2, AppendProperties
  <2>4. /\ Queue' \in Seq(Requests)
        /\ Len(Queue') = Len(log') + Len(proposed')
        /\ \A i \in 1 .. Len(log') + Len(proposed') : Queue'[i] =
             IF i <= Len(log') THEN log'[i] ELSE proposed'[i - Len(log')]
    BY ConcatProperties DEF Queue, RSTypeOK
  <2>5. ASSUME NEW i \in 1 .. Len(Queue) PROVE Queue'[i] = Queue[i]
    <3>1. CASE i <= Len(log)
      BY <1>q, <2>2, <2>3, <2>4, <3>1
    <3>2. CASE i = Len(log) + 1
      BY <1>q, <2>2, <2>3, <2>4, <3>2
    <3>3. CASE i > Len(log) + 1
      <4>1. i - Len(log') \in 1 .. Len(proposed') /\ i - Len(log) \in 1 .. Len(proposed)
            /\ (i - Len(log')) + 1 = i - Len(log) /\ i = Len(log) + (i - Len(log))
        BY <1>q, <2>2, <2>3, <3>3
      <4>0. i \in 1 .. Len(log') + Len(proposed') /\ ~(i <= Len(log'))
        BY <1>q, <2>2, <2>3, <3>3
      <4>2. Queue'[i] = proposed'[i - Len(log')]
        BY <2>4, <4>0
      <4>3. Queue[Len(log) + (i - Len(log))] = proposed[i - Len(log)]
        BY <1>q, <4>1
      <4> QED
        BY <2>2, <4>1, <4>2, <4>3
    <3> QED
      BY <1>q, <3>1, <3>2, <3>3
  <2>6. Len(Queue') = Len(Queue)
    BY <1>q, <2>2, <2>3, <2>4
  <2>7. Queue' = Queue
    BY <1>q, <2>4, <2>5, <2>6, SeqEqual
  <2> QED
    BY <1>q, <2>1, <2>3, <2>7
<1>3. ASSUME NEW r \in Requests, Propose(r), at[r] = leader
      PROVE  /\ pc[r] = "apply" /\ pc'[r] = "wait"
             /\ Len(Queue') = Len(Queue) + 1
             /\ \A i \in 1 .. Len(Queue) : Queue'[i] = Queue[i]
             /\ Queue'[Len(Queue) + 1] = r
             /\ log' = log
  <2>1. /\ proposed' = Append(proposed, r) /\ log' = log
        /\ pc[r] = "apply" /\ pc' = [pc EXCEPT ![r] = "wait"]
    BY <1>3 DEF Propose
  <2>2. Queue' = Append(Queue, r)
    <3>1. /\ Append(proposed, r) = proposed \o <<r>> /\ <<r>> \in Seq(Requests)
          /\ Append(Queue, r) = Queue \o <<r>>
      BY <1>s, <1>q, AppendIsConcat
    <3>2. (log \o proposed) \o <<r>> = log \o (proposed \o <<r>>)
      BY <1>s, <3>1, ConcatAssociative
    <3> QED
      BY <2>1, <3>1, <3>2 DEF Queue
  <2>3. pc'[r] = "wait"
    BY <2>1 DEF RSTypeOK
  <2>4. /\ Len(Append(Queue, r)) = Len(Queue) + 1
        /\ \A i \in 1 .. Len(Queue) : Append(Queue, r)[i] = Queue[i]
        /\ Append(Queue, r)[Len(Queue) + 1] = r
    BY <1>q, AppendProperties
  <2> QED
    BY <2>1, <2>2, <2>3, <2>4
<1>4. ASSUME [RSNext]_rsVars,
             ~ \E n \in Nodes : Elect(n), ~CommitEntry,
             ~ \E r \in Requests : Propose(r) /\ at[r] = leader
      PROVE  log' = log /\ proposed' = proposed
  BY <1>4 DEF RSNext, Handle, StepDown, ApplyEntry, ApplyFails, ApplyNext, LearnLeader, Issue, SelfRegister,
     SelfRegisterGivesUp, PostJoin, Leave, Lead, Forward, ForwardFails, Unavailable,
     Join, JoinRefused, ApplyRefused, Propose, Respond, ForwardBreaks,
     rsVars, raftVars, reqVars
<1> QED
  BY <1>0, <1>1, <1>2, <1>3, <1>4, <1>q

(* What a step does to one request.  Its operation changes only before its    *)
(* handler has started, the node that handles it only while the handler runs, *)
(* an answer is never taken back, and a new one has one of four causes.       *)
LEMMA RequestStep ==
  ASSUME RSTypeOK, RSTypeOK', [RSNext]_rsVars, NEW r \in Requests
  PROVE  /\ pc[r] # "idle" => op'[r] = op[r]
         /\ pc[r] = "done" => pc'[r] = "done" /\ at'[r] = at[r]
         /\ pc[r] = "wait" => pc'[r] \in {"wait", "done"} /\ at'[r] = at[r]
         /\ pc'[r] \in {"idle", "handle", "apply"} => pc[r] \in {"idle", "handle", "apply"}
         /\ \A n \in Nodes : applied[n] <= applied'[n]
         /\ ans[r] # None => ans'[r] = ans[r]
         /\ \/ ans'[r] = ans[r]
            \/ ans'[r].status \in {400, 500}
            \/ Unavailable(r)
            \/ Respond(r)
<1>ap. \A n \in Nodes : applied[n] \in Nat
  BY DEF RSTypeOK
<1>al. ASSUME NEW R \in SUBSET Requests, NEW s \in Statuses, NEW v \in Nat,
              AnswerAll(R, s, v)
       PROVE  /\ op'[r] = op[r] /\ at'[r] = at[r]
              /\ pc'[r] = IF r \in R THEN "done" ELSE pc[r]
              /\ ans'[r] = IF r \in R /\ ans[r] = None
                           THEN [status |-> s, rev |-> v] ELSE ans[r]
  BY <1>al DEF AnswerAll
<1>an. ASSUME NEW q \in Requests, NEW s \in Statuses, NEW v \in Nat, Answer(q, s, v),
              applied' = applied
       PROVE  /\ op'[r] = op[r] /\ at'[r] = at[r] /\ (pc'[r] = "done" \/ pc'[r] = pc[r])
              /\ ans[r] # None => ans'[r] = ans[r]
              /\ \/ ans'[r] = ans[r]
                 \/ q = r /\ ans'[r].status = s
              /\ \A n \in Nodes : applied[n] <= applied'[n]
  <2>1. {q} \in SUBSET Requests /\ AnswerAll({q}, s, v)
    BY <1>an DEF Answer
  <2>2. /\ op'[r] = op[r] /\ at'[r] = at[r]
        /\ pc'[r] = IF r \in {q} THEN "done" ELSE pc[r]
        /\ ans'[r] = IF r \in {q} /\ ans[r] = None
                     THEN [status |-> s, rev |-> v] ELSE ans[r]
    BY <2>1, <1>al
  <2>3. [status |-> s, rev |-> v].status = s
    OBVIOUS
  <2> QED
    BY <1>an, <1>ap, <2>2, <2>3
<1>1. ASSUME NEW n \in Nodes, Elect(n) \/ LearnLeader(n)
      PROVE  UNCHANGED <<applied, reqVars>>
  BY <1>1 DEF Elect, LearnLeader, storeVars
<1>2. ASSUME NEW n \in Nodes, StopsLeading(n), UNCHANGED storeVars
      PROVE  /\ op'[r] = op[r] /\ at'[r] = at[r] /\ (pc'[r] = "done" \/ pc'[r] = pc[r])
             /\ ans[r] # None => ans'[r] = ans[r]
             /\ ans'[r] = ans[r] \/ ans'[r].status = 500
             /\ \A m \in Nodes : applied[m] <= applied'[m]
  <2> DEFINE lost == {q \in Requests : at[q] = n /\ pc[q] = "wait" /\ result[q] = None}
  <2>1. lost \in SUBSET Requests /\ AnswerAll(lost, 500, 0) /\ 500 \in Statuses
        /\ applied' = applied
    BY <1>2 DEF StopsLeading, LostStatus, Statuses, storeVars
  <2> HIDE DEF lost
  <2>2. /\ op'[r] = op[r] /\ at'[r] = at[r]
        /\ pc'[r] = IF r \in lost THEN "done" ELSE pc[r]
        /\ ans'[r] = IF r \in lost /\ ans[r] = None
                     THEN [status |-> 500, rev |-> 0] ELSE ans[r]
    BY <2>1, <1>al
  <2> QED
    BY <1>ap, <2>1, <2>2
<1>3. ASSUME NEW n \in Nodes, ApplyEntry(n) \/ ApplyFails(n)
      PROVE  /\ UNCHANGED reqVars
             /\ \A m \in Nodes : applied[m] <= applied'[m]
  <2>1. UNCHANGED reqVars /\ applied' = [applied EXCEPT ![n] = @ + 1]
    BY <1>3 DEF ApplyEntry, ApplyFails, ApplyNext
  <2>2. \A m \in Nodes : applied'[m] = IF m = n THEN applied[m] + 1 ELSE applied[m]
    BY <2>1 DEF RSTypeOK
  <2> QED
    BY <2>1, <2>2, <1>ap
<1>4. ASSUME CommitEntry
      PROVE  UNCHANGED <<applied, reqVars>>
  BY <1>4 DEF CommitEntry, storeVars
<1>5. ASSUME NEW c \in Clients, NEW n \in Nodes, NEW o \in {"put", "delete"}, Issue(c, n, o)
      PROVE  /\ pc[r] # "idle" => op'[r] = op[r] /\ at'[r] = at[r] /\ pc'[r] = pc[r]
             /\ pc[r] = "idle" => pc'[r] \in {"idle", "handle"}
             /\ ans' = ans /\ applied' = applied
  BY <1>5 DEF Issue, raftVars, storeVars, Requests, RSTypeOK
<1>6. ASSUME NEW n \in Nodes, NEW m \in Nodes, PostJoin(n, m)
      PROVE  /\ pc[r] # "idle" => at'[r] = at[r] /\ pc'[r] = pc[r]
             /\ pc[r] = "idle" => pc'[r] \in {"idle", "handle"}
             /\ op' = op /\ ans' = ans /\ applied' = applied
  BY <1>6 DEF PostJoin, raftVars, storeVars, Requests, RSTypeOK
<1>7. ASSUME SelfRegister
      PROVE  /\ pc[r] # "idle" => pc'[r] = pc[r]
             /\ op' = op /\ at' = at /\ ans' = ans /\ applied' = applied
  BY <1>7 DEF SelfRegister, raftVars, storeVars, Requests, RSTypeOK
<1>8. ASSUME NEW q \in Requests, Lead(q) \/ Join(q) \/ Propose(q) \/ Forward(q)
      PROVE  /\ pc[r] = "done" => pc'[r] = "done" /\ at'[r] = at[r]
             /\ pc[r] = "wait" => pc'[r] = "wait" /\ at'[r] = at[r]
             /\ pc'[r] \in {"idle", "handle", "apply"} => pc[r] \in {"idle", "handle", "apply"}
             /\ op' = op /\ ans' = ans /\ applied' = applied
  <2>1. /\ pc[q] \in {"handle", "apply"} /\ op' = op /\ ans' = ans /\ applied' = applied
        /\ \/ pc' = pc \/ pc' = [pc EXCEPT ![q] = "apply"] \/ pc' = [pc EXCEPT ![q] = "wait"]
        /\ \/ at' = at \/ \E m : at' = [at EXCEPT ![q] = m]
    BY <1>8 DEF Lead, Join, Propose, Forward, raftVars, storeVars
  <2>2. at \in [Requests -> Nodes]
        /\ pc \in [Requests -> {"idle", "handle", "apply", "wait", "done"}]
    BY DEF RSTypeOK
  <2>3. q = r \/ (pc'[r] = pc[r] /\ at'[r] = at[r])
    BY <2>1, <2>2
  <2> QED
    BY <2>1, <2>2, <2>3
<1>9. ASSUME NEW q \in Requests, ForwardBreaks(q)
      PROVE  /\ pc' = pc /\ at' = at /\ op' = op /\ applied' = applied
             /\ ans[r] # None => ans'[r] = ans[r]
             /\ ans'[r] = ans[r] \/ ans'[r].status = 400
  BY <1>9 DEF ForwardBreaks, raftVars, storeVars, RSTypeOK
<1>10. ASSUME NEW q \in Requests,
              ForwardFails(q) \/ JoinRefused(q) \/ ApplyRefused(q) \/ SelfRegisterGivesUp
       PROVE  \E s \in {400, 500}, b \in Requests : Answer(b, s, 0) /\ applied' = applied
  <2>1. ASSUME ForwardFails(q) PROVE Answer(q, 400, 0) /\ applied' = applied
    BY <2>1 DEF ForwardFails, raftVars, storeVars
  <2>2. ASSUME JoinRefused(q) \/ ApplyRefused(q) PROVE Answer(q, 500, 0) /\ applied' = applied
    BY <2>2 DEF JoinRefused, ApplyRefused, raftVars, storeVars
  <2>3. ASSUME SelfRegisterGivesUp
        PROVE  Answer(Boot, 500, 0) /\ Boot \in Requests /\ applied' = applied
    BY <2>3, ServerAssumption DEF SelfRegisterGivesUp, raftVars, storeVars, Requests
  <2> QED
    BY <1>10, <2>1, <2>2, <2>3
<1>11. ASSUME NEW q \in Requests, Unavailable(q)
       PROVE  Answer(q, 503, 0) /\ applied' = applied
  BY <1>11 DEF Unavailable, raftVars, storeVars
<1>12. ASSUME NEW q \in Requests, Respond(q)
       PROVE  \E s \in Statuses, v \in Nat : Answer(q, s, v) /\ applied' = applied
  <2>1. PICK s \in {200, 201, 404, 500}, v \in Nat : Answer(q, s, v)
    BY <1>12, RespondIsAnswer
  <2>2. s \in Statuses /\ applied' = applied
    BY <1>12 DEF Respond, raftVars, storeVars, Statuses
  <2> QED
    BY <2>1, <2>2
<1>13. ASSUME UNCHANGED rsVars
       PROVE  UNCHANGED <<applied, reqVars>>
  BY <1>13 DEF rsVars, raftVars, storeVars
<1>st. {400, 500, 503} \subseteq Statuses /\ 0 \in Nat
  BY DEF Statuses
<1> DEFINE Goal ==
      /\ pc[r] # "idle" => op'[r] = op[r]
      /\ pc[r] = "done" => pc'[r] = "done" /\ at'[r] = at[r]
      /\ pc[r] = "wait" => pc'[r] \in {"wait", "done"} /\ at'[r] = at[r]
      /\ pc'[r] \in {"idle", "handle", "apply"} => pc[r] \in {"idle", "handle", "apply"}
      /\ \A n \in Nodes : applied[n] <= applied'[n]
      /\ ans[r] # None => ans'[r] = ans[r]
      /\ \/ ans'[r] = ans[r]
         \/ ans'[r].status \in {400, 500}
         \/ Unavailable(r)
         \/ Respond(r)
<1>g1. ASSUME UNCHANGED <<applied, reqVars>> PROVE Goal
  BY <1>g1, <1>ap DEF reqVars
<1>g2. ASSUME NEW q \in Requests, NEW s \in {400, 500}, Answer(q, s, 0), applied' = applied
       PROVE  Goal
  <2>1. s \in Statuses
    BY <1>st
  <2> QED
    BY <1>g2, <1>an, <2>1
<1>g3. ASSUME NEW q \in Requests, Unavailable(q) PROVE Goal
  <2>1. q = r \/ ans'[r] = ans[r]
    BY <1>g3, <1>11, <1>an, <1>st
  <2> QED
    BY <1>g3, <1>11, <1>an, <1>st, <2>1
<1>g4. ASSUME NEW q \in Requests, Respond(q) PROVE Goal
  BY <1>g4, <1>12, <1>an
<1>g5. ASSUME NEW n \in Nodes, StopsLeading(n), UNCHANGED storeVars PROVE Goal
  BY <1>g5, <1>2
<1>g6. ASSUME NEW n \in Nodes, ApplyEntry(n) \/ ApplyFails(n) PROVE Goal
  BY <1>g6, <1>3 DEF reqVars
<1>g7. ASSUME NEW c \in Clients, NEW n \in Nodes, NEW o \in {"put", "delete"}, Issue(c, n, o)
       PROVE  Goal
  BY <1>g7, <1>5, <1>ap
<1>g8. ASSUME NEW n \in Nodes, NEW m \in Nodes, PostJoin(n, m) PROVE Goal
  BY <1>g8, <1>6, <1>ap
<1>g9. ASSUME SelfRegister PROVE Goal
  BY <1>g9, <1>7, <1>ap
<1>g10. ASSUME NEW q \in Requests, Lead(q) \/ Join(q) \/ Propose(q) \/ Forward(q) PROVE Goal
  BY <1>g10, <1>8, <1>ap
<1>g11. ASSUME NEW q \in Requests, ForwardBreaks(q) PROVE Goal
  BY <1>g11, <1>9, <1>ap
<1>g12. ASSUME NEW q \in Requests,
               ForwardFails(q) \/ JoinRefused(q) \/ ApplyRefused(q) \/ SelfRegisterGivesUp
        PROVE  Goal
  BY <1>g12, <1>10, <1>g2
<1>g13. ASSUME UNCHANGED rsVars PROVE Goal
  BY <1>g13, <1>13, <1>g1
<1>g14. Boot \in Requests
  BY ServerAssumption DEF Requests
<1> HIDE DEF Goal
<1>n1. ASSUME NEW n \in Nodes,
              Elect(n) \/ StepDown(n) \/ LearnLeader(n) \/ ApplyEntry(n) \/ ApplyFails(n)
       PROVE  Goal
  BY <1>n1, <1>1, <1>g1, <1>g5, <1>g6 DEF StepDown
<1>n2. ASSUME CommitEntry PROVE Goal
  BY <1>n2, <1>4, <1>g1
<1>nl. ASSUME NEW n \in Nodes, NEW m \in Nodes, Leave(m, n) PROVE Goal
  <2>1. UNCHANGED storeVars /\ (StopsLeading(m) \/ UNCHANGED reqVars)
    BY <1>nl DEF Leave
  <2>2. applied' = applied
    BY <2>1 DEF storeVars
  <2> QED
    BY <2>1, <2>2, <1>g1, <1>g5
<1>n3. ASSUME NEW q \in Requests, Handle(q) PROVE Goal
  BY <1>n3, <1>g3, <1>g4, <1>g10, <1>g12 DEF Handle
<1>n4. ASSUME SelfRegister \/ SelfRegisterGivesUp PROVE Goal
  BY <1>n4, <1>g9, <1>g12, <1>g14
<1>n5. ASSUME RSNext PROVE Goal
  <2>1. CASE \E n \in Nodes : Elect(n) \/ StepDown(n) \/ LearnLeader(n)
                              \/ ApplyEntry(n) \/ ApplyFails(n)
    BY <2>1, <1>n1
  <2>2. CASE CommitEntry
    BY <2>2, <1>n2
  <2>3. CASE \E c \in Clients, n \in Nodes, o \in {"put", "delete"} : Issue(c, n, o)
    BY <2>3, <1>g7
  <2>4. CASE SelfRegister \/ SelfRegisterGivesUp
    BY <2>4, <1>n4
  <2>5. CASE \E n, m \in Nodes : PostJoin(n, m) \/ Leave(m, n)
    BY <2>5, <1>g8, <1>nl
  <2>6. CASE \E q \in Requests : Handle(q) \/ ForwardBreaks(q)
    BY <2>6, <1>n3, <1>g11
  <2> QED
    BY <1>n5, <2>1, <2>2, <2>3, <2>4, <2>5, <2>6 DEF RSNext
<1>g15. Goal
  BY <1>n5, <1>g13
<1> QED
  BY <1>g15 DEF Goal

(* An answer ends the handler and tells the sender, once. *)
LEMMA AnswerEffect ==
  ASSUME RSTypeOK, NEW r \in Requests, NEW s \in Nat, NEW v \in Nat, Answer(r, s, v)
  PROVE  /\ pc'[r] = "done" /\ at' = at /\ op' = op
         /\ ans'[r] = IF ans[r] = None THEN [status |-> s, rev |-> v] ELSE ans[r]
BY DEF Answer, AnswerAll

-----------------------------------------------------------------------------
(* The requests invariant is inductive. *)
LEMMA RequestStepInv ==
  RSTypeOK /\ RSTypeOK' /\ RequestInv /\ [RSNext]_rsVars => RequestInv'
<1> SUFFICES ASSUME RSTypeOK, RSTypeOK', RequestInv, [RSNext]_rsVars
             PROVE  RequestInv'
  OBVIOUS
<1>q. Len(Queue) \in Nat
  BY QueueSeq
<1>s. \/ /\ Len(Queue') <= Len(Queue)
         /\ \A i \in 1 .. Len(Queue') : Queue'[i] = Queue[i]
      \/ \E r \in Requests :
           /\ pc[r] = "apply" /\ pc'[r] = "wait"
           /\ Len(Queue') = Len(Queue) + 1
           /\ \A i \in 1 .. Len(Queue) : Queue'[i] = Queue[i]
           /\ Queue'[Len(Queue) + 1] = r
  BY QueueStep
<1>n. Len(Queue') \in Nat
  BY ConcatProperties, LenProperties DEF Queue, RSTypeOK
<1>u. \A i, j \in 1 .. Len(Queue) : Queue[i] = Queue[j] => i = j
  BY DEF RequestInv
<1>1. \A i, j \in 1 .. Len(Queue') : Queue'[i] = Queue'[j] => i = j
  <2>1. CASE Len(Queue') <= Len(Queue) /\ \A i \in 1 .. Len(Queue') : Queue'[i] = Queue[i]
    BY <1>q, <1>n, <1>u, <2>1
  <2>2. ASSUME NEW r \in Requests, pc[r] = "apply",
               Len(Queue') = Len(Queue) + 1,
               \A i \in 1 .. Len(Queue) : Queue'[i] = Queue[i],
               Queue'[Len(Queue) + 1] = r
        PROVE  \A i, j \in 1 .. Len(Queue') : Queue'[i] = Queue'[j] => i = j
    <3>1. \A i \in 1 .. Len(Queue) : Queue[i] # r
      BY <2>2 DEF RequestInv, Queued
    <3>2. \A i \in 1 .. Len(Queue') : i \in 1 .. Len(Queue) \/ i = Len(Queue) + 1
      BY <1>q, <2>2
    <3> QED
      BY <1>u, <2>2, <3>1, <3>2
  <2> QED
    BY <1>s, <2>1, <2>2
<1>2. ASSUME NEW r \in Requests, ~Queued(r), ~(pc[r] = "apply" /\ pc'[r] = "wait")
      PROVE  ~Queued(r)'
  <2>1. ASSUME NEW i \in 1 .. Len(Queue'), Queue'[i] = r PROVE FALSE
    BY <1>q, <1>n, <1>s, <1>2, <2>1 DEF Queued
  <2> QED
    BY <2>1 DEF Queued
<1>3. ASSUME NEW r \in Requests, (pc[r] \in {"idle", "handle", "apply"})'
      PROVE  ~Queued(r)'
  <2>1. pc[r] \in {"idle", "handle", "apply"}
    BY <1>3, RequestStep
  <2>2. ~Queued(r)
    BY <2>1 DEF RequestInv
  <2> QED
    BY <1>2, <1>3, <2>2
<1>4. ASSUME NEW r \in Requests, Unavailable(r)
      PROVE  /\ pc'[r] = "done" /\ ~Queued(r)'
  <2>1. Answer(r, 503, 0) /\ pc[r] = "handle" /\ 503 \in Nat /\ 0 \in Nat
    BY <1>4 DEF Unavailable
  <2>2. pc'[r] = "done"
    BY <2>1, AnswerEffect
  <2>3. ~Queued(r)
    BY <2>1 DEF RequestInv
  <2> QED
    BY <1>2, <2>1, <2>2, <2>3
<1>5. ASSUME NEW r \in Requests, Respond(r)
      PROVE  /\ pc'[r] = "done"
             /\ ans'[r] = ans[r] \/ ans'[r].status # 503
  <2>1. PICK s \in {200, 201, 404, 500}, v \in Nat : Answer(r, s, v)
    BY <1>5, RespondIsAnswer
  <2>2. /\ pc'[r] = "done"
        /\ ans'[r] = IF ans[r] = None THEN [status |-> s, rev |-> v] ELSE ans[r]
    BY <2>1, AnswerEffect
  <2> QED
    BY <2>2
<1>6. ASSUME NEW r \in Requests, Answered(r, {200, 201, 404, 503})'
      PROVE  pc'[r] = "done"
  <2>1. CASE ans'[r] = ans[r]
    <3>1. pc[r] = "done"
      BY <1>6, <2>1 DEF Answered, RequestInv
    <3> QED
      BY <3>1, RequestStep
  <2>2. ans'[r].status \notin {400, 500}
    BY <1>6 DEF Answered
  <2> QED
    BY <1>4, <1>5, <2>1, <2>2, RequestStep
<1>7. ASSUME NEW r \in Requests, Answered(r, {503})'
      PROVE  ~Queued(r)'
  <2>1. CASE ans'[r] = ans[r]
    <3>1. pc[r] = "done" /\ ~Queued(r)
      BY <1>7, <2>1 DEF Answered, RequestInv
    <3> QED
      BY <1>2, <3>1
  <2>2. ans'[r].status = 503
    BY <1>7 DEF Answered
  <2> QED
    BY <1>4, <1>5, <2>1, <2>2, RequestStep
<1> QED
  BY <1>1, <1>3, <1>6, <1>7 DEF RequestInv

-----------------------------------------------------------------------------
(* What a prefix of the log means for a store does not change as the log      *)
(* grows, while the operations of the logged requests are fixed and no commit *)
(* of the prefix fails late.                                                  *)
LEMMA MeaningStable ==
  ASSUME RSTypeOK, RSTypeOK',
         Len(log) <= Len(log'),
         \A i \in 1 .. Len(log) : log'[i] = log[i] /\ op'[log[i]] = op[log[i]],
         NEW n \in Nodes, NEW m \in 0 .. Len(log),
         \A j \in 1 .. m : <<n, j>> \in failed' <=> <<n, j>> \in failed,
         NEW h \in 0 .. m
  PROVE  /\ \A k \in AllKeys : Present(n, k, h)' <=> Present(n, k, h)
         /\ RevAt(n, h)' = RevAt(n, h)
<1>0. Len(log) \in Nat /\ m \in Nat /\ m <= Len(log)
  BY LenProperties DEF RSTypeOK
<1>1. ASSUME NEW i \in 0 .. m, NEW k \in AllKeys
      PROVE  Present(n, k, i)' <=> Present(n, k, i)
  <2> DEFINE w == {j \in 1 .. i : KeyOf(log[j]) = k /\ <<n, j>> \notin failed}
             wp == {j \in 1 .. i : KeyOf(log'[j]) = k /\ <<n, j>> \notin failed'}
  <2>0. \A j \in 1 .. i : /\ log'[j] = log[j] /\ op'[log[j]] = op[log[j]]
                          /\ <<n, j>> \in failed' <=> <<n, j>> \in failed
    BY <1>0
  <2>1. w = wp /\ \A j \in w : op'[log'[j]] = op[log[j]]
    BY <2>0
  <2>2. Present(n, k, i) <=> IF w = {} THEN k \in Base[n]
                             ELSE \E j \in w : op[log[j]] = "put" /\ \A g \in w : g <= j
    BY DEF Present
  <2>3. Present(n, k, i)' <=> IF wp = {} THEN k \in Base[n]
                              ELSE \E j \in wp : op'[log'[j]] = "put" /\ \A g \in wp : g <= j
    BY DEF Present, KeyOf
  <2> HIDE DEF w, wp
  <2> QED
    BY <2>1, <2>2, <2>3
<1>2. ASSUME NEW j \in 1 .. h PROVE Changes(n, j)' <=> Changes(n, j)
  <2>0. j - 1 \in 0 .. m /\ j \in 1 .. Len(log)
    BY <1>0
  <2>1. j - 1 \in 0 .. m /\ j \in 1 .. Len(log) /\ KeyOf(log[j]) \in AllKeys
    BY <2>0, ElementOfSeq DEF RSTypeOK, KeyOf, AllKeys
  <2>2. Present(n, KeyOf(log[j]), j - 1)' <=> Present(n, KeyOf(log[j]), j - 1)
    <3>1. \A k \in AllKeys : Present(n, k, j - 1)' <=> Present(n, k, j - 1)
      BY <1>1, <2>1
    <3>2. KeyOf(log[j])' = KeyOf(log[j])
      BY <2>1 DEF KeyOf
    <3> QED
      BY <2>1, <3>1, <3>2
  <2> QED
    BY <2>1, <2>2 DEF Changes, KeyOf
<1>3. {j \in 1 .. h : Changes(n, j)} = {j \in 1 .. h : Changes(n, j)'}
  BY <1>2
<1>4. RevAt(n, h)' = RevAt(n, h)
  BY <1>3 DEF RevAt
<1> QED
  BY <1>0, <1>1, <1>4

(* What one more entry means for a store: it writes its key, unless its       *)
(* commit fails, and raises the revision, unless it deletes a missing key.    *)
LEMMA MeaningNext ==
  ASSUME RSTypeOK, RSTypeOK', log' = log, op' = op,
         NEW n \in Nodes, NEW m \in Nat, m < Len(log),
         \A j \in 1 .. m : <<n, j>> \in failed' <=> <<n, j>> \in failed
  PROVE  LET r == log[m + 1]
         IN  /\ \A k \in AllKeys :
                  Present(n, k, m + 1)' <=>
                    IF KeyOf(r) = k /\ <<n, m + 1>> \notin failed'
                    THEN op[r] = "put" ELSE Present(n, k, m)
             /\ RevAt(n, m + 1)' = RevAt(n, m) +
                  IF op[r] = "put" \/ Present(n, KeyOf(r), m) THEN 1 ELSE 0
<1> DEFINE r == log[m + 1]
<1>l. Len(log) \in Nat
  BY LenProperties DEF RSTypeOK
<1>0. Len(log) \in Nat /\ m \in 0 .. Len(log) /\ m \in 0 .. m /\ m + 1 \in 1 .. Len(log)
  BY <1>l
<1>r. r \in Requests /\ KeyOf(r) \in AllKeys
  BY <1>0, ElementOfSeq DEF RSTypeOK, KeyOf, AllKeys
<1>1. ASSUME NEW k \in AllKeys
      PROVE  Present(n, k, m + 1)' <=>
               IF KeyOf(r) = k /\ <<n, m + 1>> \notin failed'
               THEN op[r] = "put" ELSE Present(n, k, m)
  <2> DEFINE w == {j \in 1 .. m : KeyOf(log[j]) = k /\ <<n, j>> \notin failed}
             wp == {j \in 1 .. m + 1 : KeyOf(log[j]) = k /\ <<n, j>> \notin failed'}
  <2>1. Present(n, k, m) <=> IF w = {} THEN k \in Base[n]
                             ELSE \E j \in w : op[log[j]] = "put" /\ \A g \in w : g <= j
    BY DEF Present
  <2>2. Present(n, k, m + 1)' <=> IF wp = {} THEN k \in Base[n]
                                  ELSE \E j \in wp : op[log[j]] = "put" /\ \A g \in wp : g <= j
    BY DEF Present, KeyOf
  <2>3. \A j \in 1 .. m + 1 : j \in 1 .. m \/ j = m + 1
    BY <1>0
  <2>4. CASE KeyOf(r) = k /\ <<n, m + 1>> \notin failed'
    <3>1. m + 1 \in wp /\ \A g \in wp : g <= m + 1 /\ (m + 1 <= g => g = m + 1)
      BY <1>0, <2>4
    <3> HIDE DEF w, wp
    <3>2. (\E j \in wp : op[log[j]] = "put" /\ \A g \in wp : g <= j) <=> op[r] = "put"
      BY <3>1
    <3>3. wp # {}
      BY <3>1
    <3> QED
      BY <2>2, <2>4, <3>2, <3>3
  <2>5. CASE ~(KeyOf(r) = k /\ <<n, m + 1>> \notin failed')
    <3>1. wp = w
      BY <1>0, <2>3, <2>5
    <3> HIDE DEF w, wp
    <3> QED
      BY <2>1, <2>2, <2>5, <3>1
  <2> QED
    BY <2>4, <2>5
<1>2. \A k \in AllKeys : Present(n, k, m)' <=> Present(n, k, m)
  BY <1>0, MeaningStable
<1>3. RevAt(n, m)' = RevAt(n, m)
  BY <1>0, MeaningStable
<1> DEFINE ch == {j \in 1 .. m : Changes(n, j)'}
           cp == {j \in 1 .. m + 1 : Changes(n, j)'}
<1>4. RevAt(n, m)' = Cardinality(ch) /\ RevAt(n, m + 1)' = Cardinality(cp)
  BY DEF RevAt
<1>5. IsFiniteSet(ch) /\ Cardinality(ch) \in Nat
  <2>1. IsFiniteSet(1 .. m) /\ ch \in SUBSET (1 .. m)
    BY FS_Interval
  <2> HIDE DEF ch
  <2> QED
    BY <2>1, FS_Subset, FS_CardinalityType
<1>6. Changes(n, m + 1)' <=> op[r] = "put" \/ Present(n, KeyOf(r), m)
  <2>1. Changes(n, m + 1)' <=> op[r] = "put" \/ Present(n, KeyOf(r), (m + 1) - 1)'
    BY DEF Changes, KeyOf
  <2>2. (m + 1) - 1 = m
    BY <1>0
  <2>3. Present(n, KeyOf(r), m)' <=> Present(n, KeyOf(r), m)
    BY <1>r, <1>2 DEF KeyOf
  <2> QED
    BY <2>1, <2>2, <2>3
<1>7. CASE Changes(n, m + 1)'
  <2>1. cp = ch \cup {m + 1} /\ m + 1 \notin ch
    BY <1>0, <1>7
  <2> HIDE DEF ch, cp
  <2>2. Cardinality(cp) = Cardinality(ch) + 1
    BY <1>5, <2>1, FS_AddElement
  <2> QED
    BY <1>1, <1>3, <1>4, <1>6, <1>7, <2>2
<1>8. CASE ~Changes(n, m + 1)'
  <2>1. cp = ch
    BY <1>0, <1>8
  <2> HIDE DEF ch, cp
  <2> QED
    BY <1>1, <1>3, <1>4, <1>5, <1>6, <1>8, <2>1
<1> QED
  BY <1>7, <1>8

(* In a log without repetitions, IndexOf finds the one place of a request. *)
LEMMA UniqueIndex ==
  ASSUME NEW l \in Seq(Requests), NEW p \in Seq(Requests),
         \A i, j \in 1 .. Len(l \o p) : (l \o p)[i] = (l \o p)[j] => i = j,
         NEW k \in 1 .. Len(l)
  PROVE  (CHOOSE i \in DOMAIN l : l[i] = l[k]) = k
<1>1. Len(l) \in Nat /\ Len(p) \in Nat /\ DOMAIN l = 1 .. Len(l)
  BY LenProperties
<1>2. /\ Len(l \o p) = Len(l) + Len(p)
      /\ \A i \in 1 .. Len(l) + Len(p) : (l \o p)[i] =
                     IF i <= Len(l) THEN l[i] ELSE p[i - Len(l)]
  BY ConcatProperties
<1>3. \A i \in 1 .. Len(l) : i \in 1 .. Len(l \o p) /\ (l \o p)[i] = l[i]
  BY <1>1, <1>2
<1>4. \A i \in 1 .. Len(l) : l[i] = l[k] => i = k
  BY <1>3
<1> QED
  BY <1>1, <1>4

-----------------------------------------------------------------------------
(* The log only grows, and the operations of its requests are fixed. *)
LEMMA LogStep ==
  ASSUME RSTypeOK, RSTypeOK', RequestInv, [RSNext]_rsVars
  PROVE  /\ Len(log) <= Len(log')
         /\ \A i \in 1 .. Len(log) : log'[i] = log[i] /\ op'[log[i]] = op[log[i]]
<1>1. Len(log) <= Len(log') /\ \A i \in 1 .. Len(log) : log'[i] = log[i]
  BY QueueStep
<1>2. ASSUME NEW i \in 1 .. Len(log) PROVE op'[log[i]] = op[log[i]]
  <2>1. /\ Len(Queue) = Len(log) + Len(proposed) /\ Queue[i] = log[i]
        /\ Len(log) \in Nat /\ Len(proposed) \in Nat
    BY QueueSeq
  <2>2. i \in 1 .. Len(Queue) /\ log[i] \in Requests
    BY <2>1, ElementOfSeq DEF RSTypeOK
  <2>3. Queued(log[i])
    BY <2>1, <2>2 DEF Queued
  <2>4. pc[log[i]] # "idle"
    BY <2>2, <2>3 DEF RequestInv
  <2> QED
    BY <2>2, <2>4, RequestStep
<1> QED
  BY <1>1, <1>2

(* A step leaves the stores alone or applies one entry to one of them. *)
LEMMA StoreStepKind ==
  ASSUME [RSNext]_rsVars
  PROVE  \/ UNCHANGED storeVars
         \/ \E n \in Nodes, ok \in BOOLEAN :
              /\ ApplyNext(n, ok)
              /\ failed' = IF ok THEN failed ELSE failed \cup {<<n, applied[n] + 1>>}
<1>1. ASSUME NEW n \in Nodes, ApplyEntry(n)
      PROVE  ApplyNext(n, TRUE) /\ failed' = IF TRUE THEN failed
                                             ELSE failed \cup {<<n, applied[n] + 1>>}
  BY <1>1 DEF ApplyEntry
<1>2. ASSUME NEW n \in Nodes, ApplyFails(n)
      PROVE  ApplyNext(n, FALSE) /\ failed' = IF FALSE THEN failed
                                              ELSE failed \cup {<<n, applied[n] + 1>>}
  BY <1>2 DEF ApplyFails
<1>3. ASSUME ~ \E n \in Nodes : ApplyEntry(n) \/ ApplyFails(n)
      PROVE  UNCHANGED storeVars
  BY <1>3 DEF RSNext, Handle, Elect, StepDown, CommitEntry, LearnLeader, Issue, SelfRegister,
     SelfRegisterGivesUp, PostJoin, Leave, Lead, Forward, ForwardFails, Unavailable,
     Join, JoinRefused, ApplyRefused, Propose, Respond, ForwardBreaks, rsVars, raftVars
<1> QED
  BY <1>1, <1>2, <1>3

(* No commit fails after the fact, and so what the applied entries mean for a *)
(* store stays as it was.                                                     *)
LEMMA AppliedStable ==
  ASSUME RSTypeOK, RSTypeOK', RequestInv, StoreInv, [RSNext]_rsVars,
         NEW n \in Nodes
  PROVE  /\ applied[n] \in Nat /\ applied[n] <= applied'[n]
         /\ \A j \in Nat : j <= applied[n] => (<<n, j>> \in failed' <=> <<n, j>> \in failed)
         /\ \A h \in 0 .. applied[n] :
              /\ \A k \in AllKeys : Present(n, k, h)' <=> Present(n, k, h)
              /\ RevAt(n, h)' = RevAt(n, h)
<1>0. /\ applied[n] \in Nat /\ applied[n] <= Len(log) /\ Len(log) \in Nat
      /\ \A m \in Nodes : applied[m] \in Nat
  BY LenProperties DEF RSTypeOK
<1>1. \A j \in Nat : j <= applied[n] => (<<n, j>> \in failed' <=> <<n, j>> \in failed)
  <2>1. CASE UNCHANGED storeVars
    BY <2>1 DEF storeVars
  <2>2. ASSUME NEW m \in Nodes, NEW ok \in BOOLEAN, ApplyNext(m, ok),
               failed' = IF ok THEN failed ELSE failed \cup {<<m, applied[m] + 1>>},
               NEW j \in Nat, j <= applied[n]
        PROVE  <<n, j>> \in failed' <=> <<n, j>> \in failed
    <3>1. <<n, j>> # <<m, applied[m] + 1>>
      BY <1>0, <2>2
    <3> QED
      BY <2>2, <3>1
  <2> QED
    BY <2>1, <2>2, StoreStepKind
<1>2. applied[n] <= applied'[n]
  <2>1. Boot \in Requests
    BY ServerAssumption DEF Requests
  <2> QED
    BY <2>1, RequestStep
<1>3. ASSUME NEW h \in 0 .. applied[n]
      PROVE  /\ \A k \in AllKeys : Present(n, k, h)' <=> Present(n, k, h)
             /\ RevAt(n, h)' = RevAt(n, h)
  <2>1. applied[n] \in 0 .. Len(log)
    BY <1>0
  <2>2. \A j \in 1 .. applied[n] : <<n, j>> \in failed' <=> <<n, j>> \in failed
    BY <1>0, <1>1
  <2>3. /\ Len(log) <= Len(log')
        /\ \A i \in 1 .. Len(log) : log'[i] = log[i] /\ op'[log[i]] = op[log[i]]
    BY LogStep
  <2> QED
    BY <2>1, <2>2, <2>3, MeaningStable
<1> QED
  BY <1>0, <1>1, <1>2, <1>3

(* A result that a future holds stays true. *)
LEMMA ResultStable ==
  ASSUME RSTypeOK, RSTypeOK', RequestInv, StoreInv, [RSNext]_rsVars,
         NEW r \in Requests, result[r] # None, result'[r] = result[r]
  PROVE  /\ pc'[r] \in {"wait", "done"}
         /\ \E j \in 1 .. applied'[at'[r]] : log'[j] = r /\ ResultAt(r, j)'
<1>1. /\ pc[r] \in {"wait", "done"}
      /\ \E j \in 1 .. applied[at[r]] : log[j] = r /\ ResultAt(r, j)
  BY DEF StoreInv
<1>2. PICK j \in 1 .. applied[at[r]] : log[j] = r /\ ResultAt(r, j)
  BY <1>1
<1>3. pc'[r] \in {"wait", "done"} /\ at'[r] = at[r] /\ op'[r] = op[r]
  BY <1>1, RequestStep
<1>n. PICK n \in Nodes, k \in AllKeys : n = at[r] /\ k = KeyOf(r)
  BY DEF RSTypeOK, KeyOf, AllKeys
<1>4. /\ applied[n] \in Nat /\ applied[n] <= applied'[n] /\ applied'[n] \in Nat
      /\ applied[n] <= Len(log) /\ Len(log) \in Nat
  BY AppliedStable, LenProperties DEF RSTypeOK
<1>5. j \in Nat /\ j \in 0 .. applied[n] /\ j - 1 \in 0 .. applied[n] /\ j <= applied[n]
      /\ j \in 1 .. applied'[n] /\ j \in 1 .. Len(log)
  BY <1>2, <1>4, <1>n
<1>6. log'[j] = r
  BY <1>2, <1>5, LogStep
<1>7. /\ Present(n, k, j - 1)' <=> Present(n, k, j - 1)
      /\ RevAt(n, j)' = RevAt(n, j)
      /\ <<n, j>> \in failed' <=> <<n, j>> \in failed
  BY <1>5, AppliedStable
<1>8. ResultAt(r, j)'
  <2>1. KeyOf(r)' = k /\ at'[r] = n
    BY <1>3, <1>n DEF KeyOf
  <2> QED
    BY <1>2, <1>3, <1>7, <1>n, <2>1 DEF ResultAt
<1> QED
  BY <1>3, <1>5, <1>6, <1>8, <1>n

(* Applying an entry keeps the store of its node what the log makes of it,    *)
(* and hands the result to the request that waits for it.                     *)
LEMMA ApplyKeepsStore ==
  ASSUME RSTypeOK, RSTypeOK', RequestInv, StoreInv, [RSNext]_rsVars,
         NEW n \in Nodes, NEW ok \in BOOLEAN, ApplyNext(n, ok),
         failed' = IF ok THEN failed ELSE failed \cup {<<n, applied[n] + 1>>}
  PROVE  /\ \A k \in AllKeys : k \in keys'[n] <=> Present(n, k, applied[n])'
         /\ rev'[n] = RevAt(n, applied[n])'
         /\ \A m \in Nodes \ {n} : /\ keys'[m] = keys[m] /\ rev'[m] = rev[m]
                                   /\ applied'[m] = applied[m]
         /\ \A r \in Requests : \/ result'[r] = result[r]
                                \/ /\ pc'[r] = "wait" /\ at'[r] = n
                                   /\ log'[applied'[n]] = r /\ applied'[n] \in 1 .. applied'[n]
                                   /\ ResultAt(r, applied[n])'
<1>a. PICK a \in Nat : a = applied[n]
  BY DEF RSTypeOK
<1>0. /\ a < Len(log) /\ applied' = [applied EXCEPT ![n] = a + 1] /\ Len(log) \in Nat
      /\ FSMApply(n, log[a + 1], ok) /\ log' = log
      /\ UNCHANGED <<proc, pc, at, op, relayed, ans>>
  BY <1>a, LenProperties DEF ApplyNext, reqVars, RSTypeOK
<1>ap. applied'[n] = a + 1 /\ \A m \in Nodes \ {n} : applied'[m] = applied[m]
  BY <1>0 DEF RSTypeOK
<1>r. a + 1 \in 1 .. Len(log) /\ log[a + 1] \in Requests
  BY <1>0, ElementOfSeq DEF RSTypeOK
<1>q. PICK q \in Requests, c \in AllKeys : q = log[a + 1] /\ c = KeyOf(q)
  BY <1>r DEF KeyOf, AllKeys
<1>f. /\ <<n, a + 1>> \in failed' <=> ~ok
      /\ \A j \in 1 .. a : <<n, j>> \in failed' <=> <<n, j>> \in failed
  <2>1. <<n, a + 1>> \notin failed
    <3>1. a + 1 \in Nat /\ ~(a + 1 <= applied[n])
      BY <1>a
    <3> QED
      BY <3>1 DEF StoreInv
  <2>2. \A j \in 1 .. a : <<n, j>> # <<n, a + 1>>
    OBVIOUS
  <2> QED
    BY <1>a, <2>1, <2>2
<1>p. \A k \in AllKeys : k \in keys[n] <=> Present(n, k, a)
  BY <1>a DEF StoreInv
<1>v. rev[n] = RevAt(n, a) /\ rev[n] \in Nat
  BY <1>a DEF StoreInv, RSTypeOK
<1>m. /\ \A k \in AllKeys :
           Present(n, k, a + 1)' <=>
             IF c = k /\ <<n, a + 1>> \notin failed' THEN op[q] = "put" ELSE Present(n, k, a)
      /\ RevAt(n, a + 1)' = RevAt(n, a) + IF op[q] = "put" \/ Present(n, c, a) THEN 1 ELSE 0
  <2>1. LET r == log[a + 1]
         IN  /\ \A k \in AllKeys :
                  Present(n, k, a + 1)' <=>
                    IF KeyOf(r) = k /\ <<n, a + 1>> \notin failed'
                    THEN op[r] = "put" ELSE Present(n, k, a)
             /\ RevAt(n, a + 1)' = RevAt(n, a) +
                  IF op[r] = "put" \/ Present(n, KeyOf(r), a) THEN 1 ELSE 0
    BY <1>0, <1>f, MeaningNext
  <2> QED
    BY <2>1, <1>q
<1>s. Present(n, c, a)' <=> Present(n, c, a)
  <2>1. a \in 0 .. applied[n]
    BY <1>a
  <2> QED
    BY <2>1, AppliedStable
<1>op. op[q] \in {"put", "delete"}
  BY DEF RSTypeOK
<1> DEFINE missing == op[q] = "delete" /\ ~Present(n, c, a)
<1>x. (c \in keys[n]) <=> Present(n, c, a)
  BY <1>p
<1>e. /\ ok \/ ~missing
      /\ keys' = [keys EXCEPT ![n] = IF ~ok THEN @
                                      ELSE IF op[q] = "put" THEN @ \cup {c}
                                      ELSE @ \ {c}]
      /\ rev' = [rev EXCEPT ![n] = IF missing THEN @ ELSE @ + 1]
      /\ result' = IF at[q] = n /\ pc[q] = "wait"
                   THEN [result EXCEPT ![q] =
                          [err  |-> CASE missing -> "notfound" [] ~ok -> "store" [] OTHER -> "none",
                           prev |-> c \in keys[n],
                           rev  |-> rev[n] + 1]]
                   ELSE result
  BY <1>0, <1>q, <1>x DEF FSMApply
<1>t. keys \in [Nodes -> SUBSET AllKeys] /\ rev \in [Nodes -> Nat]
      /\ result \in [Requests -> Results \cup {None}]
  BY DEF RSTypeOK
<1>1. ASSUME NEW k \in AllKeys
      PROVE  k \in keys'[n] <=> Present(n, k, a + 1)'
  <2>1. k \in keys'[n] <=> IF c = k /\ ok THEN op[q] = "put" ELSE k \in keys[n]
    <3>1. CASE ~ok
      BY <1>e, <1>t, <3>1
    <3>2. CASE ok /\ op[q] = "put"
      BY <1>e, <1>t, <3>2
    <3>3. CASE ok /\ op[q] # "put"
      BY <1>e, <1>t, <3>3
    <3> QED
      BY <3>1, <3>2, <3>3
  <2> QED
    BY <2>1, <1>p, <1>f, <1>m
<1>2. missing <=> ~(op[q] = "put" \/ Present(n, c, a))
  BY <1>op
<1> HIDE DEF missing
<1>3. rev'[n] = RevAt(n, a + 1)'
  BY <1>e, <1>t, <1>2, <1>m, <1>v
<1>4. ASSUME NEW m \in Nodes \ {n} PROVE keys'[m] = keys[m] /\ rev'[m] = rev[m]
  BY <1>e, <1>t, <1>4
<1>5. ASSUME NEW r \in Requests, result'[r] # result[r]
      PROVE  /\ pc'[r] = "wait" /\ at'[r] = n /\ log'[a + 1] = r
             /\ a + 1 \in 1 .. a + 1
             /\ ResultAt(r, a + 1)'
  <2>1. r = q /\ at[q] = n /\ pc[q] = "wait"
    BY <1>e, <1>t, <1>5
  <2>2. /\ result'[r].err = CASE missing -> "notfound" [] ~ok -> "store" [] OTHER -> "none"
        /\ result'[r].prev = (c \in keys[n]) /\ result'[r].rev = rev[n] + 1
    BY <1>e, <1>t, <2>1
  <2>3. /\ result'[r].err = "notfound" <=> missing
        /\ result'[r].err = "store" <=> ~ok
    BY <1>e, <2>2
  <2>4. (a + 1) - 1 = a /\ a + 1 \in 1 .. a + 1
    OBVIOUS
  <2>5. result'[r].err # "notfound" => result'[r].rev = RevAt(n, a + 1)'
    BY <1>2, <1>m, <1>v, <2>2, <2>3
  <2>6. KeyOf(r)' = c /\ at'[r] = n /\ op'[r] = op[q]
    BY <1>0, <1>q, <2>1 DEF KeyOf
  <2>7. (missing <=> op[q] = "delete" /\ ~Present(n, c, a)')
        /\ (result'[r].prev <=> Present(n, c, a)')
    BY <1>s, <1>x, <2>2 DEF missing
  <2>8. ResultAt(r, a + 1)'
    BY <1>f, <2>3, <2>4, <2>5, <2>6, <2>7 DEF ResultAt
  <2> QED
    BY <1>0, <1>q, <2>1, <2>4, <2>8
<1> QED
  BY <1>ap, <1>1, <1>3, <1>4, <1>5

(* The stores and the futures, under every step. *)
LEMMA StoreStep ==
  RSTypeOK /\ RequestInv /\ StoreInv /\ RSTypeOK' /\ [RSNext]_rsVars => StoreInv'
<1> SUFFICES ASSUME RSTypeOK, RequestInv, StoreInv, RSTypeOK', [RSNext]_rsVars
             PROVE  StoreInv'
  OBVIOUS
<1>0. \A m \in Nodes : applied[m] \in Nat /\ applied'[m] \in Nat
  BY DEF RSTypeOK
<1>1. CASE UNCHANGED storeVars
  <2>1. UNCHANGED <<applied, keys, rev, failed, result>>
    BY <1>1 DEF storeVars
  <2>2. ASSUME NEW n \in Nodes
        PROVE  /\ \A k \in AllKeys : k \in keys'[n] <=> Present(n, k, applied[n])'
               /\ rev'[n] = RevAt(n, applied[n])'
    <3>1. PICK a \in Nat : a = applied[n] /\ a \in 0 .. applied[n]
      BY <1>0
    <3>2. /\ \A k \in AllKeys : Present(n, k, a)' <=> Present(n, k, a)
          /\ RevAt(n, a)' = RevAt(n, a)
      BY <3>1, AppliedStable
    <3>3. applied'[n] = a
      BY <2>1, <3>1
    <3> QED
      BY <2>1, <3>1, <3>2, <3>3 DEF StoreInv
  <2>3. ASSUME NEW r \in Requests, result'[r] # None
        PROVE  /\ pc'[r] \in {"wait", "done"}
               /\ \E j \in 1 .. applied'[at'[r]] : log'[j] = r /\ ResultAt(r, j)'
    BY <2>1, <2>3, ResultStable
  <2>4. \A n \in Nodes, j \in Nat : <<n, j>> \in failed' => j <= applied'[n]
    BY <2>1 DEF StoreInv
  <2> QED
    BY <2>2, <2>3, <2>4 DEF StoreInv
<1>2. ASSUME NEW n \in Nodes, NEW ok \in BOOLEAN, ApplyNext(n, ok),
             failed' = IF ok THEN failed ELSE failed \cup {<<n, applied[n] + 1>>}
      PROVE  StoreInv'
  <2>1. /\ \A k \in AllKeys : k \in keys'[n] <=> Present(n, k, applied[n])'
        /\ rev'[n] = RevAt(n, applied[n])'
        /\ \A m \in Nodes \ {n} : /\ keys'[m] = keys[m] /\ rev'[m] = rev[m]
                                  /\ applied'[m] = applied[m]
        /\ \A r \in Requests : \/ result'[r] = result[r]
                               \/ /\ pc'[r] = "wait" /\ at'[r] = n
                                  /\ log'[applied'[n]] = r /\ applied'[n] \in 1 .. applied'[n]
                                  /\ ResultAt(r, applied[n])'
    BY <1>2, ApplyKeepsStore
  <2>2. ASSUME NEW m \in Nodes \ {n}
        PROVE  /\ \A k \in AllKeys : k \in keys'[m] <=> Present(m, k, applied[m])'
               /\ rev'[m] = RevAt(m, applied[m])'
    <3>1. PICK a \in Nat : a = applied[m] /\ a \in 0 .. applied[m]
      BY <1>0
    <3>2. /\ \A k \in AllKeys : Present(m, k, a)' <=> Present(m, k, a)
          /\ RevAt(m, a)' = RevAt(m, a)
      BY <3>1, AppliedStable
    <3>3. applied'[m] = a
      BY <2>1, <3>1
    <3> QED
      BY <2>1, <3>1, <3>2, <3>3 DEF StoreInv
  <2>3. ASSUME NEW r \in Requests, result'[r] # None
        PROVE  /\ pc'[r] \in {"wait", "done"}
               /\ \E j \in 1 .. applied'[at'[r]] : log'[j] = r /\ ResultAt(r, j)'
    <3>1. CASE result'[r] = result[r]
      BY <2>3, <3>1, ResultStable
    <3>2. CASE result'[r] # result[r]
      BY <2>1, <3>2
    <3> QED
      BY <3>1, <3>2
  <2>4. ASSUME NEW m \in Nodes, NEW j \in Nat, <<m, j>> \in failed'
        PROVE  j <= applied'[m]
    <3>1. applied[m] <= applied'[m] /\ applied'[n] = applied[n] + 1
      BY <1>2, AppliedStable DEF ApplyNext, RSTypeOK
    <3>2. CASE <<m, j>> \in failed
      BY <1>0, <3>1, <3>2 DEF StoreInv
    <3>3. CASE <<m, j>> = <<n, applied[n] + 1>>
      BY <1>0, <3>1, <3>3
    <3> QED
      BY <1>2, <2>4, <3>2, <3>3
  <2>5. \A m \in Nodes : /\ \A k \in AllKeys : k \in keys'[m] <=> Present(m, k, applied[m])'
                         /\ rev'[m] = RevAt(m, applied[m])'
    BY <2>1, <2>2
  <2> QED
    BY <2>3, <2>4, <2>5 DEF StoreInv
<1> QED
  BY <1>1, <1>2, StoreStepKind

-----------------------------------------------------------------------------
(* What was answered stays true of the log, and a new result is true of it. *)
LEMMA AnswerStep ==
  ServerInv /\ RSTypeOK' /\ StoreInv' /\ [RSNext]_rsVars => AnswerInv'
<1> SUFFICES ASSUME RSTypeOK, RequestInv, StoreInv, AnswerInv, RSTypeOK', StoreInv',
                    [RSNext]_rsVars,
                    NEW r \in Requests, Answered(r, {200, 201, 404})'
             PROVE  \E j \in 1 .. applied'[at'[r]] : log'[j] = r /\ AnswerAt(r, j)'
  BY DEF ServerInv, AnswerInv
<1>n. PICK n \in Nodes, k \in AllKeys : n = at[r] /\ k = KeyOf(r)
  BY DEF RSTypeOK, KeyOf, AllKeys
<1>len. /\ applied[n] \in Nat /\ applied[n] <= applied'[n] /\ applied'[n] \in Nat
        /\ applied[n] <= Len(log) /\ Len(log) \in Nat
  BY AppliedStable, LenProperties DEF RSTypeOK
<1>st. ASSUME NEW j \in 1 .. applied[n], log[j] = r
       PROVE  /\ j \in 1 .. applied'[n] /\ log'[j] = r
              /\ Present(n, k, j - 1)' <=> Present(n, k, j - 1)
              /\ RevAt(n, j)' = RevAt(n, j)
              /\ <<n, j>> \in failed' <=> <<n, j>> \in failed
  <2>1. j \in Nat /\ j <= applied[n] /\ j \in 0 .. applied[n] /\ j - 1 \in 0 .. applied[n]
        /\ j \in 1 .. applied'[n] /\ j \in 1 .. Len(log)
    BY <1>len
  <2>2. log'[j] = r
    BY <1>st, <2>1, LogStep
  <2> QED
    BY <2>1, <2>2, AppliedStable
<1>1. CASE ans'[r] = ans[r]
  <2>1. Answered(r, {200, 201, 404}) /\ pc[r] = "done"
    BY <1>1 DEF Answered, RequestInv
  <2>2. PICK j \in 1 .. applied[n] : log[j] = r /\ AnswerAt(r, j)
    BY <2>1, <1>n DEF AnswerInv
  <2>3. /\ at'[r] = n /\ op'[r] = op[r] /\ KeyOf(r)' = k
    BY <2>1, <1>n, RequestStep DEF KeyOf
  <2>4. /\ j \in 1 .. applied'[n] /\ log'[j] = r
        /\ Present(n, k, j - 1)' <=> Present(n, k, j - 1)
        /\ RevAt(n, j)' = RevAt(n, j)
        /\ <<n, j>> \in failed' <=> <<n, j>> \in failed
    BY <1>st, <2>2
  <2>5. ASSUME NEW h \in j .. applied[n] PROVE h \in j .. applied'[n] /\ RevAt(n, h)' = RevAt(n, h)
    <3>1. h \in 0 .. applied[n] /\ h \in j .. applied'[n]
      BY <1>len
    <3> QED
      BY <3>1, AppliedStable
  <2>6. AnswerAt(r, j) <=>
          /\ <<n, j>> \notin failed
          /\ r \in Clients /\ op[r] = "put" =>
               /\ ans[r].status = 201 <=> ~Present(n, k, j - 1)
               /\ ans[r].rev = RevAt(n, j)
          /\ r \in Clients /\ op[r] = "delete" =>
               /\ ans[r].status = 404 <=> ~Present(n, k, j - 1)
               /\ ans[r].status = 200 => \E h \in j .. applied[n] : ans[r].rev = RevAt(n, h)
    BY <1>n DEF AnswerAt
  <2>7. AnswerAt(r, j)' <=>
          /\ <<n, j>> \notin failed'
          /\ r \in Clients /\ op[r] = "put" =>
               /\ ans[r].status = 201 <=> ~Present(n, k, j - 1)'
               /\ ans[r].rev = RevAt(n, j)'
          /\ r \in Clients /\ op[r] = "delete" =>
               /\ ans[r].status = 404 <=> ~Present(n, k, j - 1)'
               /\ ans[r].status = 200 => \E h \in j .. applied'[n] : ans[r].rev = RevAt(n, h)'
    BY <1>1, <2>3 DEF AnswerAt
  <2>8. (\E h \in j .. applied[n] : ans[r].rev = RevAt(n, h))
        => \E h \in j .. applied'[n] : ans[r].rev = RevAt(n, h)'
    BY <2>5
  <2>9. AnswerAt(r, j)'
    BY <2>2, <2>4, <2>6, <2>7, <2>8
  <2> QED
    BY <2>3, <2>4, <2>9
<1>2. CASE Respond(r) /\ ans[r] = None
  <2>1. PICK s \in {200, 201, 404, 500}, v \in Nat :
          /\ Answer(r, s, v)
          /\ pc[r] = "wait" /\ result[r] # None
          /\ s = 500 <=> result[r].err = "store"
          /\ s = 404 <=> result[r].err = "notfound"
          /\ r \in Clients /\ op[r] = "put" /\ result[r].err = "none" =>
               /\ s = 201 <=> ~result[r].prev
               /\ v = result[r].rev
          /\ r \in Clients /\ op[r] = "delete" /\ result[r].err = "none" =>
               v = rev[at[r]]
    BY <1>2, RespondIsAnswer
  <2>2. at' = at /\ op' = op /\ ans'[r] = [status |-> s, rev |-> v]
    BY <1>2, <2>1, AnswerEffect
  <2>3. UNCHANGED <<applied, keys, rev, failed, result, log>>
    BY <1>2 DEF Respond, raftVars, storeVars
  <2>4. ans'[r].status = s /\ ans'[r].rev = v /\ s \in {200, 201, 404}
    BY <2>2 DEF Answered
  <2>5. PICK j \in 1 .. applied[n] : log[j] = r /\ ResultAt(r, j)
    BY <2>1, <1>n DEF StoreInv
  <2>6. /\ result[r].prev <=> Present(n, k, j - 1)
        /\ result[r].err = "notfound" <=> op[r] = "delete" /\ ~Present(n, k, j - 1)
        /\ result[r].err = "store" <=> <<n, j>> \in failed
        /\ result[r].err # "notfound" => result[r].rev = RevAt(n, j)
    BY <2>5, <1>n DEF ResultAt
  <2>7. result[r].err \in {"none", "notfound", "store"}
    BY <2>1 DEF RSTypeOK, Results
  <2>8. /\ j \in 1 .. applied'[n] /\ log'[j] = r
        /\ Present(n, k, j - 1)' <=> Present(n, k, j - 1)
        /\ RevAt(n, j)' = RevAt(n, j)
        /\ <<n, j>> \in failed' <=> <<n, j>> \in failed
    BY <1>st, <2>5
  <2>9. \E h \in j .. applied'[n] : rev[n] = RevAt(n, h)'
    <3>1. PICK a \in Nat : a = applied[n] /\ a \in 0 .. applied[n] /\ a \in j .. applied[n]
      BY <1>len
    <3>2. rev[n] = RevAt(n, a) /\ RevAt(n, a)' = RevAt(n, a)
      BY <3>1, AppliedStable DEF StoreInv
    <3> QED
      BY <2>3, <3>1, <3>2
  <2>10. <<n, j>> \notin failed'
    BY <2>1, <2>4, <2>6, <2>8
  <2>11. r \in Clients /\ op[r] = "put" => /\ s = 201 <=> ~Present(n, k, j - 1)'
                                           /\ v = RevAt(n, j)'
    BY <2>1, <2>4, <2>6, <2>7, <2>8
  <2>12. r \in Clients /\ op[r] = "delete" =>
           /\ s = 404 <=> ~Present(n, k, j - 1)'
           /\ s = 200 => \E h \in j .. applied'[n] : v = RevAt(n, h)'
    BY <1>n, <2>1, <2>4, <2>6, <2>7, <2>8, <2>9
  <2>13. AnswerAt(r, j)'
    <3>1. KeyOf(r)' = k /\ at'[r] = n
      BY <1>n, <2>2 DEF KeyOf
    <3> QED
      BY <2>2, <2>4, <2>10, <2>11, <2>12, <3>1 DEF AnswerAt
  <2> QED
    BY <1>n, <2>2, <2>8, <2>13
<1>3. ans'[r].status \in {200, 201, 404}
  BY DEF Answered
<1>4. ASSUME Unavailable(r), ans[r] = None PROVE FALSE
  <2>1. Answer(r, 503, 0) /\ 503 \in Nat /\ 0 \in Nat
    BY <1>4 DEF Unavailable
  <2>2. ans'[r] = [status |-> 503, rev |-> 0]
    BY <1>4, <2>1, AnswerEffect
  <2> QED
    BY <1>3, <2>2
<1> QED
  BY <1>1, <1>2, <1>3, <1>4, RequestStep

-----------------------------------------------------------------------------
(* The invariant holds in every reachable state. *)
LEMMA ServerInvInit == RSInit => ServerInv
<1> SUFFICES ASSUME RSInit PROVE RequestInv /\ StoreInv /\ AnswerInv
  BY TypeInit DEF ServerInv
<1>1. \A r \in Requests : ans[r] = None /\ result[r] = None
  BY DEF RSInit
<1>2. \A r \in Requests : \A st : ~Answered(r, st)
  BY <1>1 DEF Answered
<1>3. Len(Queue) = 0
  <2>1. log = <<>> /\ proposed = <<>> /\ <<>> \in Seq(Requests)
    BY EmptySeq DEF RSInit
  <2> QED
    BY <2>1, ConcatEmptySeq, EmptySeq DEF Queue
<1>4. ASSUME NEW n \in Nodes
      PROVE  /\ \A k \in AllKeys : k \in keys[n] <=> Present(n, k, applied[n])
             /\ rev[n] = RevAt(n, applied[n])
  <2>1. applied[n] = 0 /\ rev[n] = 0 /\ keys = Base /\ 1 .. 0 = {}
    BY DEF RSInit
  <2>2. {j \in 1 .. applied[n] : Changes(n, j)} = {}
    BY <2>1
  <2>3. RevAt(n, applied[n]) = 0
    BY <2>2, FS_EmptySet DEF RevAt
  <2>4. ASSUME NEW k \in AllKeys PROVE k \in keys[n] <=> Present(n, k, applied[n])
    <3>1. {j \in 1 .. applied[n] : KeyOf(log[j]) = k /\ <<n, j>> \notin failed} = {}
      BY <2>1
    <3> QED
      BY <2>1, <3>1 DEF Present
  <2> QED
    BY <2>1, <2>3, <2>4
<1>5. failed = {}
  BY DEF RSInit
<1>6. StoreInv
  BY <1>1, <1>4, <1>5 DEF StoreInv
<1> QED
  BY <1>2, <1>3, <1>6 DEF RequestInv, Queued, AnswerInv

(* Every step keeps the log, the stores, the requests under way and the       *)
(* answers in agreement.                                                      *)
LEMMA ServerInvStep == ServerInv /\ [RSNext]_rsVars => ServerInv'
BY TypeStep, RequestStepInv, StoreStep, AnswerStep DEF ServerInv

(* That agreement implies the three safety properties of the server. *)
LEMMA ServerInvImplies == ServerInv => AtMostOnce /\ RetryIsSafe /\ AnswerMatchesLog
<1> SUFFICES ASSUME RSTypeOK, RequestInv, AnswerInv
             PROVE  AtMostOnce /\ RetryIsSafe /\ AnswerMatchesLog
  BY DEF ServerInv
<1>1. DOMAIN (log \o proposed) = 1 .. Len(log \o proposed)
  BY QueueSeq DEF Queue
<1>2. AtMostOnce
  BY <1>1 DEF RequestInv, Queue, AtMostOnce
<1>3. ASSUME NEW r \in Requests, Answered(r, {503})
      PROVE  /\ pc[r] = "done"
             /\ \A i \in DOMAIN (log \o proposed) : (log \o proposed)[i] # r
  <2>1. Answered(r, {200, 201, 404, 503})
    BY <1>3 DEF Answered
  <2> QED
    BY <1>1, <1>3, <2>1 DEF RequestInv, Queued, Queue
<1>4. ASSUME NEW r \in Requests, Answered(r, {200, 201, 404})
      PROVE  (\E j \in 1 .. applied[at[r]] : log[j] = r) /\ AnswerAt(r, IndexOf(r))
  <2>1. PICK j \in 1 .. applied[at[r]] : log[j] = r /\ AnswerAt(r, j)
    BY <1>4 DEF AnswerInv
  <2>2. j \in 1 .. Len(log) /\ log \in Seq(Requests) /\ proposed \in Seq(Requests)
    BY LenProperties DEF RSTypeOK
  <2>3. \A h, i \in 1 .. Len(log \o proposed) :
          (log \o proposed)[h] = (log \o proposed)[i] => h = i
    BY DEF RequestInv, Queue
  <2>4. (CHOOSE i \in DOMAIN log : log[i] = log[j]) = j
    BY <2>2, <2>3, UniqueIndex
  <2>5. IndexOf(r) = j
    BY <2>1, <2>4 DEF IndexOf
  <2> QED
    BY <2>1, <2>5
<1>5. AnswerMatchesLog
  BY <1>4 DEF AnswerMatchesLog, AnswerAt
<1> QED
  BY <1>2, <1>3, <1>5 DEF RetryIsSafe

(* Type correctness, for any cluster and any number of requests. *)
THEOREM TypeCorrect == RSSpec => []RSTypeOK
BY TypeInit, TypeStep, PTL DEF RSSpec

(* Every behaviour of the server keeps the inductive invariant. *)
LEMMA ServerInvariant == RSSpec => []ServerInv
BY ServerInvInit, ServerInvStep, PTL DEF RSSpec

(* raft_server.go, node.go Apply: whatever is forwarded, refused, lost with   *)
(* the leadership or orphaned by a broken connection, no request enters the   *)
(* log twice.                                                                 *)
THEOREM RequestsEnterOnce == RSSpec => []AtMostOnce
BY ServerInvariant, ServerInvImplies, PTL

(* forwardToLeader: a request answered 503 is in no log and never will be, so *)
(* the sender may repeat it.                                                  *)
THEOREM RetriesAreSafe == RSSpec => []RetryIsSafe
BY ServerInvariant, ServerInvImplies, PTL

(* handleRaftPut and handleRaftDelete: a result that a client is told is that *)
(* of its entry in the committed log, as the store of the node that answered  *)
(* has it: entries whose commit failed there count in the revision and in     *)
(* nothing else, and the client's own entry is not one of them.               *)
THEOREM AnswersAreTrue == RSSpec => []AnswerMatchesLog
BY ServerInvariant, ServerInvImplies, PTL
=============================================================================
