----------------------------- MODULE RaftServer -----------------------------
(***************************************************************************)
(* server/raft_server.go, with Node's part of raft/node.go and runCluster  *)
(* of cmd/paladin-core/main.go: how a write reaches the Raft leader, how a *)
(* node joins, and what the client is told.                                *)
(*                                                                         *)
(* A request checks raft's state, may be forwarded to the HTTP address     *)
(* that its node finds for the leader it knows, checks again in            *)
(* Node.Apply, and then waits for the log entry.  Leadership may move      *)
(* between any two of these.                                               *)
(*                                                                         *)
(* hashicorp/raft is external.  Its leader appends proposals to its log;   *)
(* they become committed in order; when another node is elected, a prefix  *)
(* of the uncommitted proposals survives.  A deposed leader goes on        *)
(* believing it leads until it steps down, which fails the futures it has  *)
(* handed out.                                                             *)
(*                                                                         *)
(* Each node applies the log to its own store, whose commits may fail: the *)
(* FSM then returns an error, the log moves on, and the stores differ.     *)
(*                                                                         *)
(* Clients write one key.  A node that is not Boot is started with --join; *)
(* the id of a node doubles as the id of the request that registers its    *)
(* HTTP address, and as the key under which the stores keep that address.  *)
(***************************************************************************)
EXTENDS Naturals, Sequences, FiniteSets

CONSTANTS Nodes,
          Boot,           \* the node started with --bootstrap
          NoNode,
          Clients,        \* write requests of clients
          Key,            \* the key that clients write
          Base,           \* node -> the keys its data directory held at the start
          None,           \* no answer yet
          MaxElections,   \* bound: how often a leader is elected
          MaxFailures     \* bound: how many commits fail in all

ASSUME ServerAssumption ==
  /\ Boot \in Nodes /\ NoNode \notin Nodes
  /\ Clients \cap Nodes = {} /\ Key \notin Nodes
  /\ Base \in [Nodes -> SUBSET {Key}]
  /\ MaxElections \in Nat /\ MaxFailures \in Nat

Requests == Clients \cup Nodes

VARIABLES state,      \* node -> raft.State()
          leader,     \* external: the node whose proposals can be committed
          view,       \* node -> the leader id LeaderWithID returns
          members,    \* external: the voters of raft's configuration
          log,        \* external: the committed requests
          proposed,   \* external: the leader's uncommitted requests
          applied,    \* node -> index of the last entry its FSM applied
          keys,       \* node -> the keys its store holds
          rev,        \* node -> s.rev, counted from the start
          failed,     \* <<node, index>> whose commit failed
          result,     \* request -> what the FSM returned through its future
          proc,       \* node -> "joining", "serving" or "exited"
          pc,         \* request -> where its handler is
          at,         \* request -> the node that handles it
          op,         \* request -> what it does
          relayed,    \* requests that were forwarded
          ans,        \* request -> the answer its sender got
          elections

storeVars == <<applied, keys, rev, failed, result>>
raftVars == <<state, leader, view, members, log, proposed, elections, storeVars>>
reqVars == <<proc, pc, at, op, relayed, ans>>
rsVars == <<raftVars, reqVars>>

RSInit ==
  /\ state = [n \in Nodes |-> "follower"]
  /\ leader = NoNode
  /\ view = [n \in Nodes |-> NoNode]
  /\ members = {Boot}
  /\ log = <<>>
  /\ proposed = <<>>
  /\ applied = [n \in Nodes |-> 0]
  /\ keys = Base
  /\ rev = [n \in Nodes |-> 0]
  /\ failed = {}
  /\ result = [r \in Requests |-> None]
  /\ elections = 0
  /\ proc = [n \in Nodes |-> IF n = Boot THEN "serving" ELSE "joining"]
  /\ pc = [r \in Requests |-> "idle"]
  /\ at = [r \in Requests |-> Boot]
  /\ op = [r \in Requests |-> "put"]
  /\ relayed = {}
  /\ ans = [r \in Requests |-> None]

-----------------------------------------------------------------------------
(* PeerHTTPPrefix: a node is registered under a key of its own. *)
KeyOf(r) == IF r \in Nodes THEN r ELSE Key

(* LeaderHTTPAddr: the leader that n knows, if n's store has its HTTP address. *)
LeaderHTTPAddr(n) == IF view[n] \in keys[n] THEN view[n] ELSE NoNode

(* The handlers of the requests R end and their senders are told status s,    *)
(* unless a sender has already been told something.  A node whose join fails  *)
(* exits.                                                                     *)
AnswerAll(R, s, v) ==
  /\ pc' = [r \in Requests |-> IF r \in R THEN "done" ELSE pc[r]]
  /\ ans' = [r \in Requests |-> IF r \in R /\ ans[r] = None
                                THEN [status |-> s, rev |-> v] ELSE ans[r]]
  /\ proc' = [n \in Nodes |-> IF n \notin R \ {Boot} THEN proc[n]
                              ELSE IF s = 200 THEN "serving" ELSE "exited"]
  /\ UNCHANGED <<at, op, relayed>>

Answer(r, s, v) == AnswerAll({r}, s, v)

(* Mutant of LostStatus: lost leadership is reported as unavailable. *)
LostStatusUnavailable == 503

(* Node.Apply: what the sender is told when the future fails because          *)
(* leadership was lost.                                                       *)
LostStatus == 500

-----------------------------------------------------------------------------
(* External: hashicorp/raft. *)
Elect(n) ==
  /\ elections < MaxElections
  /\ n \in members /\ proc[n] # "exited" /\ state[n] = "follower"
  /\ elections' = elections + 1
  /\ leader' = n
  /\ state' = [state EXCEPT ![n] = "leader"]
  /\ view' = [view EXCEPT ![n] = n]
  /\ \E k \in 0 .. Len(proposed) : log' = log \o SubSeq(proposed, 1, k)
  /\ proposed' = <<>>
  /\ UNCHANGED <<members, storeVars, reqVars>>

(* A leader that stops leading fails the futures that have no result yet. *)
StopsLeading(n) ==
  LET lost == {r \in Requests : at[r] = n /\ pc[r] = "wait" /\ result[r] = None}
  IN  /\ state[n] = "leader"
      /\ state' = [state EXCEPT ![n] = "follower"]
      /\ view' = [view EXCEPT ![n] = NoNode]
      /\ leader' = IF leader = n THEN NoNode ELSE leader
      /\ AnswerAll(lost, LostStatus, 0)

StepDown(n) ==
  /\ StopsLeading(n)
  /\ UNCHANGED <<members, log, proposed, elections, storeVars>>

CommitEntry ==
  /\ leader # NoNode /\ proposed # <<>>
  /\ log' = Append(log, Head(proposed))
  /\ proposed' = Tail(proposed)
  /\ UNCHANGED <<state, leader, view, members, elections, storeVars, reqVars>>

(* FSM.Apply of r on the store of n, whose commit succeeds or not.  A commit  *)
(* that fails has raised s.rev and writes nothing.  The future of a request   *)
(* that waits at n gets the result.                                           *)
FSMApply(n, r, ok) ==
  LET found == KeyOf(r) \in keys[n]
      missing == op[r] = "delete" /\ ~found
  IN  /\ ok \/ ~missing
      /\ keys' = [keys EXCEPT ![n] = IF ~ok THEN @
                                      ELSE IF op[r] = "put" THEN @ \cup {KeyOf(r)}
                                      ELSE @ \ {KeyOf(r)}]
      /\ rev' = [rev EXCEPT ![n] = IF missing THEN @ ELSE @ + 1]
      /\ result' = IF at[r] = n /\ pc[r] = "wait"
                   THEN [result EXCEPT ![r] =
                          [err  |-> CASE missing -> "notfound" [] ~ok -> "store" [] OTHER -> "none",
                           prev |-> found,
                           rev  |-> rev[n] + 1]]
                   ELSE result

(* The next committed entry reaches n's FSM. *)
ApplyNext(n, ok) ==
  /\ proc[n] # "exited" /\ n \in members
  /\ applied[n] < Len(log)
  /\ applied' = [applied EXCEPT ![n] = @ + 1]
  /\ FSMApply(n, log[applied[n] + 1], ok)
  /\ UNCHANGED <<state, leader, view, members, log, proposed, elections, reqVars>>

ApplyEntry(n) == ApplyNext(n, TRUE) /\ UNCHANGED failed

(* BoltStore: the transaction of the next entry does not commit. *)
ApplyFails(n) ==
  /\ Cardinality(failed) < MaxFailures
  /\ ApplyNext(n, FALSE)
  /\ failed' = failed \cup {<<n, applied[n] + 1>>}

(* A heartbeat tells n who leads, or none arrives for a while. *)
LearnLeader(n) ==
  /\ n \in members /\ state[n] = "follower" /\ view[n] # leader
  /\ view' = [view EXCEPT ![n] = leader]
  /\ UNCHANGED <<state, leader, members, log, proposed, elections, storeVars, reqVars>>

-----------------------------------------------------------------------------
(* A client sends a PUT or DELETE to node n. *)
Issue(c, n, o) ==
  /\ pc[c] = "idle" /\ proc[n] = "serving"
  /\ pc' = [pc EXCEPT ![c] = "handle"]
  /\ at' = [at EXCEPT ![c] = n]
  /\ op' = [op EXCEPT ![c] = o]
  /\ UNCHANGED <<raftVars, proc, relayed, ans>>

(* handleRaftPut and handleRaftDelete on the leader: on to Node.Apply. *)
Lead(c) ==
  /\ c \in Clients /\ pc[c] = "handle" /\ state[at[c]] = "leader"
  /\ pc' = [pc EXCEPT ![c] = "apply"]
  /\ UNCHANGED <<raftVars, proc, at, op, relayed, ans>>

(* Mutant of Forward: the empty address is not caught. *)
ForwardUnchecked(c) ==
  /\ c \in Clients /\ pc[c] = "handle" /\ state[at[c]] # "leader"
  /\ at' = [at EXCEPT ![c] = LeaderHTTPAddr(at[c])]
  /\ relayed' = relayed \cup {c}
  /\ UNCHANGED <<raftVars, proc, pc, op, ans>>

(* forwardToLeader.  The receiver handles the request like any other.         *)
Forward(c) ==
  LET m == LeaderHTTPAddr(at[c])
  IN  /\ c \in Clients /\ pc[c] = "handle" /\ state[at[c]] # "leader"
      /\ m # NoNode /\ proc[m] = "serving"
      /\ at' = [at EXCEPT ![c] = m]
      /\ relayed' = relayed \cup {c}
      /\ UNCHANGED <<raftVars, proc, pc, op, ans>>

(* forwardToLeader cannot reach the leader. *)
ForwardFails(c) ==
  /\ c \in Clients /\ pc[c] = "handle" /\ state[at[c]] # "leader"
  /\ LeaderHTTPAddr(at[c]) # NoNode
  /\ Answer(c, 400, 0)
  /\ UNCHANGED raftVars

(* Mutant of ForwardBreaks: the forwarding node sends the request again. *)
ForwardBreaksRetries(c) ==
  /\ c \in relayed /\ pc[c] \notin {"idle", "done"} /\ ans[c] = None
  /\ pc' = [pc EXCEPT ![c] = "handle"]
  /\ UNCHANGED <<raftVars, proc, at, op, relayed, ans>>

(* forwardToLeader loses the response: the sender is told 400 while the       *)
(* handler at the other node goes on.                                         *)
ForwardBreaks(c) ==
  /\ c \in relayed /\ pc[c] \notin {"idle", "done"} /\ ans[c] = None
  /\ ans' = [ans EXCEPT ![c] = [status |-> 400, rev |-> 0]]
  /\ UNCHANGED <<raftVars, proc, pc, at, op, relayed>>

(* Mutant of Unavailable: the request waits for a leader instead. *)
UnavailableWaits(c) ==
  /\ c \in Clients /\ pc[c] = "handle" /\ state[at[c]] # "leader"
  /\ LeaderHTTPAddr(at[c]) = NoNode
  /\ UNCHANGED rsVars

(* forwardToLeader: no leader, or its HTTP address is not known here. *)
Unavailable(c) ==
  /\ c \in Clients /\ pc[c] = "handle" /\ state[at[c]] # "leader"
  /\ LeaderHTTPAddr(at[c]) = NoNode
  /\ Answer(c, 503, 0)
  /\ UNCHANGED raftVars

(* runCluster: the bootstrap node registers itself, or gives up. *)
SelfRegister ==
  /\ pc[Boot] = "idle" /\ state[Boot] = "leader"
  /\ pc' = [pc EXCEPT ![Boot] = "apply"]
  /\ UNCHANGED <<raftVars, proc, at, op, relayed, ans>>

SelfRegisterGivesUp ==
  /\ pc[Boot] = "idle" /\ state[Boot] # "leader"
  /\ Answer(Boot, 500, 0)
  /\ UNCHANGED raftVars

(* runCluster: node n posts its join to m. *)
PostJoin(n, m) ==
  /\ n # Boot /\ pc[n] = "idle" /\ proc[m] = "serving"
  /\ pc' = [pc EXCEPT ![n] = "handle"]
  /\ at' = [at EXCEPT ![n] = m]
  /\ UNCHANGED <<raftVars, proc, op, relayed, ans>>

(* handleJoin: Node.Join adds the voter, RegisterPeerHTTP comes next.  On a   *)
(* deposed leader AddVoter does not return before the node steps down.        *)
Join(n) ==
  /\ n \in Nodes /\ pc[n] = "handle" /\ state[at[n]] = "leader"
  /\ IF at[n] = leader
     THEN members' = members \cup {n} /\ pc' = [pc EXCEPT ![n] = "apply"]
     ELSE pc' = [pc EXCEPT ![n] = "wait"] /\ UNCHANGED members
  /\ UNCHANGED <<state, leader, view, log, proposed, elections, storeVars,
                 proc, at, op, relayed, ans>>

JoinRefused(n) ==
  /\ n \in Nodes /\ pc[n] = "handle" /\ state[at[n]] # "leader"
  /\ Answer(n, 500, 0)
  /\ UNCHANGED raftVars

(* handleLeave at m removes node n; n's HTTP address stays registered.  A     *)
(* leader that removes itself stops leading.                                  *)
Leave(m, n) ==
  /\ proc[m] = "serving" /\ m = leader /\ n \in members
  /\ members' = members \ {n}
  /\ IF m = n THEN StopsLeading(m) ELSE UNCHANGED <<state, view, leader, reqVars>>
  /\ UNCHANGED <<log, proposed, elections, storeVars>>

(* Node.Apply: not the leader any more, or raft takes no proposal in time. *)
ApplyRefused(r) ==
  /\ pc[r] = "apply"
  /\ Answer(r, 500, 0)
  /\ UNCHANGED raftVars

(* Node.Apply hands the operation to raft. *)
Propose(r) ==
  /\ pc[r] = "apply" /\ state[at[r]] = "leader"
  /\ pc' = [pc EXCEPT ![r] = "wait"]
  /\ proposed' = IF at[r] = leader THEN Append(proposed, r) ELSE proposed
  /\ UNCHANGED <<state, leader, view, members, log, elections, storeVars,
                 proc, at, op, relayed, ans>>

(* Node.Apply: the future has succeeded and holds the FSM's result. *)
FutureDone(r) == pc[r] = "wait" /\ result[r] # None

(* Mutant of Respond: the error in the FSM's result is not looked at. *)
RespondUnchecked(r) ==
  LET f == result[r]
  IN  /\ FutureDone(r)
      /\ CASE r \in Nodes     -> Answer(r, 200, 0)
           [] op[r] = "put"    -> Answer(r, IF f.prev THEN 200 ELSE 201, f.rev)
           [] op[r] = "delete" -> Answer(r, IF f.prev THEN 200 ELSE 404, rev[at[r]])
      /\ UNCHANGED raftVars

(* Node.Apply returns the FSM's result or its error, and the handler answers  *)
(* with it.  A PUT reports the revision of its entry, a DELETE reads Rev()    *)
(* afterwards.                                                                *)
Respond(r) ==
  LET f == result[r]
  IN  /\ FutureDone(r)
      /\ CASE f.err = "store"    -> Answer(r, 500, 0)
           [] f.err = "notfound" -> Answer(r, 404, 0)
           [] f.err = "none" /\ r \in Nodes -> Answer(r, 200, 0)
           [] f.err = "none" /\ r \in Clients /\ op[r] = "put" ->
                Answer(r, IF f.prev THEN 200 ELSE 201, f.rev)
           [] f.err = "none" /\ r \in Clients /\ op[r] = "delete" ->
                Answer(r, 200, rev[at[r]])
      /\ UNCHANGED raftVars

(* The steps of r's handler. *)
Handle(r) ==
  \/ Lead(r) \/ Forward(r) \/ ForwardFails(r) \/ Unavailable(r)
  \/ Join(r) \/ JoinRefused(r)
  \/ ApplyRefused(r) \/ Propose(r) \/ Respond(r)

RSNext ==
  \/ \E n \in Nodes : Elect(n) \/ StepDown(n) \/ LearnLeader(n) \/ ApplyEntry(n) \/ ApplyFails(n)
  \/ CommitEntry
  \/ \E c \in Clients, n \in Nodes, o \in {"put", "delete"} : Issue(c, n, o)
  \/ SelfRegister \/ SelfRegisterGivesUp
  \/ \E n, m \in Nodes : PostJoin(n, m) \/ Leave(m, n)
  \/ \E r \in Requests : Handle(r) \/ ForwardBreaks(r)

(* Handlers run, and raft commits and applies while it has a leader. *)
RSFairness ==
  /\ \A r \in Requests : WF_rsVars(Handle(r))
  /\ WF_rsVars(CommitEntry)
  /\ \A n \in Nodes : WF_rsVars(ApplyEntry(n))

RSSpec == RSInit /\ [][RSNext]_rsVars

RSFairSpec == RSSpec /\ RSFairness
-----------------------------------------------------------------------------
AllKeys == Nodes \cup {Key}

Results == [err : {"none", "notfound", "store"}, prev : BOOLEAN, rev : Nat]

Statuses == {200, 201, 400, 404, 500, 503}

(* Type invariant. *)
RSTypeOK ==
  /\ state \in [Nodes -> {"leader", "follower"}]
  /\ leader \in Nodes \cup {NoNode}
  /\ view \in [Nodes -> Nodes \cup {NoNode}]
  /\ members \subseteq Nodes
  /\ log \in Seq(Requests)
  /\ proposed \in Seq(Requests)
  /\ applied \in [Nodes -> Nat]
  /\ proc \in [Nodes -> {"joining", "serving", "exited"}]
  /\ pc \in [Requests -> {"idle", "handle", "apply", "wait", "done"}]
  /\ at \in [Requests -> Nodes]
  /\ op \in [Requests -> {"put", "delete"}]
  /\ relayed \subseteq Clients
  /\ ans \in [Requests -> [status : Statuses, rev : Nat] \cup {None}]
  /\ elections \in 0 .. MaxElections
  /\ keys \in [Nodes -> SUBSET AllKeys]
  /\ rev \in [Nodes -> Nat]
  /\ failed \subseteq Nodes \X Nat
  /\ result \in [Requests -> Results \cup {None}]
  /\ \A n \in Nodes : applied[n] <= Len(log)

Answered(r, statuses) == ans[r] # None /\ ans[r].status \in statuses

(* What the first i entries of the log mean for the store of n: those whose   *)
(* commit failed there raise the revision and write nothing.                  *)
Present(n, k, i) ==
  LET writes == {j \in 1 .. i : KeyOf(log[j]) = k /\ <<n, j>> \notin failed}
  IN  IF writes = {} THEN k \in Base[n]
      ELSE \E j \in writes : op[log[j]] = "put" /\ \A h \in writes : h <= j

Changes(n, i) == op[log[i]] = "put" \/ Present(n, KeyOf(log[i]), i - 1)

RevAt(n, i) == Cardinality({j \in 1 .. i : Changes(n, j)})

IndexOf(r) == CHOOSE i \in DOMAIN log : log[i] = r

(* A request that was answered with a result is committed, was applied where  *)
(* it was handled, and its commit did not fail there.  The answer says what   *)
(* the log says at its place, less the entries whose commit failed at that    *)
(* node: whether the put created the key, whether the delete found it, and    *)
(* the revision.  The revision of a DELETE answer is its own or that of a     *)
(* later entry.                                                               *)
AnswerMatchesLog ==
  \A r \in Requests : Answered(r, {200, 201, 404}) =>
    LET i == IndexOf(r)
        n == at[r]
        found == Present(n, KeyOf(r), i - 1)
    IN  /\ \E j \in 1 .. applied[n] : log[j] = r
        /\ <<n, i>> \notin failed
        /\ r \in Clients /\ op[r] = "put" =>
             /\ ans[r].status = 201 <=> ~found
             /\ ans[r].rev = RevAt(n, i)
        /\ r \in Clients /\ op[r] = "delete" =>
             /\ ans[r].status = 404 <=> ~found
             /\ ans[r].status = 200 => \E j \in i .. applied[n] : ans[r].rev = RevAt(n, j)

(* However a request is forwarded, refused or orphaned by a broken forward,   *)
(* it enters the log at most once.                                            *)
AtMostOnce ==
  LET all == log \o proposed
  IN  \A i, j \in DOMAIN all : all[i] = all[j] => i = j

(* A client told 503 ("try again later") may repeat the write: the request    *)
(* it gave up on is in no log and will never be.                              *)
RetryIsSafe ==
  \A r \in Requests : Answered(r, {503}) =>
    /\ pc[r] = "done"
    /\ \A i \in DOMAIN (log \o proposed) : (log \o proposed)[i] # r

(* Once one node leads and every serving node knows it, every request in      *)
(* progress is answered: no request waits for ever on a lost future, on a     *)
(* leader whose address is not registered, or at a node it was forwarded to   *)
(* after that node had stopped leading.                                       *)
Settled ==
  /\ leader \in members /\ proc[leader] # "exited"
  /\ \A n \in Nodes : state[n] = "leader" <=> n = leader
  /\ \A n \in Nodes : proc[n] = "serving" => view[n] = leader

AllAnswered == \A r \in Requests : pc[r] # "idle" => ans[r] # None

RequestsAnswered == <>[]Settled => []<>AllAnswered
=============================================================================
