--------------------------------- MODULE FSM ---------------------------------
(***************************************************************************)
(* raft/node.go: the state machine every cluster node runs under           *)
(* hashicorp/raft, on its own BoltStore file.                              *)
(*                                                                         *)
(* The library is external: it agrees on one log of committed operations   *)
(* and calls Apply, Snapshot and Restore on one goroutine per node, in log *)
(* order.  It does not persist how far a node has applied: a node that     *)
(* starts restores its latest snapshot, if any, and is then given the log  *)
(* from there on, although its data.db already holds the effects.  A node  *)
(* too far behind is sent another node's snapshot instead of log entries.  *)
(*                                                                         *)
(* Restore is a loop of BoltStore.Put over the snapshot's entries in key   *)
(* order: nothing is removed first, the snapshot's revision is not used    *)
(* and no watch event is emitted.  The loop may stop after some of them,   *)
(* because a Put fails or because the process dies.                        *)
(***************************************************************************)
EXTENDS StoreOps, FiniteSets

CONSTANTS Nodes,
          KeyRank,      \* the byte order of the keys, as a number per key
          NoSnapshot,
          Capacity,     \* how many events the watch cache keeps
          MaxLog,       \* bound: length of the log
          MaxRestarts,  \* bound: restarts of nodes
          MaxFailures   \* bound: failed store commits in Apply or Restore

ASSUME FSMAssumption ==
  /\ KeyRank \in [Keys -> Nat]
  /\ \A j, k \in Keys : KeyRank[j] = KeyRank[k] => j = k
  /\ Capacity \in Nat \ {0} /\ MaxLog \in Nat /\ MaxRestarts \in Nat /\ MaxFailures \in Nat
  /\ NoEntry \notin Values

VARIABLES log,       \* external: the committed operations
          up,        \* node -> it is running
          data,      \* node -> bucketData
          meta,      \* node -> current_revision on disk
          rev,       \* node -> s.rev
          window,    \* node -> the events of its watch cache, oldest first
          applied,   \* node -> index of the last log entry given to the FSM
          snap,      \* node -> its latest snapshot
          high,      \* history variable: the largest index whose effects may
                     \* be in data
          restarts,  \* how many nodes were stopped so far
          restarted, \* history variable: the nodes that were stopped
          failures,  \* failed commits so far
          installed, \* history variable: nodes that were sent a snapshot
          overlaid,  \* history variable: nodes that were sent a snapshot over
                     \* existing data, or the snapshot of such a node
          damaged    \* history variable: nodes that missed an operation or a
                     \* snapshot in a failed commit, their own or, by its
                     \* snapshot, that of another node

fsmVars == <<log, up, data, meta, rev, window, applied, snap, high, restarts,
             restarted, failures, installed, overlaid, damaged>>

(* Op.  A delete has no value. *)
Op == [type : {"put"}, key : Keys, value : Values]
        \cup [type : {"delete"}, key : Keys]

FSMInit ==
  /\ log = <<>>
  /\ up = [n \in Nodes |-> TRUE]
  /\ data = [n \in Nodes |-> [k \in Keys |-> NoEntry]]
  /\ meta = [n \in Nodes |-> 0]
  /\ rev = [n \in Nodes |-> 0]
  /\ window = [n \in Nodes |-> <<>>]
  /\ applied = [n \in Nodes |-> 0]
  /\ snap = [n \in Nodes |-> NoSnapshot]
  /\ high = [n \in Nodes |-> 0]
  /\ restarts = 0
  /\ restarted = {}
  /\ failures = 0
  /\ installed = {}
  /\ overlaid = {}
  /\ damaged = {}

MaxOf(a, b) == IF a > b THEN a ELSE b

(* hashicorp/raft commits an operation that Node.Apply submitted. *)
Commit(op) ==
  /\ Len(log) < MaxLog
  /\ log' = Append(log, op)
  /\ UNCHANGED <<up, data, meta, rev, window, applied, snap, high, restarts, restarted,
                 failures, installed, overlaid, damaged>>

(* The next log entry is handed to the FSM of n. *)
Deliver(n) ==
  /\ up[n] /\ applied[n] < Len(log)
  /\ applied' = [applied EXCEPT ![n] = @ + 1]
  /\ high' = [high EXCEPT ![n] = MaxOf(@, applied[n] + 1)]
  /\ UNCHANGED <<log, up, snap, restarts, restarted, installed, overlaid>>

(* Does the operation change the store of n?  A delete of a missing key is   *)
(* ErrKeyNotFound.                                                           *)
Effective(n, op) == op.type = "put" \/ data[n][op.key] # NoEntry

(* Mutant of Apply: a delete of a missing key bumps the revision, too. *)
ApplyBumpsAlways(n) ==
  LET op == log[applied[n] + 1]
  IN  /\ Deliver(n)
      /\ data' = [data EXCEPT ![n][op.key] =
                    IF op.type = "put"
                    THEN NewEntry(@, op.key, op.value, rev[n] + 1) ELSE NoEntry]
      /\ rev' = [rev EXCEPT ![n] = @ + 1]
      /\ meta' = [meta EXCEPT ![n] = rev[n] + 1]
      /\ UNCHANGED <<window, failures, damaged>>

(* Mutant of Apply: deletes are not applied. *)
ApplyIgnoresDelete(n) ==
  LET op == log[applied[n] + 1]
  IN  /\ Deliver(n)
      /\ IF op.type = "put"
         THEN /\ data' = [data EXCEPT ![n][op.key] =
                            NewEntry(@, op.key, op.value, rev[n] + 1)]
              /\ rev' = [rev EXCEPT ![n] = @ + 1]
              /\ meta' = [meta EXCEPT ![n] = rev[n] + 1]
         ELSE UNCHANGED <<data, rev, meta>>
      /\ UNCHANGED <<window, failures, damaged>>

(* The event the WatchableStore of n appends for an operation. *)
EventOf(n, op) ==
  IF op.type = "put"
  THEN PutEvent(data[n][op.key], op.key, op.value, rev[n] + 1)
  ELSE DeleteEvent(data[n][op.key], rev[n] + 1)

(* Mutant of Apply: the operation goes to the BoltStore, past the watch cache. *)
ApplySilently(n) ==
  LET op == log[applied[n] + 1]
  IN  /\ Deliver(n)
      /\ IF Effective(n, op)
         THEN /\ data' = [data EXCEPT ![n][op.key] =
                            IF op.type = "put"
                            THEN NewEntry(@, op.key, op.value, rev[n] + 1)
                            ELSE NoEntry]
              /\ rev' = [rev EXCEPT ![n] = @ + 1]
              /\ meta' = [meta EXCEPT ![n] = rev[n] + 1]
              /\ window' = IF op.type = "put"
                           THEN [window EXCEPT ![n] = Push(@, EventOf(n, op), Capacity)]
                           ELSE window
         ELSE UNCHANGED <<data, rev, meta, window>>
      /\ UNCHANGED <<failures, damaged>>

(* FSM.Apply, on the WatchableStore: a change is also an event. *)
Apply(n) ==
  LET op == log[applied[n] + 1]
  IN  /\ Deliver(n)
      /\ IF Effective(n, op)
         THEN /\ data' = [data EXCEPT ![n][op.key] =
                            IF op.type = "put"
                            THEN NewEntry(@, op.key, op.value, rev[n] + 1)
                            ELSE NoEntry]
              /\ rev' = [rev EXCEPT ![n] = @ + 1]
              /\ meta' = [meta EXCEPT ![n] = rev[n] + 1]
              /\ window' = [window EXCEPT ![n] = Push(@, EventOf(n, op), Capacity)]
         ELSE UNCHANGED <<data, rev, meta, window>>
      /\ UNCHANGED <<failures, damaged>>

(* FSM.Apply whose store commit fails: the error goes into the OpResult and  *)
(* raft moves on to the next entry.                                          *)
ApplyFails(n) ==
  /\ failures < MaxFailures
  /\ Deliver(n)
  /\ Effective(n, log[applied[n] + 1])
  /\ rev' = [rev EXCEPT ![n] = @ + 1]
  /\ failures' = failures + 1
  /\ damaged' = damaged \cup {n}
  /\ UNCHANGED <<data, meta, window>>

(* Mutant of Snapshot: the snapshot claims the next entry as well. *)
SnapshotOffByOne(n) ==
  /\ up[n] /\ applied[n] > 0
  /\ snap[n] # NoSnapshot => snap[n].index < applied[n]
  /\ snap' = [snap EXCEPT ![n] = [index |-> applied[n] + 1, entries |-> data[n],
                                  rev |-> rev[n], upto |-> high[n]]]
  /\ UNCHANGED <<log, up, data, meta, rev, window, applied, high, restarts, restarted,
                 failures, installed, overlaid, damaged>>

(* FSM.Snapshot collects the entries on the FSM goroutine; Persist writes    *)
(* them out as they were, so it adds nothing to the step (a Persist that     *)
(* fails leaves no snapshot, as if none had been taken).  The field upto is  *)
(* not part of the file: it records high, because a snapshot taken during a  *)
(* replay holds effects of later entries.                                    *)
Snapshot(n) ==
  /\ up[n] /\ applied[n] > 0
  /\ snap[n] # NoSnapshot => snap[n].index < applied[n]
  /\ snap' = [snap EXCEPT ![n] = [index |-> applied[n], entries |-> data[n],
                                  rev |-> rev[n], upto |-> high[n]]]
  /\ UNCHANGED <<log, up, data, meta, rev, window, applied, high, restarts, restarted,
                 failures, installed, overlaid, damaged>>

Listed(s) == {k \in Keys : s.entries[k] # NoEntry}

(* The entries Restore has put when it stops at key c. *)
Before(s, c) == {k \in Listed(s) : KeyRank[k] < KeyRank[c]}

(* Mutant of RestoreData: a key that is there already is not put again. *)
RestoreDataKeeps(d, r, s, done) ==
  [k \in Keys |->
     IF k \in done /\ d[k] = NoEntry
     THEN NewEntry(d[k], k, s.entries[k].Value,
                   r + Cardinality({j \in done : KeyRank[j] <= KeyRank[k]}))
     ELSE d[k]]

(* FSM.Restore: the store of a node with buckets d and revision r after the  *)
(* keys `done' of snapshot s were put in key order.                          *)
RestoreData(d, r, s, done) ==
  [k \in Keys |->
     IF k \in done
     THEN NewEntry(d[k], k, s.entries[k].Value,
                   r + Cardinality({j \in done : KeyRank[j] <= KeyRank[k]}))
     ELSE d[k]]

RestoreRev(r, done) == r + Cardinality(done)

(* What the puts of `done' write into the file of n, whose cached revision   *)
(* is r.                                                                     *)
RestoreFile(n, r, s, done) ==
  /\ data' = [data EXCEPT ![n] = RestoreData(@, r, s, done)]
  /\ meta' = [meta EXCEPT ![n] = IF done = {} THEN @ ELSE RestoreRev(r, done)]

(* A node that lags behind the log its leader still has is sent m's snapshot; *)
(* raft stores it before it calls Restore.                                    *)
ReceiveSnapshot(n, m) ==
  /\ up[n] /\ up[m] /\ n # m
  /\ snap[m] # NoSnapshot /\ snap[m].index > applied[n]
  /\ high' = [high EXCEPT ![n] = MaxOf(@, snap[m].upto)]
  /\ snap' = [snap EXCEPT ![n] = snap[m]]
  /\ installed' = installed \cup {n}
  /\ UNCHANGED <<log, up, window, restarts, restarted>>

(* A snapshot of m put over what n holds. *)
Overlay(n, m) ==
  overlaid' = IF m \in overlaid \/ \E k \in Keys : data[n][k] # NoEntry
              THEN overlaid \cup {n} ELSE overlaid

(* Mutant of InstallSnapshot: the snapshot's revision is adopted, as if the   *)
(* store had been replaced.                                                   *)
InstallSnapshotAdoptsRev(n, m) ==
  /\ ReceiveSnapshot(n, m)
  /\ data' = [data EXCEPT ![n] = snap[m].entries]
  /\ meta' = [meta EXCEPT ![n] = snap[m].rev]
  /\ rev' = [rev EXCEPT ![n] = snap[m].rev]
  /\ applied' = [applied EXCEPT ![n] = snap[m].index]
  /\ Overlay(n, m)
  /\ damaged' = IF m \in damaged THEN damaged \cup {n} ELSE damaged
  /\ UNCHANGED failures

InstallSnapshot(n, m) ==
  /\ ReceiveSnapshot(n, m)
  /\ RestoreFile(n, rev[n], snap[m], Listed(snap[m]))
  /\ rev' = [rev EXCEPT ![n] = RestoreRev(@, Listed(snap[m]))]
  /\ applied' = [applied EXCEPT ![n] = snap[m].index]
  /\ Overlay(n, m)
  /\ damaged' = IF m \in damaged THEN damaged \cup {n} ELSE damaged
  /\ UNCHANGED failures

(* The Put of key c fails: Restore returns its error, the keys before c are   *)
(* restored, and the node stays where it was in the log.                      *)
InstallSnapshotFails(n, m, c) ==
  /\ failures < MaxFailures
  /\ ReceiveSnapshot(n, m)
  /\ c \in Listed(snap[m])
  /\ RestoreFile(n, rev[n], snap[m], Before(snap[m], c))
  /\ rev' = [rev EXCEPT ![n] = RestoreRev(@, Before(snap[m], c)) + 1]
  /\ failures' = failures + 1
  /\ Overlay(n, m)
  /\ damaged' = damaged \cup {n}
  /\ UNCHANGED applied

(* Node.Shutdown, or the process dies: the watch cache is lost. *)
Shutdown(n) ==
  /\ up[n] /\ restarts < MaxRestarts
  /\ up' = [up EXCEPT ![n] = FALSE]
  /\ window' = [window EXCEPT ![n] = <<>>]
  /\ restarts' = restarts + 1
  /\ restarted' = restarted \cup {n}
  /\ UNCHANGED <<log, data, meta, rev, applied, snap, high, failures, installed,
                 overlaid, damaged>>

(* Mutant of NewNode: the revision is not loaded from the file. *)
NewNodeFromZero(n) ==
  /\ ~up[n]
  /\ up' = [up EXCEPT ![n] = TRUE]
  /\ rev' = [rev EXCEPT ![n] = 0]
  /\ applied' = [applied EXCEPT ![n] = IF snap[n] = NoSnapshot THEN 0 ELSE snap[n].index]
  /\ UNCHANGED <<log, data, meta, window, snap, high, restarts, restarted,
                 failures, installed, overlaid, damaged>>

(* NewNode: NewBoltStore loads the revision, then raft restores the latest   *)
(* snapshot and starts again from its index, or from the first log entry.    *)
NewNode(n) ==
  /\ ~up[n]
  /\ up' = [up EXCEPT ![n] = TRUE]
  /\ IF snap[n] = NoSnapshot
     THEN /\ rev' = [rev EXCEPT ![n] = meta[n]]
          /\ applied' = [applied EXCEPT ![n] = 0]
          /\ UNCHANGED <<data, meta>>
     ELSE /\ RestoreFile(n, meta[n], snap[n], Listed(snap[n]))
          /\ rev' = [rev EXCEPT ![n] = RestoreRev(meta[n], Listed(snap[n]))]
          /\ applied' = [applied EXCEPT ![n] = snap[n].index]
  /\ UNCHANGED <<log, window, snap, high, restarts, restarted,
                 failures, installed, overlaid, damaged>>

(* NewNode whose Restore stops at key c, by an error or because the process   *)
(* dies: the node is still down, and its file is partly restored.             *)
NewNodeFails(n, c) ==
  /\ ~up[n] /\ failures < MaxFailures
  /\ snap[n] # NoSnapshot /\ c \in Listed(snap[n])
  /\ RestoreFile(n, meta[n], snap[n], Before(snap[n], c))
  /\ applied' = [applied EXCEPT ![n] = snap[n].index]
  /\ failures' = failures + 1
  /\ UNCHANGED <<log, up, rev, window, snap, high, restarts, restarted, installed,
                 overlaid, damaged>>

FSMNext ==
  \/ \E op \in Op : Commit(op)
  \/ \E n \in Nodes : \/ Apply(n) \/ ApplyFails(n) \/ Snapshot(n)
                      \/ Shutdown(n) \/ NewNode(n)
                      \/ \E c \in Keys : NewNodeFails(n, c)
                      \/ \E m \in Nodes :
                           \/ InstallSnapshot(n, m)
                           \/ \E c \in Keys : InstallSnapshotFails(n, m, c)

FSMSpec == FSMInit /\ [][FSMNext]_fsmVars
-----------------------------------------------------------------------------
SnapshotData == [index : Nat, entries : [Keys -> Entry \cup {NoEntry}],
                 rev : Nat, upto : Nat]

(* Type invariant; a node never runs ahead of the log or of its own past. *)
FSMTypeOK ==
  /\ log \in Seq(Op)
  /\ up \in [Nodes -> BOOLEAN]
  /\ data \in [Nodes -> [Keys -> Entry \cup {NoEntry}]]
  /\ meta \in [Nodes -> Nat]
  /\ rev \in [Nodes -> Nat]
  /\ applied \in [Nodes -> Nat]
  /\ high \in [Nodes -> Nat]
  /\ snap \in [Nodes -> SnapshotData \cup {NoSnapshot}]
  /\ restarts \in Nat
  /\ restarted \subseteq Nodes
  /\ failures \in Nat
  /\ installed \subseteq Nodes
  /\ overlaid \subseteq Nodes
  /\ damaged \subseteq Nodes
  /\ window \in [Nodes -> Seq(Event)]
  /\ \A n \in Nodes : applied[n] <= high[n] /\ high[n] <= Len(log)

(* The reference: what the first i operations of the log mean. *)
OpsOn(i, k) == {j \in 1 .. i : log[j].key = k}

LastOn(i, k) == CHOOSE j \in OpsOn(i, k) : \A h \in OpsOn(i, k) : h <= j

PresentAt(i, k) == OpsOn(i, k) # {} /\ log[LastOn(i, k)].type = "put"

ValueAt(i, k) == IF PresentAt(i, k) THEN log[LastOn(i, k)].value ELSE NoEntry

RevAt(i) ==
  Cardinality({j \in 1 .. i : log[j].type = "put" \/ PresentAt(j - 1, log[j].key)})

(* The puts of k's current life. *)
LifeAt(i, k) ==
  {j \in OpsOn(i, k) : \A h \in OpsOn(i, k) : h >= j => log[h].type = "put"}

EntryAt(i, k) ==
  LET first == CHOOSE j \in LifeAt(i, k) : \A h \in LifeAt(i, k) : j <= h
  IN  IF ~PresentAt(i, k) THEN NoEntry
      ELSE [Key            |-> k,
            Value          |-> log[LastOn(i, k)].value,
            Revision       |-> RevAt(LastOn(i, k)),
            CreateRevision |-> RevAt(first),
            ModRevision    |-> RevAt(LastOn(i, k)),
            Version        |-> Cardinality(LifeAt(i, k))]

Value(n, k) == IF data[n][k] = NoEntry THEN NoEntry ELSE data[n][k].Value

(* A node that only ever applied the log (no restart, no snapshot installed, *)
(* no failed commit) holds exactly what the log says: values, the global     *)
(* revision and every per-key revision and version.  So such nodes agree.    *)
LogDeterminesStore ==
  \A n \in Nodes \ (damaged \cup installed \cup restarted) :
    /\ rev[n] = RevAt(applied[n])
    /\ \A k \in Keys : data[n][k] = EntryAt(applied[n], k)

(* A node that restarts applies operations a second time on top of its file, *)
(* perhaps after a restore that stopped halfway, and may hand out snapshots  *)
(* or be stopped again meanwhile.  Every key then holds a value that the log *)
(* gave it at some index between the replay and where the node was before;   *)
(* once the replay has caught up, the value the log says.                    *)
ReplayIsHarmless ==
  \A n \in Nodes \ (damaged \cup overlaid), k \in Keys :
    \E i \in applied[n] .. high[n] : Value(n, k) = ValueAt(i, k)

(* A snapshot sent over existing data leaves behind only what the log has    *)
(* deleted: a key the log has throughout holds a value of its own from that  *)
(* time, and any other key is absent or holds a value the log gave it once.  *)
OnlyDeletedKeysLinger ==
  \A n \in Nodes \ damaged, k \in Keys :
    \/ \E i \in applied[n] .. high[n] : Value(n, k) = ValueAt(i, k)
    \/ /\ \E i \in applied[n] .. high[n] : ~PresentAt(i, k)
       /\ \E i \in 0 .. high[n] : Value(n, k) = ValueAt(i, k)

(* Replays only ever inflate the revision: a node that applied the log       *)
(* itself never reports less than the log's own count of changes.            *)
RevisionNotBehind ==
  \A n \in Nodes \ (damaged \cup installed) : rev[n] >= RevAt(high[n])

(* Through replays, restarts, failed commits and snapshots the events of a   *)
(* node are in the order of their revisions, and the node's revision, which  *)
(* its answers carry, is never behind them.                                  *)
EventsNotAhead ==
  \A n \in Nodes :
    /\ \A i, j \in DOMAIN window[n] :
         i < j => window[n][i].Entry.Revision < window[n][j].Entry.Revision
    /\ \A i \in DOMAIN window[n] : window[n][i].Entry.Revision <= rev[n]

(* On a node that was not sent a snapshot, the latest event of a key in the  *)
(* window says what the store holds, whatever failed, was replayed or was    *)
(* restored at the start.                                                    *)
EventsTellTheStore ==
  \A n \in Nodes \ installed : \A i \in DOMAIN window[n] :
    LET ev == window[n][i]
        k  == ev.Entry.Key
    IN  (\A j \in DOMAIN window[n] : j > i => window[n][j].Entry.Key # k) =>
          data[n][k] = (IF ev.Type = "PUT" THEN ev.Entry ELSE NoEntry)

(* docs/series/04-raft-fsm.md line 107: after a restart the node recovers    *)
(* "the state before the shutdown", the revision included.                   *)
RestartKeepsRevision ==
  \A n \in Nodes \ (damaged \cup installed) :
    (up[n] /\ applied[n] = high[n]) => rev[n] = RevAt(applied[n])
=============================================================================
