------------------------------ MODULE SDKClient ------------------------------
(***************************************************************************)
(* sdk/client.go against server/server.go and server/watch.go: one client  *)
(* that mirrors a namespace.  New pulls the namespace once (handleList);   *)
(* watchLoop then long-polls (handleWatch) with the revision it adopted    *)
(* last, applies the events, saves the cache file and adopts the revision  *)
(* of the response.                                                        *)
(*                                                                         *)
(* Both handlers read twice: first the entries or the events, then, in a   *)
(* separate critical section, Rev().  Writers, evictions and crashes come  *)
(* in between.  A long poll is modelled at the moment WaitForEvents        *)
(* returns: with the matching events, or with none after its timeout.      *)
(* The client's own steps are split where its process may die and leave a  *)
(* cache file behind.                                                      *)
(***************************************************************************)
EXTENDS WatchableStore

CONSTANTS Watched,      \* the keys of the namespace
          Absent,       \* the key is not in the client's map
          NoFile,       \* there is no cache file
          Corrupt,      \* a cache file that fails the checksum or to parse
          MaxCrashes    \* bound: how often the client process dies

ASSUME ClientAssumption ==
  /\ Watched \subseteq Keys
  /\ Absent \notin Values
  /\ MaxCrashes \in Nat

VARIABLES cpc,        \* "new", "listed", "fallback", "poll", "respond", "saving", "saved"
          configs,    \* c.configs
          revision,   \* c.revision
          pulled,     \* the configs of the list response being built
          got,        \* the events of the watch response being built
          next,       \* the revision of the response being handled
          file,       \* the cache file
          crashes,    \* how often the client died
          seen,       \* history variable: the mutations behind pulled
          range,      \* history variable: the revisions behind pulled or got
          delivered   \* history variable: the mutations behind configs

clientVars == <<cpc, configs, revision, pulled, got, next, file, crashes,
                seen, range, delivered>>

sdkVars == <<wsVars, clientVars>>

View == [Watched -> Values \cup {Absent}]

Empty == [k \in Watched |-> Absent]

SDKInit ==
  /\ WatchableInit
  /\ cpc = "new"
  /\ configs = Empty
  /\ revision = 0
  /\ pulled = Empty
  /\ got = <<>>
  /\ next = 0
  /\ file = NoFile
  /\ crashes = 0
  /\ seen = {}
  /\ range = [lo |-> 0, hi |-> 0]
  /\ delivered = {}

-----------------------------------------------------------------------------
(* The entries of `over' replace those of `base' (the map assignments of    *)
(* fullPull and loadFromCache: a key that is not listed keeps its value).   *)
Merge(base, over) ==
  [k \in Watched |-> IF over[k] = Absent THEN base[k] ELSE over[k]]

(* applyEvents: the last event of a key decides. *)
ApplyEvents(base, events) ==
  [k \in Watched |->
     LET on == {i \in DOMAIN events : events[i].Entry.Key = k}
         last == events[CHOOSE i \in on : \A j \in on : j <= i]
     IN  IF on = {} THEN base[k]
         ELSE IF last.Type = "PUT" THEN last.Entry.Value ELSE Absent]

(* handleList: the List of a full pull. *)
HandleList ==
  /\ cpc = "new" /\ open
  /\ pulled' = [k \in Watched |->
                  IF data[k] = NoEntry THEN Absent ELSE data[k].Value]
  /\ seen' = {m \in hist : m.Key \in Watched}
  /\ range' = [lo |-> 0, hi |-> meta]
  /\ cpc' = "listed"
  /\ UNCHANGED <<wsVars, configs, revision, got, next, file, crashes, delivered>>

(* handleList's Rev(), and what fullPull does with the response. *)
FullPull ==
  /\ cpc = "listed" /\ open
  /\ configs' = Merge(configs, pulled)
  /\ revision' = rev
  /\ next' = rev
  /\ delivered' = seen
  /\ pulled' = Empty
  /\ seen' = {}
  /\ range' = [lo |-> 0, hi |-> 0]
  /\ cpc' = "saving"
  /\ UNCHANGED <<wsVars, got, file, crashes>>

(* The pull fails: no connection, an error status, a broken body. *)
FullPullFails ==
  /\ cpc \in {"new", "listed"}
  /\ cpc' = "fallback"
  /\ pulled' = Empty
  /\ seen' = {}
  /\ range' = [lo |-> 0, hi |-> 0]
  /\ UNCHANGED <<wsVars, configs, revision, got, next, file, crashes, delivered>>

(* loadFromCache.  New ignores its error and starts the watch loop anyway. *)
LoadFromCache ==
  /\ cpc = "fallback"
  /\ cpc' = "poll"
  /\ IF file \in {NoFile, Corrupt}
     THEN UNCHANGED <<configs, revision, delivered>>
     ELSE /\ configs' = Merge(configs, file.configs)
          /\ revision' = file.revision
          /\ delivered' = file.delivered
  /\ UNCHANGED <<wsVars, pulled, got, next, file, crashes, seen, range>>

(* The newest revision in the window. *)
Newest == IF window = <<>> THEN floor ELSE window[Len(window)].Entry.Revision

(* handleWatch: WaitForEvents returns. *)
WaitForEvents ==
  /\ cpc = "poll" /\ open
  /\ got' = Matching(window, revision, Watched)
  /\ range' = [lo |-> floor, hi |-> Newest]
  /\ cpc' = "respond"
  /\ UNCHANGED <<wsVars, configs, revision, pulled, next, file, crashes, seen, delivered>>

(* Mutant of WatchRespond: events are merged in as if all were puts. *)
WatchRespondIgnoresType ==
  /\ cpc = "respond" /\ open
  /\ next' = rev
  /\ configs' = ApplyEvents(configs, [i \in DOMAIN got |-> [got[i] EXCEPT !.Type = "PUT"]])
  /\ delivered' = delivered \cup {MutOf(got[i]) : i \in DOMAIN got}
  /\ got' = <<>>
  /\ range' = [lo |-> 0, hi |-> 0]
  /\ cpc' = IF got = <<>> THEN "saved" ELSE "saving"
  /\ UNCHANGED <<wsVars, revision, pulled, file, crashes, seen>>

(* handleWatch's Rev(), and what watchLoop does with the response up to     *)
(* saveToCache.                                                             *)
WatchRespond ==
  /\ cpc = "respond" /\ open
  /\ next' = rev
  /\ configs' = ApplyEvents(configs, got)
  /\ delivered' = delivered \cup {MutOf(got[i]) : i \in DOMAIN got}
  /\ got' = <<>>
  /\ range' = [lo |-> 0, hi |-> 0]
  /\ cpc' = IF got = <<>> THEN "saved" ELSE "saving"
  /\ UNCHANGED <<wsVars, revision, pulled, file, crashes, seen>>

(* The poll fails: the request, or the decoding of its response. *)
WatchFails ==
  /\ cpc = "respond"
  /\ cpc' = "poll"
  /\ got' = <<>>
  /\ range' = [lo |-> 0, hi |-> 0]
  /\ UNCHANGED <<wsVars, configs, revision, pulled, next, file, crashes, seen, delivered>>

(* saveToCache: the file gets the revision adopted so far, which after a     *)
(* poll is still the one before this response.  Its errors are ignored:      *)
(* without a cache directory the file stays as it is, and os.WriteFile,      *)
(* which truncates first, may fail or be cut short and leave a broken file.  *)
SaveToCache ==
  /\ cpc = "saving"
  /\ file' \in {[configs |-> configs, revision |-> revision, delivered |-> delivered],
                file, Corrupt}
  /\ cpc' = "saved"
  /\ UNCHANGED <<wsVars, configs, revision, pulled, got, next, crashes, seen, range, delivered>>

(* Mutant of Adopt: the loop stays with the first revision it pulled. *)
AdoptOnce ==
  /\ cpc = "saved"
  /\ revision' = IF revision = 0 THEN next ELSE revision
  /\ next' = 0
  /\ cpc' = "poll"
  /\ UNCHANGED <<wsVars, configs, pulled, got, file, crashes, seen, range, delivered>>

(* watchLoop: c.revision = wr.Revision. *)
Adopt ==
  /\ cpc = "saved"
  /\ revision' = IF next > 0 THEN next ELSE revision
  /\ next' = 0
  /\ cpc' = "poll"
  /\ UNCHANGED <<wsVars, configs, pulled, got, file, crashes, seen, range, delivered>>

(* The client process dies and is started again. *)
ClientRestart ==
  /\ crashes < MaxCrashes
  /\ crashes' = crashes + 1
  /\ cpc' = "new"
  /\ configs' = Empty
  /\ revision' = 0
  /\ pulled' = Empty
  /\ got' = <<>>
  /\ next' = 0
  /\ seen' = {}
  /\ range' = [lo |-> 0, hi |-> 0]
  /\ delivered' = {}
  /\ UNCHANGED <<wsVars, file>>

(* A server that stops takes the request it was serving with it: both        *)
(* commands end by a signal or by os.Exit, never by Close while serving.     *)
ServerStop ==
  /\ Stop
  /\ cpc' = CASE cpc = "listed"  -> "fallback"
              [] cpc = "respond" -> "poll"
              [] OTHER           -> cpc
  /\ pulled' = Empty
  /\ got' = <<>>
  /\ seen' = {}
  /\ range' = [lo |-> 0, hi |-> 0]
  /\ UNCHANGED <<configs, revision, next, file, crashes, delivered>>

ClientStep ==
  \/ HandleList \/ FullPull \/ FullPullFails \/ LoadFromCache
  \/ WaitForEvents \/ WatchRespond \/ WatchFails
  \/ SaveToCache \/ Adopt

SDKNext ==
  \/ ClientStep
  \/ ClientRestart
  \/ (\E w \in Writers : Write(w)) /\ UNCHANGED clientVars
  \/ ServerStop
  \/ Restart /\ UNCHANGED clientVars

SDKSpec == SDKInit /\ [][SDKNext]_sdkVars

(* The watch loop runs whenever it can, and a request that is retried for    *)
(* ever eventually gets its response.                                        *)
SDKFairness ==
  /\ WF_sdkVars(HandleList) /\ WF_sdkVars(FullPull) /\ WF_sdkVars(LoadFromCache)
  /\ WF_sdkVars(SaveToCache) /\ WF_sdkVars(Adopt) /\ WF_sdkVars(WaitForEvents)
  /\ SF_sdkVars(WatchRespond)

SDKFairSpec == SDKSpec /\ SDKFairness
-----------------------------------------------------------------------------
(* Type invariant. *)
File == [configs : View, revision : Nat, delivered : SUBSET Mutation]

SDKTypeOK ==
  /\ WatchableTypeOK
  /\ cpc \in {"new", "listed", "fallback", "poll", "respond", "saving", "saved"}
  /\ configs \in View
  /\ revision \in Nat
  /\ pulled \in View
  /\ got \in Seq(Event)
  /\ next \in Nat
  /\ file \in File \cup {NoFile, Corrupt}
  /\ crashes \in 0 .. MaxCrashes
  /\ seen \subseteq Mutation
  /\ range \in [lo : Nat, hi : Nat]
  /\ delivered \subseteq Mutation

(* What key k holds after the mutations S. *)
Replay(S, k) ==
  LET on == {m \in S : m.Key = k}
      last == CHOOSE m \in on : \A n \in on : n.Rev <= m.Rev
  IN  IF on = {} \/ last.Type = "DELETE" THEN Absent ELSE last.Value

(* The client's map is the mutations it was given, replayed in revision      *)
(* order: across pulls, batches, redeliveries after a restart from the cache *)
(* file and server restarts, an older value never overwrites a newer one.    *)
ViewMatchesDelivered == \A k \in Watched : configs[k] = Replay(delivered, k)

(* A full pull moves the cursor past a mutation it did not deliver only if   *)
(* the mutation was committed after List had read the entries; a poll does   *)
(* so only if the mutation had left the window (evicted, or of an earlier    *)
(* process) or its event was appended after WaitForEvents had returned.      *)
(* Left out is a mutation committed at or below a cursor that is ahead of    *)
(* the server: a failed commit had handed out its revision before a restart. *)
LossesExplained ==
  [][FullPull \/ WatchRespond =>
       \A m \in hist :
         /\ m.Key \in Watched /\ m.Rev > revision /\ m.Rev <= next'
         /\ m \notin delivered'
         => m.Rev <= range.lo \/ m.Rev > range.hi]_sdkVars

(* Once the server stays up, the watch loop keeps catching up with the       *)
(* server's revision: no sequence of failed polls, restarts and cache loads  *)
(* leaves it polling with a revision of its own for ever.  (A server whose   *)
(* revision is 0 is left out: watchLoop ignores a revision of 0, so a client *)
(* that saw revisions a failed commit had handed out keeps its cursor.)      *)
CursorCatchesUp == <>[](open /\ rev > 0) => []<>(revision = rev)

(* docs/series/03-watch-ring-buffer.md line 99: a poll that times out        *)
(* "comes back empty-handed" and erases nothing, the next poll still gets a  *)
(* write made after the timeout.  So an empty response never moves the       *)
(* cursor past a mutation that was not delivered.                            *)
EmptyPollLosesNothing ==
  [][(cpc = "respond" /\ got = <<>> /\ cpc' = "saved") =>
       \A m \in hist :
         (m.Key \in Watched /\ m.Rev > revision /\ m.Rev <= next') => m \in delivered]_sdkVars
=============================================================================
