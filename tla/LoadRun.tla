------------------------------- MODULE LoadRun -------------------------------
(***************************************************************************)
(* bench/load.go with bench/counters.go, bench/scenarios.go and the        *)
(* interrupt of cmd/paladin-bench: a run of the load generator.  Workers   *)
(* start together, send one request after the other, count each outcome    *)
(* in shared counters and each latency in a histogram of their own.  The   *)
(* main goroutine waits for the end of the window or an interrupt, cancels *)
(* the workers, waits for all of them and merges the histograms.           *)
(*                                                                         *)
(* Time is two phases, warm-up and measurement; a latency is part of the   *)
(* outcome of a request, so any latency may come at any time.              *)
(***************************************************************************)
EXTENDS Hist

CONSTANTS Workers,
          Scenarios,     \* subset of {"write_only", "read_only", "mixed"}
          Outcomes,      \* [code, lat]: what a request may meet; code 0 is a
                         \* transport error
          NumKeys,       \* size of the key pool
          Cycle,         \* the 100 of Mixed.Step
          ReadShare,     \* readPercent, of Cycle
          MaxSteps       \* bound: after so many requests no worker begins another

ASSUME LoadAssumption ==
  /\ Scenarios \subseteq {"write_only", "read_only", "mixed"}
  /\ Outcomes \subseteq [code : Nat, lat : Nat] /\ IsFiniteSet(Outcomes)
  /\ \A o \in Outcomes : o.lat < MaxUint64
  /\ IsFiniteSet(Workers) /\ Workers # {}
  /\ NumKeys \in Nat \ {0} /\ Cycle \in Nat \ {0} /\ ReadShare \in 0 .. Cycle
  /\ MaxSteps \in Nat

VARIABLES scenario,     \* the scenario of this run
          capped,       \* RPSCap > 0
          mpc,          \* Run: "setup", "run", "drain", "done", "failed"
          loaded,       \* keys Setup has put
          interrupted,  \* the signal handler has cancelled ctx
          cancelled,    \* Run has cancelled runCtx
          measuring,    \* now >= measureStart
          tick,         \* a tick is in ticker.C
          wpc,          \* worker -> where it is
          req,          \* worker -> its request: sent in warm-up, and the outcome
          hists,        \* worker -> its Hist
          status,       \* Counters.status
          errs,         \* Counters.err
          counter,      \* the request counter of the scenario
          reads,        \* history variable: how many of them were reads
          answered,     \* history variable: how often each outcome was met
                        \* by a request sent in the window
          result        \* the Result, or NewHist's summary before

loadVars == <<scenario, capped, mpc, loaded, interrupted, cancelled, measuring, tick,
              wpc, req, hists, status, errs, counter, reads, answered, result>>

NoRequest == [warm |-> FALSE, code |-> 0, lat |-> 0]

NoResult == [Count |-> 0, Errors |-> 0, StatusClass |-> [c \in 0 .. 5 |-> 0],
             Latency |-> Summary(NewHist)]

LoadInit ==
  /\ scenario \in Scenarios
  /\ capped \in BOOLEAN
  /\ mpc = "setup"
  /\ loaded = 0
  /\ interrupted = FALSE
  /\ cancelled = FALSE
  /\ measuring = FALSE
  /\ tick = FALSE
  /\ wpc = [w \in Workers |-> "gate"]
  /\ req = [w \in Workers |-> NoRequest]
  /\ hists = [w \in Workers |-> NewHist]
  /\ status = [c \in 0 .. 5 |-> 0]
  /\ errs = 0
  /\ counter = 0
  /\ reads = 0
  /\ answered = [o \in Outcomes |-> 0]
  /\ result = NoResult

(* runCtx.Err() != nil: runCtx is a child of ctx. *)
Stopped == cancelled \/ interrupted
-----------------------------------------------------------------------------
(* Mutant of SetupPut: the loop over the keys runs once too often. *)
SetupPutOffByOne ==
  /\ mpc = "setup" /\ scenario # "write_only" /\ loaded <= NumKeys /\ ~interrupted
  /\ loaded' = loaded + 1
  /\ UNCHANGED <<scenario, capped, mpc, interrupted, cancelled, measuring, tick, wpc,
                 req, hists, status, errs, counter, reads, answered, result>>

(* Setup: write_only has nothing to do, the others put every key first. *)
SetupPut ==
  /\ mpc = "setup" /\ scenario # "write_only" /\ loaded < NumKeys /\ ~interrupted
  /\ loaded' = loaded + 1
  /\ UNCHANGED <<scenario, capped, mpc, interrupted, cancelled, measuring, tick, wpc,
                 req, hists, status, errs, counter, reads, answered, result>>

(* A put is refused, or the interrupt ends it: Run returns the error and      *)
(* paladin-bench exits without a report.                                     *)
SetupFails ==
  /\ mpc = "setup" /\ scenario # "write_only" /\ loaded < NumKeys
  /\ mpc' = "failed"
  /\ UNCHANGED <<scenario, capped, loaded, interrupted, cancelled, measuring, tick, wpc,
                 req, hists, status, errs, counter, reads, answered, result>>

(* The workers exist and close(started) opens the gate. *)
Start ==
  /\ mpc = "setup"
  /\ scenario = "write_only" \/ loaded = NumKeys
  /\ mpc' = "run"
  /\ wpc' = [w \in Workers |-> "check"]
  /\ UNCHANGED <<scenario, capped, loaded, interrupted, cancelled, measuring, tick, req,
                 hists, status, errs, counter, reads, answered, result>>

(* The clock passes measureStart. *)
WarmUpOver ==
  /\ mpc \in {"run", "drain"} /\ ~measuring
  /\ measuring' = TRUE
  /\ UNCHANGED <<scenario, capped, mpc, loaded, interrupted, cancelled, tick, wpc, req,
                 hists, status, errs, counter, reads, answered, result>>

(* The ticker's channel holds one tick; a second one is dropped. *)
Tick ==
  /\ mpc \in {"run", "drain"} /\ capped /\ ~tick
  /\ tick' = TRUE
  /\ UNCHANGED <<scenario, capped, mpc, loaded, interrupted, cancelled, measuring, wpc,
                 req, hists, status, errs, counter, reads, answered, result>>

(* runCmd: the first SIGINT or SIGTERM cancels ctx. *)
Interrupt ==
  /\ mpc \in {"setup", "run", "drain"} /\ ~interrupted
  /\ interrupted' = TRUE
  /\ UNCHANGED <<scenario, capped, mpc, loaded, cancelled, measuring, tick, wpc, req,
                 hists, status, errs, counter, reads, answered, result>>

(* The loop's condition. *)
Check(w) ==
  /\ wpc[w] = "check" /\ (Stopped \/ counter < MaxSteps)
  /\ wpc' = [wpc EXCEPT ![w] = IF Stopped THEN "exited" ELSE IF capped THEN "tick" ELSE "send"]
  /\ UNCHANGED <<scenario, capped, mpc, loaded, interrupted, cancelled, measuring, tick,
                 req, hists, status, errs, counter, reads, answered, result>>

(* The select: a tick, or the end of the run; with both, either. *)
TakeTick(w) ==
  /\ wpc[w] = "tick" /\ tick
  /\ tick' = FALSE
  /\ wpc' = [wpc EXCEPT ![w] = "send"]
  /\ UNCHANGED <<scenario, capped, mpc, loaded, interrupted, cancelled, measuring, req,
                 hists, status, errs, counter, reads, answered, result>>

TickCancelled(w) ==
  /\ wpc[w] = "tick" /\ Stopped
  /\ wpc' = [wpc EXCEPT ![w] = "exited"]
  /\ UNCHANGED <<scenario, capped, mpc, loaded, interrupted, cancelled, measuring, tick,
                 req, hists, status, errs, counter, reads, answered, result>>

(* Is request number i a read? *)
IsRead(i) ==
  \/ scenario = "read_only"
  \/ scenario = "mixed" /\ i % Cycle < ReadShare

(* Mutant of Send: the counter is read and written separately, so that two   *)
(* workers may take the same number.                                         *)
SendRacy(w) ==
  /\ wpc[w] = "send"
  /\ \E i \in {counter, counter + 1} :
       /\ counter' = i
       /\ reads' = IF IsRead(i) THEN reads + 1 ELSE reads
  /\ req' = [req EXCEPT ![w] = [NoRequest EXCEPT !.warm = ~measuring]]
  /\ wpc' = [wpc EXCEPT ![w] = "wait"]
  /\ UNCHANGED <<scenario, capped, mpc, loaded, interrupted, cancelled, measuring, tick,
                 hists, status, errs, answered, result>>

(* t0 is taken and Step picks its number, its key and its endpoint from      *)
(* atomic counters.                                                          *)
Send(w) ==
  /\ wpc[w] = "send"
  /\ counter' = counter + 1
  /\ reads' = IF IsRead(counter + 1) THEN reads + 1 ELSE reads
  /\ req' = [req EXCEPT ![w] = [NoRequest EXCEPT !.warm = ~measuring]]
  /\ wpc' = [wpc EXCEPT ![w] = "wait"]
  /\ UNCHANGED <<scenario, capped, mpc, loaded, interrupted, cancelled, measuring, tick,
                 hists, status, errs, answered, result>>

(* Step returns what the request met. *)
Receive(w, o) ==
  /\ wpc[w] = "wait"
  /\ req' = [req EXCEPT ![w].code = o.code, ![w].lat = o.lat]
  /\ wpc' = [wpc EXCEPT ![w] = "filter"]
  /\ answered' = IF req[w].warm THEN answered ELSE [answered EXCEPT ![o] = @ + 1]
  /\ UNCHANGED <<scenario, capped, mpc, loaded, interrupted, cancelled, measuring, tick,
                 hists, status, errs, counter, reads, result>>

(* Step returns the error of a request that the end of the run cut off. *)
Abort(w, l) ==
  /\ wpc[w] = "wait" /\ Stopped
  /\ req' = [req EXCEPT ![w].code = 0, ![w].lat = l]
  /\ wpc' = [wpc EXCEPT ![w] = "filter"]
  /\ UNCHANGED <<scenario, capped, mpc, loaded, interrupted, cancelled, measuring, tick,
                 hists, status, errs, counter, reads, answered, result>>

(* Mutant of Dropped: an aborted request counts as an error. *)
DroppedWarmUp(r) == r.warm

(* The two filters: a warm-up request, or an error after the end of the run. *)
Dropped(r) == r.warm \/ (r.code = 0 /\ Stopped)

(* AddStatus: the class of a code and whether it is an error. *)
Class(code) == IF code \div 100 > 5 THEN 0 ELSE code \div 100

IsError(code) == ~(200 <= code /\ code < 400)

(* The filters, then AddStatus. *)
Filter(w) ==
  /\ wpc[w] = "filter"
  /\ IF Dropped(req[w])
     THEN /\ wpc' = [wpc EXCEPT ![w] = "check"]
          /\ req' = [req EXCEPT ![w] = NoRequest]
          /\ UNCHANGED <<status, errs>>
     ELSE /\ wpc' = [wpc EXCEPT ![w] = "observe"]
          /\ status' = [status EXCEPT ![Class(req[w].code)] = @ + 1]
          /\ errs' = IF IsError(req[w].code) THEN errs + 1 ELSE errs
          /\ UNCHANGED req
  /\ UNCHANGED <<scenario, capped, mpc, loaded, interrupted, cancelled, measuring, tick,
                 hists, counter, reads, answered, result>>

ObserveLatency(w) ==
  /\ wpc[w] = "observe"
  /\ hists' = [hists EXCEPT ![w] = Observe(@, req[w].lat)]
  /\ req' = [req EXCEPT ![w] = NoRequest]
  /\ wpc' = [wpc EXCEPT ![w] = "check"]
  /\ UNCHANGED <<scenario, capped, mpc, loaded, interrupted, cancelled, measuring, tick,
                 status, errs, counter, reads, answered, result>>

(* Mutant of Cancel: the workers are waited for and never told. *)
CancelForgotten ==
  /\ mpc = "run" /\ (measuring \/ interrupted)
  /\ mpc' = "drain"
  /\ UNCHANGED <<scenario, capped, loaded, interrupted, cancelled, measuring, tick, wpc,
                 req, hists, status, errs, counter, reads, answered, result>>

(* The window has passed, or ctx is done: cancel(). *)
Cancel ==
  /\ mpc = "run" /\ (measuring \/ interrupted)
  /\ mpc' = "drain"
  /\ cancelled' = TRUE
  /\ UNCHANGED <<scenario, capped, loaded, interrupted, measuring, tick, wpc, req, hists,
                 status, errs, counter, reads, answered, result>>

(* The histograms of all workers, merged into a new one. *)
Total == FoldFunctionOnSet(LAMBDA h, t : Merge(t, h), NewHist, hists, Workers)

(* wg.Wait(), then the merge and the Result. *)
Finish ==
  /\ mpc = "drain" /\ \A w \in Workers : wpc[w] = "exited"
  /\ result' = [Count |-> Total.count, Errors |-> errs, StatusClass |-> status,
                Latency |-> Summary(Total)]
  /\ mpc' = "done"
  /\ UNCHANGED <<scenario, capped, loaded, interrupted, cancelled, measuring, tick, wpc,
                 req, hists, status, errs, counter, reads, answered>>

Latencies == {o.lat : o \in Outcomes}

(* Every request ends, by the HTTP client's timeout at the latest: it is      *)
(* never zero, since the scenarios replace zero by ten seconds.              *)
WorkerStep(w) ==
  \/ Check(w) \/ TakeTick(w) \/ TickCancelled(w) \/ Send(w)
  \/ (\E o \in Outcomes : Receive(w, o))
  \/ (\E l \in Latencies : Abort(w, l))
  \/ Filter(w) \/ ObserveLatency(w)

MainStep == SetupPut \/ SetupFails \/ Start \/ Cancel \/ Finish

LoadNext ==
  \/ MainStep \/ WarmUpOver \/ Tick \/ Interrupt
  \/ \E w \in Workers : WorkerStep(w)

LoadSpec == LoadInit /\ [][LoadNext]_loadVars

(* Goroutines run and time passes.  Neither an interrupt nor a tick is        *)
(* assumed to come.                                                          *)
LoadFairness ==
  /\ WF_loadVars(MainStep) /\ WF_loadVars(WarmUpOver)
  /\ \A w \in Workers : WF_loadVars(WorkerStep(w))

LoadFairSpec == LoadSpec /\ LoadFairness
-----------------------------------------------------------------------------
(* Type invariant. *)
LoadTypeOK ==
  /\ scenario \in Scenarios
  /\ capped \in BOOLEAN
  /\ mpc \in {"setup", "run", "drain", "done", "failed"}
  /\ loaded \in 0 .. NumKeys
  /\ interrupted \in BOOLEAN /\ cancelled \in BOOLEAN
  /\ measuring \in BOOLEAN /\ tick \in BOOLEAN
  /\ wpc \in [Workers -> {"gate", "check", "tick", "send", "wait", "filter", "observe", "exited"}]
  /\ req \in [Workers -> [warm : BOOLEAN, code : Nat, lat : Nat]]
  /\ hists \in [Workers -> Histogram]
  /\ status \in [0 .. 5 -> Nat]
  /\ errs \in Nat
  /\ counter \in 0 .. MaxSteps + Cardinality(Workers) - 1
  /\ reads \in Nat
  /\ answered \in [Outcomes -> Nat]

(* How many requests sent in the window met an outcome of the set S. *)
Met(S) == SumFunctionOnSet(answered, S)

OfCode(c) == {o \in Outcomes : o.code = c}

(* The report accounts for the requests of the window, one by one: every     *)
(* response is counted in its class, and as an error exactly when it is one; *)
(* an error is counted only if the server or the network caused it, never    *)
(* because the run ended or was interrupted, and nothing of the warm-up is   *)
(* in it; the classes add up to the count.  (An error that the network       *)
(* caused while the run was ending may be left out.)                         *)
ReportAddsUp ==
  mpc = "done" =>
    LET replies == {o \in Outcomes : o.code # 0}
        odd == {o \in replies : Class(o.code) = 0}
    IN  /\ \A c \in 1 .. 5 : result.StatusClass[c] = Met({o \in replies : Class(o.code) = c})
        /\ Met(odd) <= result.StatusClass[0]
        /\ result.StatusClass[0] <= Met(odd) + Met(OfCode(0))
        /\ result.Count = SumFunction(result.StatusClass)
        /\ result.Errors = result.StatusClass[0]
                             + Met({o \in replies \ odd : IsError(o.code)})

(* The samples behind the report, when no error was left out of it. *)
SampleAtMost(l) == Met({o \in Outcomes : o.lat <= l})

(* The p-th percentile of the samples: the least latency that at least p      *)
(* thousandths of them do not exceed.                                         *)
TruePercentile(p) == Min({l \in Latencies : 1000 * SampleAtMost(l) >= p * result.Count})

(* The latencies of the report against the sorted samples of all workers:    *)
(* minimum, maximum and mean are exact, a percentile is within half a bucket *)
(* of the true one, or the maximum when the true one is beyond the range     *)
(* (Percentile's comment).                                                   *)
LatenciesMatchSamples ==
  (mpc = "done" /\ result.Count = Met(Outcomes) /\ result.Count > 0) =>
    LET met == {o \in Outcomes : answered[o] > 0}
        s == result.Latency
    IN  /\ s.Min = Min({o.lat : o \in met})
        /\ s.Max = Max({o.lat : o \in met})
        /\ s.Mean = SumFunction([o \in met |-> o.lat * answered[o]]) \div s.Count
        /\ \A p \in Percentiles :
             LET t == TruePercentile(p)
             IN  IF BucketOf(t) = LastBucket THEN s.P[p] = s.Max
                 ELSE 2 * s.P[p] <= 2 * t + BucketWidth /\ 2 * t <= 2 * s.P[p] + BucketWidth

(* bench/scenarios.go line 217: the mix is exact, however the workers        *)
(* interleave: of any whole number of cycles of requests, the configured     *)
(* share is reads.                                                           *)
MixIsExact ==
  (scenario = "mixed" /\ counter % Cycle = 0) => reads = (counter \div Cycle) * ReadShare

(* Run returns: after the window or an interrupt every worker ends, those    *)
(* that wait for a tick or a response included.                              *)
RunEnds == <>(mpc \in {"done", "failed"})
=============================================================================
