--------------------------------- MODULE Hist ---------------------------------
(***************************************************************************)
(* bench/hist.go: the latency histogram with linear buckets, the last of   *)
(* which takes every latency beyond the range.  Latencies are natural      *)
(* numbers of some unit; a percentile is given in thousandths.  (For the   *)
(* five percentiles of Snapshot the floating-point Ceil of count * p is    *)
(* the exact one: compared for every count up to two million.)             *)
(***************************************************************************)
EXTENDS Naturals, Functions, FiniteSetsExt

CONSTANTS BucketWidth,   \* defaultBucketWidth
          MaxLatency,    \* defaultMaxLatency
          MaxUint64      \* math.MaxUint64: larger than any latency

ASSUME HistAssumption ==
  /\ BucketWidth \in Nat \ {0} /\ MaxLatency \in Nat /\ MaxUint64 \in Nat

LastBucket == MaxLatency \div BucketWidth

Histogram == [buckets : [0 .. LastBucket -> Nat], count : Nat, sumNs : Nat,
              minNs : Nat, maxNs : Nat]

NewHist == [buckets |-> [i \in 0 .. LastBucket |-> 0], count |-> 0, sumNs |-> 0,
            minNs |-> MaxUint64, maxNs |-> 0]

Smaller(a, b) == IF a < b THEN a ELSE b
Larger(a, b) == IF a > b THEN a ELSE b

BucketOf(d) == Smaller(d \div BucketWidth, LastBucket)

Observe(h, d) ==
  [buckets |-> [h.buckets EXCEPT ![BucketOf(d)] = @ + 1],
   count   |-> h.count + 1,
   sumNs   |-> h.sumNs + d,
   minNs   |-> Smaller(d, h.minNs),
   maxNs   |-> Larger(d, h.maxNs)]

Merge(h, o) ==
  [buckets |-> [i \in 0 .. LastBucket |-> h.buckets[i] + o.buckets[i]],
   count   |-> h.count + o.count,
   sumNs   |-> h.sumNs + o.sumNs,
   minNs   |-> Smaller(o.minNs, h.minNs),
   maxNs   |-> Larger(o.maxNs, h.maxNs)]

(* Mutant of Rank: rounded down instead of up. *)
RankRoundedDown(n, p) == Larger(1, (n * p) \div 1000)

(* The rank a percentile asks for among n samples. *)
Rank(n, p) == Larger(1, (n * p + 999) \div 1000)

(* How many samples lie in the buckets up to i. *)
Cumulative(h, i) == SumFunctionOnSet(h.buckets, 0 .. i)

Percentile(h, p) ==
  LET reached == {i \in 0 .. LastBucket : Cumulative(h, i) >= Rank(h.count, p)}
      bucket == Min(reached)
  IN  CASE h.count = 0          -> 0
        [] bucket = LastBucket  -> h.maxNs
        [] OTHER                -> bucket * BucketWidth + BucketWidth \div 2

Mean(h) == IF h.count = 0 THEN 0 ELSE h.sumNs \div h.count

MinOf(h) == IF h.count = 0 THEN 0 ELSE h.minNs

(* Snapshot: the percentiles it reports. *)
Percentiles == {500, 900, 950, 990, 999}

Summary(h) ==
  [Count |-> h.count, Min |-> MinOf(h), Mean |-> Mean(h), Max |-> h.maxNs,
   P |-> [p \in Percentiles |-> Percentile(h, p)]]
=============================================================================
