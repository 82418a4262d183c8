------------------------------- MODULE Latency --------------------------------
(***************************************************************************)
(* metering/metrics.py: how long the calls of /chat took.  The aggregates  *)
(* are over all calls, the percentiles over the last Window of them.       *)
(* Times are whole units; percentiles are in hundredths of one.            *)
(***************************************************************************)
EXTENDS Integers, Sequences, SequencesExt

CONSTANT Window   \* _SAMPLE_WINDOW

NoStats == [count |-> 0, total |-> 0, max |-> 0, samples |-> <<>>]

Larger(a, b) == IF a < b THEN b ELSE a
Smaller(a, b) == IF a < b THEN a ELSE b

\* Mutation: the window is not bounded.
RecordUnbounded(stats, ms) ==
  [count |-> stats.count + 1, total |-> stats.total + ms, max |-> Larger(stats.max, ms),
   samples |-> Append(stats.samples, ms)]

\* LatencyStats.record; a deque at its maxlen drops its first element.
Record(stats, ms) ==
  LET all == Append(stats.samples, ms)
  IN [count |-> stats.count + 1, total |-> stats.total + ms, max |-> Larger(stats.max, ms),
      samples |-> IF Len(all) > Window THEN Tail(all) ELSE all]

\* statistics.quantiles(s, n=100, method="inclusive")[pct - 1]
Quantile(s, pct) ==
  LET m == Len(s) - 1
      j == (pct * m) \div 100
      delta == (pct * m) % 100
  IN s[j + 1] * (100 - delta) + s[j + 2] * delta

\* Mutation: the samples are taken in the order they came.
PercentileUnsorted(samples, pct) ==
  IF Len(samples) = 1 THEN 100 * samples[1] ELSE Quantile(samples, pct)

\* sorted: the k-th is the least that k are not above.
Sorted(samples) ==
  [k \in DOMAIN samples |->
     Min({samples[i] : i \in {j \in DOMAIN samples :
            k <= Cardinality({h \in DOMAIN samples : samples[h] <= samples[j]})}})]

\* _percentile of the sorted samples, of which there is one at least.
Percentile(samples, pct) ==
  IF Len(samples) = 1 THEN 100 * samples[1] ELSE Quantile(Sorted(samples), pct)

\* LatencyStats.snapshot of what was recorded.
Snapshot(stats) ==
  [count |-> stats.count, mean |-> (100 * stats.total) \div stats.count,
   p50 |-> Percentile(stats.samples, 50), p95 |-> Percentile(stats.samples, 95),
   max |-> 100 * stats.max]
=============================================================================
