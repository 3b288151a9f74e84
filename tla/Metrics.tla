------------------------------ MODULE Metrics ------------------------------
(***************************************************************************)
(* app/metrics.py: a ring of minute buckets and totals in the shared       *)
(* store.  Recorders of several processes read the clock, wait for the     *)
(* store's transaction, and add; stats() reads the ring bucket by bucket,  *)
(* outside any transaction, while minutes pass and recorders go on.        *)
(*                                                                         *)
(* Time is in minutes.  A bucket's expiry (61 minutes) only removes what   *)
(* neither side would count any more, and is left out.                     *)
(***************************************************************************)
EXTENDS Integers, Sequences, FiniteSets, FiniteSetsExt, Functions

CONSTANTS Recorders,
          Ring,        \* 60 buckets
          Latencies,   \* what a request may take, Nat
          Bounds,      \* BOUNDS, the last above every latency
          Patience,    \* bound: minutes a recorder waits for the store
          MaxRecords,  \* bound
          MaxMinute    \* bound

ASSUME MetricsAssumption ==
    /\ Ring \in Nat \ {0} /\ Latencies \subseteq Nat
    /\ MaxMinute \in Nat
    /\ Bounds \in Seq(Nat) /\ Bounds # <<>> /\ \A l \in Latencies : l <= Bounds[Len(Bounds)]
    /\ Patience \in 0..Ring - 1

VARIABLES
    minuteNow,
    minuteOf,   \* of each recorder: the minute it read, or NoMinute
    bucket,     \* the ring
    totals,
    reader,     \* stats(): the index it reads next, its minute and its sums
    history     \* of each minute: what was recorded in it

metricsVars == <<minuteNow, minuteOf, bucket, totals, reader, history>>

NoMinute == MaxMinute + 1
Buckets == 0..Ring - 1

(* Errors, cache hits and coalesced answers count, and have no latency.     *)
(* "exact" is history: how often each latency was recorded.                 *)
NoCounts == [requests |-> 0, histogram |-> [i \in DOMAIN Bounds |-> 0], max |-> 0,
          exact |-> [l \in Latencies |-> 0]]

NoRow == [minute |-> NoMinute, requests |-> 0, histogram |-> NoCounts.histogram, max |-> 0,
          exact |-> NoCounts.exact]

BoundOf(latency) == Min({i \in DOMAIN Bounds : latency <= Bounds[i]})
Larger(a, b) == IF a >= b THEN a ELSE b

(* _add, with a latency or without.                                         *)
Added(row, latencies) ==
    [row EXCEPT !.requests = @ + 1,
                !.histogram = [i \in DOMAIN @ |->
                                 @[i] + Cardinality({l \in latencies : BoundOf(l) = i})],
                !.max = IF latencies = {} THEN @ ELSE Larger(@, Max(latencies)),
                !.exact = [l \in Latencies |-> @[l] + IF l \in latencies THEN 1 ELSE 0]]

Sum(row, other) ==
    [requests |-> row.requests + other.requests,
     histogram |-> [i \in DOMAIN Bounds |-> row.histogram[i] + other.histogram[i]],
     max |-> Larger(row.max, other.max),
     exact |-> [l \in Latencies |-> row.exact[l] + other.exact[l]]]

Idle == [at |-> Ring, minute |-> NoMinute, sums |-> NoCounts, throughput |-> [age \in Buckets |-> 0],
         before |-> [m \in 0..MaxMinute |-> NoCounts]]

MetricsInit ==
    /\ minuteNow = 0
    /\ minuteOf = [p \in Recorders |-> NoMinute]
    /\ bucket = [i \in Buckets |-> NoRow]
    /\ totals = NoCounts
    /\ reader = Idle
    /\ history = [m \in 0..MaxMinute |-> NoCounts]

MinutePasses ==
    /\ minuteNow < MaxMinute
    /\ \A p \in Recorders : minuteOf[p] # NoMinute => minuteNow < minuteOf[p] + Patience
    /\ minuteNow' = minuteNow + 1
    /\ UNCHANGED <<minuteOf, bucket, totals, reader, history>>

ReadsClock(p) ==
    /\ minuteOf[p] = NoMinute
    /\ totals.requests + Cardinality({q \in Recorders : minuteOf[q] # NoMinute}) < MaxRecords
    /\ minuteOf' = [minuteOf EXCEPT ![p] = minuteNow]
    /\ UNCHANGED <<minuteNow, bucket, totals, reader, history>>

(* The process ends, or the store does not answer: the record is lost.      *)
RecordLost(p) ==
    /\ minuteOf[p] # NoMinute
    /\ minuteOf' = [minuteOf EXCEPT ![p] = NoMinute]
    /\ UNCHANGED <<minuteNow, bucket, totals, reader, history>>

AnyRow(row, minute) == row
CurrentRow(row, minute) == IF row.minute # minute THEN [NoRow EXCEPT !.minute = minute] ELSE row

(* The transaction of _record: both rows or none.                           *)
Record(p, latencies) ==
    LET minute == minuteOf[p]
        i == minute % Ring
    IN /\ minute # NoMinute
       /\ bucket' = [bucket EXCEPT ![i] = Added(CurrentRow(@, minute), latencies)]
       /\ totals' = Added(totals, latencies)
       /\ history' = [history EXCEPT ![minute] = Added(@, latencies)]
       /\ minuteOf' = [minuteOf EXCEPT ![p] = NoMinute]
       /\ UNCHANGED <<minuteNow, reader>>

StatsBegins ==
    /\ reader.at = Ring
    /\ reader' = [Idle EXCEPT !.at = 0, !.minute = minuteNow, !.before = history]
    /\ UNCHANGED <<minuteNow, minuteOf, bucket, totals, history>>

HourBefore(row, minute) == row.minute <= minute
InWindow(row, minute) == row.minute <= minute /\ minute - row.minute < Ring

StatsReads ==
    LET row == bucket[reader.at]
        age == reader.minute - row.minute
    IN /\ reader.at < Ring
       /\ reader' = IF row.minute # NoMinute /\ InWindow(row, reader.minute)
                    THEN [reader EXCEPT !.at = @ + 1, !.sums = Sum(@, row),
                                        !.throughput[age] = row.requests]
                    ELSE [reader EXCEPT !.at = @ + 1]
       /\ UNCHANGED <<minuteNow, minuteOf, bucket, totals, history>>

MetricsNext ==
    \/ MinutePasses
    \/ \E p \in Recorders :
         \/ ReadsClock(p) \/ RecordLost(p)
         \/ Record(p, {}) \/ \E l \in Latencies : Record(p, {l})
    \/ StatsBegins \/ StatsReads

MetricsSpec == MetricsInit /\ [][MetricsNext]_metricsVars

-----------------------------------------------------------------------------
(* percentile, of a fraction share/100.                                     *)
Timed(row) == SumFunctionOnSet(row.exact, Latencies)
UpTo(row, i) == SumFunctionOnSet(row.histogram, 1..i)
Rank(row, share) == (Timed(row) * share + 99) \div 100

Smaller(a, b) == IF a <= b THEN a ELSE b
UpperBound(row, i) == Bounds[i]
Capped(row, i) == Smaller(Bounds[i], row.max)

Percentile(row, share) ==
    Capped(row, Min({i \in DOMAIN Bounds : UpTo(row, i) >= Rank(row, share)}))

(* The latency of that rank.                                                *)
TruePercentile(row, share) ==
    Min({l \in Latencies :
            SumFunctionOnSet(row.exact, {k \in Latencies : k <= l}) >= Rank(row, share)})

-----------------------------------------------------------------------------
RowOK(row) ==
    /\ row.requests \in 0..MaxRecords /\ row.max \in Latencies \cup {0}
    /\ \A i \in DOMAIN Bounds : row.histogram[i] \in 0..MaxRecords

MetricsTypeOK ==
    /\ minuteNow \in 0..MaxMinute
    /\ minuteOf \in [Recorders -> 0..NoMinute]
    /\ \A i \in Buckets : RowOK(bucket[i]) /\ bucket[i].minute \in 0..NoMinute
    /\ RowOK(totals) /\ RowOK(reader.sums) /\ reader.at \in 0..Ring
    /\ \A m \in 0..MaxMinute : RowOK(history[m])

(* What stats() returns counts, minute by minute, every record that was     *)
(* stored when it began and that its window still held when it ended, and   *)
(* none twice or of another hour.                                           *)
StatsCount ==
    (reader.at = Ring /\ reader.minute # NoMinute) =>
        /\ reader.sums.requests = SumFunction(reader.throughput)
        /\ \A age \in Buckets :
             LET m == reader.minute - age
             IN IF m < 0 THEN reader.throughput[age] = 0
                ELSE /\ reader.throughput[age] <= history[m].requests
                     /\ minuteNow - m < Ring =>
                          reader.throughput[age] >= reader.before[m].requests

(* A percentile is no less than the latency of that rank, no more than the  *)
(* largest, and in the same histogram bucket.                               *)
StatsPercentiles ==
    LET row == reader.sums
    IN (reader.at = Ring /\ Timed(row) > 0) =>
        \A share \in {50, 95} :
            /\ TruePercentile(row, share) <= Percentile(row, share)
            /\ Percentile(row, share) <= Max({l \in Latencies : row.exact[l] > 0})
            /\ BoundOf(Percentile(row, share)) = BoundOf(TruePercentile(row, share))

(* Besides, the totals are all that was ever recorded: they never go down.  *)
MetricsHonest ==
    /\ totals.requests = SumFunction([m \in 0..MaxMinute |-> history[m].requests])
    /\ StatsCount
    /\ StatsPercentiles
=============================================================================
