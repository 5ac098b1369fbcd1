------------------------------ MODULE Histogram ------------------------------
(***************************************************************************)
(* Histogram, the latency statistics of a client manager: threads count    *)
(* grades into atomic buckets while logStats reads and resets them one     *)
(* bucket at a time, with a load and a separate subtraction.               *)
(***************************************************************************)
EXTENDS Naturals, Sequences

CONSTANTS Capacity, MaxCount  \* the number of buckets, and a bound on the counts

ASSUME HistogramConstants == Capacity \in Nat \ {0} /\ MaxCount \in Nat

VARIABLES
  data,      \* the buckets
  values,    \* what reportAndReset has loaded so far, a prefix of the buckets
  cleared,   \* how many of those it has subtracted
  counted,   \* history: how often countIn counted into each bucket
  reported   \* history: what the finished reports said of each bucket

histogramVars == <<data, values, cleared, counted, reported>>

(* Grades are steps of 20 ms of delay, negative when the clocks differ. *)
Grade == 0 .. Capacity + 1
Negative == Capacity + 1

Bucket(grade) == IF grade >= Capacity THEN Capacity ELSE grade + 1

(* assignLabels gives the histogram as many labels as it has buckets. *)
labels_ == 1 .. Capacity

countIn(grade) ==
  /\ counted[Bucket(grade)] < MaxCount
  /\ IF grade = Negative THEN UNCHANGED <<data, counted>>
     ELSE /\ data' = [data EXCEPT ![Bucket(grade)] = @ + 1]
          /\ counted' = [counted EXCEPT ![Bucket(grade)] = @ + 1]
  /\ UNCHANGED <<values, cleared, reported>>

load ==
  /\ Len(values) = cleared /\ cleared < Capacity
  /\ values' = Append(values, data[cleared + 1])
  /\ UNCHANGED <<data, cleared, counted, reported>>

storesZero ==  \* mutant: the bucket is set to zero
  /\ cleared < Len(values)
  /\ cleared' = cleared + 1
  /\ data' = [data EXCEPT ![cleared'] = 0]
  /\ UNCHANGED <<values, counted, reported>>

fetchSub ==
  /\ cleared < Len(values)
  /\ cleared' = cleared + 1
  /\ data' = [data EXCEPT ![cleared'] = @ - values[cleared']]
  /\ UNCHANGED <<values, counted, reported>>

reportAndReset ==
  /\ cleared = Capacity
  /\ reported' = [i \in labels_ |-> reported[i] + values[i]]
  /\ values' = <<>> /\ cleared' = 0
  /\ UNCHANGED <<data, counted>>

HistogramInit ==
  /\ data = [i \in labels_ |-> 0] /\ values = <<>> /\ cleared = 0
  /\ counted = data /\ reported = data

HistogramNext == (\E grade \in Grade : countIn(grade)) \/ load \/ fetchSub \/ reportAndReset

(* A count that arrives while a report is being made is in this report or  *)
(* in a later one: the reports and the buckets always add up to what       *)
(* countIn counted.                                                        *)
CountsKept ==
  \A i \in labels_ :
    counted[i] = data[i] + reported[i] + (IF i <= cleared THEN values[i] ELSE 0)
=============================================================================
