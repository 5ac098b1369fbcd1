----------------------------- MODULE RateLimiter ----------------------------
(***************************************************************************)
(* RateLimiter<PARTITION>: a second is split into partitions, each with a  *)
(* quota that the observer's thread refills when it ticks.  The current    *)
(* partition follows the clock; it is read before the mutex is taken, and  *)
(* again inside.                                                           *)
(***************************************************************************)
EXTENDS Naturals, FiniteSets

CONSTANTS
  PARTITION, Permit,   \* permits per second
  Acquirer, MaxWant,   \* threads that acquire, and the most they ask for
  MaxRefill,           \* bound: permits handed out by ticks
  Range32              \* 2^32, scaled down: permits_ is unsigned

ASSUME RateLimiterConstants ==
  /\ {PARTITION, Permit, MaxWant, MaxRefill, Range32} \subseteq Nat
  /\ PARTITION > 0 /\ Permit < Range32

SlotIndex == 0 .. PARTITION - 1

VARIABLES
  slot,       \* the partition of the moment
  permits,    \* permits_
  ticker,     \* the slot a tick is about to refill, PARTITION: it sleeps
  acquiring,  \* per thread: "none", "locking", "waiting" or "woken" (holds the mutex)
  idx,        \* the slot it read last
  want,       \* permits asked for, 0: acquire() without a number
  granted, refilled,   \* history: totals
  excess,     \* history: the most that a call got above what it asked for
  wrapped     \* history: "no", "slipped": below zero, and the clock had moved, or "yes"

rateVars == <<slot, permits, ticker, acquiring, idx, want, granted, refilled, excess, wrapped>>

(* The constructor: the remainder goes to evenly spaced partitions. *)
partitionOf(permit) ==
  LET avg   == permit \div PARTITION
      r     == permit % PARTITION
      extra == {k * (PARTITION \div r) : k \in 0 .. r - 1}
  IN  [i \in SlotIndex |-> IF r > 0 /\ i \in extra THEN avg + 1 ELSE avg]

RateTypeOK ==
  /\ slot \in SlotIndex /\ ticker \in 0 .. PARTITION /\ permits \in [SlotIndex -> 0 .. Range32 - 1]
  /\ acquiring \in [Acquirer -> {"none", "locking", "waiting", "woken"}]
  /\ idx \in [Acquirer -> SlotIndex] /\ want \in [Acquirer -> 0 .. MaxWant]
  /\ granted \in Nat /\ refilled \in Nat /\ excess \in Nat /\ wrapped \in {"no", "slipped", "yes"}

RateInit ==
  /\ slot = 0 /\ permits = [i \in SlotIndex |-> 0] /\ ticker = PARTITION
  /\ acquiring = [t \in Acquirer |-> "none"] /\ idx = [t \in Acquirer |-> 0]
  /\ want = [t \in Acquirer |-> 0]
  /\ granted = 0 /\ refilled = 0 /\ excess = 0 /\ wrapped = "no"

Returns(t) ==
  /\ acquiring' = [acquiring EXCEPT ![t] = "none"]
  /\ idx' = [idx EXCEPT ![t] = 0] /\ want' = [want EXCEPT ![t] = 0]

mtxFree == \A t \in Acquirer : acquiring[t] # "woken"

clockAdvances ==
  /\ slot' = (slot + 1) % PARTITION
  /\ UNCHANGED <<permits, ticker, acquiring, idx, want, granted, refilled, excess, wrapped>>

tickReadsSlot ==
  /\ ticker = PARTITION /\ ticker' = slot
  /\ UNCHANGED <<slot, permits, acquiring, idx, want, granted, refilled, excess, wrapped>>

tick ==
  LET quota == partitionOf(Permit)[ticker]
  IN  /\ ticker < PARTITION /\ mtxFree /\ refilled + quota <= MaxRefill
      /\ permits' = [permits EXCEPT ![ticker] = quota]
      /\ ticker' = PARTITION /\ refilled' = refilled + quota
      /\ UNCHANGED <<slot, acquiring, idx, want, granted, excess, wrapped>>

acquireReadsSlot(t, n) ==
  /\ acquiring[t] = "none" /\ acquiring' = [acquiring EXCEPT ![t] = "locking"]
  /\ want' = [want EXCEPT ![t] = n] /\ idx' = [idx EXCEPT ![t] = slot]
  /\ UNCHANGED <<slot, permits, ticker, granted, refilled, excess, wrapped>>

Past(i, j) == (i + PARTITION - j) % PARTITION        \* j partitions ago
Least(a, b) == IF a < b THEN a ELSE b
Most(a, b) == IF a < b THEN b ELSE a
HalfCycle == PARTITION \div 2

(* What acquire(n) has after j partitions: the loop over a partition ends  *)
(* when there is enough, but only after it has taken one.                  *)
Grab(i, n, sum, j) == Least(permits[Past(i, j)], IF n > sum THEN n - sum ELSE 1)

Acquired(i, n) ==
  LET sum[j \in 0 .. HalfCycle] ==
        IF j = 0 THEN permits[i] ELSE sum[j - 1] + Grab(i, n, sum[j - 1], j)
  IN  sum

(* acquire(permit): from the slot if it has enough, else also from the     *)
(* partitions of the past half cycle.                                      *)
acquire(t) ==
  LET i == idx[t]   n == want[t]   sum == Acquired(i, n)   all == sum[HalfCycle]
  IN  /\ acquiring[t] = "locking" /\ n > 0 /\ mtxFree /\ Returns(t)
      /\ IF permits[i] >= n
         THEN permits' = [permits EXCEPT ![i] = @ - n] /\ granted' = granted + n /\ UNCHANGED excess
         ELSE /\ permits' = [k \in SlotIndex |->
                   IF k = i THEN 0
                   ELSE IF \E j \in 1 .. HalfCycle : k = Past(i, j)
                        THEN LET j == CHOOSE j \in 1 .. HalfCycle : k = Past(i, j)
                             IN  permits[k] - (sum[j] - sum[j - 1])
                        ELSE permits[k]]
              /\ granted' = granted + all
              /\ excess' = Most(excess, IF all > n THEN all - n ELSE 0)
      /\ UNCHANGED <<slot, ticker, refilled, wrapped>>

HasPermit(i) == {j \in 0 .. HalfCycle : permits[Past(i, j)] > 0}

(* acquire(): one permit, from the latest partition that has one, or wait. *)
acquireOne(t) ==
  /\ acquiring[t] = "locking" /\ want[t] = 0 /\ mtxFree
  /\ IF HasPermit(idx[t]) = {}
     THEN acquiring' = [acquiring EXCEPT ![t] = "waiting"] /\ UNCHANGED <<permits, granted, idx, want>>
     ELSE LET j == CHOOSE j \in HasPermit(idx[t]) : \A k \in HasPermit(idx[t]) : j <= k
          IN  /\ permits' = [permits EXCEPT ![Past(idx[t], j)] = @ - 1]
              /\ granted' = granted + 1
              /\ Returns(t)
  /\ UNCHANGED <<slot, ticker, refilled, excess, wrapped>>

(* The predicate of the wait holds ... *)
wakes(t) ==
  /\ acquiring[t] = "waiting" /\ mtxFree /\ permits[slot] > 0
  /\ acquiring' = [acquiring EXCEPT ![t] = "woken"] /\ idx' = [idx EXCEPT ![t] = slot]
  /\ UNCHANGED <<slot, permits, ticker, want, granted, refilled, excess, wrapped>>

unlocksFirst(t) ==                \* mutant: the mutex is given up before the decrement
  /\ acquiring[t] = "waiting" /\ permits[slot] > 0 /\ want[t] = 0
  /\ permits' = [permits EXCEPT ![idx[t]] = (@ + Range32 - 1) % Range32]
  /\ granted' = granted + 1
  /\ wrapped' = IF permits[idx[t]] > 0 THEN wrapped ELSE "yes"
  /\ Returns(t)
  /\ UNCHANGED <<slot, ticker, refilled, excess>>

(* ... and the slot is read once more, and decremented unseen. *)
takes(t) ==
  /\ acquiring[t] = "woken" /\ Returns(t)
  /\ permits' = [permits EXCEPT ![slot] = (@ + Range32 - 1) % Range32]
  /\ granted' = granted + 1
  /\ wrapped' = IF permits[slot] > 0 \/ wrapped = "yes" THEN wrapped
                ELSE IF idx[t] # slot THEN "slipped" ELSE "yes"
  /\ UNCHANGED <<slot, ticker, refilled, excess>>

RateNext ==
  \/ clockAdvances \/ tickReadsSlot \/ tick
  \/ \E t \in Acquirer : acquire(t) \/ acquireOne(t) \/ wakes(t) \/ takes(t)
                         \/ \E n \in 0 .. MaxWant : acquireReadsSlot(t, n)

(* Bound: nothing more is asked once the permits have wrapped. *)
RateSteps == wrapped = "no" /\ RateNext

-----------------------------------------------------------------------------
(* Properties. *)

(* The permits of all partitions, one by one, and their number. *)
Pool(f) == UNION {{i} \X (1 .. f[i]) : i \in SlotIndex}
Total(f) == Cardinality(Pool(f))

(* The quotas add up to the permits the constructor is given. *)
QuotasExact == \A p \in 0 .. Range32 : Total(partitionOf(p)) = p

(* The constructor distributes exactly the permits it is given.  Threads   *)
(* get no more permits than ticks have put in, as long as no count fell    *)
(* below zero; that happens only if the clock moves on between the wake-up *)
(* of acquire() and its decrement.  A call of acquire(n) may get more than *)
(* n, by at most one for each past partition but the first.                *)
RateLimiterInv ==
  /\ RateTypeOK
  /\ QuotasExact
  /\ wrapped = "no" => granted + Total(permits) <= refilled
  /\ wrapped # "yes"
  /\ excess <= Most(HalfCycle, 1) - 1
=============================================================================
