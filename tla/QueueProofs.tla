----------------------------- MODULE QueueProofs ----------------------------
(***************************************************************************)
(* The queues chosen from a route, for every route, resolver and width of  *)
(* the counters; and the spans that are traced, for every message.  They   *)
(* share no state and have a specification each.                           *)
(***************************************************************************)
EXTENDS QueueChoice, Tracing, FiniteSetTheorems, TLAPS

-----------------------------------------------------------------------------
(* Counting. *)

(* Induction, for a set of numbers. *)
LEMMA Induction ==
  ASSUME NEW S, 0 \in S, \A n \in Nat : n \in S => n + 1 \in S
  PROVE  \A n \in Nat : n \in S
<1> DEFINE T == Nat \ S
<1> SUFFICES ASSUME T # {} PROVE FALSE
  BY Zenon
<1>1. PICK x \in T : \A y \in T : ~(<<y, x>> \in OpToRel(<, Nat))
  BY NatLessThanWellFounded, WFMin, Zenon
<1>2. x \in Nat /\ x # 0 /\ x \notin S
  BY Zenon
<1>3. x - 1 \in Nat /\ x - 1 < x /\ x - 1 + 1 = x
  BY <1>2
<1>4. x - 1 \notin T
  BY <1>1, <1>2, <1>3, Zenon DEF OpToRel
<1> QED BY <1>2, <1>3, <1>4, Zenon

(* Division with a remainder. *)
LEMMA DivMod ==
  ASSUME NEW a \in Nat, NEW n \in Nat \ {0}
  PROVE  a % n \in 0 .. (n - 1) /\ a \div n \in Nat /\ a = (n * (a \div n)) + (a % n)
  OBVIOUS

(* ... and the remainder is the only one. *)
LEMMA ModUnique ==
  ASSUME NEW a \in Nat, NEW n \in Nat \ {0}, NEW q \in Nat, NEW r \in 0 .. (n - 1), a = n * q + r
  PROVE  a % n = r
  OBVIOUS

(* A loop of H rounds from x, and its run: the values after each round. *)
Loop(H, X, x, step) == H \in Nat /\ x \in X /\ step \in [X \X (1 .. H) -> X]
Run(g, H, X, x, step) ==
  g \in [0 .. H -> X] /\ g[0] = x /\ \A k \in 1 .. H : g[k] = step[<<g[k - 1], k>>]

(* Every loop has a run, by induction over the rounds. *)
LEMMA LoopRuns ==
  ASSUME NEW H, NEW X, NEW x, NEW step, Loop(H, X, x, step)
  PROVE  \E g : Run(g, H, X, x, step)
<1> DEFINE Runs(g, m) == g[0] = x /\ \A k \in 1 .. m : g[k] = step[<<g[k - 1], k>>]
           S == {m \in Nat : m <= H => \E g \in [0 .. H -> X] : Runs(g, m)}
<1>0. H \in Nat /\ x \in X /\ step \in [X \X (1 .. H) -> X]
  BY Zenon DEF Loop
<1>1. 0 \in S
  <2> DEFINE z == [k \in 0 .. H |-> x]
  <2>1. z \in [0 .. H -> X]
    BY <1>0, Zenon
  <2>2. 0 \in 0 .. H /\ \A k \in 1 .. 0 : FALSE
    BY <1>0
  <2>3. Runs(z, 0)
    BY <2>2, Zenon
  <2> QED BY <2>1, <2>3, Zenon
<1>2. ASSUME NEW m \in Nat, m \in S PROVE m + 1 \in S
  <2>1. m + 1 \in Nat
    OBVIOUS
  <2> SUFFICES ASSUME m + 1 <= H PROVE \E g \in [0 .. H -> X] : Runs(g, m + 1)
    BY <2>1, Zenon
  <2>2. m <= H /\ m \in 0 .. H /\ m + 1 \in 0 .. H /\ m + 1 \in 1 .. H /\ 0 \in 0 .. H
        /\ m + 1 # 0 /\ m + 1 # m /\ (m + 1) - 1 = m
    BY <1>0
  <2>3. PICK g \in [0 .. H -> X] : Runs(g, m)
    BY <1>2, <2>2, Zenon
  <2> DEFINE v == step[<<g[m], m + 1>>]
             h == [g EXCEPT ![m + 1] = v]
  <2>4. v \in X
    <3>1. g[m] \in X
      BY <2>2, Zenon
    <3>2. <<g[m], m + 1>> \in X \X (1 .. H)
      BY <3>1, <2>2
    <3> QED BY <3>2, <1>0, Zenon
  <2> HIDE DEF v
  <2>5. h \in [0 .. H -> X] /\ h[m + 1] = v /\ \A k \in 0 .. H : k # m + 1 => h[k] = g[k]
    BY <2>2, <2>4, Zenon
  <2> HIDE DEF h
  <2>6. ASSUME NEW k \in 1 .. m + 1 PROVE h[k] = step[<<h[k - 1], k>>]
    <3>1. CASE k = m + 1
      <4>1. h[k - 1] = g[m]
        BY <3>1, <2>2, <2>5, Zenon
      <4> QED BY <4>1, <3>1, <2>5, Zenon DEF v
    <3>2. CASE k # m + 1
      <4>1. k \in 1 .. m /\ k \in 0 .. H /\ k - 1 \in 0 .. H /\ k - 1 # m + 1
        BY <3>2, <2>2, <1>0
      <4> QED BY <4>1, <3>2, <2>3, <2>5, Zenon
    <3> QED BY <3>1, <3>2, Zenon
  <2>7. h[0] = x
    BY <2>2, <2>3, <2>5, Zenon
  <2> QED BY <2>5, <2>6, <2>7, Zenon
<1>3. H \in S
  <2> HIDE DEF S
  <2> QED BY <1>0, <1>1, <1>2, Induction, Zenon
<1>4. H <= H
  BY <1>0
<1> QED BY <1>3, <1>4, Zenon DEF Run

(* What Append does to length, domain and members. *)
LEMMA AppendFacts ==
  ASSUME NEW X, NEW s \in Seq(X), NEW x \in X
  PROVE  /\ Append(s, x) \in Seq(X) /\ Len(Append(s, x)) = Len(s) + 1 /\ Len(s) \in Nat
         /\ \A i \in 1 .. Len(s) : Append(s, x)[i] = s[i] /\ s[i] \in X
         /\ Append(s, x)[Len(s) + 1] = x
         /\ DOMAIN s = 1 .. Len(s) /\ DOMAIN Append(s, x) = 1 .. (Len(s) + 1)
  OBVIOUS

LEMMA RangeAppend ==
  ASSUME NEW X, NEW s \in Seq(X), NEW x \in X
  PROVE  Range(Append(s, x)) = Range(s) \cup {x} /\ Range(s) \subseteq X
<1> DEFINE a == Append(s, x)
<1>1. /\ Len(s) \in Nat /\ (\A i \in 1 .. Len(s) : a[i] = s[i] /\ s[i] \in X) /\ a[Len(s) + 1] = x
      /\ DOMAIN s = 1 .. Len(s) /\ DOMAIN a = 1 .. (Len(s) + 1)
  BY AppendFacts
<1>2. Len(s) + 1 \in 1 .. (Len(s) + 1) /\ \A i : i \in 1 .. (Len(s) + 1) <=> i \in 1 .. Len(s) \/ i = Len(s) + 1
  BY <1>1
<1> HIDE DEF a
<1>3. Range(a) = Range(s) \cup {x}
  <2>1. ASSUME NEW y \in Range(a) PROVE y \in Range(s) \cup {x}
    <3>1. PICK i \in 1 .. (Len(s) + 1) : y = a[i]
      BY <1>1, <2>1, Zenon DEF Range
    <3> QED BY <3>1, <1>1, <1>2, Zenon DEF Range
  <2>2. ASSUME NEW y \in Range(s) PROVE y \in Range(a)
    <3>1. PICK i \in 1 .. Len(s) : y = s[i]
      BY <1>1, <2>2, Zenon DEF Range
    <3> QED BY <3>1, <1>1, <1>2, Zenon DEF Range
  <2>3. x \in Range(a)
    BY <1>1, <1>2, Zenon DEF Range
  <2> QED BY <2>1, <2>2, <2>3, Zenon
<1> QED BY <1>1, <1>3, Zenon DEF Range, a

(* No two members of a list are equal. *)
Differ(s) == \A i, j \in 1 .. Len(s) : s[i] = s[j] => i = j

(* A list without repetition stays so when something new is appended. *)
LEMMA DifferAppend ==
  ASSUME NEW X, NEW s \in Seq(X), NEW x \in X, Differ(s), x \notin Range(s)
  PROVE  Differ(Append(s, x))
<1> DEFINE a == Append(s, x)
<1>1. /\ Len(s) \in Nat /\ (\A i \in 1 .. Len(s) : a[i] = s[i]) /\ a[Len(s) + 1] = x
      /\ DOMAIN s = 1 .. Len(s) /\ Len(a) = Len(s) + 1
  BY AppendFacts
<1>2. \A i : i \in 1 .. (Len(s) + 1) => i \in 1 .. Len(s) \/ i = Len(s) + 1
  BY <1>1
<1>3. \A i \in 1 .. Len(s) : s[i] # x
  BY <1>1, Zenon DEF Range
<1> HIDE DEF a
<1>4. Differ(a)
  <2> SUFFICES ASSUME NEW i \in 1 .. (Len(s) + 1), NEW j \in 1 .. (Len(s) + 1), a[i] = a[j]
               PROVE  i = j
    BY <1>1, Zenon DEF Differ
  <2> QED BY <1>1, <1>2, <1>3, Zenon DEF Differ
<1> QED BY <1>4, Zenon DEF a

(* An interval from one is finite and as large as its end. *)
LEMMA UpTo ==
  ASSUME NEW n \in Nat PROVE IsFiniteSet(1 .. n) /\ Cardinality(1 .. n) = n
<1>1. IsFiniteSet(1 .. n) /\ Cardinality(1 .. n) = IF 1 > n THEN 0 ELSE n - 1 + 1
  BY FS_Interval
<1> QED BY <1>1

(* As many as their list is long. *)
LEMMA DifferSize ==
  ASSUME NEW X, NEW s \in Seq(X), Differ(s)
  PROVE  IsFiniteSet(Range(s)) /\ Cardinality(Range(s)) = Len(s)
<1>1. Len(s) \in Nat /\ DOMAIN s = 1 .. Len(s) /\ s = [i \in 1 .. Len(s) |-> s[i]]
  OBVIOUS
<1>2. s \in Bijection(1 .. Len(s), Range(s))
  <2>1. s \in [1 .. Len(s) -> Range(s)]
    BY <1>1, Zenon DEF Range
  <2>2. \A y \in Range(s) : \E i \in 1 .. Len(s) : s[i] = y
    BY <1>1, Zenon DEF Range
  <2> QED BY <2>1, <2>2, Zenon DEF Bijection, Injection, Surjection, IsInjective, Differ
<1>3. IsFiniteSet(1 .. Len(s)) /\ Cardinality(1 .. Len(s)) = Len(s)
  BY <1>1, UpTo, Zenon
<1> QED BY <1>2, <1>3, FS_Bijection, Zenon DEF ExistsBijection

(* The loop of Picked. *)
PickRun(g, s, T) ==
  /\ Picked(s, T) = g[Len(s)] /\ g[0] = <<>>
  /\ \A k \in 1 .. Len(s) : g[k] = IF s[k] \in T THEN Append(g[k - 1], s[k]) ELSE g[k - 1]

(* Picked is what its loop computes. *)
LEMMA PickedRuns ==
  ASSUME NEW X, NEW s \in Seq(X), NEW T
  PROVE  \E g : PickRun(g, s, T)
<1> DEFINE H == Len(s)
           step == [p \in Seq(X) \X (1 .. H) |-> IF s[p[2]] \in T THEN Append(p[1], s[p[2]]) ELSE p[1]]
           G(g) == g = [k \in 0 .. H |->
                          IF k = 0 THEN <<>>
                          ELSE IF s[k] \in T THEN Append(g[k - 1], s[k]) ELSE g[k - 1]]
<1>1. H \in Nat /\ \A k \in 1 .. H : s[k] \in X
  OBVIOUS
<1>2. <<>> \in Seq(X)
  OBVIOUS
<1>3. step \in [Seq(X) \X (1 .. H) -> Seq(X)]
  <2>1. ASSUME NEW p \in Seq(X) \X (1 .. H)
        PROVE  (IF s[p[2]] \in T THEN Append(p[1], s[p[2]]) ELSE p[1]) \in Seq(X)
    <3>1. p[1] \in Seq(X) /\ p[2] \in 1 .. H
      BY <2>1
    <3>2. Append(p[1], s[p[2]]) \in Seq(X)
      BY <3>1, <1>1, AppendFacts, Zenon
    <3> QED BY <3>1, <3>2, Zenon
  <2> QED BY <2>1, Zenon
<1>4. PICK g : Run(g, H, Seq(X), <<>>, step)
  <2>1. Loop(H, Seq(X), <<>>, step)
    BY <1>1, <1>2, <1>3, Zenon DEF Loop
  <2> HIDE DEF step, H
  <2> QED BY <2>1, LoopRuns, Zenon
<1>5. ASSUME NEW k \in 1 .. H
      PROVE  g[k] = IF s[k] \in T THEN Append(g[k - 1], s[k]) ELSE g[k - 1]
  <2>1. k - 1 \in 0 .. H
    BY <1>1
  <2>2. g[k - 1] \in Seq(X)
    BY <2>1, <1>4, Zenon DEF Run
  <2> DEFINE p == <<g[k - 1], k>>
  <2>3. p \in Seq(X) \X (1 .. H) /\ p[1] = g[k - 1] /\ p[2] = k
    BY <2>2
  <2> HIDE DEF p
  <2>4. g[k] = step[p]
    BY <1>4, Zenon DEF p, Run
  <2> QED BY <2>3, <2>4, Zenon
<1>6. \A k \in 0 .. H : k # 0 => k \in 1 .. H
  BY <1>1
<1>7. G(g)
  BY <1>4, <1>5, <1>6, Zenon DEF Run
<1> DEFINE f == CHOOSE f : G(f)
<1>8. G(f)
  BY <1>7, Zenon
<1>9. Picked(s, T) = f[H]
  BY Zenon DEF Picked
<1> HIDE DEF f
<1>10. \A k \in 0 .. H : f[k] = IF k = 0 THEN <<>>
                                ELSE IF s[k] \in T THEN Append(f[k - 1], s[k]) ELSE f[k - 1]
  BY <1>8, Zenon
<1>11. 0 \in 0 .. H /\ \A k \in 1 .. H : k \in 0 .. H /\ k # 0
  BY <1>1
<1> QED BY <1>9, <1>10, <1>11, Zenon DEF PickRun

(* What Picked leaves: the members in T, each as often as before. *)
PickedOf(p, s, T, X) ==
  /\ p \in Seq(X) /\ Range(p) = Range(s) \cap T
  /\ Differ(s) => Differ(p)
  /\ Len(p) = Cardinality({i \in DOMAIN s : s[i] \in T})

(* ... by induction over the rounds of the loop. *)
LEMMA PickedFacts ==
  ASSUME NEW X, NEW s \in Seq(X), NEW T
  PROVE  PickedOf(Picked(s, T), s, T, X)
<1> DEFINE H == Len(s)
           At(m) == {i \in 1 .. m : s[i] \in T}
           Seen(m) == {s[i] : i \in 1 .. m}
<1>0. PICK g : PickRun(g, s, T)
  BY PickedRuns, Zenon
<1>1. /\ Picked(s, T) = g[H] /\ g[0] = <<>>
      /\ \A k \in 1 .. H : g[k] = IF s[k] \in T THEN Append(g[k - 1], s[k]) ELSE g[k - 1]
  BY <1>0, Zenon DEF PickRun
<1>2. H \in Nat /\ DOMAIN s = 1 .. H /\ \A k \in 1 .. H : s[k] \in X
  OBVIOUS
<1> DEFINE Good(m) == /\ g[m] \in Seq(X) /\ Range(g[m]) = Seen(m) \cap T
                      /\ Differ(s) => Differ(g[m])
                      /\ IsFiniteSet(At(m)) /\ Len(g[m]) = Cardinality(At(m))
           S == {m \in Nat : m <= H => Good(m)}
<1>3. 0 \in S
  <2>1. g[0] \in Seq(X) /\ Len(g[0]) = 0 /\ DOMAIN g[0] = {} /\ \A i \in 1 .. 0 : FALSE
    BY <1>1
  <2>2. Range(g[0]) = {} /\ Seen(0) = {} /\ At(0) = {}
    BY <2>1, Zenon DEF Range
  <2>3. IsFiniteSet({}) /\ Cardinality({}) = 0
    BY FS_EmptySet, Zenon
  <2>4. Differ(g[0])
    BY <2>1, Zenon DEF Differ
  <2> QED BY <2>1, <2>2, <2>3, <2>4, Zenon
<1>4. ASSUME NEW m \in Nat, m \in S PROVE m + 1 \in S
  <2>1. m + 1 \in Nat
    OBVIOUS
  <2> SUFFICES ASSUME m + 1 <= H PROVE Good(m + 1)
    BY <2>1, Zenon
  <2>2. /\ m <= H /\ m + 1 \in 1 .. H /\ (m + 1) - 1 = m /\ m + 1 \notin 1 .. m
        /\ \A i : i \in 1 .. m + 1 <=> i \in 1 .. m \/ i = m + 1
        /\ \A i \in 1 .. m : i \in 1 .. H /\ i # m + 1
    BY <1>2
  <2>3. Good(m)
    BY <1>4, <2>2, Zenon
  <2>4. s[m + 1] \in X
    BY <1>2, <2>2, Zenon
  <2>5. Seen(m + 1) = Seen(m) \cup {s[m + 1]}
    BY <2>2, Zenon
  <2>6. CASE s[m + 1] \in T
    <3>1. g[m + 1] = Append(g[m], s[m + 1])
      BY <1>1, <2>2, <2>6, Zenon
    <3>2. g[m + 1] \in Seq(X) /\ Len(g[m + 1]) = Len(g[m]) + 1
      BY <3>1, <2>3, <2>4, AppendFacts
    <3>3. Range(g[m + 1]) = Range(g[m]) \cup {s[m + 1]}
      BY <3>1, <2>3, <2>4, RangeAppend
    <3>4. Range(g[m + 1]) = Seen(m + 1) \cap T
      BY <3>3, <2>3, <2>5, <2>6, Zenon
    <3>5. Differ(s) => Differ(g[m + 1])
      <4> HAVE Differ(s)
      <4>1. s[m + 1] \notin Seen(m)
        BY <2>2, Zenon DEF Differ
      <4>2. s[m + 1] \notin Range(g[m]) /\ Differ(g[m])
        BY <4>1, <2>3, Zenon
      <4> QED BY <4>2, <3>1, <2>3, <2>4, DifferAppend
    <3>6. At(m + 1) = At(m) \cup {m + 1} /\ m + 1 \notin At(m)
      BY <2>2, <2>6, Zenon
    <3> HIDE DEF At
    <3>7. IsFiniteSet(At(m + 1)) /\ Cardinality(At(m + 1)) = Cardinality(At(m)) + 1
      <4>1. IsFiniteSet(At(m))
        BY <2>3, Zenon
      <4> QED BY <4>1, <3>6, FS_AddElement
    <3> QED BY <3>2, <3>4, <3>5, <3>7, <2>3, Zenon
  <2>7. CASE s[m + 1] \notin T
    <3>1. g[m + 1] = g[m]
      BY <1>1, <2>2, <2>7, Zenon
    <3>2. Seen(m + 1) \cap T = Seen(m) \cap T
      BY <2>5, <2>7, Zenon
    <3>3. At(m + 1) = At(m)
      BY <2>2, <2>7, Zenon
    <3> HIDE DEF At, Seen
    <3> QED BY <3>1, <3>2, <3>3, <2>3, Zenon
  <2> QED BY <2>6, <2>7, Zenon
<1>5. H \in S
  <2> HIDE DEF S
  <2> QED BY <1>2, <1>3, <1>4, Induction, Zenon
<1>6. Good(H)
  <2>1. H <= H
    BY <1>2
  <2> QED BY <1>5, <2>1, Zenon
<1>7. Seen(H) = Range(s) /\ At(H) = {i \in DOMAIN s : s[i] \in T}
  BY <1>2, Zenon DEF Range
<1> QED BY <1>1, <1>6, <1>7, Zenon DEF PickedOf

-----------------------------------------------------------------------------
(* Spans. *)

(* The behaviours of the exporter, as the theorem needs them. *)
TracingSpec == TracingInit /\ [][TracingNext]_tracingVars

(* The loop of Joined. *)
JoinRun(g, s) ==
  Joined(s) = g[Len(s)] /\ g[0] = <<>> /\ \A k \in 1 .. Len(s) : g[k] = g[k - 1] \o s[k]

LEMMA JoinedRuns ==
  ASSUME NEW X, NEW s \in Seq(Seq(X))
  PROVE  \E g : JoinRun(g, s)
<1> DEFINE H == Len(s)
           step == [p \in Seq(X) \X (1 .. H) |-> p[1] \o s[p[2]]]
           G(g) == g = [k \in 0 .. H |-> IF k = 0 THEN <<>> ELSE g[k - 1] \o s[k]]
<1>1. H \in Nat /\ \A k \in 1 .. H : s[k] \in Seq(X)
  OBVIOUS
<1>2. <<>> \in Seq(X) /\ \A a, b \in Seq(X) : a \o b \in Seq(X)
  OBVIOUS
<1>3. step \in [Seq(X) \X (1 .. H) -> Seq(X)]
  <2>1. ASSUME NEW p \in Seq(X) \X (1 .. H) PROVE p[1] \o s[p[2]] \in Seq(X)
    <3>1. p[1] \in Seq(X) /\ p[2] \in 1 .. H
      BY <2>1
    <3> QED BY <3>1, <1>1, <1>2, Zenon
  <2> QED BY <2>1, Zenon
<1>4. PICK g : Run(g, H, Seq(X), <<>>, step)
  <2>1. Loop(H, Seq(X), <<>>, step)
    BY <1>1, <1>2, <1>3, Zenon DEF Loop
  <2> HIDE DEF step, H
  <2> QED BY <2>1, LoopRuns, Zenon
<1>5. ASSUME NEW k \in 1 .. H PROVE g[k] = g[k - 1] \o s[k]
  <2>1. k - 1 \in 0 .. H
    BY <1>1
  <2>2. g[k - 1] \in Seq(X)
    BY <2>1, <1>4, Zenon DEF Run
  <2> DEFINE p == <<g[k - 1], k>>
  <2>3. p \in Seq(X) \X (1 .. H) /\ p[1] = g[k - 1] /\ p[2] = k
    BY <2>2
  <2> HIDE DEF p
  <2>4. g[k] = step[p]
    BY <1>4, Zenon DEF p, Run
  <2> QED BY <2>3, <2>4, Zenon
<1>6. \A k \in 0 .. H : k # 0 => k \in 1 .. H
  BY <1>1
<1>7. G(g)
  BY <1>4, <1>5, <1>6, Zenon DEF Run
<1> DEFINE f == CHOOSE f : G(f)
<1>8. G(f)
  BY <1>7, Zenon
<1>9. Joined(s) = f[H]
  BY Zenon DEF Joined
<1> HIDE DEF f
<1>10. \A k \in 0 .. H : f[k] = IF k = 0 THEN <<>> ELSE f[k - 1] \o s[k]
  BY <1>8, Zenon
<1>11. 0 \in 0 .. H /\ \A k \in 1 .. H : k \in 0 .. H /\ k # 0
  BY <1>1
<1> QED BY <1>9, <1>10, <1>11, Zenon DEF JoinRun

(* A concatenation has the length and the members of its parts. *)
Concat(c, a, b, X) ==
  c \in Seq(X) /\ Len(c) = Len(a) + Len(b) /\ Range(c) = Range(a) \cup Range(b)

LEMMA ConcatFacts ==
  ASSUME NEW X, NEW a \in Seq(X), NEW b \in Seq(X)
  PROVE  Concat(a \o b, a, b, X)
<1> DEFINE c == a \o b
<1>1. /\ c \in Seq(X) /\ Len(c) = Len(a) + Len(b) /\ Len(a) \in Nat /\ Len(b) \in Nat
      /\ DOMAIN a = 1 .. Len(a) /\ DOMAIN b = 1 .. Len(b) /\ DOMAIN c = 1 .. (Len(a) + Len(b))
      /\ \A i \in 1 .. (Len(a) + Len(b)) : c[i] = IF i <= Len(a) THEN a[i] ELSE b[i - Len(a)]
  OBVIOUS
<1> HIDE DEF c
<1>2. ASSUME NEW y \in Range(c) PROVE y \in Range(a) \cup Range(b)
  <2>1. PICK i \in 1 .. (Len(a) + Len(b)) : y = c[i]
    BY <1>1, <1>2, Zenon DEF Range
  <2>2. CASE i <= Len(a)
    <3>1. i \in 1 .. Len(a)
      BY <1>1, <2>2
    <3> QED BY <1>1, <2>1, <2>2, <3>1, Zenon DEF Range
  <2>3. CASE ~(i <= Len(a))
    <3>1. i - Len(a) \in 1 .. Len(b)
      BY <1>1, <2>3
    <3> QED BY <1>1, <2>1, <2>3, <3>1, Zenon DEF Range
  <2> QED BY <2>2, <2>3, Zenon
<1>3. ASSUME NEW y \in Range(a) PROVE y \in Range(c)
  <2>1. PICK i \in 1 .. Len(a) : y = a[i]
    BY <1>1, <1>3, Zenon DEF Range
  <2>2. i \in 1 .. (Len(a) + Len(b)) /\ i <= Len(a)
    BY <1>1
  <2> QED BY <1>1, <2>1, <2>2, Zenon DEF Range
<1>4. ASSUME NEW y \in Range(b) PROVE y \in Range(c)
  <2>1. PICK i \in 1 .. Len(b) : y = b[i]
    BY <1>1, <1>4, Zenon DEF Range
  <2>2. Len(a) + i \in 1 .. (Len(a) + Len(b)) /\ ~(Len(a) + i <= Len(a)) /\ (Len(a) + i) - Len(a) = i
    BY <1>1
  <2> QED BY <1>1, <2>1, <2>2, Zenon DEF Range
<1>5. Range(c) = Range(a) \cup Range(b)
  BY <1>2, <1>3, <1>4, Zenon
<1> QED BY <1>1, <1>5, Zenon DEF c, Concat

(* Keys of one word each: joined, they are as many words as keys. *)
LEMMA JoinedWords ==
  ASSUME NEW X, NEW s \in Seq(Seq(X)), \A i \in DOMAIN s : Len(s[i]) = 1
  PROVE  Len(Joined(s)) = Len(s)
<1> DEFINE H == Len(s)
<1>0. PICK g : JoinRun(g, s)
  BY JoinedRuns
<1>1. Joined(s) = g[H] /\ g[0] = <<>> /\ \A k \in 1 .. H : g[k] = g[k - 1] \o s[k]
  BY <1>0, Zenon DEF JoinRun
<1>2. H \in Nat /\ DOMAIN s = 1 .. H /\ \A k \in 1 .. H : s[k] \in Seq(X)
  OBVIOUS
<1> DEFINE S == {m \in Nat : m <= H => g[m] \in Seq(X) /\ Len(g[m]) = m}
<1>3. 0 \in S
  <2>1. <<>> \in Seq(X) /\ Len(<<>>) = 0
    OBVIOUS
  <2> QED BY <2>1, <1>1, Zenon
<1>4. ASSUME NEW m \in Nat, m \in S PROVE m + 1 \in S
  <2>1. m + 1 \in Nat
    OBVIOUS
  <2> SUFFICES ASSUME m + 1 <= H PROVE g[m + 1] \in Seq(X) /\ Len(g[m + 1]) = m + 1
    BY <2>1, Zenon
  <2>2. m <= H /\ m + 1 \in 1 .. H /\ (m + 1) - 1 = m
    BY <1>2
  <2>3. g[m] \in Seq(X) /\ Len(g[m]) = m /\ s[m + 1] \in Seq(X) /\ Len(s[m + 1]) = 1
    BY <1>2, <1>4, <2>2, Zenon
  <2>4. g[m + 1] = g[m] \o s[m + 1]
    BY <1>1, <2>2, Zenon
  <2>5. g[m + 1] \in Seq(X) /\ Len(g[m + 1]) = Len(g[m]) + Len(s[m + 1])
    <3>1. Concat(g[m] \o s[m + 1], g[m], s[m + 1], X)
      BY <2>3, ConcatFacts, Zenon
    <3> QED BY <3>1, <2>4, Zenon DEF Concat
  <2> QED BY <2>3, <2>5, Zenon
<1>5. H \in S
  <2> HIDE DEF S
  <2> QED BY <1>2, <1>3, <1>4, Induction, Zenon
<1>6. H <= H
  BY <1>2
<1> QED BY <1>1, <1>5, <1>6, Zenon

(* No lists join to an empty one. *)
LEMMA JoinedNone == Joined(<<>>) = <<>>
<1>1. <<>> \in Seq(Seq({})) /\ Len(<<>>) = 0
  OBVIOUS
<1>2. PICK g : JoinRun(g, <<>>)
  BY <1>1, JoinedRuns, Zenon
<1> QED BY <1>1, <1>2, Zenon DEF JoinRun

(* The notes of a span of message m: the keys, unless there are none, in a *)
(* note of their own.                                                      *)
NotesOf(m, notes) ==
  /\ notes \in Seq(Range(notes))
  /\ \A n \in Range(notes) : n.description = "keys" => n.words = Joined(m.keys)
  /\ (\E n \in Range(notes) : n.description = "keys") <=> m.keys # <<>>

(* A span under way carries its message. *)
Carries(s) ==
  /\ s.message \in Traced /\ s.traceId = "own" /\ s.start = "started"
  /\ s.attributes = universalAttributes(s.message) /\ NotesOf(s.message, s.notes)

(* What an export says of the span it was made of. *)
Truthful(s, item) ==
  /\ item.attributes = universalAttributes(s.message) /\ item.ok = s.ok
  /\ (\A i \in DOMAIN s.message.keys : Len(s.message.keys[i]) = 1)
       => item.keys = Joined(s.message.keys) /\ Len(item.keys) = Len(s.message.keys)
  /\ item.events = Cardinality({i \in DOMAIN s.notes : s.notes[i].description = "note"})
  /\ item.start = "waited" <=> (\E i \in DOMAIN s.notes : s.notes[i].description = "await")
  /\ item.traceId = "own" <=> (s.links = 0)

(* The notes with a description, each as often as it was made. *)
DescribedOf(p, s, d) ==
  /\ p \in Seq(Range(s.notes)) /\ Range(p) = {n \in Range(s.notes) : n.description = d}
  /\ Len(p) = Cardinality({i \in DOMAIN s.notes : s.notes[i].description = d})

LEMMA DescribedFacts ==
  ASSUME NEW s, s.notes \in Seq(Range(s.notes)), NEW d
  PROVE  DescribedOf(Described(s, d), s, d)
<1> DEFINE q == s.notes
           X == Range(q)
           T == {n \in X : n.description = d}
<1>1. /\ Picked(q, T) \in Seq(X) /\ Range(Picked(q, T)) = Range(q) \cap T
      /\ Len(Picked(q, T)) = Cardinality({i \in DOMAIN q : q[i] \in T})
  <2>1. PickedOf(Picked(q, T), q, T, X)
    BY PickedFacts
  <2> QED BY <2>1, Zenon DEF PickedOf
<1>2. {i \in DOMAIN s.notes : s.notes[i] \in T} = {i \in DOMAIN s.notes : s.notes[i].description = d}
  BY Zenon DEF Range
<1>3. Range(s.notes) \cap T = T
  BY Zenon
<1> QED BY <1>1, <1>2, <1>3, Zenon DEF Described, DescribedOf

(* A list is empty exactly if it has no members. *)
LEMMA EmptyRange ==
  ASSUME NEW X, NEW s \in Seq(X)
  PROVE  (s = <<>> <=> Range(s) = {}) /\ (s # <<>> => s[1] \in Range(s))
<1>1. Len(s) \in Nat /\ DOMAIN s = 1 .. Len(s) /\ (s = <<>> <=> Len(s) = 0)
  OBVIOUS
<1>2. (Len(s) = 0 => \A i \in 1 .. Len(s) : FALSE) /\ (Len(s) # 0 => 1 \in 1 .. Len(s))
  BY <1>1
<1> QED BY <1>1, <1>2, Zenon DEF Range

(* Export converts a span that carries its message to an item that says so. *)
LEMMA ConvertedTruthful ==
  ASSUME NEW s, Carries(s)
  PROVE  Truthful(s, Converted(s))
<1> DEFINE item == Converted(s)
           keys == Described(s, "keys")
           awaits == Described(s, "await")
<1>1. /\ item.attributes = s.attributes /\ item.ok = s.ok /\ item.events = Len(Described(s, "note"))
      /\ item.start = (IF awaits # <<>> THEN "waited" ELSE s.start)
      /\ item.keys = (IF keys = <<>> THEN <<>> ELSE keys[1].words)
      /\ item.traceId = (IF s.links = 0 THEN s.traceId ELSE "of a link")
  BY Zenon DEF Converted
<1>2. s.notes \in Seq(Range(s.notes)) /\ NotesOf(s.message, s.notes) /\ s.message \in Traced
  BY Zenon DEF Carries, NotesOf
<1>3. /\ keys \in Seq(Range(s.notes)) /\ Range(keys) = {n \in Range(s.notes) : n.description = "keys"}
      /\ awaits \in Seq(Range(s.notes)) /\ Range(awaits) = {n \in Range(s.notes) : n.description = "await"}
      /\ item.events = Cardinality({i \in DOMAIN s.notes : s.notes[i].description = "note"})
  <2>1. \A d : DescribedOf(Described(s, d), s, d)
    BY <1>2, DescribedFacts
  <2> QED BY <1>1, <2>1, Zenon DEF DescribedOf
<1> HIDE DEF item, keys, awaits
<1>4. item.start = "waited" <=> \E i \in DOMAIN s.notes : s.notes[i].description = "await"
  <2>1. awaits # <<>> <=> Range(awaits) # {}
    BY <1>3, EmptyRange, Zenon
  <2>2. awaits # <<>> <=> \E i \in DOMAIN s.notes : s.notes[i].description = "await"
    <3>1. Range(awaits) # {} <=> \E n \in Range(s.notes) : n.description = "await"
      BY <1>3, Zenon
    <3>2. (\E n \in Range(s.notes) : n.description = "await")
             <=> \E i \in DOMAIN s.notes : s.notes[i].description = "await"
      BY Zenon DEF Range
    <3> QED BY <2>1, <3>1, <3>2, Zenon
  <2>3. s.start = "started" /\ "started" # "waited"
    BY Zenon DEF Carries
  <2> QED BY <1>1, <2>2, <2>3, Zenon
<1>5. item.traceId = "own" <=> s.links = 0
  <2>1. s.traceId = "own" /\ "of a link" # "own"
    BY Zenon DEF Carries
  <2> QED BY <1>1, <2>1, Zenon
<1>6. item.keys = Joined(s.message.keys)
  <2>1. CASE s.message.keys = <<>>
    <3>1. Range(keys) = {}
      BY <1>2, <1>3, <2>1, Zenon DEF NotesOf
    <3>2. keys = <<>>
      BY <3>1, <1>3, EmptyRange, Zenon
    <3> QED BY <1>1, <2>1, <3>2, JoinedNone, Zenon
  <2>2. CASE s.message.keys # <<>>
    <3>1. Range(keys) # {}
      BY <1>2, <1>3, <2>2, Zenon DEF NotesOf
    <3>2. keys # <<>> /\ keys[1] \in Range(keys)
      BY <3>1, <1>3, EmptyRange, Zenon
    <3>3. keys[1].words = Joined(s.message.keys)
      BY <3>2, <1>2, <1>3, Zenon DEF NotesOf
    <3> QED BY <1>1, <3>2, <3>3, Zenon
  <2> QED BY <2>1, <2>2, Zenon
<1>7. (\A i \in DOMAIN s.message.keys : Len(s.message.keys[i]) = 1)
        => Len(Joined(s.message.keys)) = Len(s.message.keys)
  <2> HAVE \A i \in DOMAIN s.message.keys : Len(s.message.keys[i]) = 1
  <2> DEFINE k == s.message.keys
  <2>1. k \in Seq(Seq(Words(s.message)))
    BY <1>2, TracingConstants, Zenon
  <2> HIDE DEF k
  <2>2. Len(Joined(k)) = Len(k)
    BY <2>1, JoinedWords, Zenon DEF k
  <2> QED BY <2>2, Zenon DEF k
<1>8. item.attributes = universalAttributes(s.message)
  BY <1>1, Zenon DEF Carries
<1>9. Truthful(s, item)
  BY <1>1, <1>3, <1>4, <1>5, <1>6, <1>7, <1>8, Zenon DEF Truthful
<1> QED BY <1>9, Zenon DEF item

(* The inductive invariant: what a span under way carries, besides what    *)
(* holds of an export.                                                     *)
SpanInv ==
  /\ clients_map \subseteq Host /\ hosts_ \subseteq Host
  /\ hosts_ # routed => routed = {}
  /\ span.stage \in {"open", "ended"} => Carries(span)
  /\ span.stage = "crash" => ~provider
  /\ exported # NoExport =>
       mode_ = "Grpc" /\ exported.target \in exported.told /\ Truthful(exported.source, exported.item)

(* The stages of a span are different. *)
LEMMA Stages == NoSpan.stage = "none" /\ "none" \notin {"open", "ended", "crash"}
                /\ "crash" \notin {"open", "ended"}
  BY Zenon DEF NoSpan

(* The note of the keys, if there are any. *)
LEMMA FirstNotes ==
  ASSUME NEW m \in Traced
  PROVE  NotesOf(m, IF m.keys = <<>> THEN <<>> ELSE <<[description |-> "keys", words |-> Joined(m.keys)]>>)
<1>1. CASE m.keys = <<>>
  <2>1. <<>> \in Seq(Range(<<>>)) /\ Range(<<>>) = {}
    BY DEF Range
  <2> QED BY <1>1, <2>1, Zenon DEF NotesOf
<1>2. CASE m.keys # <<>>
  <2> DEFINE n == [description |-> "keys", words |-> Joined(m.keys)]
  <2>1. n.description = "keys" /\ n.words = Joined(m.keys)
    BY Zenon
  <2> HIDE DEF n
  <2>2. Range(<<n>>) = {n} /\ <<n>> \in Seq({n})
    BY DEF Range
  <2>3. NotesOf(m, <<n>>)
    BY <1>2, <2>1, <2>2, Zenon DEF NotesOf
  <2> QED BY <1>2, <2>3, Zenon DEF n
<1> QED BY <1>1, <1>2, Zenon

(* Notes that are not of keys may follow. *)
LEMMA MoreNotes ==
  ASSUME NEW m, NEW notes, NotesOf(m, notes), NEW X, NEW more \in Seq(X),
         \A n \in Range(more) : n.description # "keys"
  PROVE  NotesOf(m, notes \o more)
<1> DEFINE Y == Range(notes) \cup Range(more)
           all == notes \o more
<1>1. notes \in Seq(Y) /\ more \in Seq(Y)
  <2>1. /\ notes \in Seq(Range(notes)) /\ Len(notes) \in Nat /\ DOMAIN notes = 1 .. Len(notes)
        /\ Len(more) \in Nat /\ DOMAIN more = 1 .. Len(more)
        /\ notes = [i \in 1 .. Len(notes) |-> notes[i]] /\ more = [i \in 1 .. Len(more) |-> more[i]]
    BY DEF NotesOf
  <2>2. (\A i \in 1 .. Len(notes) : notes[i] \in Y) /\ (\A i \in 1 .. Len(more) : more[i] \in Y)
    BY <2>1, Zenon DEF Range
  <2> HIDE DEF Y
  <2> QED BY <2>1, <2>2
<1>2. Concat(all, notes, more, Y)
  <2> HIDE DEF Y
  <2> QED BY <1>1, ConcatFacts
<1>3. Range(all) = Y /\ all \in Seq(Range(all))
  BY <1>2, Zenon DEF Concat
<1> HIDE DEF all
<1>4. NotesOf(m, all)
  BY <1>3, Zenon DEF NotesOf
<1> QED BY <1>4, Zenon DEF all

(* Every step of the exporter keeps SpanInv. *)
LEMMA SpanStep ==
  ASSUME SpanInv, [TracingNext]_tracingVars
  PROVE  SpanInv'
<1> USE DEF SpanInv
<1>1. CASE UNCHANGED tracingVars
  BY <1>1, Zenon DEF tracingVars, Carries, NotesOf, Truthful
<1>2. ASSUME NEW h \in SUBSET Host, updateHosts(h) PROVE SpanInv'
  <2>1. /\ routed' = h /\ hosts_' = (IF h = {} THEN hosts_ ELSE h)
        /\ UNCHANGED <<mode_, provider, clients_map, manager, span, exported>>
    BY <1>2, Zenon DEF updateHosts
  <2> QED BY <2>1, Zenon
<1>3. CASE managerGone
  BY <1>3, Zenon DEF managerGone
<1>4. CASE Export
  <2>1. /\ span.stage = "ended" /\ mode_ = "Grpc" /\ clients_map' = syncExportClients
        /\ span' = NoSpan /\ UNCHANGED <<mode_, provider, hosts_, routed, manager>>
    BY <1>4, Zenon DEF Export
  <2>2. syncExportClients \subseteq hosts_
    BY Zenon DEF syncExportClients
  <2>3. exported' = NoExport
        \/ \E h \in clients_map' :
             exported' = [target |-> h, told |-> hosts_, source |-> span, item |-> Converted(span)]
    BY <1>4, Zenon DEF Export
  <2>4. Truthful(span, Converted(span))
    BY <2>1, ConvertedTruthful, Zenon
  <2>5. exported' # NoExport =>
          mode_' = "Grpc" /\ exported'.target \in exported'.told /\ Truthful(exported'.source, exported'.item)
    <3> HAVE exported' # NoExport
    <3>1. PICK h \in clients_map' :
            exported' = [target |-> h, told |-> hosts_, source |-> span, item |-> Converted(span)]
      BY <2>3, Zenon
    <3>2. /\ exported'.target = h /\ exported'.told = hosts_ /\ exported'.source = span
          /\ exported'.item = Converted(span)
      BY <3>1, Zenon
    <3> QED BY <2>1, <2>2, <2>4, <3>2, Zenon
  <2>6. span'.stage \notin {"open", "ended", "crash"}
    BY <2>1, Stages, Zenon
  <2> QED BY <2>1, <2>2, <2>5, <2>6, Zenon
<1>5. CASE exportNothing
  <2>1. span'.stage \notin {"open", "ended", "crash"}
    BY <1>5, Stages, Zenon DEF exportNothing
  <2> QED BY <1>5, <2>1, Zenon DEF exportNothing
<1>6. ASSUME NEW m \in Traced, addUniversalSpanAttributes(m) PROVE SpanInv'
  <2> DEFINE first == IF m.keys = <<>> THEN <<>>
                      ELSE <<[description |-> "keys", words |-> Joined(m.keys)]>>
  <2>1. /\ span' = (IF ~provider THEN [stage |-> "crash"]
                    ELSE [stage |-> "open", message |-> m, traceId |-> "own", start |-> "started",
                          attributes |-> universalAttributes(m), notes |-> first])
        /\ exported' = NoExport /\ UNCHANGED <<mode_, provider, hosts_, routed, clients_map, manager>>
    BY <1>6, Zenon DEF addUniversalSpanAttributes
  <2>2. NotesOf(m, first)
    BY FirstNotes, Zenon
  <2> HIDE DEF first
  <2>3. CASE provider
    <3>1. /\ span'.stage = "open" /\ span'.message = m /\ span'.traceId = "own"
          /\ span'.start = "started" /\ span'.attributes = universalAttributes(m) /\ span'.notes = first
      BY <2>1, <2>3, Zenon
    <3>2. Carries(span')
      BY <3>1, <2>2, Zenon DEF Carries
    <3> QED BY <2>1, <3>1, <3>2, Zenon
  <2>4. CASE ~provider
    <3>1. span'.stage = "crash"
      BY <2>1, <2>4, Zenon
    <3> QED BY <2>1, <2>4, <3>1, Stages, Zenon
  <2> QED BY <2>3, <2>4, Zenon
<1>7. ASSUME NEW x \in Extra, spanEnds(x) PROVE SpanInv'
  <2> DEFINE await == IF x.await THEN <<[description |-> "await"]>> ELSE <<>>
             more == [i \in 1 .. x.notes |-> [description |-> "note"]]
  <2>1. /\ span.stage = "open"
        /\ span' = [stage |-> "ended", message |-> span.message, traceId |-> span.traceId,
                    start |-> span.start, attributes |-> span.attributes, ok |-> x.ok,
                    events |-> x.events, links |-> x.links, notes |-> (span.notes \o await) \o more]
        /\ UNCHANGED <<mode_, provider, hosts_, routed, clients_map, manager, exported>>
    BY <1>7, Zenon DEF spanEnds
  <2>2. await \in Seq({[description |-> "await"]}) /\ \A n \in Range(await) : n.description # "keys"
    <3> DEFINE n == [description |-> "await"]
    <3>1. n.description # "keys"
      BY Zenon
    <3> HIDE DEF n
    <3>2. <<n>> \in Seq({n}) /\ <<>> \in Seq({n}) /\ Range(<<n>>) = {n} /\ Range(<<>>) = {}
      BY DEF Range
    <3>3. (IF x.await THEN <<n>> ELSE <<>>) \in Seq({n})
          /\ \A y \in Range(IF x.await THEN <<n>> ELSE <<>>) : y.description # "keys"
      BY <3>1, <3>2, Zenon
    <3> QED BY <3>3, Zenon DEF n
  <2>3. more \in Seq({[description |-> "note"]}) /\ \A n \in Range(more) : n.description # "keys"
    <3> DEFINE n == [description |-> "note"]
               k == x.notes
    <3>1. n.description # "keys"
      BY Zenon
    <3>2. k \in Nat
      BY TracingConstants, Zenon
    <3> HIDE DEF n, k
    <3>3. [i \in 1 .. k |-> n] \in Seq({n}) /\ \A y \in Range([i \in 1 .. k |-> n]) : y = n
      BY <3>2 DEF Range
    <3> QED BY <3>1, <3>3, Zenon DEF n, k
  <2> HIDE DEF await, more
  <2>4. Carries(span)
    BY <2>1, Zenon
  <2>5. NotesOf(span.message, span.notes)
    BY <2>4, Zenon DEF Carries
  <2>6. NotesOf(span.message, (span.notes \o await) \o more)
    <3>1. NotesOf(span.message, span.notes \o await)
      BY <2>2, <2>5, MoreNotes
    <3> QED BY <2>3, <3>1, MoreNotes
  <2>7. /\ span'.stage = "ended" /\ span'.message = span.message /\ span'.traceId = span.traceId
        /\ span'.start = span.start /\ span'.attributes = span.attributes
        /\ span'.notes = (span.notes \o await) \o more
    BY <2>1, Zenon
  <2>8. Carries(span')
    BY <2>4, <2>6, <2>7, Zenon DEF Carries
  <2> QED BY <2>1, <2>7, <2>8, Stages, Zenon
<1> QED BY <1>1, <1>2, <1>3, <1>4, <1>5, <1>6, <1>7, Zenon DEF TracingNext

(* For any hosts, messages and annotations: spans go to hosts the exporter *)
(* was told of, when tracing is on; what is exported of a span is its      *)
(* attributes, status, annotations and keys; message events and the trace  *)
(* id of a span with links are lost; and a client without credentials      *)
(* cannot trace.                                                           *)
THEOREM TracingCorrect == TracingSpec => []TracingInv
<1>1. TracingInit => SpanInv
  BY Stages, Zenon DEF TracingInit, SpanInv
<1>2. SpanInv => TracingInv
  BY Zenon DEF SpanInv, TracingInv, Truthful
<1> QED BY <1>1, <1>2, SpanStep, PTL DEF TracingSpec

-----------------------------------------------------------------------------
(* The queues of a route. *)

(* The behaviours of QueueChoice, as the theorem needs them. *)
QueueSpec == QueueInit /\ [][QueueNext]_queueVars

(* Partitions that a sort can tell apart. *)
Orderly(s) ==
  /\ s \in Seq(Range(s)) /\ \A p \in Range(s) : p.broker \in Nat /\ p.id \in Nat
  /\ \A i, j \in 1 .. Len(s) : QueueOf(s[i]) = QueueOf(s[j]) => i = j

(* A list is a list of its members. *)
LEMMA SeqOfRange ==
  ASSUME NEW X, NEW s \in Seq(X)
  PROVE  s \in Seq(Range(s)) /\ Len(s) \in Nat /\ DOMAIN s = 1 .. Len(s)
<1>1. Len(s) \in Nat /\ DOMAIN s = 1 .. Len(s) /\ s = [i \in 1 .. Len(s) |-> s[i]]
  OBVIOUS
<1>2. \A i \in 1 .. Len(s) : s[i] \in Range(s)
  BY <1>1, Zenon DEF Range
<1> QED BY <1>1, <1>2

(* An orderly list repeats nothing and has as many members as places. *)
LEMMA OrderlyFacts ==
  ASSUME NEW s, Orderly(s)
  PROVE  /\ s \in Seq(Range(s)) /\ Len(s) \in Nat /\ DOMAIN s = 1 .. Len(s) /\ Differ(s)
         /\ \A p, q \in Range(s) : QueueOf(p) = QueueOf(q) => p = q
         /\ IsFiniteSet(Range(s)) /\ Cardinality(Range(s)) = Len(s)
<1>1. s \in Seq(Range(s))
  BY Zenon DEF Orderly
<1>2. Len(s) \in Nat /\ DOMAIN s = 1 .. Len(s)
  BY <1>1, SeqOfRange
<1>3. Differ(s)
  BY Zenon DEF Orderly, Differ
<1>4. \A p, q \in Range(s) : QueueOf(p) = QueueOf(q) => p = q
  BY <1>2, Zenon DEF Orderly, Range
<1>5. IsFiniteSet(Range(s)) /\ Cardinality(Range(s)) = Len(s)
  BY <1>1, <1>3, DifferSize
<1> QED BY <1>1, <1>2, <1>3, <1>4, <1>5, Zenon

(* A queue is a broker and an id. *)
LEMMA QueueEq ==
  ASSUME NEW p, NEW q
  PROVE  QueueOf(p) = QueueOf(q) <=> p.broker = q.broker /\ p.id = q.id
  BY DEF QueueOf

(* A list of some of its members, none of them twice. *)
LEMMA OrderlyPart ==
  ASSUME NEW s, Orderly(s), NEW t, t \in Seq(Range(s)), Differ(t)
  PROVE  Orderly(t)
<1>1. t \in Seq(Range(t)) /\ Len(t) \in Nat /\ DOMAIN t = 1 .. Len(t) /\ \A i \in 1 .. Len(t) : t[i] \in Range(s)
  <2>1. \A i \in 1 .. Len(t) : t[i] \in Range(s)
    OBVIOUS
  <2>2. t \in Seq(Range(t)) /\ Len(t) \in Nat /\ DOMAIN t = 1 .. Len(t)
    BY SeqOfRange
  <2> QED BY <2>1, <2>2, Zenon
<1>2. \A p, q \in Range(s) : QueueOf(p) = QueueOf(q) => p = q
  BY OrderlyFacts, Zenon
<1>3. \A p \in Range(t) : p \in Range(s)
  BY <1>1, Zenon DEF Range
<1> QED BY <1>1, <1>2, <1>3, Zenon DEF Orderly, Differ

(* A part of an orderly list is orderly. *)
LEMMA PickedOrderly ==
  ASSUME NEW s, Orderly(s), NEW T
  PROVE  Orderly(Picked(s, T)) /\ Range(Picked(s, T)) = Range(s) \cap T
<1>1. s \in Seq(Range(s)) /\ Differ(s)
  BY OrderlyFacts, Zenon
<1>2. PickedOf(Picked(s, T), s, T, Range(s))
  BY <1>1, PickedFacts
<1>3. Picked(s, T) \in Seq(Range(s)) /\ Differ(Picked(s, T)) /\ Range(Picked(s, T)) = Range(s) \cap T
  BY <1>1, <1>2, Zenon DEF PickedOf
<1> QED BY <1>3, OrderlyPart, Zenon

(* Partition::operator< orders partitions of different queues. *)
LEMMA BeforeOrders ==
  ASSUME NEW s, Orderly(s), NEW p \in Range(s), NEW q \in Range(s)
  PROVE  /\ ~Before(p, p)
         /\ Before(p, q) \/ Before(q, p) \/ p = q
         /\ \A x \in Range(s) : Before(x, p) /\ Before(p, q) => Before(x, q)
<1>1. \A x \in Range(s) : x.broker \in Nat /\ x.id \in Nat
  BY Zenon DEF Orderly
<1>2. p.broker = q.broker /\ p.id = q.id => p = q
  BY OrderlyFacts, QueueEq, Zenon
<1> QED BY <1>1, <1>2 DEF Before

(* A sort loses and adds nothing. *)
SortedOf(t, s) == Orderly(t) /\ Range(t) = Range(s) /\ Len(t) = Len(s)

(* Each partition has a place of its own in the sorted list. *)
LEMMA SortedFacts ==
  ASSUME NEW s, Orderly(s)
  PROVE  SortedOf(Sorted(s), s)
<1> DEFINE S == Range(s)
           n == Len(s)
           L(p) == {q \in S : Before(q, p)}
           rank == [p \in S |-> Cardinality(L(p))]
           I == {Cardinality(L(p)) : p \in S}
<1>1. s \in Seq(S) /\ n \in Nat /\ DOMAIN s = 1 .. n /\ IsFiniteSet(S) /\ Cardinality(S) = n
  BY OrderlyFacts, Zenon
<1>2. ASSUME NEW p \in S PROVE IsFiniteSet(L(p)) /\ Cardinality(L(p)) \in 0 .. n - 1
  <2>1. L(p) \subseteq S /\ p \notin L(p)
    BY BeforeOrders, Zenon
  <2>2. L(p) # S
    BY <2>1, Zenon
  <2> HIDE DEF L, S, n
  <2>3. /\ IsFiniteSet(L(p)) /\ Cardinality(L(p)) <= Cardinality(S)
        /\ Cardinality(L(p)) = Cardinality(S) => S = L(p)
    BY <1>1, <2>1, FS_Subset, Zenon
  <2>4. Cardinality(L(p)) \in Nat
    BY <2>3, FS_CardinalityType, Zenon
  <2> QED BY <1>1, <2>2, <2>3, <2>4
<1>3. ASSUME NEW p \in S, NEW q \in S, Before(p, q) PROVE Cardinality(L(p)) # Cardinality(L(q))
  <2>1. L(p) \subseteq L(q) /\ p \in L(q) /\ p \notin L(p)
    BY <1>3, BeforeOrders, Zenon
  <2>2. L(p) # L(q) /\ IsFiniteSet(L(q))
    BY <2>1, <1>2, Zenon
  <2> HIDE DEF L
  <2> QED BY <2>1, <2>2, FS_Subset, Zenon
<1>4. ASSUME NEW p \in S, NEW q \in S, Cardinality(L(p)) = Cardinality(L(q)) PROVE p = q
  <2> HIDE DEF L
  <2> QED BY <1>3, <1>4, BeforeOrders, Zenon
<1>5. I = 0 .. n - 1
  <2>1. rank \in Bijection(S, I)
    <3>1. rank \in [S -> I]
      BY Zenon
    <3>2. \A p, q \in S : rank[p] = rank[q] => p = q
      BY <1>4, Zenon
    <3>3. \A k \in I : \E p \in S : rank[p] = k
      BY Zenon
    <3> HIDE DEF rank, I
    <3> QED BY <3>1, <3>2, <3>3, Zenon DEF Bijection, Injection, Surjection, IsInjective
  <2>2. Cardinality(I) = n
    <3> HIDE DEF rank, I
    <3> QED BY <1>1, <2>1, FS_Bijection, Zenon DEF ExistsBijection
  <2>3. I \subseteq 0 .. n - 1
    BY <1>2, Zenon
  <2>4. IsFiniteSet(0 .. n - 1) /\ Cardinality(0 .. n - 1) = n
    <3> HIDE DEF n
    <3>1. 0 \in Int /\ n - 1 \in Int
      BY <1>1
    <3>2. IsFiniteSet(0 .. n - 1) /\ Cardinality(0 .. n - 1) = IF 0 > n - 1 THEN 0 ELSE n - 1 - 0 + 1
      BY <3>1, FS_Interval, Zenon
    <3> QED BY <1>1, <3>2
  <2> HIDE DEF I, n
  <2> QED BY <2>2, <2>3, <2>4, FS_Subset, Zenon
<1>6. ASSUME NEW k \in 1 .. n PROVE Sorted(s)[k] \in S /\ Cardinality(L(Sorted(s)[k])) = k - 1
  <2>1. k - 1 \in 0 .. n - 1
    BY <1>1
  <2>2. \E p \in S : Cardinality(L(p)) = k - 1
    BY <2>1, <1>5, Zenon
  <2>3. Sorted(s)[k] = CHOOSE p \in S : Cardinality(L(p)) = k - 1
    BY <1>1, Zenon DEF Sorted, Rank
  <2> HIDE DEF L, S
  <2> QED BY <2>2, <2>3, Zenon
<1> DEFINE t == Sorted(s)
<1>7. DOMAIN t = 1 .. n /\ t = [k \in 1 .. n |-> t[k]]
  <2> DEFINE e(k) == CHOOSE p \in Range(s) : Rank(p, Range(s)) = k - 1
  <2>1. t = [k \in 1 .. n |-> e(k)]
    BY <1>1, Zenon DEF Sorted
  <2> HIDE DEF e, t, n
  <2> QED BY <2>1
<1> HIDE DEF t
<1>8. \A k \in 1 .. n : t[k] \in S /\ Cardinality(L(t[k])) = k - 1
  BY <1>6, Zenon DEF t
<1>9. t \in Seq(S) /\ Len(t) = n
  <2> HIDE DEF S, n, L
  <2> QED BY <1>1, <1>7, <1>8
<1>10. Differ(t)
  <2> SUFFICES ASSUME NEW i \in 1 .. n, NEW j \in 1 .. n, t[i] = t[j] PROVE i = j
    BY <1>9, Zenon DEF Differ
  <2>1. i - 1 = j - 1
    BY <1>8, Zenon
  <2> QED BY <2>1, <1>1
<1>11. Range(t) = S
  <2>1. ASSUME NEW p \in S PROVE p \in Range(t)
    <3> DEFINE k == Cardinality(L(p)) + 1
    <3>1. k \in 1 .. n /\ Cardinality(L(p)) = k - 1
      <4>1. Cardinality(L(p)) \in 0 .. n - 1
        BY <1>2, Zenon
      <4> HIDE DEF L, n
      <4> QED BY <4>1, <1>1
    <3>2. t[k] = p
      BY <3>1, <1>4, <1>8, Zenon
    <3> QED BY <3>1, <3>2, <1>7, Zenon DEF Range
  <2>2. ASSUME NEW p \in Range(t) PROVE p \in S
    BY <2>2, <1>7, <1>8, Zenon DEF Range
  <2> QED BY <2>1, <2>2, Zenon
<1>12. Orderly(t)
  BY <1>9, <1>10, OrderlyPart, Zenon
<1> QED BY <1>9, <1>11, <1>12, Zenon DEF SortedOf, t

(* The bounds of the counters are positive. *)
LEMMA CounterWidth == CounterRange \in Nat \ {0} /\ MaxAttempt \in Nat \ {0}
  BY QueueConstants, Zenon

(* Whatever the counter, a loop looks only at partitions of the list. *)
LEMMA VisitsInList ==
  ASSUME NEW list, Orderly(list), list # <<>>, NEW index \in Nat, NEW N \in Nat
  PROVE  /\ Visits(list, index, N) \in Seq(Range(list)) /\ Len(Visits(list, index, N)) = N
         /\ \A k \in 1 .. N : Visits(list, index, N)[k] \in Range(list)
<1> DEFINE n == Len(list)
           V == Visits(list, index, N)
<1>1. n \in Nat \ {0} /\ DOMAIN list = 1 .. n
  <2>1. list \in Seq(Range(list)) /\ n \in Nat /\ DOMAIN list = 1 .. n
    BY OrderlyFacts, Zenon
  <2>2. n # 0
    BY <2>1
  <2> QED BY <2>1, <2>2, Zenon
<1>2. ASSUME NEW k \in 1 .. N PROVE V[k] \in Range(list)
  <2>1. index + k - 1 \in Nat
    OBVIOUS
  <2>2. (index + k - 1) % CounterRange \in Nat
    BY <2>1, CounterWidth, DivMod
  <2>3. ((index + k - 1) % CounterRange) % n \in 0 .. (n - 1)
    BY <2>2, <1>1, DivMod, Zenon
  <2> DEFINE m == ((index + k - 1) % CounterRange) % n
  <2> HIDE DEF m
  <2>4. m + 1 \in 1 .. n
    BY <2>3, <1>1 DEF m
  <2>5. V[k] = list[m + 1]
    BY Zenon DEF Visits, m
  <2> QED BY <2>4, <2>5, <1>1, Zenon DEF Range
<1>3. V \in Seq(Range(list)) /\ Len(V) = N
  <2>1. V = [k \in 1 .. N |-> V[k]]
    <3> DEFINE e(i) == list[(((index + i - 1) % CounterRange) % n) + 1]
    <3>1. V = [i \in 1 .. N |-> e(i)]
      BY Zenon DEF Visits
    <3> HIDE DEF e, V
    <3> QED BY <3>1
  <2> HIDE DEF V
  <2> QED BY <2>1, <1>2
<1> QED BY <1>2, <1>3, Zenon

(* As many rounds as the list is long, in which the counter does not wrap, *)
(* come to every partition.                                                *)
Steady(index, off, b, n) == \A m \in 0 .. n - 1 : (index + off + m) % CounterRange = b + m

Visited(p, list, index, N) == \E k \in 1 .. N : Visits(list, index, N)[k] = p

LEMMA VisitsCover ==
  ASSUME NEW list, Orderly(list), NEW index \in Nat, NEW N \in Nat, NEW off \in Nat, NEW b \in Nat,
         off + Len(list) <= N, Steady(index, off, b, Len(list)), NEW p \in Range(list)
  PROVE  Visited(p, list, index, N)
<1> DEFINE n == Len(list)
<1>1. n \in Nat /\ DOMAIN list = 1 .. n
  BY OrderlyFacts, Zenon
<1>2. PICK j \in 1 .. n : p = list[j]
  BY <1>1, Zenon DEF Range
<1>3. n \in Nat \ {0}
  BY <1>1, <1>2
<1> DEFINE a == b % n
           q == b \div n
           m == IF a <= j - 1 THEN (j - 1) - a ELSE n + (j - 1) - a
<1>4. a \in 0 .. (n - 1) /\ q \in Nat /\ b = n * q + a
  BY <1>3, DivMod, Zenon
<1> HIDE DEF n, a, q
<1>5. m \in 0 .. n - 1 /\ b + m \in Nat
  BY <1>3, <1>4
<1>6. (b + m) % n = j - 1
  <2>1. j - 1 \in 0 .. (n - 1)
    BY <1>3
  <2>2. CASE a <= j - 1
    <3>1. b + m = n * q + (j - 1)
      BY <1>3, <1>4, <2>2
    <3> QED BY <1>3, <1>4, <1>5, <2>1, <3>1, ModUnique
  <2>3. CASE ~(a <= j - 1)
    <3>1. b + m = n * (q + 1) + (j - 1) /\ q + 1 \in Nat
      BY <1>3, <1>4, <2>3
    <3> DEFINE c == b + m
               z == q + 1
               r == j - 1
    <3>2. c \in Nat /\ z \in Nat /\ r \in 0 .. (n - 1) /\ c = n * z + r
      BY <1>5, <2>1, <3>1, Zenon
    <3> HIDE DEF m, c, z, r
    <3>3. c % n = r
      BY <1>3, <3>2, ModUnique
    <3> QED BY <3>3, Zenon DEF c, r
  <2> QED BY <2>2, <2>3, Zenon
<1> HIDE DEF m
<1> DEFINE k == off + m + 1
<1>7. k \in 1 .. N /\ index + k - 1 = index + off + m
  BY <1>3, <1>5 DEF n
<1>8. Visits(list, index, N)[k] = list[(((index + k - 1) % CounterRange) % Len(list)) + 1]
  BY <1>7, Zenon DEF Visits
<1>9. (index + k - 1) % CounterRange = b + m
  BY <1>5, <1>7, Zenon DEF n, Steady
<1>10. ((index + k - 1) % CounterRange) % Len(list) = j - 1
  BY <1>6, <1>9, Zenon DEF n
<1>11. (j - 1) + 1 = j
  BY <1>3
<1> QED BY <1>2, <1>7, <1>8, <1>10, <1>11, Zenon DEF Visited

(* What takeMessageQueues has after some of the visits v. *)
TakenOf(t, X, v, k, isolated, count) ==
  /\ t \in Seq(X) /\ Len(t) <= count
  /\ \A i, j \in 1 .. Len(t) : t[i].broker = t[j].broker => i = j
  /\ \A p \in Range(t) : p.address \notin isolated
  /\ \/ Len(t) = count
     \/ \A i \in 1 .. k : v[i].address \in isolated \/ v[i].broker \in Brokers(t)

(* A round of takeMessageQueues leaves a list. *)
LEMMA TakeType ==
  ASSUME NEW X, NEW t \in Seq(X), NEW p \in X, NEW isolated, NEW count
  PROVE  Take(t, p, isolated, count) \in Seq(X)
<1>1. Append(t, p) \in Seq(X)
  BY AppendFacts
<1> QED BY <1>1, Zenon DEF Take

(* One round of takeMessageQueues keeps TakenOf. *)
LEMMA TakeStep ==
  ASSUME NEW X, NEW v, NEW k \in Nat, NEW isolated, NEW count \in Nat, NEW t,
         TakenOf(t, X, v, k, isolated, count), v[k + 1] \in X
  PROVE  TakenOf(Take(t, v[k + 1], isolated, count), X, v, k + 1, isolated, count)
<1> DEFINE p == v[k + 1]
<1>1. /\ t \in Seq(X) /\ Len(t) <= count
      /\ \A i, j \in 1 .. Len(t) : t[i].broker = t[j].broker => i = j
      /\ \A x \in Range(t) : x.address \notin isolated
      /\ \/ Len(t) = count
         \/ \A i \in 1 .. k : v[i].address \in isolated \/ v[i].broker \in Brokers(t)
  BY Zenon DEF TakenOf
<1>2. Len(t) \in Nat /\ DOMAIN t = 1 .. Len(t) /\ \A i : i \in 1 .. k + 1 <=> i \in 1 .. k \/ i = k + 1
  BY <1>1
<1> DEFINE l == Len(t)
<1>0. l \in Nat /\ l <= count
  BY <1>1, <1>2, Zenon
<1> HIDE DEF l
<1>c. /\ l >= count => l = count
      /\ ~(l >= count) => l # count /\ l + 1 <= count
  BY <1>0
<1>3. CASE Len(t) >= count
  <2>1. Len(t) = count
    BY <1>c, <1>3, Zenon DEF l
  <2>2. Take(t, p, isolated, count) = t
    BY <1>3, Zenon DEF Take
  <2>3. TakenOf(t, X, v, k + 1, isolated, count)
    BY <2>1, <1>1, Zenon DEF TakenOf
  <2> QED BY <2>2, <2>3, Zenon
<1>4. CASE ~(Len(t) >= count) /\ (p.address \in isolated \/ p.broker \in Brokers(t))
  <2>1. Len(t) # count
    BY <1>c, <1>4, Zenon DEF l
  <2>2. Take(t, p, isolated, count) = t
    BY <1>4, Zenon DEF Take
  <2> QED BY <2>1, <2>2, <1>1, <1>2, <1>4, Zenon DEF TakenOf
<1>5. CASE ~(Len(t) >= count) /\ p.address \notin isolated /\ p.broker \notin Brokers(t)
  <2> DEFINE u == Append(t, p)
  <2>1. Len(t) # count /\ Len(t) + 1 <= count
    BY <1>c, <1>5, Zenon DEF l
  <2>2. Take(t, p, isolated, count) = u
    BY <1>5, Zenon DEF Take
  <2>3. /\ u \in Seq(X) /\ Len(u) = Len(t) + 1 /\ u[Len(t) + 1] = p
        /\ \A i \in 1 .. Len(t) : u[i] = t[i]
    BY <1>1, AppendFacts
  <2>4. Range(u) = Range(t) \cup {p}
    BY <1>1, RangeAppend
  <2> HIDE DEF u
  <2>5. \A i \in 1 .. Len(t) : t[i].broker # p.broker
    BY <1>2, <1>5, Zenon DEF Brokers, Range
  <2>6. \A i : i \in 1 .. (Len(t) + 1) <=> i \in 1 .. Len(t) \/ i = Len(t) + 1
    BY <1>2
  <2>7. \A i, j \in 1 .. Len(u) : u[i].broker = u[j].broker => i = j
    <3> SUFFICES ASSUME NEW i \in 1 .. (Len(t) + 1), NEW j \in 1 .. (Len(t) + 1),
                        u[i].broker = u[j].broker
                 PROVE  i = j
      BY <2>3, Zenon
    <3> QED BY <1>1, <2>3, <2>5, <2>6, Zenon
  <2>8. Brokers(u) = Brokers(t) \cup {p.broker}
    BY <2>4, Zenon DEF Brokers
  <2>9. Len(u) <= count /\ \A x \in Range(u) : x.address \notin isolated
    BY <1>1, <1>5, <2>1, <2>3, <2>4, Zenon
  <2>10. \/ Len(u) = count
         \/ \A i \in 1 .. k + 1 : v[i].address \in isolated \/ v[i].broker \in Brokers(u)
    BY <1>1, <1>2, <2>1, <2>8, Zenon
  <2>11. TakenOf(u, X, v, k + 1, isolated, count)
    BY <2>3, <2>7, <2>9, <2>10, Zenon DEF TakenOf
  <2> QED BY <2>2, <2>11, Zenon
<1> QED BY <1>3, <1>4, <1>5, Zenon

(* ... and so do all of them. *)
LEMMA TakenFacts ==
  ASSUME NEW list, Orderly(list), NEW index \in Nat, NEW isolated, NEW count \in Nat
  PROVE  TakenOf(takeMessageQueues(list, index, isolated, count), Range(list),
                 Visits(list, index, Len(list)), Len(list), isolated, count)
<1> DEFINE H == Len(list)
           X == Range(list)
           v == Visits(list, index, H)
           step == [p \in Seq(X) \X (1 .. H) |-> Take(p[1], v[p[2]], isolated, count)]
           G(g) == g = [k \in 0 .. H |-> IF k = 0 THEN <<>> ELSE Take(g[k - 1], v[k], isolated, count)]
<1>1. H \in Nat /\ list \in Seq(X)
  BY OrderlyFacts, Zenon
<1>2. \A k \in 1 .. H : v[k] \in X
  <2> TAKE k \in 1 .. H
  <2>1. list # <<>>
    BY <1>1
  <2> QED BY <2>1, <1>1, VisitsInList, Zenon
<1>3. <<>> \in Seq(X)
  OBVIOUS
<1> HIDE DEF v, X
<1>4. step \in [Seq(X) \X (1 .. H) -> Seq(X)]
  <2>1. ASSUME NEW p \in Seq(X) \X (1 .. H) PROVE Take(p[1], v[p[2]], isolated, count) \in Seq(X)
    <3>1. p[1] \in Seq(X) /\ p[2] \in 1 .. H
      BY <2>1
    <3> QED BY <3>1, <1>2, TakeType, Zenon
  <2> QED BY <2>1, Zenon
<1>5. PICK g : Run(g, H, Seq(X), <<>>, step)
  <2>1. Loop(H, Seq(X), <<>>, step)
    BY <1>1, <1>3, <1>4, Zenon DEF Loop
  <2> HIDE DEF step, H
  <2> QED BY <2>1, LoopRuns, Zenon
<1>6. ASSUME NEW k \in 1 .. H PROVE g[k] = Take(g[k - 1], v[k], isolated, count)
  <2>1. k - 1 \in 0 .. H
    BY <1>1
  <2>2. g[k - 1] \in Seq(X)
    BY <2>1, <1>5, Zenon DEF Run
  <2> DEFINE p == <<g[k - 1], k>>
  <2>3. p \in Seq(X) \X (1 .. H) /\ p[1] = g[k - 1] /\ p[2] = k
    BY <2>2
  <2> HIDE DEF p
  <2>4. g[k] = step[p]
    BY <1>5, Zenon DEF p, Run
  <2> QED BY <2>3, <2>4, Zenon
<1>7. \A k \in 0 .. H : k # 0 => k \in 1 .. H
  BY <1>1
<1>8. G(g)
  BY <1>5, <1>6, <1>7, Zenon DEF Run
<1> DEFINE f == CHOOSE f : G(f)
<1>9. G(f)
  BY <1>8, Zenon
<1>10. takeMessageQueues(list, index, isolated, count) = f[H]
  BY Zenon DEF takeMessageQueues, v
<1> HIDE DEF f
<1>11. \A k \in 0 .. H : f[k] = IF k = 0 THEN <<>> ELSE Take(f[k - 1], v[k], isolated, count)
  BY <1>9, Zenon
<1> DEFINE S == {m \in Nat : m <= H => TakenOf(f[m], X, v, m, isolated, count)}
<1>12. 0 \in S
  <2>1. 0 \in 0 .. H /\ <<>> \in Seq(X) /\ Len(<<>>) = 0 /\ DOMAIN <<>> = {} /\ \A i \in 1 .. 0 : FALSE
    BY <1>1
  <2>2. f[0] = <<>> /\ 0 <= count
    BY <2>1, <1>11
  <2>3. TakenOf(<<>>, X, v, 0, isolated, count)
    BY <2>1, <2>2, Zenon DEF TakenOf, Range
  <2> QED BY <2>2, <2>3, Zenon
<1>13. ASSUME NEW m \in Nat, m \in S PROVE m + 1 \in S
  <2>1. m + 1 \in Nat
    OBVIOUS
  <2> SUFFICES ASSUME m + 1 <= H PROVE TakenOf(f[m + 1], X, v, m + 1, isolated, count)
    BY <2>1, Zenon
  <2>2. m <= H /\ m + 1 \in 1 .. H /\ m + 1 \in 0 .. H /\ m + 1 # 0 /\ (m + 1) - 1 = m
    BY <1>1
  <2>3. TakenOf(f[m], X, v, m, isolated, count)
    BY <1>13, <2>2, Zenon
  <2>4. f[m + 1] = Take(f[m], v[m + 1], isolated, count)
    BY <1>11, <2>2, Zenon
  <2>5. v[m + 1] \in X
    BY <1>2, <2>2, Zenon
  <2> QED BY <2>3, <2>4, <2>5, TakeStep, Zenon
<1>14. H \in S
  <2> HIDE DEF S
  <2> QED BY <1>1, <1>12, <1>13, Induction, Zenon
<1>15. H <= H
  BY <1>1
<1> QED BY <1>10, <1>14, <1>15, Zenon DEF v, X

(* Lists of the same partitions are sorted alike. *)
LEMMA SortedAlike ==
  ASSUME NEW s, NEW t, Orderly(s), Orderly(t), Range(s) = Range(t)
  PROVE  Sorted(s) = Sorted(t)
<1>1. DOMAIN s = DOMAIN t
  BY OrderlyFacts, Zenon
<1> DEFINE Places(D, S) == [k \in D |-> CHOOSE p \in S : Rank(p, S) = k - 1]
<1>2. Sorted(s) = Places(DOMAIN s, Range(s)) /\ Sorted(t) = Places(DOMAIN t, Range(t))
  BY Zenon DEF Sorted
<1> HIDE DEF Places
<1> QED BY <1>1, <1>2, Zenon

(* The answers of a server, and what they are decoded to. *)
LEMMA ResponseOrderly ==
  ASSUME NEW r \in Response
  PROVE  /\ Orderly(r) /\ Len(r) <= CounterRange
         /\ \A p \in Range(r) : p.hosts \in Seq(Range(p.hosts))
<1>1. /\ r \in Seq(Range(r)) /\ Len(r) <= CounterRange
      /\ \A p \in Range(r) : p.broker \in Nat /\ p.id \in Nat /\ p.hosts \in Seq(Range(p.hosts))
      /\ \A i, j \in DOMAIN r : QueueOf(r[i]) = QueueOf(r[j]) => i = j
  BY QueueConstants, Zenon
<1>2. DOMAIN r = 1 .. Len(r)
  BY <1>1, SeqOfRange
<1> QED BY <1>1, <1>2, Zenon DEF Orderly

(* Decoding and sorting an answer keeps its queues apart. *)
LEMMA DecodedOrderly ==
  ASSUME NEW r \in Response
  PROVE  Orderly(TopicRouteData(r)) /\ Len(TopicRouteData(r)) <= CounterRange
<1> DEFINE d == [i \in DOMAIN r |-> Decoded(r[i])]
<1>1. /\ Orderly(r) /\ Len(r) <= CounterRange /\ r \in Seq(Range(r)) /\ Len(r) \in Nat
      /\ DOMAIN r = 1 .. Len(r)
  BY ResponseOrderly, OrderlyFacts, Zenon
<1>2. \A p : Decoded(p).broker = p.broker /\ Decoded(p).id = p.id
  BY DEF Decoded
<1>3. DOMAIN d = 1 .. Len(r) /\ \A i \in 1 .. Len(r) : d[i] = Decoded(r[i]) /\ d[i] \in Range(d)
  BY <1>1, Zenon DEF Range
<1>4. d \in Seq(Range(d)) /\ Len(d) = Len(r)
  <2>1. d = [i \in 1 .. Len(r) |-> d[i]]
    <3> DEFINE e(i) == Decoded(r[i])
    <3>1. d = [i \in 1 .. Len(r) |-> e(i)]
      BY <1>1, Zenon
    <3> HIDE DEF e, d
    <3> QED BY <3>1
  <2> HIDE DEF d
  <2> QED BY <2>1, <1>1, <1>3
<1> HIDE DEF d
<1>5. \A p \in Range(d) : p.broker \in Nat /\ p.id \in Nat
  <2> SUFFICES ASSUME NEW i \in 1 .. Len(r) PROVE d[i].broker \in Nat /\ d[i].id \in Nat
    BY <1>3, Zenon DEF Range
  <2>1. r[i] \in Range(r)
    BY <1>1, Zenon DEF Range
  <2>2. r[i].broker \in Nat /\ r[i].id \in Nat
    BY <2>1, <1>1, Zenon DEF Orderly
  <2>3. d[i].broker = r[i].broker /\ d[i].id = r[i].id
    BY <1>2, <1>3
  <2> QED BY <2>2, <2>3, Zenon
<1>6. \A i, j \in 1 .. Len(d) : QueueOf(d[i]) = QueueOf(d[j]) => i = j
  <2> SUFFICES ASSUME NEW i \in 1 .. Len(r), NEW j \in 1 .. Len(r), QueueOf(d[i]) = QueueOf(d[j])
               PROVE  i = j
    BY <1>4, Zenon
  <2>1. d[i].broker = d[j].broker /\ d[i].id = d[j].id
    BY QueueEq, Zenon
  <2>2. QueueOf(r[i]) = QueueOf(r[j])
    <3>1. r[i].broker = r[j].broker /\ r[i].id = r[j].id
      BY <2>1, <1>2, <1>3
    <3> QED BY <3>1, QueueEq, Zenon
  <2> QED BY <2>2, <1>1, Zenon DEF Orderly
<1>7. Orderly(d)
  BY <1>4, <1>5, <1>6, Zenon DEF Orderly
<1>8. SortedOf(Sorted(d), d)
  BY <1>7, SortedFacts, Zenon
<1> QED BY <1>1, <1>4, <1>8, Zenon DEF SortedOf, TopicRouteData, d

(* Nothing is in order. *)
LEMMA EmptyOrderly == Orderly(<<>>) /\ Range(<<>>) = {} /\ Len(<<>>) = 0
<1>1. DOMAIN <<>> = {} /\ Len(<<>>) = 0 /\ <<>> \in Seq(Range(<<>>)) /\ \A i \in 1 .. 0 : FALSE
  OBVIOUS
<1> QED BY <1>1, Zenon DEF Orderly, Range

-----------------------------------------------------------------------------
(* A list that updatePublishInfo may make. *)
Publishable(list) == Orderly(list) /\ \A p \in Range(list) : p.master /\ p.permission # "READ"

(* What the choices are made from. *)
RouteInv ==
  /\ Orderly(response) /\ \A p \in Range(response) : p.hosts \in Seq(Range(p.hosts))
  /\ Orderly(route) /\ Len(route) <= CounterRange
  /\ partition_list = NotMade \/ Publishable(partition_list)

(* The partitions updatePublishInfo keeps are writable and of masters. *)
LEMMA WritablePublishable ==
  ASSUME NEW r, Orderly(r)
  PROVE  Publishable(Writable(r))
<1> DEFINE T == {p \in Range(r) : p.permission # "READ" /\ p.master}
<1>1. Orderly(Picked(r, T)) /\ Range(Picked(r, T)) = Range(r) \cap T
  BY PickedOrderly, Zenon
<1>2. \A p \in T : p.master /\ p.permission # "READ"
  BY Zenon
<1> HIDE DEF T
<1>3. Publishable(Picked(r, T))
  BY <1>1, <1>2, Zenon DEF Publishable
<1> QED BY <1>3, Zenon DEF Writable, T

(* ... and so are those of the publish info a send uses. *)
LEMMA InfoPublishable ==
  ASSUME RouteInv
  PROVE  Publishable(PublishInfo)
<1>1. Publishable(Writable(route))
  BY WritablePublishable, Zenon DEF RouteInv
<1> QED BY <1>1, Zenon DEF RouteInv, PublishInfo

(* What takeMessageQueues promises a send. *)
SpreadOf(taken, list, index, isolated, count) ==
  /\ \A i, j \in DOMAIN taken : taken[i].broker = taken[j].broker => i = j
  /\ Range(taken) \subseteq Range(list)
  /\ Brokers(taken) \subseteq Active(list, isolated)
  /\ Len(taken) <= count
  /\ ~(index + Len(list) > CounterRange) =>
       \/ Len(taken) = count
       \/ Brokers(taken) = Active(list, isolated)

LEMMA Spread ==
  ASSUME NEW list, Orderly(list), NEW index \in 0 .. CounterRange - 1, NEW isolated,
         NEW count \in Nat, NEW taken, taken = takeMessageQueues(list, index, isolated, count)
  PROVE  SpreadOf(taken, list, index, isolated, count)
<1> DEFINE H == Len(list)
           v == Visits(list, index, H)
<1>0. index \in Nat /\ H \in Nat /\ CounterRange \in Nat \ {0}
  BY CounterWidth, OrderlyFacts
<1>1. TakenOf(taken, Range(list), v, H, isolated, count)
  BY <1>0, TakenFacts, Zenon
<1> HIDE DEF v
<1>2. /\ taken \in Seq(Range(list)) /\ Len(taken) <= count
      /\ \A i, j \in 1 .. Len(taken) : taken[i].broker = taken[j].broker => i = j
      /\ \A p \in Range(taken) : p.address \notin isolated
      /\ \/ Len(taken) = count
         \/ \A i \in 1 .. H : v[i].address \in isolated \/ v[i].broker \in Brokers(taken)
  BY <1>1, Zenon DEF TakenOf
<1>3. DOMAIN taken = 1 .. Len(taken) /\ \A i \in 1 .. Len(taken) : taken[i] \in Range(list)
  BY <1>2
<1>4. Range(taken) \subseteq Range(list)
  BY <1>3, Zenon DEF Range
<1>5. Brokers(taken) \subseteq Active(list, isolated)
  BY <1>2, <1>4, Zenon DEF Brokers, Active
<1>6. ASSUME ~(index + H > CounterRange), Len(taken) # count
      PROVE  Active(list, isolated) \subseteq Brokers(taken)
  <2> SUFFICES ASSUME NEW p \in Range(list), p.address \notin isolated PROVE p.broker \in Brokers(taken)
    BY Zenon DEF Active
  <2>1. Steady(index, 0, index, H)
    <3> HIDE DEF H
    <3> USE DEF Steady
    <3> TAKE m \in 0 .. H - 1
    <3>1. /\ index + 0 + m = CounterRange * 0 + (index + m) /\ index + 0 + m \in Nat
          /\ index + m \in 0 .. (CounterRange - 1)
      BY <1>0, <1>6
    <3> DEFINE c == index + 0 + m
               z == index + m
    <3>2. c \in Nat /\ z \in 0 .. (CounterRange - 1) /\ c = CounterRange * 0 + z
      BY <3>1, Zenon
    <3> HIDE DEF c, z
    <3>3. c % CounterRange = z
      BY <1>0, <3>2, ModUnique
    <3> QED BY <3>3, Zenon DEF c, z
  <2>2. 0 \in Nat /\ 0 + H <= H
    BY <1>0
  <2>3. \E k \in 1 .. H : v[k] = p
    <3>1. Visited(p, list, index, H)
      BY <1>0, <2>1, <2>2, VisitsCover
    <3> QED BY <3>1, Zenon DEF Visited, v
  <2> QED BY <2>3, <1>2, <1>6, Zenon
<1> QED BY <1>2, <1>3, <1>4, <1>5, <1>6, Zenon DEF SpreadOf

(* selectBroker comes to every partition of the route. *)
LEMMA SelectSees ==
  ASSUME NEW list, Orderly(list), list # <<>>, Len(list) <= CounterRange, NEW T,
         NEW index \in 0 .. CounterRange - 1, NEW N,
         N = IF index + Len(list) >= CounterRange THEN CounterRange - index + Len(list) ELSE Len(list),
         Picked(Visits(list, index, N), T) = <<>>
  PROVE  Range(list) \cap T = {}
<1> DEFINE H == Len(list)
           v == Visits(list, index, N)
<1>0. index \in Nat /\ H \in Nat /\ CounterRange \in Nat \ {0}
  BY CounterWidth, OrderlyFacts
<1>1. N \in Nat
  BY <1>0
<1>2. v \in Seq(Range(list)) /\ Len(v) = N
  BY <1>0, <1>1, VisitsInList, Zenon
<1>3. PickedOf(Picked(v, T), v, T, Range(list))
  BY <1>2, PickedFacts
<1>4. Range(v) \cap T = {}
  BY <1>3, EmptyOrderly, Zenon DEF PickedOf
<1> DEFINE off == IF index + H >= CounterRange THEN CounterRange - index ELSE 0
           b == IF index + H >= CounterRange THEN 0 ELSE index
<1>5. off \in Nat /\ b \in Nat /\ off + H <= N
  BY <1>0
<1>6. Steady(index, off, b, H)
  <2> USE DEF Steady
  <2> TAKE m \in 0 .. H - 1
  <2> DEFINE c == index + off + m
             z == b + m
             q == IF index + H >= CounterRange THEN 1 ELSE 0
  <2>1. c \in Nat /\ z \in 0 .. (CounterRange - 1) /\ q \in Nat /\ c = CounterRange * q + z
    <3> HIDE DEF H
    <3>1. H <= CounterRange
      BY Zenon DEF H
    <3>2. CASE index + H >= CounterRange
      <4>1. off = CounterRange - index /\ b = 0 /\ q = 1
        BY <3>2, Zenon
      <4> HIDE DEF off, b, q
      <4> QED BY <4>1, <1>0, <3>1
    <3>3. CASE ~(index + H >= CounterRange)
      <4>1. off = 0 /\ b = index /\ q = 0
        BY <3>3, Zenon
      <4> HIDE DEF off, b, q
      <4> QED BY <4>1, <1>0, <3>1, <3>3
    <3> QED BY <3>2, <3>3, Zenon
  <2> HIDE DEF c, z, q
  <2>2. c % CounterRange = z
    BY <1>0, <2>1, ModUnique, Zenon
  <2> QED BY <2>2, Zenon DEF c, z
<1>7. ASSUME NEW p \in Range(list) PROVE p \in Range(v)
  <2> HIDE DEF off, b
  <2>1. \E k \in 1 .. N : v[k] = p
    <3>1. Visited(p, list, index, N)
      BY <1>0, <1>1, <1>5, <1>6, VisitsCover
    <3> QED BY <3>1, Zenon DEF Visited
  <2> HIDE DEF v
  <2>2. DOMAIN v = 1 .. N
    BY <1>2
  <2> QED BY <2>1, <2>2, Zenon DEF Range
<1> QED BY <1>4, <1>7, Zenon

(* Where TopicAssignment and the route agree on an address. *)
LEMMA AddressAgrees ==
  ASSUME NEW p, p.hosts \in Seq(Range(p.hosts)), p.hosts # <<>>, NEW a \in AssignedAddresses(p)
  PROVE  \/ a = ServiceAddress(p)
         \/ p.hosts # SortedHosts(p.hosts)
         \/ p.scheme = "DOMAIN_NAME" /\ Len(p.hosts) > 1
         \/ p.scheme \notin {"IPv4", "IPv6", "DOMAIN_NAME"}
         \/ Cardinality({dns[h] : h \in Range(p.hosts)}) > 1
         \/ p.scheme # "IPv4" /\ dns[p.hosts[1]] # NoDomain
<1> DEFINE H == p.hosts
           f == H[1]
           D == {dns[h] : h \in Range(H)}
<1>1. Len(H) \in Nat /\ Len(H) # 0 /\ DOMAIN H = 1 .. Len(H) /\ 1 \in 1 .. Len(H)
  <2> HIDE DEF H
  <2>1. H \in Seq(Range(H)) /\ H # <<>>
    BY Zenon DEF H
  <2> QED BY <2>1
<1>2. f \in Range(H) /\ dns[f] \in D
  BY <1>1, Zenon DEF Range
<1>3. SUFFICES ASSUME H = SortedHosts(H), ~(p.scheme = "DOMAIN_NAME" /\ Len(H) > 1),
                      p.scheme \in {"IPv4", "IPv6", "DOMAIN_NAME"}, ~(Cardinality(D) > 1),
                      ~(p.scheme # "IPv4" /\ dns[f] # NoDomain)
               PROVE  a = ServiceAddress(p)
  BY Zenon
<1>4. D = {dns[f]}
  <2>1. IsFiniteSet(Range(H))
    <3>1. H \in Seq(Range(H))
      OBVIOUS
    <3>2. IsFiniteSet(1 .. Len(H))
      BY <1>1, FS_Interval, SMT
    <3>3. H \in Surjection(1 .. Len(H), Range(H))
      <4> HIDE DEF H
      <4>1. H \in [1 .. Len(H) -> Range(H)]
        BY <3>1
      <4> QED BY <4>1, <1>1, Zenon DEF Surjection, Range
    <3> QED BY <3>2, <3>3, FS_Surjection, Zenon
  <2>2. IsFiniteSet(D)
    <3> DEFINE g == [h \in Range(H) |-> dns[h]]
    <3>1. g \in Surjection(Range(H), D)
      BY Zenon DEF Surjection
    <3> HIDE DEF g, H, D
    <3> QED BY <2>1, <3>1, FS_Surjection, Zenon
  <2>3. Cardinality(D) \in Nat
    BY <2>2, FS_CardinalityType, Zenon
  <2>4. Cardinality(D) <= 1
    <3> HIDE DEF D
    <3> QED BY <2>3, <1>3
  <2>5. {dns[f]} \subseteq D /\ Cardinality({dns[f]}) = 1 /\ IsFiniteSet({dns[f]})
    BY <1>2, FS_Singleton, Zenon
  <2>6. Cardinality({dns[f]}) = Cardinality(D)
    <3>1. Cardinality({dns[f]}) <= Cardinality(D)
      BY <2>2, <2>5, FS_Subset, Zenon
    <3> HIDE DEF D, f
    <3> QED BY <3>1, <2>3, <2>4, <2>5
  <2> HIDE DEF D, f
  <2> QED BY <2>2, <2>5, <2>6, FS_Subset, Zenon
<1>5. CASE p.scheme = "IPv4" /\ dns[f] # NoDomain
  <2>1. AssignedAddresses(p) = {[scheme |-> "DOMAIN_NAME", hosts |-> <<dns[f]>>]}
    BY <1>5, Zenon DEF AssignedAddresses
  <2>2. NoDomain \notin D /\ (\E d \in D : D = {d}) /\ (CHOOSE d \in D : TRUE) = dns[f]
    BY <1>4, <1>5, Zenon
  <2>3. ServiceAddress(p) = [scheme |-> "DOMAIN_NAME", hosts |-> <<CHOOSE d \in D : TRUE>>]
    BY <2>2, Zenon DEF ServiceAddress
  <2> QED BY <2>1, <2>2, <2>3, Zenon
<1>6. CASE dns[f] = NoDomain
  <2>1. NoDomain \in D
    BY <1>2, <1>6, Zenon
  <2>2. ServiceAddress(p) = [scheme |-> IF p.scheme \in {"IPv6", "DOMAIN_NAME"} THEN p.scheme ELSE "IPv4",
                             hosts |-> H]
    BY <2>1, <1>3, Zenon DEF ServiceAddress
  <2>3. CASE p.scheme = "IPv4"
    <3>1. AssignedAddresses(p) = {[scheme |-> "IPv4", hosts |-> H]}
      BY <2>3, <1>6, Zenon DEF AssignedAddresses
    <3> QED BY <3>1, <2>2, <2>3, Zenon
  <2>4. CASE p.scheme = "IPv6"
    <3>1. AssignedAddresses(p) = {[scheme |-> "IPv6", hosts |-> H]}
      BY <2>4, Zenon DEF AssignedAddresses
    <3> QED BY <3>1, <2>2, <2>4, Zenon
  <2>5. CASE p.scheme = "DOMAIN_NAME"
    <3>1. AssignedAddresses(p) = {[scheme |-> "DOMAIN_NAME", hosts |-> <<f>>]}
      BY <2>5, Zenon DEF AssignedAddresses
    <3>2. H = <<f>>
      <4> HIDE DEF H
      <4>1. H \in Seq(Range(H))
        BY Zenon DEF H
      <4>2. Len(H) = 1
        BY <2>5, <1>1, <1>3
      <4> QED BY <4>1, <4>2
    <3> QED BY <3>1, <3>2, <2>2, <2>5, Zenon
  <2> QED BY <2>3, <2>4, <2>5, <1>3, Zenon
<1> QED BY <1>3, <1>5, <1>6, Zenon

(* Every step keeps RouteInv. *)
LEMMA RouteStep ==
  ASSUME RouteInv, [QueueNext]_queueVars
  PROVE  RouteInv'
<1>1. ASSUME NEW r \in Response, updateRoute(r) PROVE RouteInv'
  <2>1. /\ Orderly(r) /\ \A p \in Range(r) : p.hosts \in Seq(Range(p.hosts))
        /\ Orderly(TopicRouteData(r)) /\ Len(TopicRouteData(r)) <= CounterRange
    BY ResponseOrderly, DecodedOrderly, Zenon
  <2>2. response' = r /\ partition_list' = partition_list /\ route' \in {route, TopicRouteData(r)}
    BY <1>1, Zenon DEF updateRoute
  <2> QED BY <2>1, <2>2, Zenon DEF RouteInv
<1>2. ASSUME UNCHANGED <<dns, response, route, partition_list>> PROVE RouteInv'
  BY <1>2, Zenon DEF RouteInv
<1>3. ASSUME NEW c, Choose(c) PROVE RouteInv'
  <2>1. partition_list' = PublishInfo /\ UNCHANGED <<response, route>>
    BY <1>3, Zenon DEF Choose
  <2>2. Publishable(PublishInfo)
    BY InfoPublishable, Zenon
  <2> HIDE DEF PublishInfo
  <2> QED BY <2>1, <2>2, Zenon DEF RouteInv
<1>4. ASSUME NEW c, Chosen(c) PROVE RouteInv'
  BY <1>2, <1>4, Zenon DEF Chosen
<1>5. CASE UNCHANGED queueVars
  BY <1>2, <1>5, Zenon DEF queueVars
<1>6. CASE QueueNext
  <2>1. ASSUME NEW i, NEW isolated, NEW n, sendAnywhere(i, isolated, n) PROVE RouteInv'
    BY <2>1, <1>3, Zenon DEF sendAnywhere
  <2>2. ASSUME NEW i, sendToGroup(i) PROVE RouteInv'
    BY <2>2, <1>3, Zenon DEF sendToGroup
  <2>3. ASSUME NEW i, selectBroker(i) PROVE RouteInv'
    BY <2>3, <1>4, Zenon DEF selectBroker
  <2>4. ASSUME NEW q, sendToQueue(q) \/ withServiceAddress(q) PROVE RouteInv'
    BY <2>4, <1>3, Zenon DEF sendToQueue, withServiceAddress
  <2>5. ASSUME topicAssignment PROVE RouteInv'
    BY <2>5, <1>4, Zenon DEF topicAssignment
  <2>6. ASSUME assignAll \/ assignFails \/ queuesFor PROVE RouteInv'
    BY <2>6, <1>4, Zenon DEF assignAll, assignFails, queuesFor
  <2> QED BY <1>1, <1>6, <2>1, <2>2, <2>3, <2>4, <2>5, <2>6, Zenon DEF QueueNext
<1> QED BY <1>5, <1>6, Zenon

(* The choice of a send that says nothing of its queue. *)
LEMMA AnywhereStep ==
  ASSUME RouteInv, NEW index \in 0 .. CounterRange - 1, NEW isolated, NEW count \in 1 .. MaxAttempt,
         sendAnywhere(index, isolated, count)
  PROVE  QueueChoiceInv'
<1> DEFINE list == PublishInfo
           taken == takeMessageQueues(list, index, isolated, count)
<1>1. /\ choice' = [how |-> "anywhere", index |-> index, isolated |-> isolated, count |-> count,
                    queues |-> taken]
      /\ partition_list' = list
  BY Zenon DEF sendAnywhere, Choose
<1>2. Orderly(list) /\ \A p \in Range(list) : p.master /\ p.permission # "READ"
  BY InfoPublishable, Zenon DEF Publishable
<1>3. count \in Nat
  BY CounterWidth
<1> HIDE DEF list, taken
<1>4. SpreadOf(taken, list, index, isolated, count)
  BY <1>2, <1>3, Spread, Zenon DEF taken
<1>5. /\ choice'.how = "anywhere" /\ choice'.index = index /\ choice'.isolated = isolated
      /\ choice'.count = count /\ choice'.queues = taken
  BY <1>1
<1>6. SpreadOverBrokers'
  BY <1>1, <1>4, <1>5, Zenon DEF SpreadOverBrokers, SpreadOf, Wraps
<1>7. /\ Range(choice'.queues) \subseteq Range(partition_list')
      /\ \A p \in Range(choice'.queues) : p.master /\ p.permission # "READ"
  BY <1>1, <1>2, <1>4, <1>5, Zenon DEF SpreadOf
<1>8. GroupSticks' /\ AssignedWhereRouted'
  BY <1>5, Zenon DEF GroupSticks, AssignedWhereRouted
<1> QED BY <1>5, <1>6, <1>7, <1>8, Zenon DEF QueueChoiceInv

(* Decoding depends on the answer and on what the resolver knows alone. *)
LEMMA RouteDataKeeps ==
  ASSUME dns' = dns
  PROVE  /\ \A p : ServiceAddress(p)' = ServiceAddress(p)
         /\ \A r : TopicRouteData(r)' = TopicRouteData(r)
<1>1. \A p : ServiceAddress(p)' = ServiceAddress(p)
  BY Zenon DEF ServiceAddress
<1>2. \A p : Decoded(p)' = Decoded(p)
  BY <1>1, Zenon DEF Decoded
<1>3. \A r : TopicRouteData(r)' = TopicRouteData(r)
  BY <1>2, Zenon DEF TopicRouteData
<1> QED BY <1>1, <1>3, Zenon

(* The choice for a message group: the sorted list is the same for every producer. *)
LEMMA GroupStep ==
  ASSUME RouteInv, NEW hash \in 0 .. CounterRange - 1, sendToGroup(hash)
  PROVE  QueueChoiceInv'
<1> DEFINE info == PublishInfo
           list == MessageQueueList(info)
           n == Len(list)
           x == list[(hash % n) + 1]
<1>1. /\ choice' = [how |-> IF list = <<>> THEN "crash" ELSE "group", hash |-> hash,
                    queues |-> IF list = <<>> THEN <<>> ELSE <<x>>]
      /\ partition_list' = info /\ dns' = dns
  BY Zenon DEF sendToGroup, Choose
<1>2. Orderly(info) /\ \A p \in Range(info) : p.master /\ p.permission # "READ"
  BY InfoPublishable, Zenon DEF Publishable
<1> HIDE DEF info
<1>3. Orderly(list) /\ Range(list) = Range(info)
  BY <1>2, SortedFacts, Zenon DEF SortedOf, MessageQueueList
<1>4. CASE list = <<>>
  <2>1. choice'.how = "crash"
    BY <1>1, <1>4
  <2>2. Range(partition_list') = {}
    BY <1>1, <1>3, <1>4, EmptyOrderly, Zenon
  <2> QED BY <2>1, <2>2, Zenon
       DEF QueueChoiceInv, SpreadOverBrokers, GroupSticks, AssignedWhereRouted, Range
<1>5. CASE list # <<>>
  <2> HIDE DEF list
  <2>1. list \in Seq(Range(list)) /\ n \in Nat /\ DOMAIN list = 1 .. n
    BY <1>3, OrderlyFacts, Zenon
  <2>2. n \in Nat \ {0}
    BY <1>5, <2>1
  <2>3. hash \in Nat
    BY CounterWidth
  <2>4. hash % n \in 0 .. (n - 1)
    BY <2>2, <2>3, DivMod, Zenon
  <2> DEFINE h == hash % n
  <2> HIDE DEF h, n
  <2>5. h + 1 \in 1 .. n
    BY <2>2, <2>4 DEF h
  <2>6. x \in Range(list)
    BY <2>1, <2>5, Zenon DEF Range, h
  <2> HIDE DEF x
  <2>7. choice'.how = "group" /\ choice'.hash = hash /\ choice'.queues = <<x>>
    BY <1>1, <1>5
  <2>8. Range(<<x>>) = {x} /\ <<x>>[1] = x
    BY DEF Range
  <2>9. /\ Range(choice'.queues) \subseteq Range(partition_list')
        /\ \A p \in Range(choice'.queues) : p.master /\ p.permission # "READ"
    BY <1>1, <1>2, <1>3, <2>6, <2>7, <2>8, Zenon
  <2>10. GroupSticks'
    <3> SUFFICES ASSUME NEW r \in Response,
                        Range(MessageQueueList(Writable(TopicRouteData(r)))) = Range(info)
                 PROVE  choice'.queues[1] =
                          MessageQueueList(Writable(TopicRouteData(r)))
                            [(hash % Len(MessageQueueList(Writable(TopicRouteData(r))))) + 1]
      BY <1>1, <2>7, RouteDataKeeps, Zenon DEF GroupSticks
    <3> DEFINE w == Writable(TopicRouteData(r))
    <3>1. Orderly(w)
      BY DecodedOrderly, WritablePublishable, Zenon DEF Publishable
    <3> HIDE DEF w
    <3>2. Range(w) = Range(info)
      BY <3>1, SortedFacts, Zenon DEF SortedOf, MessageQueueList, w
    <3>3. MessageQueueList(w) = list
      BY <3>1, <3>2, <1>2, SortedAlike, Zenon DEF MessageQueueList, list
    <3> QED BY <3>3, <2>7, <2>8, Zenon DEF w, x, n
  <2> QED BY <2>7, <2>9, <2>10, Zenon
       DEF QueueChoiceInv, SpreadOverBrokers, AssignedWhereRouted
<1> QED BY <1>4, <1>5, Zenon

(* The queue a message is bound to is the one asked for. *)
LEMMA BoundFacts ==
  ASSUME NEW info, Publishable(info), NEW q
  PROVE  LET list == MessageQueueList(info)
         IN  /\ Orderly(list) /\ Range(list) = Range(info)
             /\ \A p \in Range(list) : p.master /\ p.permission # "READ"
             /\ \A p \in Range(Bound(list, q)) : p \in Range(list) /\ QueueOf(p) = q
<1> DEFINE list == MessageQueueList(info)
           T == {p \in Range(list) : QueueOf(p) = q}
<1>1. Orderly(list) /\ Range(list) = Range(info)
  BY SortedFacts, Zenon DEF SortedOf, MessageQueueList, Publishable
<1>2. \A p \in Range(list) : p.master /\ p.permission # "READ"
  BY <1>1, Zenon DEF Publishable
<1> HIDE DEF list
<1>3. \A p \in T : QueueOf(p) = q
  BY Zenon
<1>4. Range(Picked(list, T)) = Range(list) \cap T
  BY <1>1, PickedOrderly, Zenon
<1> HIDE DEF T
<1>5. \A p \in Range(Picked(list, T)) : p \in Range(list) /\ QueueOf(p) = q
  BY <1>3, <1>4, Zenon
<1>6. Bound(list, q) = Picked(list, T)
  BY Zenon DEF Bound, T
<1> QED BY <1>1, <1>2, <1>5, <1>6, Zenon DEF list

(* The choice for a bound message, and of an address for a queue. *)
LEMMA QueueStep ==
  ASSUME RouteInv, NEW q, sendToQueue(q) \/ withServiceAddress(q)
  PROVE  QueueChoiceInv'
<1> DEFINE list == MessageQueueList(PublishInfo)
           found == Bound(list, q)
<1>1. /\ Orderly(list) /\ Range(list) = Range(PublishInfo)
      /\ \A p \in Range(list) : p.master /\ p.permission # "READ"
      /\ \A p \in Range(found) : p \in Range(list) /\ QueueOf(p) = q
  BY InfoPublishable, BoundFacts, Zenon
<1>2. partition_list' = PublishInfo
  BY Zenon DEF sendToQueue, withServiceAddress, Choose
<1>3. CASE sendToQueue(q)
  <2>1. choice' = [how |-> "queue", asked |-> q, queues |-> found]
    BY <1>3, Zenon DEF sendToQueue, Choose
  <2> HIDE DEF list, found
  <2>2. choice'.how = "queue" /\ choice'.asked = q /\ choice'.queues = found
    BY <2>1
  <2>3. \A p \in Range(choice'.queues) :
          /\ p.master /\ p.permission # "READ" /\ QueueOf(p) = choice'.asked
          /\ p \in Range(partition_list')
    BY <2>2, <1>2, <1>1, Zenon
  <2> QED BY <2>2, <2>3, Zenon
       DEF QueueChoiceInv, SpreadOverBrokers, GroupSticks, AssignedWhereRouted, QueueOf
<1>4. CASE withServiceAddress(q)
  <2> DEFINE queues == IF found # <<>> \/ list = <<>> THEN found ELSE <<list[1]>>
  <2>1. choice' = [how |-> "address", asked |-> q, queues |-> queues]
    BY <1>4, Zenon DEF withServiceAddress, Choose
  <2> HIDE DEF list, found
  <2>2. Range(queues) \subseteq Range(list)
    <3>1. CASE found # <<>> \/ list = <<>>
      BY <3>1, <1>1, Zenon
    <3>2. CASE ~(found # <<>> \/ list = <<>>)
      <4>1. list \in Seq(Range(list)) /\ DOMAIN list = 1 .. Len(list) /\ Len(list) \in Nat
        BY <1>1, OrderlyFacts, Zenon
      <4>2. 1 \in 1 .. Len(list)
        BY <4>1, <3>2
      <4>3. list[1] \in Range(list)
        BY <4>1, <4>2, Zenon DEF Range
      <4>4. Range(<<list[1]>>) = {list[1]}
        BY DEF Range
      <4> QED BY <3>2, <4>3, <4>4, <1>1, Zenon
    <3> QED BY <3>1, <3>2, Zenon
  <2> HIDE DEF queues
  <2>3. choice'.how = "address" /\ choice'.queues = queues
    BY <2>1
  <2>4. /\ Range(choice'.queues) \subseteq Range(partition_list')
        /\ \A p \in Range(choice'.queues) : p.master /\ p.permission # "READ"
    BY <2>2, <2>3, <1>2, <1>1, Zenon
  <2> QED BY <2>3, <2>4, Zenon
       DEF QueueChoiceInv, SpreadOverBrokers, GroupSticks, AssignedWhereRouted
<1> QED BY <1>3, <1>4, Zenon

(* The choice of a broker to ask: nobody is found only if nobody can be. *)
LEMMA SelectStep ==
  ASSUME RouteInv, NEW index \in 0 .. CounterRange - 1, selectBroker(index)
  PROVE  QueueChoiceInv'
<1> DEFINE n == Len(route)
           wraps == index + n >= CounterRange
           N == IF wraps THEN CounterRange - index + n ELSE n
           seen == Picked(Visits(route, index, N), Reachable)
           how == CASE seen # <<>> -> "broker"
                    [] wraps /\ seen = <<>> -> "spins"
                    [] OTHER -> "nobody"
           queues == IF seen = <<>> THEN <<>> ELSE <<seen[1]>>
<1>1. route # <<>> /\ choice' = [how |-> how, queues |-> queues] /\ route' = route
  BY Zenon DEF selectBroker, Chosen, NoRoute
<1>2. Orderly(route) /\ Len(route) <= CounterRange
  BY Zenon DEF RouteInv
<1>3. seen = <<>> => Range(route) \cap Reachable = {}
  BY <1>1, <1>2, SelectSees, Zenon
<1>4. seen = <<>> => Reachable = {}
  BY <1>3, Zenon DEF Reachable
<1>5. seen # <<>> => seen[1] \in Reachable
  <2>1. index \in Nat /\ N \in Nat
    BY <1>2, OrderlyFacts, CounterWidth
  <2> HIDE DEF N
  <2> DEFINE v == Visits(route, index, N)
  <2>2. v \in Seq(Range(route))
    BY <1>1, <1>2, <2>1, VisitsInList, Zenon
  <2> HIDE DEF v
  <2>3. PickedOf(Picked(v, Reachable), v, Reachable, Range(route))
    BY <2>2, PickedFacts, Zenon
  <2>4. seen \in Seq(Range(route)) /\ Range(seen) \subseteq Reachable
    BY <2>3, Zenon DEF PickedOf, v
  <2> HIDE DEF seen
  <2> QED BY <2>4, EmptyRange, Zenon
<1>6. how = "broker" => seen # <<>>
  <2> HIDE DEF seen, wraps
  <2> QED BY Zenon
<1>7. how = "broker" => Range(queues) \subseteq Reachable
  <2>1. Range(<<seen[1]>>) = {seen[1]}
    BY DEF Range
  <2> HIDE DEF seen, how
  <2> QED BY <1>5, <1>6, <2>1, Zenon
<1>8. how = "broker" \/ (how \in {"spins", "nobody"} /\ seen = <<>>)
  <2> HIDE DEF seen, wraps
  <2> QED BY Zenon
<1> HIDE DEF seen, how, queues
<1>9. choice'.how = how /\ choice'.queues = queues
  BY <1>1
<1>10. Reachable' = Reachable
  BY <1>1, Zenon DEF Reachable
<1> QED BY <1>4, <1>8, <1>9, <1>10, <1>7, Zenon
     DEF QueueChoiceInv, SpreadOverBrokers, GroupSticks, AssignedWhereRouted

(* An assigned queue and the route agree on the address of the broker, as  *)
(* AssignedWhereRouted says it, with what the resolver knows a parameter.  *)
AddressBy(p, d) ==
  LET domains == {d[h] : h \in Range(p.hosts)}
  IN  IF NoDomain \notin domains /\ \E x \in domains : domains = {x}
      THEN [scheme |-> "DOMAIN_NAME", hosts |-> <<CHOOSE x \in domains : TRUE>>]
      ELSE [scheme |-> IF p.scheme \in {"IPv6", "DOMAIN_NAME"} THEN p.scheme ELSE "IPv4",
            hosts |-> SortedHosts(p.hosts)]

Agrees(q, d) ==
  LET p == q.wire
  IN  /\ q.permission \in {"READ", "READ_WRITE"}
      /\ \/ q.address = AddressBy(p, d)
         \/ p.hosts # SortedHosts(p.hosts)
         \/ p.scheme = "DOMAIN_NAME" /\ Len(p.hosts) > 1
         \/ p.scheme \notin {"IPv4", "IPv6", "DOMAIN_NAME"}
         \/ Cardinality({d[h] : h \in Range(p.hosts)}) > 1
         \/ p.scheme # "IPv4" /\ d[p.hosts[1]] # NoDomain

(* The queues an assignment lists. *)
LEMMA AssignStep ==
  ASSUME RouteInv, topicAssignment
  PROVE  QueueChoiceInv'
<1> DEFINE read == Readable(response)
           given == Sorted(read)
           T == {p \in Range(response) : p.permission \in {"READ", "READ_WRITE"} /\ p.hosts # <<>>}
<1>1. PICK addresses \in [DOMAIN given -> UNION {AssignedAddresses(given[i]) : i \in DOMAIN given}] :
        /\ \A i \in DOMAIN given : addresses[i] \in AssignedAddresses(given[i])
        /\ Chosen([how |-> "assigned",
                   queues |-> [i \in DOMAIN given |->
                                 [broker |-> given[i].broker, id |-> given[i].id,
                                  permission |-> given[i].permission, wire |-> given[i],
                                  address |-> addresses[i]]]])
  BY Zenon DEF topicAssignment
<1>2. ASSUME NEW i \in DOMAIN given
      PROVE  /\ given[i].permission \in {"READ", "READ_WRITE"} /\ given[i].hosts # <<>>
             /\ given[i].hosts \in Seq(Range(given[i].hosts))
  <2>1. Orderly(response) /\ \A p \in Range(response) : p.hosts \in Seq(Range(p.hosts))
    BY Zenon DEF RouteInv
  <2>2. Orderly(read) /\ Range(read) = Range(response) \cap T
    BY <2>1, PickedOrderly, Zenon DEF Readable
  <2>3. SortedOf(given, read)
    <3> HIDE DEF read
    <3> QED BY <2>2, SortedFacts, Zenon
  <2>4. given[i] \in Range(given)
    BY Zenon DEF Range
  <2> HIDE DEF given, read
  <2>5. given[i] \in Range(response) /\ given[i] \in T
    BY <2>2, <2>3, <2>4, Zenon DEF SortedOf
  <2> QED BY <2>1, <2>5, Zenon
<1> HIDE DEF given
<1> DEFINE Q(i) == [broker |-> given[i].broker, id |-> given[i].id,
                    permission |-> given[i].permission, wire |-> given[i],
                    address |-> addresses[i]]
           queues == [i \in DOMAIN given |-> Q(i)]
<1>3. choice' = [how |-> "assigned", queues |-> queues] /\ dns' = dns
  BY <1>1, Zenon DEF Chosen
<1>4. \A i : Q(i).permission = given[i].permission /\ Q(i).wire = given[i] /\ Q(i).address = addresses[i]
  OBVIOUS
<1>5. DOMAIN queues = DOMAIN given /\ \A i \in DOMAIN given : queues[i] = Q(i)
  BY Zenon
<1> HIDE DEF Q, queues
<1>6. choice'.how = "assigned" /\ choice'.queues = queues
  BY <1>3
<1>7. ASSUME NEW i \in DOMAIN given PROVE Agrees(queues[i], dns)
  <2> DEFINE p == given[i]
             a == addresses[i]
  <2>1. p.permission \in {"READ", "READ_WRITE"} /\ p.hosts # <<>> /\ p.hosts \in Seq(Range(p.hosts))
    BY <1>2, Zenon
  <2>2. a \in AssignedAddresses(p)
    BY <1>1, Zenon
  <2>3. queues[i].permission = p.permission /\ queues[i].wire = p /\ queues[i].address = a
    BY <1>4, <1>5, Zenon
  <2> HIDE DEF p, a
  <2>4. \/ a = ServiceAddress(p)
        \/ p.hosts # SortedHosts(p.hosts)
        \/ p.scheme = "DOMAIN_NAME" /\ Len(p.hosts) > 1
        \/ p.scheme \notin {"IPv4", "IPv6", "DOMAIN_NAME"}
        \/ Cardinality({dns[h] : h \in Range(p.hosts)}) > 1
        \/ p.scheme # "IPv4" /\ dns[p.hosts[1]] # NoDomain
    BY <2>1, <2>2, AddressAgrees, Zenon
  <2>5. ServiceAddress(p) = AddressBy(p, dns)
    BY Zenon DEF ServiceAddress, AddressBy
  <2> QED BY <2>1, <2>3, <2>4, <2>5, Zenon DEF Agrees
<1>8. AssignedWhereRouted'
  <2>1. \A i \in DOMAIN choice'.queues : Agrees(choice'.queues[i], dns')
    BY <1>3, <1>5, <1>6, <1>7, Zenon
  <2> QED BY <2>1, Zenon DEF AssignedWhereRouted, ServiceAddress, Agrees, AddressBy
<1> QED BY <1>6, <1>8, Zenon DEF QueueChoiceInv, SpreadOverBrokers, GroupSticks

(* Every step keeps QueueChoiceInv, given RouteInv. *)
LEMMA QueueChoiceStep ==
  ASSUME RouteInv, QueueChoiceInv, [QueueNext]_queueVars
  PROVE  QueueChoiceInv'
<1>1. ASSUME choice'.how \in {"none", "all", "listed"} PROVE QueueChoiceInv'
  BY <1>1, Zenon DEF QueueChoiceInv, SpreadOverBrokers, GroupSticks, AssignedWhereRouted
<1>2. ASSUME NEW r, updateRoute(r) PROVE QueueChoiceInv'
  BY <1>1, <1>2 DEF updateRoute, NoChoice
<1>3. ASSUME assignAll \/ queuesFor PROVE QueueChoiceInv'
  BY <1>1, <1>3 DEF assignAll, queuesFor, Chosen
<1>4. ASSUME assignFails PROVE QueueChoiceInv'
  <2>1. choice' = [how |-> "crash", queues |-> <<>>] /\ route' = NoRoute
    BY <1>4, Zenon DEF assignFails, Chosen
  <2>2. choice'.how = "crash"
    BY <2>1
  <2> QED BY <2>1, <2>2, Zenon
       DEF QueueChoiceInv, SpreadOverBrokers, GroupSticks, AssignedWhereRouted
<1>5. CASE UNCHANGED queueVars
  <2>1. choice' = choice /\ partition_list' = partition_list /\ route' = route /\ dns' = dns
    BY <1>5, Zenon DEF queueVars
  <2>2. /\ \A r : TopicRouteData(r)' = TopicRouteData(r)
        /\ \A p : ServiceAddress(p)' = ServiceAddress(p)
    BY <2>1, RouteDataKeeps, Zenon
  <2>3. SpreadOverBrokers' /\ AssignedWhereRouted' /\ GroupSticks'
    <3>1. SpreadOverBrokers'
      BY <2>1, Zenon DEF QueueChoiceInv, SpreadOverBrokers, Wraps
    <3>2. AssignedWhereRouted'
      <4>1. choice.how = "assigned" => \A i \in DOMAIN choice.queues : Agrees(choice.queues[i], dns)
        BY Zenon DEF QueueChoiceInv, AssignedWhereRouted, ServiceAddress, Agrees, AddressBy
      <4>2. choice'.how = "assigned" => \A i \in DOMAIN choice'.queues : Agrees(choice'.queues[i], dns')
        BY <4>1, <2>1, Zenon
      <4> QED BY <4>2, Zenon DEF AssignedWhereRouted, ServiceAddress, Agrees, AddressBy
    <3>3. GroupSticks'
      BY <2>1, <2>2, Zenon DEF QueueChoiceInv, GroupSticks
    <3> QED BY <3>1, <3>2, <3>3, Zenon
  <2> QED BY <2>1, <2>3, Zenon DEF QueueChoiceInv, Reachable
<1>6. CASE QueueNext
  BY <1>2, <1>3, <1>4, <1>6, AnywhereStep, GroupStep, QueueStep, SelectStep, AssignStep, Zenon
  DEF QueueNext
<1> QED BY <1>5, <1>6, Zenon

(* For all routes that list a queue once, whatever the resolver knows, the *)
(* counters' width and values, and the addresses that are isolated: the    *)
(* candidates takeMessageQueues gives a send are writable queues of as     *)
(* many different, active brokers as it can have; a message group has one  *)
(* queue; a bound message goes to the queue asked for; TopicAssignment and *)
(* the route agree on addresses; and selectBroker finds an addressable     *)
(* master if there is one (QueueChoiceInv).                                *)
THEOREM QueueChoiceCorrect == QueueSpec => []QueueChoiceInv
<1>1. QueueInit => RouteInv /\ QueueChoiceInv
  <2> SUFFICES ASSUME QueueInit PROVE RouteInv /\ QueueChoiceInv
    OBVIOUS
  <2>1. response = <<>> /\ route = <<>> /\ partition_list = NotMade
    BY Zenon DEF QueueInit, NoRoute
  <2>2. choice.how = "none"
    BY DEF QueueInit, NoChoice
  <2>3. 0 <= CounterRange
    BY CounterWidth
  <2>4. RouteInv
    BY <2>1, <2>3, EmptyOrderly, Zenon DEF RouteInv
  <2>5. QueueChoiceInv
    BY <2>2, Zenon DEF QueueChoiceInv, SpreadOverBrokers, GroupSticks, AssignedWhereRouted
  <2> QED BY <2>4, <2>5, Zenon
<1>2. RouteInv /\ QueueChoiceInv /\ [QueueNext]_queueVars => (RouteInv /\ QueueChoiceInv)'
  BY RouteStep, QueueChoiceStep, Zenon
<1> QED BY <1>1, <1>2, PTL DEF QueueSpec
=============================================================================
