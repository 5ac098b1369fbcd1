-------------------------- MODULE TranslationProofs --------------------------
(***************************************************************************)
(* Proofs about what goes over the wire: the ids of messages, the messages *)
(* themselves and the requests of consumers.  They share no state and have *)
(* a specification each.                                                   *)
(***************************************************************************)
EXTENDS UniqueId, MessageCodec, Requests, SequenceTheorems, TLAPS

-----------------------------------------------------------------------------
(* Message ids: arithmetic. *)

LEMMA DivMod ==
  ASSUME NEW m \in Nat, NEW n \in Nat \ {0}
  PROVE  m % n \in 0 .. (n - 1) /\ m \div n \in Nat /\ m = (n * (m \div n)) + (m % n)
  OBVIOUS

LEMMA ModUnique ==
  ASSUME NEW m \in Nat, NEW n \in Nat \ {0}, NEW q \in Nat, NEW r \in 0 .. (n - 1), m = n * q + r
  PROVE  m % n = r
  OBVIOUS

(* A number below n * n has a quotient below n. *)
LEMMA DivBound ==
  ASSUME NEW n \in Nat \ {0}, NEW m \in Nat, m < n * n
  PROVE  m \div n \in 0 .. (n - 1)
<1> DEFINE q == m \div n
           r == m % n
<1>1. q \in Nat /\ r \in 0 .. (n - 1) /\ m = n * q + r
  BY DivMod, Zenon
<1> HIDE DEF q, r
<1>2. ASSUME q >= n PROVE FALSE
  <2>1. n * q >= n * n
    BY <1>1, <1>2
  <2>2. n * q \in Nat /\ n * n \in Nat
    BY <1>1
  <2> QED BY <1>1, <2>1, <2>2
<1>3. q \in 0 .. (n - 1)
  BY <1>1, <1>2
<1> QED BY <1>3, Zenon DEF q

(* Counting modulo n: one step, and how far it is back to the same number. *)
LEMMA CountNext ==
  ASSUME NEW n \in Nat \ {0}, NEW m \in Nat
  PROVE  ((m % n) + 1) % n = (m + 1) % n
<1> DEFINE q == m \div n
           r == m % n
<1>1. q \in Nat /\ r \in 0 .. (n - 1) /\ m = n * q + r
  BY DivMod, Zenon
<1> HIDE DEF q, r
<1>2. CASE r + 1 = n
  <2>1. /\ r + 1 = n * 1 + 0 /\ m + 1 = n * (q + 1) + 0 /\ 0 \in 0 .. (n - 1) /\ q + 1 \in Nat
        /\ r + 1 \in Nat /\ 1 \in Nat
    BY <1>1, <1>2
  <2>2. (r + 1) % n = 0
    BY <2>1, ModUnique, Zenon
  <2>3. (m + 1) % n = 0
    BY <2>1, ModUnique
  <2> QED BY <2>2, <2>3, Zenon DEF r
<1>3. CASE r + 1 # n
  <2>1. /\ r + 1 = n * 0 + (r + 1) /\ m + 1 = n * q + (r + 1) /\ r + 1 \in 0 .. (n - 1)
        /\ r + 1 \in Nat /\ 0 \in Nat
    BY <1>1, <1>3
  <2>2. (r + 1) % n = r + 1
    BY <2>1, ModUnique, Zenon
  <2>3. (m + 1) % n = r + 1
    BY <1>1, <2>1, ModUnique
  <2> QED BY <2>2, <2>3, Zenon DEF r
<1> QED BY <1>2, <1>3, Zenon

LEMMA CountRound ==
  ASSUME NEW n \in Nat \ {0}, NEW q \in 0 .. (n - 1), NEW k \in Nat \ {0}, q = (q + k) % n
  PROVE  k >= n
<1> SUFFICES ASSUME k < n PROVE FALSE
  OBVIOUS
<1>1. CASE q + k < n
  <2>1. q + k = n * 0 + (q + k) /\ q + k \in 0 .. (n - 1) /\ q + k \in Nat /\ 0 \in Nat
    BY <1>1
  <2>2. (q + k) % n = q + k
    BY <2>1, ModUnique, Zenon
  <2> QED BY <2>2
<1>2. CASE ~(q + k < n)
  <2>1. q + k = n * 1 + ((q + k) - n) /\ (q + k) - n \in 0 .. (n - 1) /\ q + k \in Nat /\ 1 \in Nat
    BY <1>2
  <2>2. (q + k) % n = (q + k) - n
    BY <2>1, ModUnique, Zenon
  <2> QED BY <2>2
<1> QED BY <1>1, <1>2, Zenon

-----------------------------------------------------------------------------
(* Hexadecimal digits. *)

LEMMA Digits == Digit \in Nat \ {0} /\ Byte \in Nat \ {0} /\ Byte = Digit * Digit /\ 1 \in 0 .. Byte - 1
<1>1. Digit \in Nat /\ Digit > 1 /\ Byte = Digit * Digit
  BY UniqueIdConstants
<1>2. Digit * Digit \in Nat /\ Digit * Digit > 1
  BY <1>1
<1> QED BY <1>1, <1>2

(* hex writes two digits for a byte ... *)
LEMMA HexAt ==
  ASSUME NEW raw, Len(raw) \in Nat, NEW k \in 1 .. Len(raw)
  PROVE  hex(raw)[2 * k - 1] = raw[k] \div Digit /\ hex(raw)[2 * k] = raw[k] % Digit
<1>1. /\ 2 * k - 1 \in 1 .. 2 * Len(raw) /\ 2 * k \in 1 .. 2 * Len(raw)
      /\ ((2 * k - 1) + 1) \div 2 = k /\ (2 * k + 1) \div 2 = k
      /\ (2 * k - 1) % 2 = 1 /\ (2 * k) % 2 # 1
  OBVIOUS
<1> QED BY <1>1, Zenon DEF hex

(* ... from which it can be read back. *)
LEMMA HexValue ==
  ASSUME NEW raw, Len(raw) \in Nat, NEW k \in 1 .. Len(raw), raw[k] \in Nat
  PROVE  hex(raw)[2 * k - 1] * Digit + hex(raw)[2 * k] = raw[k]
<1> DEFINE q == raw[k] \div Digit
           r == raw[k] % Digit
<1>1. q \in Nat /\ r \in 0 .. (Digit - 1) /\ raw[k] = Digit * q + r
  BY Digits, DivMod, Zenon
<1>2. hex(raw)[2 * k - 1] = q /\ hex(raw)[2 * k] = r
  BY HexAt, Zenon
<1> HIDE DEF q, r
<1>3. q * Digit + r = Digit * q + r
  BY <1>1, Digits
<1> QED BY <1>1, <1>2, <1>3, Zenon

(* hexToBinary reads what hex wrote. *)
LEMMA HexRead ==
  ASSUME NEW raw \in Seq(0 .. Byte - 1)
  PROVE  hexToBinary(hex(raw)) = raw
<1> DEFINE n == Len(raw)
           text == hex(raw)
<1>1. n \in Nat /\ DOMAIN raw = 1 .. n /\ \A k \in 1 .. n : raw[k] \in 0 .. Byte - 1 /\ raw[k] \in Nat
  BY Digits
<1>2. \A k \in 1 .. n : raw[k] \div Digit \in 0 .. Digit - 1 /\ raw[k] % Digit \in 0 .. Digit - 1
  <2> SUFFICES ASSUME NEW k \in 1 .. n
               PROVE  raw[k] \div Digit \in 0 .. Digit - 1 /\ raw[k] % Digit \in 0 .. Digit - 1
    BY Zenon
  <2>1. raw[k] \in Nat /\ raw[k] < Digit * Digit
    BY <1>1, Digits
  <2> QED BY <2>1, Digits, DivBound, DivMod, Zenon
<1>3. text \in [1 .. 2 * n -> 0 .. Digit - 1]
  <2>1. \A i \in 1 .. 2 * n : (i + 1) \div 2 \in 1 .. n
    BY <1>1
  <2> QED BY <1>2, <2>1, Zenon DEF hex
<1>4. Len(text) = 2 * n
  <2>1. 2 * n \in Nat
    BY <1>1
  <2>2. text \in Seq(0 .. Digit - 1)
    <3> HIDE DEF n, text
    <3>1. Seq(0 .. Digit - 1) = UNION {[1 .. m -> 0 .. Digit - 1] : m \in Nat}
      BY SeqDef, Zenon
    <3>2. [1 .. 2 * n -> 0 .. Digit - 1] \in {[1 .. m -> 0 .. Digit - 1] : m \in Nat}
      BY <2>1, Zenon
    <3> QED BY <1>3, <3>1, <3>2, Zenon
  <2>3. Len(text) \in Nat /\ DOMAIN text = 1 .. Len(text) /\ DOMAIN text = 1 .. 2 * n
    BY <1>3, <2>2, LenProperties, Zenon
  <2> HIDE DEF n, text
  <2> QED BY <2>1, <2>3
<1>5. (2 * n) % 2 # 1 /\ (2 * n) \div 2 = n
  <2>1. n \in Nat
    BY <1>1, Zenon
  <2> HIDE DEF n, text
  <2> QED BY <2>1
<1>6. \A i \in 1 .. 2 * n : hexCharValue(text[i]) = text[i] /\ text[i] # Digit
  <2>1. \A v \in 0 .. Digit - 1 : v # Digit
    BY Digits
  <2> QED BY <1>3, <2>1, Zenon DEF hexCharValue
<1>7. hexToBinary(text) = [i \in 1 .. n |-> hexCharValue(text[2 * i - 1]) * Digit + hexCharValue(text[2 * i])]
  BY <1>3, <1>4, <1>5, <1>6, Zenon DEF hexToBinary
<1>8. ASSUME NEW k \in 1 .. n
      PROVE  hexCharValue(text[2 * k - 1]) * Digit + hexCharValue(text[2 * k]) = raw[k]
  <2>1. 2 * k - 1 \in 1 .. 2 * n /\ 2 * k \in 1 .. 2 * n
    BY <1>1
  <2> QED BY <1>1, <1>6, <2>1, HexValue, Zenon
<1>9. raw = [k \in 1 .. n |-> raw[k]]
  BY <1>1
<1> QED BY <1>7, <1>8, <1>9, Zenon

-----------------------------------------------------------------------------
(* Ids. *)

UniqueIdSpec == UniqueIdInit /\ [][UniqueIdNext]_idVars

Octet == 0 .. Byte - 1
Period == MaxSequence + 1

(* The bytes of an id that was made; the last one is its sequence number.  *)
SequenceOf(r) == r.id[11] * Digit + r.id[12]
Bytes(pre, seconds, sequence) ==
  <<1, pre[1], pre[2], seconds % Byte, seconds \div Byte, sequence>>

IdOK(r) ==
  /\ r.process \in Nat /\ r.prefix \in Octet \X Octet
  /\ r.seconds \in 0 .. 2 * MaxClock /\ SequenceOf(r) \in 0 .. MaxSequence
  /\ r.id = hex(Bytes(r.prefix, r.seconds, SequenceOf(r)))

(* r was made k ids before a generator, of the p-th process and with the   *)
(* prefix pre, got to the given second and sequence number.                *)
Precedes(r, p, pre, seconds, sequence, k) ==
  /\ r.process <= p
  /\ r.process = p => /\ r.prefix = pre /\ r.seconds <= seconds
                      /\ r.seconds = seconds => sequence = (SequenceOf(r) + k) % Period

GeneratorOK ==
  /\ generator \in [prefix : Octet \X Octet, pid : Nat, since_custom_epoch : 0 .. MaxClock,
                    start_time_point : 0 .. MaxClock, seconds : 0 .. 2 * MaxClock,
                    sequence : 0 .. MaxSequence]
  /\ wall \in 0 .. MaxClock /\ steady \in 0 .. MaxClock /\ process \in Nat
  /\ generator.start_time_point <= steady /\ generator.seconds <= deltaSeconds(generator)

Entry == [process : Nat, prefix : Octet \X Octet, seconds : Nat, id : {hex(b) : b \in Seq(Octet)}]

(* The inductive invariant. *)
IdInv ==
  /\ GeneratorOK
  /\ made \in Seq(Entry)
  /\ \A i \in 1 .. Len(made) :
       /\ IdOK(made[i])
       /\ Precedes(made[i], process, generator.prefix, generator.seconds, generator.sequence,
                   Len(made) - i)
       /\ \A j \in 1 .. i - 1 :
            Precedes(made[j], made[i].process, made[i].prefix, made[i].seconds,
                     SequenceOf(made[i]), i - j)

LEMMA Fields ==
  /\ MaxClock \in Nat /\ MaxSequence \in Octet /\ MaxSequence \in Nat /\ Period \in Nat \ {0}
  /\ Octet \subseteq Nat /\ 0 \in Octet /\ 1 \in Octet
  /\ \A s \in 0 .. 2 * MaxClock : s \in Nat /\ s % Byte \in Octet /\ s \div Byte \in Octet
<1>1. MaxClock \in Nat /\ MaxSequence \in 0 .. Byte - 1 /\ 2 * MaxClock < Byte * Byte
  BY UniqueIdConstants
<1>2. ASSUME NEW s \in 0 .. 2 * MaxClock PROVE s \in Nat /\ s % Byte \in Octet /\ s \div Byte \in Octet
  <2>1. Byte * Byte \in Nat /\ Byte \in Nat
    BY Digits
  <2>2. s \in Nat /\ s < Byte * Byte
    BY <1>1, <2>1
  <2> QED BY <2>2, Digits, DivMod, DivBound, Zenon DEF Octet
<1> QED BY <1>1, <1>2, Digits DEF Octet, Period

LEMMA BytesOK ==
  ASSUME NEW pre \in Octet \X Octet, NEW s \in 0 .. 2 * MaxClock, NEW q \in 0 .. MaxSequence
  PROVE  /\ Bytes(pre, s, q) \in Seq(Octet) /\ Len(Bytes(pre, s, q)) = 6
         /\ Bytes(pre, s, q)[2] = pre[1] /\ Bytes(pre, s, q)[3] = pre[2]
         /\ Bytes(pre, s, q)[4] = s % Byte /\ Bytes(pre, s, q)[5] = s \div Byte
         /\ Bytes(pre, s, q)[6] = q
<1>1. q \in Octet /\ 1 \in Octet /\ pre[1] \in Octet /\ pre[2] \in Octet
  <2>1. q \in Octet
    BY UniqueIdConstants, Digits DEF Octet
  <2> QED BY <2>1, Fields
<1> DEFINE x == s % Byte
           y == s \div Byte
<1>2. x \in Octet /\ y \in Octet
  BY Fields, Zenon
<1> HIDE DEF x, y
<1>3. LET b == <<1, pre[1], pre[2], x, y, q>>
      IN  b \in Seq(Octet) /\ Len(b) = 6 /\ b[2] = pre[1] /\ b[3] = pre[2] /\ b[4] = x /\ b[5] = y /\ b[6] = q
  BY <1>1, <1>2
<1> QED BY <1>3, Zenon DEF Bytes, x, y

(* An id gives away its prefix, its second and its sequence number.        *)
LEMMA IdValue ==
  ASSUME NEW r, NEW pre \in Octet \X Octet, NEW s \in 0 .. 2 * MaxClock, NEW q \in 0 .. MaxSequence,
         r = hex(Bytes(pre, s, q))
  PROVE  /\ pre = <<r[3] * Digit + r[4], r[5] * Digit + r[6]>>
         /\ s = Byte * (r[9] * Digit + r[10]) + (r[7] * Digit + r[8])
         /\ q = r[11] * Digit + r[12]
<1> DEFINE b == Bytes(pre, s, q)
<1>1. b \in Seq(Octet) /\ Len(b) = 6 /\ b[2] = pre[1] /\ b[3] = pre[2] /\ b[4] = s % Byte
      /\ b[5] = s \div Byte /\ b[6] = q
  BY BytesOK
<1> HIDE DEF b
<1>2. Len(b) \in Nat /\ \A k \in 1 .. 6 : b[k] \in Nat /\ k \in 1 .. Len(b)
  <2>1. Octet \subseteq Nat
    BY Fields, Zenon
  <2>2. b \in Seq(Octet) /\ Len(b) = 6
    BY <1>1, Zenon
  <2>3. \A k \in 1 .. 6 : k \in 1 .. Len(b)
    BY <2>2
  <2>4. \A k \in 1 .. Len(b) : b[k] \in Octet
    BY <2>2, LenProperties, Zenon
  <2>5. 6 \in Nat
    OBVIOUS
  <2> QED BY <2>1, <2>2, <2>3, <2>4, <2>5, Zenon
<1>3. \A k \in 1 .. 6 : hex(b)[2 * k - 1] * Digit + hex(b)[2 * k] = b[k]
  BY <1>2, HexValue, Zenon
<1>4. /\ r[3] * Digit + r[4] = pre[1] /\ r[5] * Digit + r[6] = pre[2]
      /\ r[7] * Digit + r[8] = s % Byte /\ r[9] * Digit + r[10] = s \div Byte
      /\ r[11] * Digit + r[12] = q
  <2> DEFINE h == hex(b)
  <2>1. h = r
    BY Zenon DEF b
  <2> HIDE DEF h
  <2>2. \A k \in 1 .. 6 : h[2 * k - 1] * Digit + h[2 * k] = b[k]
    BY <1>3, Zenon DEF h
  <2>3. /\ h[3] * Digit + h[4] = b[2] /\ h[5] * Digit + h[6] = b[3] /\ h[7] * Digit + h[8] = b[4]
        /\ h[9] * Digit + h[10] = b[5] /\ h[11] * Digit + h[12] = b[6]
    BY <2>2
  <2> QED BY <1>1, <2>1, <2>3, Zenon
<1>5. s \in Nat /\ s = Byte * (s \div Byte) + (s % Byte)
  BY Fields, Digits, DivMod, Zenon
<1>6. pre = <<pre[1], pre[2]>>
  OBVIOUS
<1> QED BY <1>4, <1>5, <1>6, Zenon

LEMMA ElapsedOK ==
  ASSUME GeneratorOK
  PROVE  /\ deltaSeconds(generator) \in 0 .. 2 * MaxClock
         /\ generator.seconds \in Nat /\ generator.sequence \in 0 .. MaxSequence
         /\ generator.prefix \in Octet \X Octet
<1>1. MaxClock \in Nat
  BY Fields, Zenon
<1> QED BY <1>1 DEF GeneratorOK, deltaSeconds

LEMMA IdGivesAway ==
  ASSUME NEW r, IdOK(r)
  PROVE  /\ r.prefix = <<r.id[3] * Digit + r.id[4], r.id[5] * Digit + r.id[6]>>
         /\ r.seconds = Byte * (r.id[9] * Digit + r.id[10]) + (r.id[7] * Digit + r.id[8])
<1> DEFINE w == r.id
           pre == r.prefix
           s == r.seconds
           q == SequenceOf(r)
<1>1. w = hex(Bytes(pre, s, q)) /\ pre \in Octet \X Octet /\ s \in 0 .. 2 * MaxClock /\ q \in 0 .. MaxSequence
  BY Zenon DEF IdOK
<1> HIDE DEF w, pre, s, q
<1>2. /\ pre = <<w[3] * Digit + w[4], w[5] * Digit + w[6]>>
      /\ s = Byte * (w[9] * Digit + w[10]) + (w[7] * Digit + w[8])
  BY <1>1, IdValue, Zenon
<1> QED BY <1>2, Zenon DEF w, pre, s

(* The sequence number of the next id. *)
NextSequence ==
  IF generator.seconds # deltaSeconds(generator) THEN 0 ELSE (generator.sequence + 1) % Period

LEMMA NextPrecedes ==
  ASSUME GeneratorOK, NEW r, IdOK(r), NEW k \in Nat,
         Precedes(r, process, generator.prefix, generator.seconds, generator.sequence, k)
  PROVE  Precedes(r, process, generator.prefix, deltaSeconds(generator), NextSequence, k + 1)
<1> DEFINE s == generator.seconds
           t == deltaSeconds(generator)
           q == generator.sequence
<1>0. s \in Nat /\ t \in Nat /\ s <= t
  <2>1. MaxClock \in Nat
    BY Fields, Zenon
  <2>2. generator.seconds \in Nat /\ generator.seconds <= deltaSeconds(generator)
        /\ deltaSeconds(generator) \in 0 .. 2 * MaxClock
    BY ElapsedOK, Zenon DEF GeneratorOK
  <2> QED BY <2>1, <2>2
<1>1. r.seconds \in Nat /\ SequenceOf(r) \in Nat /\ Period \in Nat \ {0}
  BY Fields DEF IdOK
<1>a. r.process <= process
  BY Zenon DEF Precedes
<1> SUFFICES ASSUME r.process = process
             PROVE  /\ r.prefix = generator.prefix /\ r.seconds <= t
                    /\ r.seconds = t => (IF s # t THEN 0 ELSE (q + 1) % Period)
                                          = (SequenceOf(r) + (k + 1)) % Period
  BY <1>a, Zenon DEF Precedes, NextSequence
<1>2. r.seconds <= s /\ (r.seconds = s => q = (SequenceOf(r) + k) % Period) /\ r.prefix = generator.prefix
  BY Zenon DEF Precedes
<1> HIDE DEF s, t, q
<1>3. r.seconds <= t /\ (r.seconds = t => s = t)
  <2>1. r.seconds \in Nat /\ r.seconds <= s
    BY <1>1, <1>2, Zenon
  <2> QED BY <1>0, <2>1
<1>4. ASSUME r.seconds = t PROVE (q + 1) % Period = (SequenceOf(r) + (k + 1)) % Period
  <2>1. SequenceOf(r) + k \in Nat /\ (SequenceOf(r) + k) + 1 = SequenceOf(r) + (k + 1)
    BY <1>1
  <2> QED BY <1>1, <1>2, <1>3, <1>4, <2>1, CountNext, Zenon
<1> QED BY <1>2, <1>3, <1>4, Zenon

LEMMA Joined ==
  ASSUME NEW u, NEW v, NEW x, NEW y, NEW z
  PROVE  <<1>> \o <<u, v>> \o <<x, y, z>> = <<1, u, v, x, y, z>>
<1> DEFINE S == {1, u, v, x, y, z}
           f == <<1>>
           g == <<u, v>>
           h == <<x, y, z>>
           t == <<1, u, v, x, y, z>>
<1>1. f \in Seq(S) /\ Len(f) = 1 /\ f[1] = 1
  OBVIOUS
<1>2. g \in Seq(S) /\ Len(g) = 2 /\ g[1] = u /\ g[2] = v
  OBVIOUS
<1>3. h \in Seq(S) /\ Len(h) = 3 /\ h[1] = x /\ h[2] = y /\ h[3] = z
  OBVIOUS
<1>4. t \in Seq(S) /\ Len(t) = 6 /\ t[1] = 1 /\ t[2] = u /\ t[3] = v /\ t[4] = x /\ t[5] = y /\ t[6] = z
  OBVIOUS
<1> HIDE DEF S, f, g, h, t
<1> DEFINE k == f \o g
<1>5. /\ k \in Seq(S) /\ Len(k) = Len(f) + Len(g)
      /\ \A i \in 1 .. Len(f) + Len(g) : k[i] = IF i <= Len(f) THEN f[i] ELSE g[i - Len(f)]
  BY <1>1, <1>2, ConcatProperties, Zenon
<1> HIDE DEF k
<1>6. k \in Seq(S) /\ Len(k) = 3 /\ k[1] = 1 /\ k[2] = u /\ k[3] = v
  BY <1>1, <1>2, <1>5
<1> DEFINE w == k \o h
<1>7. /\ w \in Seq(S) /\ Len(w) = Len(k) + Len(h)
      /\ \A i \in 1 .. Len(k) + Len(h) : w[i] = IF i <= Len(k) THEN k[i] ELSE h[i - Len(k)]
  BY <1>3, <1>6, ConcatProperties, Zenon
<1> HIDE DEF w
<1>8. w \in Seq(S) /\ Len(w) = 6 /\ w[1] = 1 /\ w[2] = u /\ w[3] = v /\ w[4] = x /\ w[5] = y /\ w[6] = z
  BY <1>3, <1>6, <1>7
<1>9. w = t
  <2>1. \A i \in 1 .. 6 : w[i] = t[i]
    BY <1>4, <1>8
  <2> QED BY <1>4, <1>8, <2>1, SeqEqual, Zenon
<1> QED BY <1>9, Zenon DEF w, k, f, g, h, t

(* One more id. *)
LEMMA NextKeeps ==
  ASSUME IdInv, next
  PROVE  IdInv'
<1> DEFINE delta == deltaSeconds(generator)
           sequence == NextSequence
           r == [process |-> process, prefix |-> generator.prefix, seconds |-> delta,
                 id |-> hex(Raw(generator, delta, sequence))]
           n == Len(made)
<1>1. /\ generator' = [generator EXCEPT !.seconds = delta, !.sequence = sequence]
      /\ made' = Append(made, r) /\ UNCHANGED <<wall, steady, process>>
  BY Zenon DEF next, Period, NextSequence
<1>2. /\ delta \in 0 .. 2 * MaxClock /\ generator.seconds <= delta /\ generator.seconds \in Nat
      /\ generator.sequence \in 0 .. MaxSequence /\ generator.prefix \in Octet \X Octet
      /\ process \in Nat
  BY ElapsedOK, Zenon DEF IdInv, GeneratorOK
<1>3. sequence \in 0 .. MaxSequence /\ generator.sequence \in Nat /\ delta \in Nat
  <2>1. MaxSequence \in Nat /\ Period \in Nat \ {0} /\ MaxClock \in Nat
    BY Fields, Zenon
  <2>2. /\ 0 \in 0 .. MaxSequence /\ delta \in Nat
        /\ generator.sequence + 1 \in Nat /\ generator.sequence \in Nat
    BY <1>2, <2>1
  <2>3. (generator.sequence + 1) % Period \in 0 .. (Period - 1)
    BY <2>1, <2>2, DivMod, Zenon
  <2>4. 0 .. (Period - 1) = 0 .. MaxSequence
    BY <2>1 DEF Period
  <2> QED BY <2>2, <2>3, <2>4, Zenon DEF NextSequence
<1>4. Raw(generator, delta, sequence) = Bytes(generator.prefix, delta, sequence)
  <2> HIDE DEF delta, sequence
  <2> DEFINE x == delta % Byte
             y == delta \div Byte
  <2>1. Raw(generator, delta, sequence) = <<1>> \o generator.prefix \o <<x, y, sequence>>
    BY Zenon DEF Raw
  <2>2. Bytes(generator.prefix, delta, sequence)
          = <<1, generator.prefix[1], generator.prefix[2], x, y, sequence>>
    BY Zenon DEF Bytes
  <2> HIDE DEF x, y
  <2> DEFINE u == generator.prefix[1]
             v == generator.prefix[2]
  <2>3. generator.prefix = <<u, v>>
    BY <1>2
  <2>4. Bytes(generator.prefix, delta, sequence) = <<1, u, v, x, y, sequence>>
    BY <2>2, Zenon
  <2> HIDE DEF u, v
  <2>5. <<1>> \o <<u, v>> \o <<x, y, sequence>> = <<1, u, v, x, y, sequence>>
    BY Joined, Zenon
  <2> QED BY <2>1, <2>3, <2>4, <2>5
<1> HIDE DEF delta, sequence
<1>5. IdOK(r) /\ SequenceOf(r) = sequence
  <2>1. /\ r.process = process /\ r.prefix = generator.prefix /\ r.seconds = delta
        /\ r.id = hex(Bytes(generator.prefix, delta, sequence))
    BY <1>4, Zenon
  <2> HIDE DEF r
  <2>2. sequence = SequenceOf(r)
    <3> DEFINE w == r.id
    <3>1. w = hex(Bytes(generator.prefix, delta, sequence))
      BY <2>1, Zenon
    <3> HIDE DEF w
    <3>2. sequence = w[11] * Digit + w[12]
      BY <1>2, <1>3, <3>1, IdValue, Zenon
    <3> QED BY <3>2, Zenon DEF SequenceOf, w
  <2> QED BY <1>2, <1>3, <2>1, <2>2, Zenon DEF IdOK
<1>6. r.process = process /\ r.prefix = generator.prefix /\ r.seconds = delta
  BY Zenon
<1>7. r \in Entry
  <2>1. Bytes(generator.prefix, delta, sequence) \in Seq(Octet)
    BY <1>2, <1>3, BytesOK, Zenon
  <2>2. hex(Raw(generator, delta, sequence)) \in {hex(b) : b \in Seq(Octet)}
    BY <1>4, <2>1, Zenon
  <2> QED BY <1>2, <1>3, <2>2, Zenon DEF Entry
<1> HIDE DEF r
<1>8. /\ n \in Nat /\ made' \in Seq(Entry) /\ Len(made') = n + 1 /\ made'[n + 1] = r
      /\ \A i \in 1 .. n : made'[i] = made[i]
  BY <1>1, <1>7 DEF IdInv
<1>9. /\ generator'.prefix = generator.prefix /\ generator'.seconds = delta
      /\ generator'.sequence = sequence /\ GeneratorOK'
  <2>1. generator \in [prefix : Octet \X Octet, pid : Nat, since_custom_epoch : 0 .. MaxClock,
                       start_time_point : 0 .. MaxClock, seconds : 0 .. 2 * MaxClock,
                       sequence : 0 .. MaxSequence]
    BY Zenon DEF IdInv, GeneratorOK
  <2>2. /\ generator'.prefix = generator.prefix /\ generator'.seconds = delta
        /\ generator'.sequence = sequence
        /\ generator'.start_time_point = generator.start_time_point
        /\ generator'.since_custom_epoch = generator.since_custom_epoch
    BY <1>1, <2>1
  <2>3. generator' \in [prefix : Octet \X Octet, pid : Nat, since_custom_epoch : 0 .. MaxClock,
                        start_time_point : 0 .. MaxClock, seconds : 0 .. 2 * MaxClock,
                        sequence : 0 .. MaxSequence]
    BY <1>1, <1>2, <1>3, <2>1, Zenon
  <2>4. deltaSeconds(generator)' = delta /\ delta <= delta
    <3>1. deltaSeconds(generator)' = delta
      BY <1>1, <2>2, Zenon DEF deltaSeconds, delta
    <3> QED BY <1>3, <3>1
  <2> QED BY <1>1, <2>2, <2>3, <2>4, Zenon DEF IdInv, GeneratorOK
<1>10. ASSUME NEW i \in 1 .. n
       PROVE  IdOK(made[i]) /\ Precedes(made[i], process, generator.prefix, delta, sequence, (n - i) + 1)
  <2>1. n - i \in Nat
    BY <1>8
  <2>2. /\ IdOK(made[i])
        /\ Precedes(made[i], process, generator.prefix, generator.seconds, generator.sequence, n - i)
    BY Zenon DEF IdInv
  <2>3. GeneratorOK
    BY Zenon DEF IdInv
  <2> HIDE DEF n
  <2> QED BY <2>1, <2>2, <2>3, NextPrecedes, Zenon DEF sequence, delta
<1>11. ASSUME NEW i \in 1 .. Len(made')
       PROVE  /\ IdOK(made'[i])
              /\ Precedes(made'[i], process, generator.prefix, delta, sequence, Len(made') - i)
              /\ \A j \in 1 .. i - 1 :
                   Precedes(made'[j], made'[i].process, made'[i].prefix, made'[i].seconds,
                            SequenceOf(made'[i]), i - j)
  <2>1. CASE i \in 1 .. n
    <3>1. made'[i] = made[i] /\ Len(made') - i = (n - i) + 1 /\ 1 .. i - 1 \subseteq 1 .. n
      BY <1>8, <2>1
    <3>2. \A j \in 1 .. i - 1 : made'[j] = made[j]
      BY <1>8, <3>1, Zenon
    <3> QED BY <1>10, <2>1, <3>1, <3>2, Zenon DEF IdInv
  <2>2. CASE i = n + 1
    <3>1. made'[i] = r /\ Len(made') - i = 0 /\ 1 .. i - 1 = 1 .. n
      BY <1>8, <2>2
    <3>2. \A j \in 1 .. n : i - j = (n - j) + 1 /\ made'[j] = made[j]
      BY <1>8, <2>2
    <3>3. Precedes(r, process, generator.prefix, delta, sequence, 0)
      <4>1. Period \in Nat \ {0} /\ sequence \in 0 .. (Period - 1) /\ sequence \in Nat
            /\ sequence + 0 = Period * 0 + sequence /\ sequence + 0 \in Nat /\ 0 \in Nat
        <5>1. MaxSequence \in Nat
          BY Fields, Zenon
        <5> QED BY <1>3, <5>1 DEF Period
      <4>2. (sequence + 0) % Period = sequence
        BY <4>1, ModUnique, Zenon
      <4>3. process <= process /\ delta <= delta
        BY <1>2, <1>3
      <4> QED BY <1>5, <1>6, <4>2, <4>3, Zenon DEF Precedes
    <3>4. ASSUME NEW j \in 1 .. i - 1
          PROVE  Precedes(made'[j], made'[i].process, made'[i].prefix, made'[i].seconds,
                          SequenceOf(made'[i]), i - j)
      BY <1>5, <1>6, <1>10, <3>1, <3>2, Zenon
    <3> QED BY <1>5, <3>1, <3>3, <3>4, Zenon
  <2> QED BY <1>8, <2>1, <2>2
<1> QED BY <1>1, <1>8, <1>9, <1>11, Zenon DEF IdInv

(* Everything else leaves the ids alone. *)
LEMMA ClocksKeep ==
  ASSUME IdInv, UNCHANGED idVars \/ secondPasses \/ wallClockIsSet
  PROVE  IdInv'
<1>1. UNCHANGED <<process, generator, made>>
  BY Zenon DEF idVars, secondPasses, wallClockIsSet
<1>2. MaxClock \in Nat
  BY Fields, Zenon
<1>3. GeneratorOK'
  <2>1. wall' \in 0 .. MaxClock /\ steady' \in 0 .. MaxClock /\ steady <= steady'
    <3>1. wall \in 0 .. MaxClock /\ steady \in 0 .. MaxClock
      BY Zenon DEF IdInv, GeneratorOK
    <3> QED BY <1>2, <3>1 DEF idVars, secondPasses, wallClockIsSet
  <2>2. deltaSeconds(generator)' = (steady' - generator.start_time_point) + generator.since_custom_epoch
    BY <1>1, Zenon DEF deltaSeconds
  <2>3. /\ generator.start_time_point \in 0 .. MaxClock /\ generator.since_custom_epoch \in 0 .. MaxClock
        /\ generator.seconds \in 0 .. 2 * MaxClock /\ generator.start_time_point <= steady
        /\ generator.seconds <= (steady - generator.start_time_point) + generator.since_custom_epoch
        /\ steady \in 0 .. MaxClock
    BY DEF IdInv, GeneratorOK, deltaSeconds
  <2>4. /\ generator.start_time_point <= steady'
        /\ generator.seconds <= (steady' - generator.start_time_point) + generator.since_custom_epoch
    BY <1>2, <2>1, <2>3
  <2> QED BY <1>1, <2>1, <2>2, <2>4, Zenon DEF IdInv, GeneratorOK
<1> QED BY <1>1, <1>3, Zenon DEF IdInv

LEMMA RestartKeeps ==
  ASSUME IdInv, instance
  PROVE  IdInv'
<1>1. PICK mac \in Mac, pid \in Pid :
        /\ generator' = Generator(mac, pid) /\ process' = process + 1 /\ UNCHANGED <<wall, steady, made>>
  BY Zenon DEF instance, macAddress
<1>2. MaxClock \in Nat /\ MaxSequence \in Nat
  BY Fields, Zenon
<1>3. mac \in Octet /\ pid \in Nat
  BY UniqueIdConstants, Zenon DEF Octet
<1>4. pid % Byte \in Octet
  BY <1>3, Digits, DivMod, Zenon DEF Octet
<1>5. GeneratorOK'
  <2> DEFINE x == pid % Byte
  <2>1. generator' = [prefix |-> <<mac, x>>, pid |-> pid, since_custom_epoch |-> wall,
                      start_time_point |-> steady, seconds |-> wall, sequence |-> 0]
    BY <1>1, Zenon DEF Generator
  <2>2. x \in Octet
    BY <1>4, Zenon
  <2> HIDE DEF x
  <2>3. wall \in 0 .. MaxClock /\ steady \in 0 .. MaxClock /\ process \in Nat
    BY Zenon DEF IdInv, GeneratorOK
  <2>4. deltaSeconds(generator)' = (steady' - generator'.start_time_point) + generator'.since_custom_epoch
    BY Zenon DEF deltaSeconds
  <2> QED BY <1>1, <1>2, <1>3, <2>1, <2>2, <2>3, <2>4 DEF GeneratorOK
<1>6. ASSUME NEW i \in 1 .. Len(made)
      PROVE  Precedes(made[i], process', generator'.prefix, generator'.seconds, generator'.sequence,
                      Len(made) - i)
  <2>1. made[i].process \in Nat /\ made[i].process <= process /\ process \in Nat
    BY Zenon DEF IdInv, GeneratorOK, IdOK, Precedes
  <2>2. made[i].process <= process' /\ made[i].process # process'
    BY <1>1, <2>1
  <2> QED BY <2>2, Zenon DEF Precedes
<1> QED BY <1>1, <1>5, <1>6, Zenon DEF IdInv

(* What the ids say. *)
LEMMA IdInvImplies == IdInv => IdsUnique
<1> SUFFICES ASSUME IdInv PROVE IdsUnique
  BY Zenon
<1>1. Len(made) \in Nat /\ DOMAIN made = 1 .. Len(made) /\ \A i \in 1 .. Len(made) : IdOK(made[i])
  BY LenProperties, Zenon DEF IdInv
<1>2. ASSUME NEW i \in DOMAIN made PROVE hex(hexToBinary(made[i].id)) = made[i].id
  <2>1. PICK b \in Seq(Octet) : made[i].id = hex(b)
    <3>1. IdOK(made[i])
      BY <1>1, Zenon
    <3> QED BY <3>1, BytesOK, Zenon DEF IdOK
  <2> QED BY <2>1, HexRead, Zenon DEF Octet
<1>3. ASSUME NEW i \in DOMAIN made, NEW j \in 1 .. i - 1, made[i].id = made[j].id
      PROVE  \/ made[i].process # made[j].process /\ made[i].prefix = made[j].prefix
             \/ i - j > MaxSequence /\ \A k \in j .. i : made[k].seconds = made[i].seconds
  <2>1. /\ i \in 1 .. Len(made) /\ j \in 1 .. Len(made) /\ j < i /\ i - j \in Nat \ {0}
        /\ \A k \in j .. i : k \in 1 .. Len(made)
    BY <1>1
  <2>2. IdOK(made[i]) /\ IdOK(made[j])
    BY <1>1, <2>1, Zenon
  <2>3. /\ made[i].prefix = made[j].prefix /\ made[i].seconds = made[j].seconds
        /\ SequenceOf(made[i]) = SequenceOf(made[j])
    <3>1. SequenceOf(made[i]) = SequenceOf(made[j])
      BY <1>3, Zenon DEF SequenceOf
    <3>2. made[i].prefix = made[j].prefix /\ made[i].seconds = made[j].seconds
      BY <1>3, <2>2, IdGivesAway, ZenonT(60)
    <3> QED BY <3>1, <3>2, Zenon
  <2>4. CASE made[i].process = made[j].process
    <3>1. Precedes(made[j], made[i].process, made[i].prefix, made[i].seconds, SequenceOf(made[i]), i - j)
      BY <2>1, Zenon DEF IdInv
    <3>2. SequenceOf(made[i]) = (SequenceOf(made[i]) + (i - j)) % Period
      BY <2>3, <2>4, <3>1, Zenon DEF Precedes
    <3>3. Period \in Nat \ {0} /\ SequenceOf(made[i]) \in 0 .. (Period - 1) /\ MaxSequence \in Nat
      <4>1. MaxSequence \in Nat
        BY Fields, Zenon
      <4>2. SequenceOf(made[i]) \in 0 .. MaxSequence
        BY <2>2, Zenon DEF IdOK
      <4> QED BY <4>1, <4>2 DEF Period
    <3>4. i - j >= Period
      BY <2>1, <3>2, <3>3, CountRound, Zenon
    <3>5. i - j > MaxSequence
      BY <2>1, <3>3, <3>4 DEF Period
    <3>6. ASSUME NEW k \in j .. i PROVE made[k].seconds = made[i].seconds
      <4>1. k = i \/ k = j \/ (k \in 1 .. Len(made) /\ j \in 1 .. k - 1 /\ k \in 1 .. i - 1)
        BY <2>1
      <4>2. CASE k \in 1 .. Len(made) /\ j \in 1 .. k - 1 /\ k \in 1 .. i - 1
        <5>1. /\ Precedes(made[j], made[k].process, made[k].prefix, made[k].seconds,
                          SequenceOf(made[k]), k - j)
              /\ Precedes(made[k], made[i].process, made[i].prefix, made[i].seconds,
                          SequenceOf(made[i]), i - k)
              /\ IdOK(made[k])
          BY <1>1, <2>1, <4>2, Zenon DEF IdInv
        <5>2. /\ made[i].process \in Nat /\ made[k].process \in Nat
              /\ made[i].seconds \in Int /\ made[k].seconds \in Int
          <6>1. MaxClock \in Nat
            BY Fields, Zenon
          <6> QED BY <2>2, <5>1, <6>1 DEF IdOK
        <5>3. made[j].process <= made[k].process /\ made[k].process <= made[i].process
          BY <5>1, Zenon DEF Precedes
        <5>4. made[k].process = made[i].process
          BY <2>4, <5>2, <5>3
        <5>5. made[j].seconds <= made[k].seconds /\ made[k].seconds <= made[i].seconds
          BY <2>4, <5>1, <5>4, Zenon DEF Precedes
        <5> QED BY <2>3, <5>2, <5>5
      <4> QED BY <2>3, <4>1, <4>2, Zenon
    <3> QED BY <3>5, <3>6, Zenon
  <2> QED BY <2>3, <2>4, Zenon
<1> QED BY <1>2, <1>3, Zenon DEF IdsUnique

(* For any clocks, addresses and process ids: no id is made twice by one   *)
(* process unless the sequence goes round within a second, however the     *)
(* wall clock is set, and hexToBinary reads every id back.                 *)
THEOREM UniqueIdCorrect == UniqueIdSpec => []IdsUnique
<1>1. UniqueIdInit => IdInv
  <2> SUFFICES ASSUME UniqueIdInit PROVE IdInv
    BY Zenon
  <2>1. Len(made) = 0 /\ made \in Seq(Entry) /\ \A i \in 1 .. Len(made) : FALSE
    BY DEF UniqueIdInit
  <2>2. MaxClock \in Nat /\ MaxSequence \in Nat /\ 0 \in Octet
    BY Fields, Zenon
  <2>3. GeneratorOK
    BY <2>2 DEF UniqueIdInit, GeneratorOK, deltaSeconds
  <2> QED BY <2>1, <2>3, Zenon DEF IdInv
<1>2. IdInv /\ [UniqueIdNext]_idVars => IdInv'
  BY NextKeeps, ClocksKeep, RestartKeeps, Zenon DEF UniqueIdNext
<1> QED BY <1>1, <1>2, IdInvImplies, PTL DEF UniqueIdSpec

-----------------------------------------------------------------------------
(* The way of a message. *)

CodecSpec == CodecInit /\ [][CodecNext]_codecVars

Attributes == {"topic", "tag", "keys", "props", "body", "start", "id", "type", "group", "deliverAt",
               "attempt", "born"}

Body(length, packed, intact) == [length |-> length, packed |-> packed, intact |-> intact]

KnownDigest == {"CRC32", "MD5", "SHA1"}

(* What stays on the whole way, and what only the last step changes. *)
HeadKept ==
  /\ DOMAIN msg = Attributes /\ DOMAIN stored = {"digest", "encoding", "added", "moment"}
  /\ msg.topic = draft.topic /\ msg.keys = draft.keys
  /\ stage # "listener" => msg.tag = draft.tag /\ msg.id = "own"
  /\ stage # "ons" => msg.start = 0

(* The application's properties stay; of the system's, those the listener  *)
(* would look at come from the broker only.                                *)
PropsKept ==
  /\ stage = "ons" => msg.props = draft.props
  /\ stage \notin {"ons", "listener"} => Unreserved(msg.props) = Unreserved(draft.props)
  /\ stage \in {"mq", "request"} => "__TAG" \notin DOMAIN msg.props /\ "__MSGID" \notin DOMAIN msg.props
  /\ stage \in {"stored", "ext"} =>
       \A n \in {"__TAG", "__MSGID"} :
         /\ n \in DOMAIN msg.props <=> stored.added = n
         /\ stored.added = n => msg.props[n] = "broker's"
  /\ stage = "listener" =>
       /\ msg.props = Unreserved(draft.props)
       /\ msg.tag = (IF stored.added = "__TAG" THEN "broker's" ELSE draft.tag)
       /\ msg.id = (IF stored.added = "__MSGID" THEN "broker's" ELSE "own")

(* The body is packed exactly if the encoding says so, never empty on the  *)
(* way, and the application's again once it was decoded.                   *)
BodyKept ==
  /\ msg.body = Body(msg.body.length, msg.body.packed, msg.body.intact)
  /\ stage \in {"ons", "mq"} => msg.body = Body(draft.length, FALSE, TRUE)
  /\ stage = "request" => stored.encoding \in {"GZIP", "IDENTITY"}
  /\ stage \in {"request", "stored"} =>
       /\ msg.body.length = draft.length /\ draft.length # 0
       /\ stored.encoding \in {"GZIP", "IDENTITY", "OTHER"}
       /\ stored.encoding = "GZIP" => msg.body.packed = TRUE
       /\ stored.encoding = "IDENTITY" => msg.body.packed = FALSE
  /\ stage \in {"ext", "listener"} /\ stored.digest \in KnownDigest /\ stored.encoding # "OTHER" =>
       msg.body = Body(draft.length, FALSE, TRUE)

(* Until they are decoded the times are those of the broker. *)
TimesKept ==
  /\ stage = "stored" => msg.born = stored.moment /\ msg.deliverAt = stored.moment
  /\ stage \in {"ext", "listener"} =>
       /\ msg.group = ""
       /\ msg.born = micros(stored.moment)
       /\ msg.deliverAt = stored.moment.sec * MicrosPerSecond + stored.moment.nanos

WayInv == CodecTypeOK /\ HeadKept /\ PropsKept /\ BodyKept /\ TimesKept

-----------------------------------------------------------------------------
(* Properties of the system's come and go without touching the others. *)
LEMMA UnreservedWith ==
  ASSUME NEW p, NEW n \in ReservedKeys, NEW v
  PROVE  Unreserved(WithProperty(p, n, v)) = Unreserved(p)
<1> DEFINE q == WithProperty(p, n, v)
           S == DOMAIN p \ ReservedKeys
<1>1. DOMAIN q \ ReservedKeys = S
  BY Zenon DEF WithProperty
<1>2. \A x \in S : q[x] = p[x]
  BY Zenon DEF WithProperty
<1> HIDE DEF q, S
<1>3. [x \in S |-> q[x]] = [x \in S |-> p[x]]
  BY <1>2, Zenon
<1> QED BY <1>1, <1>3, Zenon DEF Unreserved, Restrict, q, S

LEMMA UnreservedTwice == \A p : Unreserved(Unreserved(p)) = Unreserved(p)
<1> SUFFICES ASSUME NEW p PROVE Unreserved(Unreserved(p)) = Unreserved(p)
  BY Zenon
<1> DEFINE S == DOMAIN p \ ReservedKeys
           q == [x \in S |-> p[x]]
<1>1. Unreserved(p) = q
  BY Zenon DEF Unreserved, Restrict
<1>2. DOMAIN q \ ReservedKeys = S
  BY Zenon
<1>3. \A x \in S : q[x] = p[x]
  BY Zenon
<1> HIDE DEF q, S
<1>4. [x \in S |-> q[x]] = [x \in S |-> p[x]]
  BY <1>3, Zenon
<1> QED BY <1>1, <1>2, <1>4, Zenon DEF Unreserved, Restrict, q, S

LEMMA UnreservedLacks ==
  \A p : DOMAIN Unreserved(p) \cap ReservedKeys = {}
  BY Zenon DEF Unreserved, Restrict

LEMMA WithDomain ==
  \A p, n, v : /\ DOMAIN WithProperty(p, n, v) = DOMAIN p \cup {n}
               /\ WithProperty(p, n, v)[n] = v
               /\ \A x \in DOMAIN p \ {n} : WithProperty(p, n, v)[x] = p[x]
  BY Zenon DEF WithProperty

LEMMA BodyParts ==
  \A l, p, i : Body(l, p, i).length = l /\ Body(l, p, i).packed = p /\ Body(l, p, i).intact = i
  BY Zenon DEF Body

LEMMA BodyPacked ==
  ASSUME NEW l, NEW p \in BOOLEAN, NEW i \in BOOLEAN
  PROVE  /\ compress(Body(l, p, i)) = Body(l, TRUE, i)
         /\ uncompress(Body(l, p, i)) = Body(l, FALSE, i /\ p)
<1>1. compress(Body(l, p, i)) = Body(l, TRUE, i)
  <2>1. \A j \in BOOLEAN : [Body(l, p, i) EXCEPT !.packed = j] = Body(l, j, i)
    BY DEF Body
  <2> QED BY <2>1, Zenon DEF compress
<1>2. uncompress(Body(l, p, i)) = Body(l, FALSE, i /\ p)
  <2>1. ASSUME NEW j, NEW k
        PROVE  [Body(l, p, i) EXCEPT !.packed = j, !.intact = k] = Body(l, j, k)
    <3> DEFINE x == [Body(l, p, i) EXCEPT !.packed = j, !.intact = k]
    <3>1. x = [f \in DOMAIN x |-> x[f]]
      BY Zenon DEF Body
    <3>2. DOMAIN x = {"length", "packed", "intact"}
      BY DEF Body
    <3>3. x.length = l /\ x.packed = j /\ x.intact = k
      BY DEF Body
    <3> HIDE DEF x
    <3>4. x = [length |-> l, packed |-> j, intact |-> k]
      BY <3>1, <3>2, <3>3
    <3> QED BY <3>4, Zenon DEF Body, x
  <2>2. (i /\ p) \in BOOLEAN
    OBVIOUS
  <2>3. uncompress(Body(l, p, i)) = [Body(l, p, i) EXCEPT !.packed = FALSE, !.intact = i /\ p]
    BY BodyParts, Zenon DEF uncompress
  <2> QED BY <2>1, <2>2, <2>3, Zenon
<1> QED BY <1>1, <1>2, Zenon

LEMMA WayImplies == WayInv => MessageSurvives
<1> SUFFICES ASSUME WayInv, stage = "listener"
             PROVE  stored.moment.nanos = 0 => msg.deliverAt = micros(stored.moment)
  BY Zenon DEF WayInv, MessageSurvives, HeadKept, PropsKept, BodyKept, TimesKept, KnownDigest, Body
<1>1. 0 \div NanosPerMicro = 0
  BY CodecConstants
<1>2. msg.deliverAt = stored.moment.sec * MicrosPerSecond + stored.moment.nanos
  BY Zenon DEF WayInv, TimesKept
<1> QED BY <1>1, <1>2, Zenon DEF micros

LEMMA WayStarts == CodecInit => WayInv
<1> SUFFICES ASSUME CodecInit PROVE WayInv
  OBVIOUS
<1>1. draft \in Draft /\ draft.length \in Nat
  BY CodecConstants, Zenon DEF CodecInit
<1>2. stage = "ons" /\ stored = Untouched
  BY Zenon DEF CodecInit
<1>3. stored.digest = "none" /\ stored.encoding = "IDENTITY"
  BY <1>2, Zenon DEF Untouched
<1>4. DOMAIN msg = Attributes /\ DOMAIN stored = {"digest", "encoding", "added", "moment"}
  BY DEF CodecInit, Attributes, Untouched
<1>5. msg.topic = draft.topic /\ msg.keys = draft.keys /\ msg.tag = draft.tag /\ msg.id = "own"
        /\ msg.props = draft.props /\ msg.body = Body(draft.length, FALSE, TRUE)
  BY Zenon DEF CodecInit, Body
<1>6. msg.body.length = draft.length /\ msg.body.packed = FALSE /\ msg.body.intact = TRUE
  BY <1>5 DEF Body
<1>7. CodecTypeOK
  BY <1>1, <1>2, <1>3, <1>6, CodecConstants, Zenon DEF CodecTypeOK
<1> QED BY <1>2, <1>4, <1>5, <1>6, <1>7, Zenon
          DEF WayInv, HeadKept, PropsKept, BodyKept, TimesKept

(* The steps.  Each lemma says what becomes of the message's fields. *)

LEMMA ConvertStep == ASSUME WayInv, msgConvert PROVE WayInv'
<1> USE DEF WayInv
<1>1. stage = "ons" /\ stage' = "mq" /\ draft' = draft /\ stored' = stored
  BY Zenon DEF msgConvert
<1> DEFINE u == Unreserved(msg.props)
           w == WithProperty(u, "__STARTDELIVERTIME", msg.start)
<1>2. DOMAIN msg = Attributes
  BY Zenon DEF HeadKept
<1>3. /\ DOMAIN msg' = Attributes /\ msg'.start = 0
      /\ msg'.topic = msg.topic /\ msg'.keys = msg.keys /\ msg'.tag = msg.tag /\ msg'.id = msg.id
      /\ msg'.body = msg.body /\ msg'.props \in {u, w}
  BY <1>2 DEF msgConvert, toMQMessage, Attributes
<1> HIDE DEF u, w
<1>4. HeadKept'
  BY <1>1, <1>3, Zenon DEF HeadKept
<1>5. Unreserved(msg'.props) = Unreserved(draft.props)
  <2>1. Unreserved(u) = u /\ u = Unreserved(draft.props)
    BY <1>1, UnreservedTwice, Zenon DEF u, PropsKept
  <2>2. Unreserved(w) = Unreserved(u)
    BY UnreservedWith, Zenon DEF w, ReservedKeys
  <2> QED BY <1>3, <2>1, <2>2, Zenon
<1>6. "__TAG" \notin DOMAIN msg'.props /\ "__MSGID" \notin DOMAIN msg'.props
  <2>1. "__TAG" \notin DOMAIN u /\ "__MSGID" \notin DOMAIN u
    BY UnreservedLacks, Zenon DEF u, ReservedKeys
  <2>2. DOMAIN w = DOMAIN u \cup {"__STARTDELIVERTIME"}
    BY WithDomain, Zenon DEF w
  <2>3. "__TAG" \notin DOMAIN w /\ "__MSGID" \notin DOMAIN w
    BY <2>1, <2>2, Zenon
  <2> QED BY <1>3, <2>1, <2>3, Zenon
<1>7. PropsKept'
  BY <1>1, <1>5, <1>6, Zenon DEF PropsKept
<1>8. BodyKept' /\ TimesKept' /\ CodecTypeOK'
  BY <1>1, <1>3, Zenon DEF BodyKept, TimesKept, CodecTypeOK
<1> QED BY <1>4, <1>7, <1>8, Zenon

LEMMA BindStep == ASSUME WayInv, NEW g \in Group, bindMessageGroup(g) PROVE WayInv'
<1> USE DEF WayInv
<1>1. stage = "mq" /\ stage' = stage /\ draft' = draft /\ stored' = stored
  BY Zenon DEF bindMessageGroup
<1>2. DOMAIN msg = Attributes
  BY Zenon DEF HeadKept
<1>3. /\ DOMAIN msg' = Attributes /\ msg'.start = msg.start
      /\ msg'.topic = msg.topic /\ msg'.keys = msg.keys /\ msg'.tag = msg.tag /\ msg'.id = msg.id
      /\ msg'.body = msg.body /\ msg'.props = msg.props
  BY <1>2 DEF bindMessageGroup, Attributes
<1> QED BY <1>1, <1>3, Zenon DEF HeadKept, PropsKept, BodyKept, TimesKept, CodecTypeOK

LEMMA SendStep == ASSUME WayInv, send PROVE WayInv'
<1> USE DEF WayInv
<1> DEFINE packs == Compressed(msg)
           e == IF packs THEN "GZIP" ELSE "IDENTITY"
<1>1. stage = "mq" /\ draft' = draft /\ stored' = [stored EXCEPT !.encoding = e]
  BY Zenon DEF send
<1>2. DOMAIN msg = Attributes /\ DOMAIN stored = {"digest", "encoding", "added", "moment"}
  BY Zenon DEF HeadKept
<1>3. /\ DOMAIN stored' = {"digest", "encoding", "added", "moment"}
      /\ stored'.digest = stored.digest /\ stored'.encoding = e
  BY <1>1, <1>2
<1>4. e \in {"GZIP", "IDENTITY"} /\ e \in Encoding
  BY CodecConstants, Zenon
<1> DEFINE b == msg.body
<1>5. b = Body(draft.length, FALSE, TRUE) /\ b.length = draft.length
  <2>1. b = Body(draft.length, FALSE, TRUE)
    BY <1>1, Zenon DEF BodyKept
  <2> QED BY <2>1 DEF Body
<1>6. CASE ~validate(msg)
  <2>1. stage' = "rejected" /\ msg' = msg
    BY <1>6, Zenon DEF send
  <2>2. HeadKept' /\ PropsKept' /\ BodyKept' /\ TimesKept'
    BY <1>1, <1>2, <1>3, <2>1, Zenon DEF HeadKept, PropsKept, BodyKept, TimesKept
  <2>3. CodecTypeOK'
    BY <1>1, <1>3, <1>4, <2>1, Zenon DEF CodecTypeOK
  <2> QED BY <2>2, <2>3, Zenon
<1>7. CASE validate(msg)
  <2>1. stage' = "request" /\ msg' = wrapSendMessageRequest(msg)
    BY <1>7, Zenon DEF send
  <2>2. draft.length # 0
    <3>1. draft.length \in 1 .. MaxMessageBodySize
      BY <1>5, <1>7, Zenon DEF validate
    <3> QED BY <3>1
  <2>3. /\ DOMAIN msg' = Attributes /\ msg'.start = msg.start
        /\ msg'.topic = msg.topic /\ msg'.keys = msg.keys /\ msg'.tag = msg.tag /\ msg'.id = msg.id
        /\ msg'.body = (IF packs THEN compress(b) ELSE b) /\ msg'.props = msg.props
    BY <1>2, <2>1 DEF wrapSendMessageRequest, Attributes
  <2> HIDE DEF b, packs
  <2>4. HeadKept' /\ PropsKept' /\ TimesKept'
    BY <1>1, <1>3, <2>1, <2>3, Zenon DEF HeadKept, PropsKept, TimesKept
  <2>5. CASE packs
    <3>1. msg'.body = Body(draft.length, TRUE, TRUE) /\ stored'.encoding = "GZIP"
      BY <1>3, <1>5, <2>3, <2>5, BodyPacked, Zenon
    <3>2. msg'.body.length = draft.length /\ msg'.body.packed = TRUE /\ msg'.body.intact = TRUE
      BY <3>1 DEF Body
    <3>3. BodyKept'
      BY <1>1, <2>1, <2>2, <3>1, <3>2, Zenon DEF BodyKept
    <3>4. CodecTypeOK'
      BY <1>1, <1>3, <1>4, <1>5, <2>1, <3>2, Zenon DEF CodecTypeOK, b
    <3> QED BY <2>4, <3>3, <3>4, Zenon
  <2>6. CASE ~packs
    <3>1. msg'.body = Body(draft.length, FALSE, TRUE) /\ stored'.encoding = "IDENTITY"
      BY <1>3, <1>5, <2>3, <2>6, Zenon
    <3>2. msg'.body.length = draft.length /\ msg'.body.packed = FALSE /\ msg'.body.intact = TRUE
      BY <3>1 DEF Body
    <3>3. BodyKept'
      BY <1>1, <2>1, <2>2, <3>1, <3>2, Zenon DEF BodyKept
    <3>4. CodecTypeOK'
      BY <1>1, <1>3, <1>4, <1>5, <2>1, <3>2, Zenon DEF CodecTypeOK, b
    <3> QED BY <2>4, <3>3, <3>4, Zenon
  <2> QED BY <2>5, <2>6, Zenon
<1> QED BY <1>6, <1>7, Zenon

LEMMA BrokerStep ==
  ASSUME WayInv, NEW d \in Digest, NEW damaged \in BOOLEAN, NEW e \in Encoding,
         NEW added \in ReservedKeys \cup {"none"}, NEW m \in Moment,
         brokerStores(d, damaged, e, added, m)
  PROVE  WayInv'
<1> USE DEF WayInv
<1>1. stage = "request" /\ stage' = "stored" /\ draft' = draft
        /\ stored' = [digest |-> d, encoding |-> e, added |-> added, moment |-> m]
        /\ e \in {stored.encoding, "OTHER"}
  BY Zenon DEF brokerStores
<1>2. DOMAIN msg = Attributes
  BY Zenon DEF HeadKept
<1>3. /\ DOMAIN stored' = {"digest", "encoding", "added", "moment"}
      /\ stored'.digest = d /\ stored'.encoding = e /\ stored'.added = added /\ stored'.moment = m
  BY <1>1
<1> DEFINE b == msg.body
           p == msg.props
           q == IF added = "none" THEN p ELSE WithProperty(p, added, "broker's")
<1>4. /\ DOMAIN msg' = Attributes /\ msg'.start = msg.start
      /\ msg'.topic = msg.topic /\ msg'.keys = msg.keys /\ msg'.tag = msg.tag /\ msg'.id = msg.id
      /\ msg'.body = [b EXCEPT !.intact = ~damaged] /\ msg'.props = q
      /\ msg'.born = m /\ msg'.deliverAt = m
  BY <1>2 DEF brokerStores, Attributes
<1> HIDE DEF q
<1>5. HeadKept'
  BY <1>1, <1>3, <1>4, Zenon DEF HeadKept
<1>6. TimesKept'
  BY <1>1, <1>3, <1>4, Zenon DEF TimesKept
<1>7. PropsKept'
  <2>1. Unreserved(p) = Unreserved(draft.props) /\ "__TAG" \notin DOMAIN p /\ "__MSGID" \notin DOMAIN p
    BY <1>1, Zenon DEF PropsKept
  <2> HIDE DEF p
  <2>2. Unreserved(q) = Unreserved(draft.props)
    BY <2>1, UnreservedWith, Zenon DEF q
  <2>3. \A n \in {"__TAG", "__MSGID"} : (n \in DOMAIN q <=> added = n) /\ (added = n => q[n] = "broker's")
    <3>1. CASE added = "none"
      BY <2>1, <3>1, Zenon DEF q
    <3>2. CASE added # "none"
      <4>1. q = WithProperty(p, added, "broker's")
        BY <3>2, Zenon DEF q
      <4> DEFINE w == WithProperty(p, added, "broker's")
      <4>2. DOMAIN w = DOMAIN p \cup {added} /\ w[added] = "broker's"
        BY Zenon DEF WithProperty
      <4> HIDE DEF w
      <4>3. DOMAIN q = DOMAIN p \cup {added} /\ q[added] = "broker's"
        BY <4>1, <4>2, Zenon DEF w
      <4>4. ASSUME NEW n \in {"__TAG", "__MSGID"}
            PROVE  n \in DOMAIN q <=> added = n
        BY <2>1, <4>3
      <4> QED BY <4>3, <4>4, Zenon
    <3> QED BY <3>1, <3>2, Zenon
  <2> QED BY <1>1, <1>3, <1>4, <2>2, <2>3, Zenon DEF PropsKept
<1>8. BodyKept' /\ CodecTypeOK'
  <2>1. b = Body(b.length, b.packed, b.intact) /\ b.packed \in BOOLEAN /\ b.intact \in BOOLEAN
          /\ b.length \in Nat
    BY Zenon DEF BodyKept, CodecTypeOK
  <2>2. /\ b.length = draft.length /\ draft.length # 0
        /\ stored.encoding \in {"GZIP", "IDENTITY"}
        /\ stored.encoding = "GZIP" => b.packed = TRUE
        /\ stored.encoding = "IDENTITY" => b.packed = FALSE
    BY <1>1, Zenon DEF BodyKept
  <2> HIDE DEF b
  <2>3. PICK j \in BOOLEAN : j = ~damaged
    BY Zenon
  <2>4. msg'.body = Body(b.length, b.packed, j)
    <3> DEFINE x == b.length
               y == b.packed
               z == b.intact
    <3>1. b = Body(x, y, z) /\ y \in BOOLEAN /\ z \in BOOLEAN /\ msg'.body = [b EXCEPT !.intact = j]
      BY <1>4, <2>1, <2>3, Zenon
    <3> HIDE DEF x, y, z
    <3>2. y \in BOOLEAN /\ z \in BOOLEAN
      BY <3>1, Zenon
    <3>3. [Body(x, y, z) EXCEPT !.intact = j] = Body(x, y, j)
      BY <3>2 DEF Body
    <3>4. msg'.body = Body(x, y, j)
      BY <3>1, <3>3, Zenon
    <3> QED BY <3>4, Zenon DEF x, y, z
  <2>5. msg'.body.length = b.length /\ msg'.body.packed = b.packed /\ msg'.body.intact = j
    <3> DEFINE x == b.length
               y == b.packed
    <3>1. msg'.body = Body(x, y, j)
      BY <2>4, Zenon
    <3> HIDE DEF x, y
    <3>2. msg'.body.length = x /\ msg'.body.packed = y /\ msg'.body.intact = j
      BY <3>1 DEF Body
    <3> QED BY <3>2, Zenon DEF x, y
  <2>6. CodecTypeOK'
    BY <1>1, <1>3, <2>1, <2>5, Zenon DEF CodecTypeOK
  <2> QED BY <1>1, <1>3, <2>2, <2>4, <2>5, <2>6, Zenon DEF BodyKept
<1> QED BY <1>5, <1>6, <1>7, <1>8, Zenon

(* What decoding leaves of the body. *)
LEMMA DecodedBody ==
  ASSUME WayInv, stage = "stored"
  PROVE  /\ decodedBody(msg) = Body(decodedBody(msg).length, decodedBody(msg).packed, decodedBody(msg).intact)
         /\ decodedBody(msg).length \in Nat
         /\ decodedBody(msg).packed \in BOOLEAN /\ decodedBody(msg).intact \in BOOLEAN
         /\ stored.digest \in KnownDigest /\ stored.encoding # "OTHER" /\ digestMatches(msg) =>
              decodedBody(msg) = Body(draft.length, FALSE, TRUE)
<1> DEFINE b == msg.body
           x == msg.body.length
           y == msg.body.packed
           z == msg.body.intact
           c == decodedBody(msg)
<1>1. b = Body(x, y, z) /\ x \in Nat /\ y \in BOOLEAN /\ z \in BOOLEAN
  BY Zenon DEF WayInv, BodyKept, CodecTypeOK
<1>2. /\ x = draft.length /\ x # 0
      /\ stored.encoding \in {"GZIP", "IDENTITY", "OTHER"}
      /\ stored.encoding = "GZIP" => y = TRUE
      /\ stored.encoding = "IDENTITY" => y = FALSE
  BY Zenon DEF WayInv, BodyKept
<1>3. /\ stored.encoding = "GZIP" => c = uncompress(b)
      /\ stored.encoding = "IDENTITY" => c = b
      /\ stored.encoding = "OTHER" => c = [b EXCEPT !.length = 0]
  BY DEF decodedBody
<1>4. stored.digest \in KnownDigest /\ digestMatches(msg) => z
  BY <1>2, Zenon DEF digestMatches, KnownDigest
<1> HIDE DEF b, x, y, z, c
<1>5. CASE stored.encoding = "GZIP"
  <2>1. uncompress(Body(x, y, z)) = Body(x, FALSE, z /\ y)
    BY <1>1, BodyPacked, Zenon
  <2>2. y = TRUE
    BY <1>2, <1>5, Zenon
  <2>3. PICK w \in BOOLEAN : w = (z /\ y) /\ (z => w = TRUE)
    BY <1>1, <2>2
  <2>4. c = Body(x, FALSE, w)
    BY <1>1, <1>3, <1>5, <2>1, <2>3, Zenon
  <2>5. c.length = x /\ c.packed = FALSE /\ c.intact = w
    BY <2>4 DEF Body
  <2> QED BY <1>1, <1>2, <1>4, <2>3, <2>4, <2>5, Zenon DEF c
<1>6. CASE stored.encoding = "IDENTITY"
  <2>1. c = b /\ c.length = x /\ c.packed = y /\ c.intact = z
    BY <1>3, <1>6, Zenon DEF b, x, y, z
  <2>2. y = FALSE /\ stored.encoding # "OTHER"
    BY <1>2, <1>6, Zenon
  <2>3. z => z = TRUE
    BY <1>1
  <2> QED BY <1>1, <1>2, <1>4, <2>1, <2>2, <2>3, Zenon DEF c
<1>7. CASE stored.encoding = "OTHER"
  <2>1. [Body(x, y, z) EXCEPT !.length = 0] = Body(0, y, z)
    <3>1. y \in BOOLEAN /\ z \in BOOLEAN
      BY <1>1, Zenon
    <3> QED BY <3>1 DEF Body
  <2>2. c = Body(0, y, z)
    BY <1>1, <1>3, <1>7, <2>1, Zenon
  <2>3. c.length = 0 /\ c.packed = y /\ c.intact = z /\ 0 \in Nat
    BY <2>2 DEF Body
  <2> QED BY <1>1, <1>7, <2>2, <2>3, Zenon DEF c
<1> QED BY <1>2, <1>5, <1>6, <1>7, Zenon

LEMMA WrapStep == ASSUME WayInv, wrapMessage PROVE WayInv'
<1> USE DEF WayInv
<1>1. stage = "stored" /\ draft' = draft /\ stored' = stored
  BY Zenon DEF wrapMessage
<1>2. DOMAIN msg = Attributes
  BY Zenon DEF HeadKept
<1>3. CASE ~digestMatches(msg)
  <2>1. stage' = "dropped" /\ msg' = msg
    BY <1>3, Zenon DEF wrapMessage
  <2> QED BY <1>1, <2>1, Zenon DEF HeadKept, PropsKept, BodyKept, TimesKept, CodecTypeOK
<1>4. CASE digestMatches(msg)
  <2> DEFINE c == decodedBody(msg)
  <2>1. stage' = "ext" /\ msg' = [decodedAttributes(msg) EXCEPT !.body = c]
    BY <1>4, Zenon DEF wrapMessage
  <2> HIDE DEF c
  <2> DEFINE late == msg.deliverAt.sec * MicrosPerSecond + msg.deliverAt.nanos
             born == micros(msg.born)
  <2>2. decodedAttributes(msg) = [msg EXCEPT !.group = "", !.born = born, !.deliverAt = late]
    BY Zenon DEF decodedAttributes
  <2> HIDE DEF late, born
  <2>3. /\ DOMAIN msg' = Attributes /\ msg'.start = msg.start
        /\ msg'.topic = msg.topic /\ msg'.keys = msg.keys /\ msg'.tag = msg.tag /\ msg'.id = msg.id
        /\ msg'.body = c /\ msg'.props = msg.props
        /\ msg'.group = "" /\ msg'.born = born /\ msg'.deliverAt = late
    BY <1>2, <2>1, <2>2 DEF Attributes
  <2>4. HeadKept' /\ PropsKept'
    BY <1>1, <2>1, <2>3, Zenon DEF HeadKept, PropsKept
  <2>5. TimesKept'
    BY <1>1, <2>1, <2>3, Zenon DEF TimesKept, born, late, micros
  <2>6. /\ msg'.body = Body(msg'.body.length, msg'.body.packed, msg'.body.intact)
        /\ msg'.body.length \in Nat /\ msg'.body.packed \in BOOLEAN /\ msg'.body.intact \in BOOLEAN
        /\ stored.digest \in KnownDigest /\ stored.encoding # "OTHER" =>
             msg'.body = Body(draft.length, FALSE, TRUE)
    BY <1>1, <1>4, <2>3, DecodedBody, Zenon DEF c
  <2>7. BodyKept'
    BY <1>1, <2>1, <2>6, Zenon DEF BodyKept
  <2>8. CodecTypeOK'
    BY <1>1, <2>1, <2>6, Zenon DEF CodecTypeOK
  <2> QED BY <2>4, <2>5, <2>7, <2>8, Zenon
<1> QED BY <1>3, <1>4, Zenon

LEMMA ConvertBackStep == ASSUME WayInv, msgConvertBack PROVE WayInv'
<1> USE DEF WayInv
<1>1. stage = "ext" /\ stage' = "listener" /\ draft' = draft /\ stored' = stored
  BY Zenon DEF msgConvertBack
<1>2. DOMAIN msg = Attributes
  BY Zenon DEF HeadKept
<1> DEFINE t == IF "__TAG" \in DOMAIN msg.props THEN msg.props["__TAG"] ELSE msg.tag
           i == IF "__MSGID" \in DOMAIN msg.props THEN msg.props["__MSGID"] ELSE msg.id
           u == Unreserved(msg.props)
<1>3. msg' = [msg EXCEPT !.tag = t, !.id = i, !.props = u]
  BY Zenon DEF msgConvertBack
<1> HIDE DEF t, i, u
<1>4. /\ DOMAIN msg' = Attributes /\ msg'.start = msg.start
      /\ msg'.topic = msg.topic /\ msg'.keys = msg.keys /\ msg'.tag = t /\ msg'.id = i
      /\ msg'.body = msg.body /\ msg'.props = u
      /\ msg'.group = msg.group /\ msg'.born = msg.born /\ msg'.deliverAt = msg.deliverAt
  BY <1>2, <1>3 DEF Attributes
<1>5. t = (IF stored.added = "__TAG" THEN "broker's" ELSE draft.tag)
  BY <1>1, Zenon DEF t, PropsKept, HeadKept
<1>6. i = (IF stored.added = "__MSGID" THEN "broker's" ELSE "own")
  BY <1>1, Zenon DEF i, PropsKept, HeadKept
<1>7. u = Unreserved(draft.props)
  BY <1>1, Zenon DEF u, PropsKept
<1>8. PropsKept'
  BY <1>1, <1>4, <1>5, <1>6, <1>7, Zenon DEF PropsKept
<1>9. HeadKept' /\ BodyKept' /\ TimesKept' /\ CodecTypeOK'
  BY <1>1, <1>4, Zenon DEF HeadKept, BodyKept, TimesKept, CodecTypeOK
<1> QED BY <1>8, <1>9, Zenon

LEMMA WayStep == WayInv /\ [CodecNext]_codecVars => WayInv'
<1> SUFFICES ASSUME WayInv, [CodecNext]_codecVars PROVE WayInv'
  OBVIOUS
<1>1. CASE UNCHANGED codecVars
  <2>1. stage' = stage /\ msg' = msg /\ draft' = draft /\ stored' = stored
    BY <1>1, Zenon DEF codecVars
  <2>2. HeadKept' /\ TimesKept' /\ CodecTypeOK'
    BY <2>1, Zenon DEF WayInv, HeadKept, TimesKept, CodecTypeOK
  <2>3. PropsKept'
    BY <2>1, Zenon DEF WayInv, PropsKept
  <2>4. BodyKept'
    BY <2>1, Zenon DEF WayInv, BodyKept
  <2> QED BY <2>2, <2>3, <2>4, Zenon DEF WayInv
<1>2. CASE CodecNext
  BY <1>2, ConvertStep, SendStep, WrapStep, ConvertBackStep, BindStep, BrokerStep, Zenon DEF CodecNext
<1> QED BY <1>1, <1>2, Zenon

(* What a listener gets is what the application sent, for any messages,    *)
(* sizes and thresholds and whatever a broker adds: own properties, topic, *)
(* keys, tag and id, the body under a known digest and encoding, and the   *)
(* times (the delivery time if it has no nanoseconds).                     *)
THEOREM MessageCorrect == CodecSpec => []MessageSurvives
  BY WayStarts, WayStep, WayImplies, PTL DEF CodecSpec

-----------------------------------------------------------------------------
(* The requests of consumers. *)

RequestsSpec == RequestsInit /\ [][RequestsNext]_requestVars

(* The parts of RequestsInv. *)
FilterHeard ==
  request.kind \in {"pop", "pull"} =>
    LET t == request.topic
    IN  t \notin changed => request.filter = (IF told[t] = NoExpression THEN Wildcard ELSE told[t])

TimeExact(time, ms) ==
  /\ time.sec * MillisPerSecond * NanosPerMilli + time.nanos = ms * NanosPerMilli
  /\ time.nanos < MillisPerSecond * NanosPerMilli

TimeKept == request.kind \in {"pop", "offset", "pull at"} => TimeExact(request.time, request.millis)

NamesKept ==
  request.kind = "assignment" /\ request.naming.scheme # None =>
    {x.host : x \in request.access.hosts} = {x.host : x \in {y \in request.naming.items : y.port # None}}

SignedRight ==
  /\ "authorization" \in request.headers <=> request.kind # None /\ {"key", "secret"} \subseteq credentials
  /\ "token" \in request.headers => "authorization" \in request.headers

(* A topic that nobody (un)subscribed since the last heartbeat is          *)
(* subscribed to as that heartbeat told.                                   *)
HeardInv ==
  /\ RequestsTypeOK /\ FilterHeard /\ TimeKept /\ NamesKept /\ SignedRight
  /\ \A t \in Topic : t \notin changed => table[t] = told[t]

LEMMA HeardImplies == HeardInv => RequestsInv
  BY Zenon DEF HeardInv, RequestsInv, FilterHeard, TimeKept, TimeExact, NamesKept, SignedRight

(* A duration in seconds and nanoseconds is that in milliseconds. *)
LEMMA DurationExact ==
  ASSUME NEW ms \in Nat
  PROVE  TimeExact(Duration(ms), ms)
<1> DEFINE q == ms \div MillisPerSecond
           r == ms % MillisPerSecond
           M == MillisPerSecond
           N == NanosPerMilli
<1>1. M \in Nat \ {0} /\ N \in Nat \ {0}
  BY RequestConstants, Zenon
<1>2. q \in Nat /\ r \in 0 .. (M - 1) /\ ms = (M * q) + r
  BY <1>1, DivMod, Zenon
<1>3. Duration(ms).sec = q /\ Duration(ms).nanos = r * N
  BY Zenon DEF Duration
<1> HIDE DEF q, r, M, N
<1>4. q * M * N + r * N = ms * N
  BY <1>1, <1>2
<1>5. r * N < M * N
  BY <1>1, <1>2
<1> QED BY <1>3, <1>4, <1>5, Zenon DEF TimeExact, M, N

(* What Signature::sign adds, whatever is signed. *)
LEMMA Signed ==
  ASSUME request'.headers = sign, request'.kind # None, UNCHANGED credentials
  PROVE  SignedRight'
<1>1. "authorization" \in sign <=> {"key", "secret"} \subseteq credentials
  BY DEF sign
<1>2. "token" \in sign => {"key", "secret"} \subseteq credentials
  BY DEF sign
<1> QED BY <1>1, <1>2, Zenon DEF SignedRight

(* A request with a filter of the subscription asks for what the broker    *)
(* heard of.                                                               *)
LEMMA Filtered ==
  ASSUME HeardInv, NEW t \in Topic, request'.topic = t, request'.filter = wrapFilterExpression(t),
         UNCHANGED <<told, changed>>
  PROVE  FilterHeard'
<1>1. ASSUME t \notin changed
      PROVE  wrapFilterExpression(t) = (IF told[t] = NoExpression THEN Wildcard ELSE told[t])
  BY <1>1, Zenon DEF HeardInv, wrapFilterExpression, Subscribed
<1> QED BY <1>1, Zenon DEF FilterHeard

(* A step that changes nothing but the request keeps the rest. *)
LEMMA RequestOnly ==
  ASSUME HeardInv, UNCHANGED <<table, queues, told, changed, credentials>>,
         FilterHeard', TimeKept', NamesKept', SignedRight'
  PROVE  HeardInv'
  BY Zenon DEF HeardInv, RequestsTypeOK

(* A step that makes no request keeps the last one right, if the broker    *)
(* heard of no other expression meanwhile.                                 *)
LEMMA SameRequest ==
  ASSUME HeardInv, UNCHANGED <<request, told, credentials>>, changed \subseteq changed'
  PROVE  FilterHeard' /\ TimeKept' /\ NamesKept' /\ SignedRight'
  BY Zenon DEF HeardInv, FilterHeard, TimeKept, NamesKept, SignedRight

LEMMA SubscriptionStep ==
  ASSUME HeardInv, NEW t \in Topic
  PROVE  /\ \A c \in Tag, e \in ExpressionType : subscribe(t, c, e) => HeardInv'
         /\ unsubscribe(t) => HeardInv'
<1> USE DEF HeardInv, RequestsTypeOK
<1>1. ASSUME NEW c \in Tag, NEW e \in ExpressionType, subscribe(t, c, e) PROVE HeardInv'
  <2>1. FilterExpression(c, e) \in Expression
    BY DEF FilterExpression, Expression
  <2>2. table' \in [Topic -> Expression \cup {NoExpression}]
    BY <1>1, <2>1 DEF subscribe
  <2>3. changed' \subseteq Topic /\ changed \subseteq changed'
    BY <1>1, Zenon DEF subscribe
  <2>4. \A s \in Topic : s \notin changed' => table'[s] = told'[s]
    BY <1>1 DEF subscribe
  <2> QED BY <1>1, <2>2, <2>3, <2>4, SameRequest, Zenon DEF subscribe
<1>2. ASSUME unsubscribe(t) PROVE HeardInv'
  <2>2. table' \in [Topic -> Expression \cup {NoExpression}]
    BY <1>2 DEF unsubscribe
  <2>3. changed' \subseteq Topic /\ changed \subseteq changed'
    BY <1>2, Zenon DEF unsubscribe
  <2>4. \A s \in Topic : s \notin changed' => table'[s] = told'[s]
    BY <1>2 DEF unsubscribe, Subscribed
  <2> QED BY <1>2, <2>2, <2>3, <2>4, SameRequest, Zenon DEF unsubscribe
<1> QED BY <1>1, <1>2, Zenon

LEMMA RequestsStep == HeardInv /\ [RequestsNext]_requestVars => HeardInv'
<1> SUFFICES ASSUME HeardInv, [RequestsNext]_requestVars PROVE HeardInv'
  OBVIOUS
<1>1. CASE UNCHANGED requestVars
  BY <1>1, Zenon DEF requestVars, HeardInv, RequestsTypeOK, FilterHeard, TimeKept, NamesKept, SignedRight
<1>2. ASSUME NEW t \in Topic, NEW c \in Tag, NEW e \in ExpressionType, subscribe(t, c, e)
      PROVE  HeardInv'
  BY <1>2, SubscriptionStep, Zenon
<1>3. ASSUME NEW t \in Topic, unsubscribe(t) PROVE HeardInv'
  BY <1>3, SubscriptionStep, Zenon
<1>4. ASSUME NEW t \in Topic, wrapPullMessageRequest(t) PROVE HeardInv'
  <2> USE <1>4 DEF wrapPullMessageRequest
  <2>1. request'.kind = "pull" /\ request'.topic = t /\ request'.filter = wrapFilterExpression(t)
          /\ request'.headers = sign
    BY Zenon
  <2>2. FilterHeard' /\ SignedRight'
    BY <2>1, Filtered, Signed, Zenon DEF None
  <2>3. TimeKept' /\ NamesKept'
    BY <2>1, Zenon DEF TimeKept, NamesKept
  <2> QED BY <2>2, <2>3, RequestOnly, Zenon
<1>5. ASSUME NEW t \in Topic, NEW l \in {"FIFO", "STANDARD"}, NEW ms \in Millis,
             wrapPopMessageRequest(t, l, ms)
      PROVE  HeardInv'
  <2> USE <1>5 DEF wrapPopMessageRequest
  <2>1. request'.kind = "pop" /\ request'.topic = t /\ request'.filter = wrapFilterExpression(t)
          /\ request'.headers = sign /\ request'.time = Duration(ms) /\ request'.millis = ms
    BY Zenon
  <2>2. FilterHeard' /\ SignedRight'
    BY <2>1, Filtered, Signed, Zenon DEF None
  <2>3. TimeKept'
    BY <2>1, DurationExact, RequestConstants, Zenon DEF TimeKept, TimeExact
  <2>4. NamesKept'
    BY <2>1, Zenon DEF NamesKept
  <2> QED BY <2>2, <2>3, <2>4, RequestOnly, Zenon
<1>6. ASSUME NEW t \in Topic, NEW n \in Naming, wrapQueryAssignmentRequest(t, n)
      PROVE  HeardInv'
  <2> USE <1>6 DEF wrapQueryAssignmentRequest
  <2>1. request'.kind = "assignment" /\ request'.naming = n /\ request'.access = AccessPoint(n)
          /\ request'.headers = sign
    BY Zenon
  <2>2. NamesKept'
    <3>1. n.scheme # None => AccessPoint(n).hosts = {y \in n.items : y.port # None}
      BY DEF AccessPoint
    <3> QED BY <2>1, <3>1, Zenon DEF NamesKept
  <2>3. FilterHeard' /\ TimeKept' /\ SignedRight'
    BY <2>1, Signed, Zenon DEF FilterHeard, TimeKept, None
  <2> QED BY <2>2, <2>3, RequestOnly, Zenon
<1>7. CASE scanAssignments
  <2>1. queues' \subseteq Topic
    BY <1>7, Zenon DEF scanAssignments, Subscribed, HeardInv, RequestsTypeOK
  <2>2. FilterHeard' /\ TimeKept' /\ NamesKept' /\ SignedRight'
    BY <1>7, SameRequest, Zenon DEF scanAssignments
  <2> QED BY <1>7, <2>1, <2>2, Zenon DEF scanAssignments, HeardInv, RequestsTypeOK
<1>8. CASE resourceBundle
  <2>1. request'.kind = "poll" /\ request'.headers = sign
    BY <1>8, Zenon DEF resourceBundle
  <2>2. FilterHeard' /\ TimeKept' /\ NamesKept' /\ SignedRight'
    BY <1>8, <2>1, Signed, Zenon DEF resourceBundle, FilterHeard, TimeKept, NamesKept, None
  <2> QED BY <1>8, <2>2, RequestOnly, Zenon DEF resourceBundle
<1>9. ASSUME NEW l \in {"FIFO", "STANDARD"}, heartbeat(l) PROVE HeardInv'
  <2>1. request'.kind = "heartbeat" /\ request'.headers = sign
    BY <1>9, Zenon DEF heartbeat
  <2>2. FilterHeard' /\ TimeKept' /\ NamesKept' /\ SignedRight'
    BY <1>9, <2>1, Signed, Zenon DEF heartbeat, FilterHeard, TimeKept, NamesKept, None
  <2> QED BY <1>9, <2>2, Zenon DEF heartbeat, HeardInv, RequestsTypeOK
<1>10. ASSUME NEW ms \in Millis, NEW p \in {"BEGINNING", "END", "TIME_POINT"}, queryOffset(p, ms)
       PROVE  HeardInv'
  <2>1. PICK m \in Nat : request'.kind = "offset" /\ request'.time = Duration(m)
                           /\ request'.millis = m /\ request'.headers = sign
    <3>1. CASE p = "TIME_POINT"
      BY <1>10, <3>1, RequestConstants, Zenon DEF queryOffset
    <3>2. CASE p # "TIME_POINT"
      <4>1. 0 \in Nat
        OBVIOUS
      <4> QED BY <1>10, <3>2, <4>1, Zenon DEF queryOffset
    <3> QED BY <3>1, <3>2, Zenon
  <2>2. TimeKept'
    BY <2>1, DurationExact, Zenon DEF TimeKept, TimeExact
  <2>3. FilterHeard' /\ NamesKept' /\ SignedRight'
    BY <1>10, <2>1, Signed, Zenon DEF queryOffset, FilterHeard, NamesKept, None
  <2> QED BY <1>10, <2>2, <2>3, RequestOnly, Zenon DEF queryOffset
<1>11. ASSUME NEW ms \in Millis, NEW o \in Offset, pull(o, ms) PROVE HeardInv'
  <2>1. request'.kind = "pull at" /\ request'.time = Duration(ms) /\ request'.millis = ms
          /\ request'.headers = sign
    BY <1>11, Zenon DEF pull
  <2>2. TimeKept'
    BY <2>1, DurationExact, RequestConstants, Zenon DEF TimeKept, TimeExact
  <2>3. FilterHeard' /\ NamesKept' /\ SignedRight'
    BY <1>11, <2>1, Signed, Zenon DEF pull, FilterHeard, NamesKept, None
  <2> QED BY <1>11, <2>2, <2>3, RequestOnly, Zenon DEF pull
<1> QED
  BY <1>1, <1>2, <1>3, <1>4, <1>5, <1>6, <1>7, <1>8, <1>9, <1>10, <1>11, Zenon DEF RequestsNext

(* Every request of a consumer says what it should, whatever is subscribed *)
(* and unsubscribed between heartbeats: the filter is the one the broker   *)
(* heard of, times are exact, no access point is lost and what is signed   *)
(* is signed by complete credentials.                                      *)
THEOREM RequestsCorrect == RequestsSpec => []RequestsInv
<1>1. ASSUME RequestsInit PROVE HeardInv
  <2>1. RequestsTypeOK /\ (\A t \in Topic : t \notin changed => table[t] = told[t])
    BY <1>1 DEF RequestsInit, RequestsTypeOK
  <2>2. request.kind = None /\ request.headers = {}
    BY <1>1, Zenon DEF RequestsInit
  <2>3. FilterHeard /\ TimeKept /\ NamesKept /\ SignedRight
    BY <2>2, Zenon DEF FilterHeard, TimeKept, NamesKept, SignedRight, None
  <2> QED BY <2>1, <2>3, Zenon DEF HeardInv
<1> QED BY <1>1, RequestsStep, HeardImplies, PTL DEF RequestsSpec
=============================================================================
