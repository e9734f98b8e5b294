--------------------------- MODULE DatalinkProofs ---------------------------
(***************************************************************************)
(* Proofs about the serial datalink, for every size of its rings, every set   *)
(* of messages and every interleaving: bytes stay in order from uart_transmit *)
(* to parse_pprz, none of an accepted message is given up, and on a line that *)
(* does no harm the automaton meets whole frames only.                       *)
(*                                                                         *)
(* The invariant says that the stream (what the automaton took, the receive    *)
(* ring, the register, the transmit ring, what is left of the message) can be  *)
(* cut into frames.  Every step of a ring or register leaves the stream as it  *)
(* is; sending appends a frame, and handing over takes the first away.         *)
(***************************************************************************)
EXTENDS Datalink, SequenceTheorems, WellFoundedInduction, TLAPS

(* Induction for a set of numbers, from the library's well-founded order.       *)
LEMMA SetInduction ==
  ASSUME NEW T \in SUBSET Nat, 0 \in T, \A n \in T : n + 1 \in T
  PROVE  T = Nat
<1> DEFINE R == OpToRel(<, Nat)
<1>1. IsWellFoundedOn(R, Nat)
  BY NatLessThanWellFounded
<1>2. \A x, y \in Nat : x < y => <<x, y>> \in R
  BY DEF OpToRel
<1> HIDE DEF R
<1>3. SUFFICES ASSUME Nat \ T # {} PROVE FALSE
  OBVIOUS
<1>4. PICK x \in Nat \ T : \A y \in Nat \ T : ~(<<y, x>> \in R)
  <2>1. Nat \ T \subseteq Nat
    OBVIOUS
  <2>2. QED
    BY <1>1, <1>3, <2>1, WFMin
<1>5. x # 0 /\ x - 1 \in Nat /\ x - 1 < x
  BY <1>4
<1>6. x - 1 \in T
  BY <1>2, <1>4, <1>5
<1>7. QED
  BY <1>4, <1>5, <1>6

-----------------------------------------------------------------------------
(* The checksums of the first n bytes: the recursion of Checksums, which has a  *)
(* solution.                                                                *)
Running(first, payload, n) ==
  CHOOSE f : f = [i \in 0 .. n |->
                    IF i = 0 THEN Sums(first) ELSE Add(f[i - 1], payload[i])]

LEMMA ChecksumsRun ==
  ASSUME NEW first, NEW payload
  PROVE  Checksums(first, payload)
           = Running(first, payload, Len(payload))[Len(payload)]
BY DEF Checksums, Running

LEMMA RunningDefined ==
  ASSUME NEW first, NEW payload, NEW n \in Nat
  PROVE  Running(first, payload, n) =
           [i \in 0 .. n |-> IF i = 0 THEN Sums(first)
                             ELSE Add(Running(first, payload, n)[i - 1],
                                      payload[i])]
<1> DEFINE Is(f, k) == f = [i \in 0 .. k |-> IF i = 0 THEN Sums(first)
                                             ELSE Add(f[i - 1], payload[i])]
           T == {k \in Nat : \E f : Is(f, k)}
<1>1. 0 \in T
  <2>1. Is([i \in 0 .. 0 |-> Sums(first)], 0)
    OBVIOUS
  <2>2. QED
    BY <2>1
<1>2. ASSUME NEW k \in T PROVE k + 1 \in T
  <2>1. PICK f : Is(f, k)
    BY <1>2
  <2> DEFINE g == [i \in 0 .. k + 1 |->
                     IF i = k + 1 THEN Add(f[k], payload[k + 1]) ELSE f[i]]
  <2>2. k \in Nat
    OBVIOUS
  <2>3. \A i \in 0 .. k + 1 : g[i] = IF i = 0 THEN Sums(first)
                                     ELSE Add(g[i - 1], payload[i])
    <3> TAKE i \in 0 .. k + 1
    <3>1. CASE i = 0
      <4>1. g[0] = f[0] /\ f[0] = Sums(first)
        BY <2>1, <2>2
      <4>2. QED
        BY <3>1, <4>1
    <3>2. CASE i = k + 1
      <4>1. g[i] = Add(f[k], payload[i]) /\ g[i - 1] = f[k] /\ i # 0
        BY <2>2, <3>2
      <4>2. QED
        BY <4>1
    <3>3. CASE i \in 1 .. k
      <4>1. g[i] = f[i] /\ g[i - 1] = f[i - 1] /\ i # 0
        BY <2>2, <3>3
      <4>2. f[i] = Add(f[i - 1], payload[i])
        BY <2>1, <2>2, <3>3, <4>1
      <4>3. QED
        BY <4>1, <4>2
    <3>4. QED
      BY <2>2, <3>1, <3>2, <3>3
  <2>4. Is(g, k + 1)
    BY <2>3
  <2> HIDE DEF g, Is
  <2>5. \E h : Is(h, k + 1)
    BY <2>4
  <2>6. QED
    BY <2>2, <2>5
<1>3. n \in T
  <2> HIDE DEF Is
  <2>1. T \in SUBSET Nat
    OBVIOUS
  <2> HIDE DEF T
  <2>2. QED
    BY <1>1, <1>2, <2>1, SetInduction
<1>4. Is(Running(first, payload, n), n)
  BY <1>3 DEF Running
<1>5. QED
  BY <1>4
LEMMA RunningAt ==
  ASSUME NEW first, NEW payload, NEW n \in Nat, NEW i \in 0 .. n
  PROVE  Running(first, payload, n)[i] =
           IF i = 0 THEN Sums(first)
           ELSE Add(Running(first, payload, n)[i - 1], payload[i])
<1> DEFINE f == Running(first, payload, n)
<1>1. f = [j \in 0 .. n |-> IF j = 0 THEN Sums(first)
                           ELSE Add(f[j - 1], payload[j])]
  BY RunningDefined
<1> HIDE DEF f
<1>2. f[i] = IF i = 0 THEN Sums(first) ELSE Add(f[i - 1], payload[i])
  BY <1>1
<1>3. QED
  BY <1>2 DEF f

(* All bytes of one payload are summed as those of its beginning are.         *)
LEMMA ChecksumsEmpty ==
  ASSUME NEW first
  PROVE  Checksums(first, <<>>) = Sums(first)
<1>1. Running(first, <<>>, 0)[0] = Sums(first)
  BY RunningDefined, 0 \in 0 .. 0
<1>2. QED
  BY <1>1, ChecksumsRun

LEMMA ChecksumsAppend ==
  ASSUME NEW first, NEW payload \in Seq(Bytes), NEW c \in Bytes
  PROVE  Checksums(first, Append(payload, c))
           = Add(Checksums(first, payload), c)
<1> DEFINE n == Len(payload)
           q == Append(payload, c)
           f == Running(first, payload, n)
           g == Running(first, q, n + 1)
           T == {i \in Nat : i <= n => g[i] = f[i]}
<1>1. n \in Nat /\ n + 1 \in Nat
  OBVIOUS
<1>2. /\ Len(q) = n + 1
      /\ \A i \in 1 .. n : q[i] = payload[i]
      /\ q[n + 1] = c
  BY AppendProperties
<1> HIDE DEF n, q
<1>3. \A i \in 0 .. n : f[i] = IF i = 0 THEN Sums(first)
                               ELSE Add(f[i - 1], payload[i])
  BY <1>1, RunningAt
<1>4. \A i \in 0 .. n + 1 : g[i] = IF i = 0 THEN Sums(first)
                                   ELSE Add(g[i - 1], q[i])
  BY <1>1, RunningAt
<1> HIDE DEF f, g
<1>5. 0 \in T
  BY <1>1, <1>3, <1>4
<1>6. ASSUME NEW i \in T PROVE i + 1 \in T
  <2>1. i \in Nat /\ i + 1 \in Nat
    OBVIOUS
  <2>2. ASSUME i + 1 <= n PROVE g[i + 1] = f[i + 1]
    <3>1. i <= n /\ i + 1 \in 1 .. n /\ i + 1 # 0 /\ (i + 1) - 1 = i
      BY <1>1, <2>1, <2>2
    <3>2. i + 1 \in 0 .. n /\ i + 1 \in 0 .. n + 1
      BY <1>1, <3>1
    <3>3. g[i] = f[i]
      BY <3>1
    <3>4. f[i + 1] = Add(f[i], payload[i + 1])
      BY <1>3, <3>1, <3>2
    <3>5. g[i + 1] = Add(g[i], q[i + 1])
      BY <1>4, <3>1, <3>2
    <3>6. QED
      BY <1>2, <3>1, <3>3, <3>4, <3>5
  <2>3. QED
    BY <2>1, <2>2
<1>7. g[n] = f[n]
  <2>1. T \in SUBSET Nat
    OBVIOUS
  <2> HIDE DEF T
  <2>2. n \in T
    BY <1>1, <1>5, <1>6, <2>1, SetInduction
  <2>3. QED
    BY <1>1, <2>2 DEF T
<1>8. g[n + 1] = Add(g[n], c)
  <2>1. n + 1 \in 0 .. n + 1 /\ n + 1 # 0 /\ (n + 1) - 1 = n
    BY <1>1
  <2>2. QED
    BY <1>2, <1>4, <2>1
<1>9. QED
  BY <1>2, <1>7, <1>8, ChecksumsRun DEF n, q, f, g

LEMMA ConcatAt ==
  ASSUME NEW S, NEW s \in Seq(S), NEW t \in Seq(S)
  PROVE  /\ s \o t \in Seq(S)
         /\ Len(s \o t) = Len(s) + Len(t)
         /\ \A i \in 1 .. Len(s) : (s \o t)[i] = s[i]
         /\ \A i \in 1 .. Len(t) : (s \o t)[Len(s) + i] = t[i]
<1> DEFINE w == s \o t
           n == Len(s)
           k == Len(t)
<1>1. /\ w \in Seq(S) /\ Len(w) = n + k
      /\ \A i \in 1 .. n + k : w[i] = IF i <= n THEN s[i] ELSE t[i - n]
  BY ConcatProperties
<1>2. n \in Nat /\ k \in Nat
  OBVIOUS
<1> HIDE DEF w, n, k
<1>3. \A i \in 1 .. n : w[i] = s[i]
  BY <1>1, <1>2
<1>4. ASSUME NEW i \in 1 .. k PROVE w[n + i] = t[i]
  <2>1. n + i \in 1 .. n + k /\ ~(n + i <= n) /\ (n + i) - n = i
    BY <1>2
  <2>2. QED
    BY <1>1, <2>1
<1>5. QED
  BY <1>1, <1>3, <1>4 DEF w, n, k

LEMMA BytesConcat ==
  \A s, t \in Seq(Bytes) :
    /\ s \o t \in Seq(Bytes)
    /\ Len(s \o t) = Len(s) + Len(t)
    /\ \A i \in 1 .. Len(s) : (s \o t)[i] = s[i]
    /\ \A i \in 1 .. Len(t) : (s \o t)[Len(s) + i] = t[i]
<1> TAKE s, t \in Seq(Bytes)
<1>1. QED
  BY ConcatAt

LEMMA CellsConcat ==
  \A s, t \in Seq(0 .. BYTE) :
    /\ s \o t \in Seq(0 .. BYTE)
    /\ Len(s \o t) = Len(s) + Len(t)
    /\ \A i \in 1 .. Len(s) : (s \o t)[i] = s[i]
    /\ \A i \in 1 .. Len(t) : (s \o t)[Len(s) + i] = t[i]
<1> TAKE s, t \in Seq(0 .. BYTE)
<1>1. QED
  BY ConcatAt

LEMMA ByteMod == \A x \in Nat : x % BYTE \in Bytes
BY PprzAssumption DEF Bytes

LEMMA SmallMod == \A x \in Nat : x < BYTE => x % BYTE = x
BY PprzAssumption

LEMMA BytesAssoc ==
  \A s, t, u \in Seq(Bytes) : (s \o t) \o u = s \o (t \o u)
BY ConcatAssociative

LEMMA AddType ==
  ASSUME NEW sums \in Bytes \X Bytes, NEW c \in Bytes
  PROVE  Add(sums, c) \in Bytes \X Bytes
<1> DEFINE a == (sums[1] + c) % BYTE
           b == (sums[2] + a) % BYTE
<1>1. \A x \in Bytes : x \in Nat
  BY PprzAssumption DEF Bytes
<1>2. sums[1] \in Nat /\ sums[2] \in Nat /\ c \in Nat
  BY <1>1
<1>3. a \in Bytes
  BY <1>2, ByteMod
<1> HIDE DEF a
<1>4. b \in Bytes
  BY <1>1, <1>2, <1>3, ByteMod
<1> HIDE DEF b
<1>5. Add(sums, c) = <<a, b>>
  BY DEF Add, a, b
<1>6. QED
  BY <1>3, <1>4, <1>5

LEMMA ChecksumsType ==
  ASSUME NEW first \in Bytes, NEW payload \in Seq(Bytes)
  PROVE  Checksums(first, payload) \in Bytes \X Bytes
<1> DEFINE n == Len(payload)
           f == Running(first, payload, n)
           T == {i \in Nat : i <= n => f[i] \in Bytes \X Bytes}
<1>1. n \in Nat /\ \A i \in 1 .. n : payload[i] \in Bytes
  OBVIOUS
<1> HIDE DEF n
<1>2. \A i \in 0 .. n : f[i] = IF i = 0 THEN Sums(first)
                               ELSE Add(f[i - 1], payload[i])
  BY <1>1, RunningAt
<1> HIDE DEF f
<1>3. 0 \in T
  <2>1. f[0] = Sums(first)
    BY <1>1, <1>2
  <2> f[0] \in Bytes \X Bytes
    BY <2>1 DEF Sums
  <2>2. QED
    BY <2>1
<1>4. ASSUME NEW i \in T PROVE i + 1 \in T
  <2>1. i \in Nat /\ i + 1 \in Nat
    OBVIOUS
  <2>2. ASSUME i + 1 <= n PROVE f[i + 1] \in Bytes \X Bytes
    <3>1. i <= n /\ i + 1 \in 1 .. n /\ i + 1 # 0 /\ (i + 1) - 1 = i
      BY <1>1, <2>1, <2>2
    <3>2. f[i] \in Bytes \X Bytes
      BY <3>1
    <3>3. i + 1 \in 0 .. n
      BY <1>1, <3>1
    <3>4. f[i + 1] = Add(f[i], payload[i + 1])
      BY <1>2, <3>1, <3>3
    <3>5. QED
      BY <1>1, <3>1, <3>2, <3>4, AddType
  <2>3. QED
    BY <2>1, <2>2
<1>5. n \in T
  <2>1. T \in SUBSET Nat
    OBVIOUS
  <2> HIDE DEF T
  <2>2. QED
    BY <1>1, <1>3, <1>4, <2>1, SetInduction
<1>6. f[n] \in Bytes \X Bytes
  BY <1>1, <1>5
<1>7. QED
  BY <1>6, ChecksumsRun DEF f, n

(* A frame, byte by byte.                                                   *)
SumsOf(m) == Checksums((Len(m) + 4) % BYTE, m)

LEMMA FrameBytes ==
  ASSUME NEW m \in Seq(Bytes)
  PROVE  /\ SumsOf(m) \in Bytes \X Bytes
         /\ Frame(m) \in Seq(Bytes)
         /\ Len(Frame(m)) = Len(m) + 4
         /\ Frame(m)[1] = STX
         /\ Frame(m)[2] = (Len(m) + 4) % BYTE
         /\ \A i \in 1 .. Len(m) : Frame(m)[i + 2] = m[i]
         /\ Frame(m)[Len(m) + 3] = SumsOf(m)[1]
         /\ Frame(m)[Len(m) + 4] = SumsOf(m)[2]
<1> DEFINE l == (Len(m) + 4) % BYTE
           k == SumsOf(m)
           h == <<STX, l>>
<1>1. l \in Bytes /\ STX \in Bytes
  <2>1. Len(m) + 4 \in Nat
    OBVIOUS
  <2>2. QED
    BY <2>1, ByteMod, PprzAssumption
<1>2. k \in Bytes \X Bytes
  BY <1>1, ChecksumsType DEF SumsOf
<1>3. k = <<k[1], k[2]>> /\ k[1] \in Bytes /\ k[2] \in Bytes
  BY <1>2
<1>4. Frame(m) = (h \o m) \o k
  BY DEF Frame, SumsOf, PprzTransportSizeOf
<1> HIDE DEF k
<1>5. k \in Seq(Bytes) /\ Len(k) = 2
  <2>1. <<k[1], k[2]>> \in Seq(Bytes) /\ Len(<<k[1], k[2]>>) = 2
    BY <1>3
  <2>2. QED
    BY <1>3, <2>1
<1>6. h \in Seq(Bytes) /\ Len(h) = 2 /\ h[1] = STX /\ h[2] = l
  BY <1>1
<1> HIDE DEF h, l
<1> DEFINE p == h \o m
<1>7. /\ p \in Seq(Bytes) /\ Len(p) = Len(m) + 2
      /\ p[1] = STX /\ p[2] = l
      /\ \A i \in 1 .. Len(m) : p[i + 2] = m[i]
  <2>1. /\ p \in Seq(Bytes) /\ Len(p) = Len(h) + Len(m)
        /\ \A i \in 1 .. Len(h) : p[i] = h[i]
        /\ \A i \in 1 .. Len(m) : p[Len(h) + i] = m[i]
    BY <1>6, BytesConcat
  <2> HIDE DEF p
  <2>2. Len(m) \in Nat /\ \A i \in 1 .. Len(m) : 2 + i = i + 2
    OBVIOUS
  <2>3. QED
    BY <1>6, <2>1, <2>2
<1> HIDE DEF p
<1>8. /\ p \o k \in Seq(Bytes) /\ Len(p \o k) = Len(m) + 4
      /\ \A i \in 1 .. Len(m) + 2 : (p \o k)[i] = p[i]
      /\ (p \o k)[Len(m) + 3] = k[1] /\ (p \o k)[Len(m) + 4] = k[2]
  <2>1. /\ p \o k \in Seq(Bytes) /\ Len(p \o k) = Len(p) + Len(k)
        /\ \A i \in 1 .. Len(p) : (p \o k)[i] = p[i]
        /\ \A i \in 1 .. Len(k) : (p \o k)[Len(p) + i] = k[i]
    BY <1>5, <1>7, BytesConcat
  <2>2. /\ (Len(m) + 2) + 1 = Len(m) + 3 /\ (Len(m) + 2) + 2 = Len(m) + 4
        /\ 1 \in 1 .. 2 /\ 2 \in 1 .. 2
    OBVIOUS
  <2>3. QED
    BY <1>5, <1>7, <2>1, <2>2
<1>9. \A i \in 1 .. Len(m) : i + 2 \in 1 .. Len(m) + 2
  OBVIOUS
<1>10. 1 \in 1 .. Len(m) + 2 /\ 2 \in 1 .. Len(m) + 2
  OBVIOUS
<1>11. QED
  BY <1>2, <1>4, <1>7, <1>8, <1>9, <1>10 DEF k, l, p

-----------------------------------------------------------------------------
(* The rings.  All their arithmetic is at most one turn away from the range.   *)
LEMMA OneTurn ==
  ASSUME NEW size \in Nat \ {0}, NEW x \in Int, -size <= x, x < 2 * size
  PROVE  x % size = IF x < 0 THEN x + size
                    ELSE IF x < size THEN x ELSE x - size
<1>1. CASE x < 0
  <2>1. x + size \in 0 .. size - 1 /\ x = (-1) * size + (x + size)
    BY <1>1
  <2>2. QED
    BY <1>1, <2>1
<1>2. CASE 0 <= x /\ x < size
  BY <1>2
<1>3. CASE size <= x
  BY <1>3
<1>4. QED
  BY <1>1, <1>2, <1>3


Count(e, i, size) == (i - e) % size
Slot(e, k, size) == (e + k - 1) % size
After(i, size) == (i + 1) % size

LEMMA CountIs ==
  ASSUME NEW size \in Nat \ {0}, NEW e \in 0 .. size - 1,
         NEW i \in 0 .. size - 1
  PROVE  /\ Count(e, i, size) = IF e <= i THEN i - e ELSE i - e + size
         /\ Count(e, i, size) \in 0 .. size - 1
<1>1. i - e \in Int /\ -size <= i - e /\ i - e < 2 * size
  OBVIOUS
<1>2. (i - e) % size = IF i - e < 0 THEN i - e + size
                       ELSE IF i - e < size THEN i - e ELSE i - e - size
  BY <1>1, OneTurn
<1>3. QED
  BY <1>2 DEF Count

LEMMA AfterIs ==
  ASSUME NEW size \in Nat \ {0}, NEW i \in 0 .. size - 1
  PROVE  /\ After(i, size) = IF i = size - 1 THEN 0 ELSE i + 1
         /\ After(i, size) \in 0 .. size - 1
<1> DEFINE x == i + 1
<1>1. x \in Int /\ -size <= x /\ x < 2 * size /\ ~(x < 0)
  OBVIOUS
<1> HIDE DEF x
<1>2. x % size = IF x < size THEN x ELSE x - size
  BY <1>1, OneTurn
<1>3. QED
  BY <1>2 DEF After, x

LEMMA SlotIs ==
  ASSUME NEW size \in Nat \ {0}, NEW e \in 0 .. size - 1,
         NEW k \in 1 .. size
  PROVE  /\ Slot(e, k, size) = IF e + k - 1 < size THEN e + k - 1
                               ELSE e + k - 1 - size
         /\ Slot(e, k, size) \in 0 .. size - 1
<1> DEFINE x == e + k - 1
<1>1. x \in Int /\ -size <= x /\ x < 2 * size /\ ~(x < 0)
  OBVIOUS
<1> HIDE DEF x
<1>2. x % size = IF x < size THEN x ELSE x - size
  BY <1>1, OneTurn
<1>3. QED
  BY <1>2 DEF Slot, x

LEMMA RingSteps ==
  ASSUME NEW size \in Nat \ {0}, NEW e \in 0 .. size - 1,
         NEW i \in 0 .. size - 1
  PROVE  /\ After(i, size) # e <=> Count(e, i, size) # size - 1
         /\ After(i, size) # e =>
              /\ Count(e, After(i, size), size) = Count(e, i, size) + 1
              /\ Slot(e, Count(e, i, size) + 1, size) = i
              /\ \A k \in 1 .. Count(e, i, size) : Slot(e, k, size) # i
         /\ e # i =>
              /\ Count(After(e, size), i, size) = Count(e, i, size) - 1
              /\ Slot(e, 1, size) = e
              /\ \A k \in 1 .. Count(e, i, size) - 1 :
                   /\ Slot(After(e, size), k, size) = Slot(e, k + 1, size)
                   /\ Slot(e, k + 1, size) # e
<1> DEFINE n == Count(e, i, size)
           j == After(i, size)
           f == After(e, size)
<1>1. n \in 0 .. size - 1 /\ n = IF e <= i THEN i - e ELSE i - e + size
  BY CountIs
<1>2. /\ j \in 0 .. size - 1 /\ j = IF i = size - 1 THEN 0 ELSE i + 1
      /\ f \in 0 .. size - 1 /\ f = IF e = size - 1 THEN 0 ELSE e + 1
  <2>1. j \in 0 .. size - 1 /\ j = IF i = size - 1 THEN 0 ELSE i + 1
    BY AfterIs
  <2>2. f \in 0 .. size - 1 /\ f = IF e = size - 1 THEN 0 ELSE e + 1
    BY AfterIs
  <2>3. QED
    BY <2>1, <2>2
<1> HIDE DEF j, f
<1>3. Count(e, j, size) = IF e <= j THEN j - e ELSE j - e + size
  BY <1>2, CountIs
<1>4. Count(f, i, size) = IF f <= i THEN i - f ELSE i - f + size
  BY <1>2, CountIs
<1>5. \A k \in 1 .. size : Slot(e, k, size) = IF e + k - 1 < size
                                             THEN e + k - 1
                                             ELSE e + k - 1 - size
  BY SlotIs
<1>6. \A k \in 1 .. size : Slot(f, k, size) = IF f + k - 1 < size
                                             THEN f + k - 1
                                             ELSE f + k - 1 - size
  BY <1>2, SlotIs
<1> HIDE DEF n
<1>7. (j # e) <=> (n # size - 1)
  <2>1. CASE j = e
    BY <1>1, <1>2, <2>1
  <2>2. CASE j # e
    BY <1>1, <1>2, <2>2
  <2>3. QED
    BY <2>1, <2>2
<1>8. ASSUME j # e
      PROVE  /\ Count(e, j, size) = n + 1
             /\ Slot(e, n + 1, size) = i
             /\ \A k \in 1 .. n : Slot(e, k, size) # i
  BY <1>1, <1>2, <1>3, <1>5, <1>8
<1>9. ASSUME e # i
      PROVE  /\ Count(f, i, size) = n - 1
             /\ Slot(e, 1, size) = e
             /\ \A k \in 1 .. n - 1 :
                  /\ Slot(f, k, size) = Slot(e, k + 1, size)
                  /\ Slot(e, k + 1, size) # e
  <2>1. Count(f, i, size) = n - 1
    BY <1>1, <1>2, <1>4, <1>9
  <2>2. Slot(e, 1, size) = e
    BY <1>5
  <2>3. ASSUME NEW k \in 1 .. n - 1
        PROVE  /\ Slot(f, k, size) = Slot(e, k + 1, size)
               /\ Slot(e, k + 1, size) # e
    <3>1. k \in 1 .. size /\ k + 1 \in 1 .. size
      BY <1>1
    <3>2. Slot(f, k, size) = IF f + k - 1 < size THEN f + k - 1
                             ELSE f + k - 1 - size
      BY <1>6, <3>1
    <3>3. Slot(e, k + 1, size) = IF e + k < size THEN e + k ELSE e + k - size
      BY <1>5, <3>1
    <3>4. QED
      BY <1>1, <1>2, <3>1, <3>2, <3>3
  <2>4. QED
    BY <2>1, <2>2, <2>3
<1>10. QED
  BY <1>7, <1>8, <1>9 DEF n, j, f
Ring(size) == [0 .. size - 1 -> 0 .. BYTE]

LEMMA HeldIs ==
  ASSUME NEW size \in Nat \ {0}, NEW e \in 0 .. size - 1,
         NEW i \in 0 .. size - 1, NEW b \in Ring(size)
  PROVE  /\ Held(b, e, i, size) \in Seq(0 .. BYTE)
         /\ Len(Held(b, e, i, size)) = Count(e, i, size)
         /\ \A k \in 1 .. Count(e, i, size) :
              Held(b, e, i, size)[k] = b[Slot(e, k, size)]
<1> DEFINE n == Count(e, i, size)
           h == [k \in 1 .. n |-> b[Slot(e, k, size)]]
<1>1. n \in 0 .. size - 1
  BY CountIs
<1>2. Held(b, e, i, size) = h
  BY DEF Held, Count, Slot
<1> HIDE DEF n
<1>3. \A k \in 1 .. n : b[Slot(e, k, size)] \in 0 .. BYTE
  <2> TAKE k \in 1 .. n
  <2>1. k \in 1 .. size
    BY <1>1
  <2>2. Slot(e, k, size) \in 0 .. size - 1
    BY <2>1, SlotIs
  <2>3. QED
    BY <2>2 DEF Ring
<1>4. h \in Seq(0 .. BYTE) /\ Len(h) = n
  BY <1>1, <1>3
<1>5. \A k \in 1 .. n : h[k] = b[Slot(e, k, size)]
  OBVIOUS
<1> HIDE DEF h
<1>6. QED
  BY <1>2, <1>4, <1>5 DEF n

LEMMA HeldNone ==
  ASSUME NEW size \in Nat \ {0}, NEW e \in 0 .. size - 1,
         NEW b \in Ring(size)
  PROVE  Held(b, e, e, size) = <<>>
<1>1. Count(e, e, size) = 0
  BY CountIs
<1>2. Len(Held(b, e, e, size)) = 0 /\ Held(b, e, e, size) \in Seq(0 .. BYTE)
  BY <1>1, HeldIs
<1>3. QED
  BY <1>2

(* A byte that is stored follows the others.                                *)
LEMMA HeldInsert ==
  ASSUME NEW size \in Nat \ {0}, NEW e \in 0 .. size - 1,
         NEW i \in 0 .. size - 1, NEW b \in Ring(size), NEW c \in 0 .. BYTE,
         After(i, size) # e
  PROVE  /\ [b EXCEPT ![i] = c] \in Ring(size)
         /\ Held([b EXCEPT ![i] = c], e, After(i, size), size)
              = Append(Held(b, e, i, size), c)
<1> DEFINE n == Count(e, i, size)
           j == After(i, size)
           d == [b EXCEPT ![i] = c]
           h == Held(b, e, i, size)
           g == Held(d, e, j, size)
<1>1. d \in Ring(size) /\ d[i] = c /\ \A k \in 0 .. size - 1 : k # i => d[k] = b[k]
  BY DEF Ring
<1>2. n \in 0 .. size - 1 /\ j \in 0 .. size - 1
  BY CountIs, AfterIs
<1>3. /\ Count(e, j, size) = n + 1
      /\ Slot(e, n + 1, size) = i
      /\ \A k \in 1 .. n : Slot(e, k, size) # i
  BY RingSteps
<1>4. /\ h \in Seq(0 .. BYTE) /\ Len(h) = n
      /\ \A k \in 1 .. n : h[k] = b[Slot(e, k, size)]
  BY HeldIs
<1> HIDE DEF n, j, d, h
<1>5. /\ g \in Seq(0 .. BYTE) /\ Len(g) = n + 1
      /\ \A k \in 1 .. n + 1 : g[k] = d[Slot(e, k, size)]
  <2>1. /\ g \in Seq(0 .. BYTE) /\ Len(g) = Count(e, j, size)
        /\ \A k \in 1 .. Count(e, j, size) : g[k] = d[Slot(e, k, size)]
    BY <1>1, <1>2, HeldIs
  <2>2. QED
    BY <1>3, <2>1
<1> HIDE DEF g
<1>6. \A k \in 1 .. n : g[k] = h[k]
  <2> TAKE k \in 1 .. n
  <2>1. k \in 1 .. size /\ k \in 1 .. n + 1
    BY <1>2
  <2>2. Slot(e, k, size) \in 0 .. size - 1
    BY <2>1, SlotIs
  <2>3. QED
    BY <1>1, <1>3, <1>4, <1>5, <2>1, <2>2
<1>7. g[n + 1] = c
  BY <1>1, <1>2, <1>3, <1>5
<1>8. /\ Append(h, c) \in Seq(0 .. BYTE) /\ Len(Append(h, c)) = n + 1
      /\ \A k \in 1 .. n : Append(h, c)[k] = h[k]
      /\ Append(h, c)[n + 1] = c
  BY <1>4, AppendProperties
<1>9. \A k \in 1 .. n + 1 : g[k] = Append(h, c)[k]
  <2> TAKE k \in 1 .. n + 1
  <2>1. k \in 1 .. n \/ k = n + 1
    BY <1>2
  <2>2. QED
    BY <1>6, <1>7, <1>8, <2>1
<1>10. g = Append(h, c)
  BY <1>5, <1>8, <1>9, SeqEqual
<1>11. QED
  BY <1>1, <1>10 DEF g, h, j, d

(* The byte that is taken was the first.                                    *)
LEMMA HeldTake ==
  ASSUME NEW size \in Nat \ {0}, NEW e \in 0 .. size - 1,
         NEW i \in 0 .. size - 1, NEW b \in Ring(size), NEW c \in 0 .. BYTE,
         e # i
  PROVE  /\ [b EXCEPT ![e] = c] \in Ring(size)
         /\ Held(b, e, i, size)
              = <<b[e]>> \o Held([b EXCEPT ![e] = c], After(e, size), i, size)
<1> DEFINE n == Count(e, i, size)
           f == After(e, size)
           d == [b EXCEPT ![e] = c]
           h == Held(b, e, i, size)
           g == Held(d, f, i, size)
<1>1. d \in Ring(size) /\ \A k \in 0 .. size - 1 : k # e => d[k] = b[k]
  BY DEF Ring
<1>2. n \in 0 .. size - 1 /\ f \in 0 .. size - 1
  BY CountIs, AfterIs
<1>3. /\ Count(f, i, size) = n - 1
      /\ Slot(e, 1, size) = e
      /\ \A k \in 1 .. n - 1 : /\ Slot(f, k, size) = Slot(e, k + 1, size)
                               /\ Slot(e, k + 1, size) # e
  BY RingSteps
<1>4. /\ h \in Seq(0 .. BYTE) /\ Len(h) = n
      /\ \A k \in 1 .. n : h[k] = b[Slot(e, k, size)]
  BY HeldIs
<1> HIDE DEF n, f, d, h
<1>5. /\ g \in Seq(0 .. BYTE) /\ Len(g) = n - 1
      /\ \A k \in 1 .. n - 1 : g[k] = d[Slot(f, k, size)]
  <2>1. /\ g \in Seq(0 .. BYTE) /\ Len(g) = Count(f, i, size)
        /\ \A k \in 1 .. Count(f, i, size) : g[k] = d[Slot(f, k, size)]
    BY <1>1, <1>2, HeldIs
  <2>2. QED
    BY <1>3, <2>1
<1> HIDE DEF g
<1>6. n - 1 \in Nat
  BY <1>5
<1>7. \A k \in 1 .. n - 1 : g[k] = h[k + 1]
  <2> TAKE k \in 1 .. n - 1
  <2>1. k + 1 \in 1 .. size /\ k + 1 \in 1 .. n
    BY <1>2
  <2>2. Slot(e, k + 1, size) \in 0 .. size - 1
    BY <2>1, SlotIs
  <2>3. QED
    BY <1>1, <1>3, <1>4, <1>5, <2>1, <2>2
<1>8. h[1] = b[e] /\ b[e] \in 0 .. BYTE
  BY <1>2, <1>3, <1>4, <1>6 DEF Ring
<1> DEFINE w == <<b[e]>> \o g
<1>9. /\ w \in Seq(0 .. BYTE) /\ Len(w) = n
      /\ w[1] = b[e]
      /\ \A k \in 1 .. n - 1 : w[k + 1] = g[k]
  <2> DEFINE q == <<b[e]>>
  <2>1. q \in Seq(0 .. BYTE) /\ Len(q) = 1 /\ q[1] = b[e]
    BY <1>8
  <2> HIDE DEF q
  <2>2. /\ q \o g \in Seq(0 .. BYTE) /\ Len(q \o g) = Len(q) + Len(g)
        /\ \A k \in 1 .. Len(q) : (q \o g)[k] = q[k]
        /\ \A k \in 1 .. Len(g) : (q \o g)[Len(q) + k] = g[k]
    BY <1>5, <2>1, CellsConcat
  <2>3. \A k \in 1 .. n - 1 : 1 + k = k + 1
    BY <1>2
  <2>4. QED
    BY <1>2, <1>5, <2>1, <2>2, <2>3 DEF q
<1> HIDE DEF w
<1>10. \A k \in 1 .. n : h[k] = w[k]
  <2> TAKE k \in 1 .. n
  <2>1. CASE k = 1
    BY <1>8, <1>9, <2>1
  <2>2. CASE k # 1
    <3>1. k - 1 \in 1 .. n - 1 /\ (k - 1) + 1 = k
      BY <1>2, <2>2
    <3>2. QED
      BY <1>7, <1>9, <3>1
  <2>3. QED
    BY <2>1, <2>2
<1>11. h = w
  BY <1>4, <1>9, <1>10, SeqEqual
<1>12. QED
  BY <1>1, <1>11 DEF g, h, f, d, w
-----------------------------------------------------------------------------
(* Whole frames, without recursion: cuts of the stream with a frame from each  *)
(* to another, as far as the end.                                           *)
Fits(s, i, m) ==
  /\ i + Len(Frame(m)) <= Len(s) + 1
  /\ SubSeq(s, i, i + Len(Frame(m)) - 1) = Frame(m)

Cuts(s, i, C) ==
  /\ C \subseteq i .. Len(s) + 1
  /\ i \in C /\ Len(s) + 1 \in C
  /\ \A j \in C \ {Len(s) + 1} :
       \E m \in Messages : Fits(s, j, m) /\ j + Len(Frame(m)) \in C

Framed(s, i) == \E C : Cuts(s, i, C)

LEMMA MessageFrame ==
  ASSUME NEW m \in Messages
  PROVE  /\ m \in Seq(Bytes) /\ Len(m) \in 1 .. BYTE - 1
         /\ Frame(m) \in Seq(Bytes)
         /\ Len(Frame(m)) = Len(m) + 4
         /\ Len(Frame(m)) \in Nat /\ Len(Frame(m)) > 4
<1>1. m \in Seq(Bytes) /\ Len(m) \in 1 .. BYTE - 1
  BY DatalinkAssumption
<1>2. Frame(m) \in Seq(Bytes) /\ Len(Frame(m)) = Len(m) + 4
  BY <1>1, FrameBytes
<1>3. Len(m) + 4 \in Nat /\ Len(m) + 4 > 4
  BY <1>1, PprzAssumption
<1>4. QED
  BY <1>1, <1>2, <1>3

LEMMA FramedUnfold ==
  ASSUME NEW s \in Seq(Bytes), NEW i \in 1 .. Len(s) + 1
  PROVE  Framed(s, i) <=>
           \/ i = Len(s) + 1
           \/ \E m \in Messages :
                Fits(s, i, m) /\ Framed(s, i + Len(Frame(m)))
<1> DEFINE n == Len(s) + 1
<1>0. n \in Nat /\ i \in Nat /\ i <= n
  OBVIOUS
<1>1. ASSUME Framed(s, i), i # n
      PROVE  \E m \in Messages : Fits(s, i, m) /\ Framed(s, i + Len(Frame(m)))
  <2>1. PICK C : Cuts(s, i, C)
    BY <1>1 DEF Framed
  <2>2. PICK m \in Messages : Fits(s, i, m) /\ i + Len(Frame(m)) \in C
    BY <1>1, <2>1 DEF Cuts
  <2> DEFINE k == i + Len(Frame(m))
             D == C \cap (k .. n)
  <2>3. k \in Nat /\ i < k
    BY <1>0, MessageFrame
  <2>4. k \in D /\ n \in D /\ D \subseteq k .. n
    BY <1>0, <2>1, <2>2, <2>3 DEF Cuts
  <2>5. ASSUME NEW j \in D \ {n}
        PROVE  \E q \in Messages : Fits(s, j, q) /\ j + Len(Frame(q)) \in D
    <3>1. j \in C \ {n} /\ j \in k .. n
      OBVIOUS
    <3>2. PICK q \in Messages : Fits(s, j, q) /\ j + Len(Frame(q)) \in C
      BY <2>1, <3>1 DEF Cuts
    <3>3. j + Len(Frame(q)) \in k .. n
      BY <1>0, <2>1, <2>3, <3>1, <3>2, MessageFrame DEF Cuts
    <3>4. QED
      BY <3>2, <3>3
  <2>6. Cuts(s, k, D)
    BY <2>4, <2>5 DEF Cuts
  <2>7. QED
    BY <2>2, <2>6 DEF Framed
<1>2. ASSUME i = n PROVE Framed(s, i)
  <2>1. Cuts(s, i, {n})
    BY <1>0, <1>2 DEF Cuts
  <2>2. QED
    BY <2>1 DEF Framed
<1>3. ASSUME NEW m \in Messages, Fits(s, i, m), Framed(s, i + Len(Frame(m)))
      PROVE  Framed(s, i)
  <2> DEFINE k == i + Len(Frame(m))
  <2>1. k \in Nat /\ i < k
    BY <1>0, MessageFrame
  <2>2. PICK C : Cuts(s, k, C)
    BY <1>3 DEF Framed
  <2> HIDE DEF k
  <2>3. C \cup {i} \subseteq i .. n /\ n \in C \cup {i} /\ k \in C
    BY <1>0, <2>1, <2>2 DEF Cuts
  <2>4. ASSUME NEW j \in (C \cup {i}) \ {n}
        PROVE  \E q \in Messages :
                 Fits(s, j, q) /\ j + Len(Frame(q)) \in C \cup {i}
    <3>1. CASE j = i
      BY <1>3, <2>3, <3>1 DEF k
    <3>2. CASE j \in C \ {n}
      BY <2>2, <3>2 DEF Cuts
    <3>3. QED
      BY <3>1, <3>2
  <2>5. Cuts(s, i, C \cup {i})
    BY <2>3, <2>4 DEF Cuts
  <2>6. QED
    BY <2>5 DEF Framed
<1>4. QED
  BY <1>1, <1>2, <1>3
(* The recursion of WholeFrames has a solution, and only one.                 *)
Whole(s) ==
  CHOOSE f : f = [i \in 1 .. Len(s) + 1 |->
    \/ i = Len(s) + 1
    \/ \E m \in Messages :
         LET next == i + Len(Frame(m))
         IN  /\ next <= Len(s) + 1
             /\ SubSeq(s, i, next - 1) = Frame(m)
             /\ f[next]]

LEMMA WholeFramesIs ==
  ASSUME NEW s
  PROVE  WholeFrames(s) = Whole(s)[1]
BY DEF WholeFrames, Whole

LEMMA WholeStep ==
  ASSUME NEW s \in Seq(Bytes), NEW i \in 1 .. Len(s) + 1
  PROVE  Whole(s)[i] <=>
           \/ i = Len(s) + 1
           \/ \E m \in Messages :
                Fits(s, i, m) /\ Whole(s)[i + Len(Frame(m))]
<1> DEFINE n == Len(s) + 1
           Now(f, j) == \/ j = n
                        \/ \E m \in Messages :
                             LET next == j + Len(Frame(m))
                             IN  /\ next <= n
                                 /\ SubSeq(s, j, next - 1) = Frame(m)
                                 /\ f[next]
           Is(f) == f = [j \in 1 .. n |-> Now(f, j)]
           g == [j \in 1 .. n |-> Framed(s, j)]
<1>1. ASSUME NEW j \in 1 .. n
      PROVE  Framed(s, j) <=> Now(g, j)
  <2>1. \A m \in Messages :
          Fits(s, j, m) => g[j + Len(Frame(m))] = Framed(s, j + Len(Frame(m)))
    <3> TAKE m \in Messages
    <3>1. ASSUME Fits(s, j, m) PROVE j + Len(Frame(m)) \in 1 .. n
      BY <3>1, MessageFrame DEF Fits
    <3>2. QED
      BY <3>1
  <2> HIDE DEF g
  <2>2. Now(g, j) <=> \/ j = n
                      \/ \E m \in Messages :
                           Fits(s, j, m) /\ g[j + Len(Frame(m))]
    BY DEF Fits
  <2> HIDE DEF Now
  <2>3. QED
    BY <2>1, <2>2, FramedUnfold
<1>2. \A j \in 1 .. n : Framed(s, j) = Now(g, j)
  <2> TAKE j \in 1 .. n
  <2>1. Framed(s, j) \in BOOLEAN
    BY DEF Framed
  <2>2. Now(g, j) \in BOOLEAN
    OBVIOUS
  <2> HIDE DEF Now, g
  <2>3. QED
    BY <1>1, <2>1, <2>2
<1>3. Is(g)
  <2> HIDE DEF Now
  <2>1. g = [j \in 1 .. n |-> Now(g, j)]
    BY <1>2
  <2>2. QED
    BY <2>1
<1>4. Is(Whole(s))
  <2> HIDE DEF g
  <2>1. \E f : Is(f)
    BY <1>3
  <2>2. Whole(s) = CHOOSE f : Is(f)
    BY DEF Whole
  <2> HIDE DEF Is
  <2>3. QED
    BY <2>1, <2>2
<1>5. Whole(s)[i] = Now(Whole(s), i)
  <2> HIDE DEF Now
  <2>1. QED
    BY <1>4
<1>6. Whole(s)[i] <=> Now(Whole(s), i)
  BY <1>5, Zenon
<1>7. QED
  BY <1>6 DEF Fits
LEMMA FramedIsWhole ==
  ASSUME NEW s \in Seq(Bytes), Framed(s, 1)
  PROVE  WholeFrames(s)
<1> DEFINE n == Len(s) + 1
           W == Whole(s)
<1>0. n \in Nat /\ 1 \in 1 .. n
  OBVIOUS
<1>1. PICK C : Cuts(s, 1, C)
  BY DEF Framed
<1>2. C \subseteq 1 .. n /\ 1 \in C
  BY <1>1 DEF Cuts
<1> DEFINE T == {d \in Nat : \A j \in C : n <= j + d => W[j]}
<1>3. 0 \in T
  <2>1. ASSUME NEW j \in C, n <= j + 0 PROVE W[j]
    <3>1. j \in 1 .. n /\ j = n
      BY <1>0, <1>2, <2>1
    <3>2. QED
      BY <3>1, WholeStep
  <2>2. QED
    BY <2>1
<1>4. ASSUME NEW d \in T PROVE d + 1 \in T
  <2>1. d \in Nat /\ d + 1 \in Nat /\ \A j \in C : n <= j + d => W[j]
    OBVIOUS
  <2>2. ASSUME NEW j \in C, n <= j + (d + 1) PROVE W[j]
    <3>1. j \in 1 .. n /\ j \in Nat
      BY <1>2
    <3>2. CASE j = n
      BY <3>1, <3>2, WholeStep
    <3>3. CASE j # n
      <4>1. PICK m \in Messages : Fits(s, j, m) /\ j + Len(Frame(m)) \in C
        BY <1>1, <3>3 DEF Cuts
      <4>2. n <= (j + Len(Frame(m))) + d
        BY <1>0, <2>1, <2>2, <3>1, MessageFrame
      <4>3. W[j + Len(Frame(m))]
        BY <2>1, <4>1, <4>2
      <4>4. QED
        BY <3>1, <4>1, <4>3, WholeStep
    <3>4. QED
      BY <3>2, <3>3
  <2>3. QED
    BY <2>1, <2>2
<1>5. n \in T
  <2>1. T \in SUBSET Nat
    OBVIOUS
  <2> HIDE DEF T
  <2>2. QED
    BY <1>0, <1>3, <1>4, <2>1, SetInduction
<1>6. W[1]
  BY <1>0, <1>2, <1>5
<1>7. QED
  BY <1>6, WholeFramesIs

(* Where a frame fits, its bytes are those of the stream.                     *)
LEMMA FitsAt ==
  ASSUME NEW s \in Seq(Bytes), NEW i \in 1 .. Len(s), NEW m \in Messages
  PROVE  Fits(s, i, m) <=>
           /\ i + Len(Frame(m)) <= Len(s) + 1
           /\ \A k \in 1 .. Len(Frame(m)) : s[i + k - 1] = Frame(m)[k]
<1> DEFINE f == Frame(m)
           n == Len(Frame(m))
           r == i + n - 1
           q == SubSeq(s, i, r)
<1>1. f \in Seq(Bytes) /\ n \in Nat /\ n > 0 /\ Len(f) = n
  BY MessageFrame
<1>2. i \in Int /\ i \in Nat /\ Len(s) \in Nat
  OBVIOUS
<1> HIDE DEF f, n
<1>3. r \in Int /\ i <= r /\ r - i + 1 = n
  BY <1>1, <1>2
<1>4. ASSUME i + n <= Len(s) + 1
      PROVE  /\ q \in Seq(Bytes) /\ Len(q) = n
             /\ \A k \in 1 .. n : q[k] = s[i + k - 1]
  <2>1. \A k \in i .. r : s[k] \in Bytes
    BY <1>1, <1>2, <1>4
  <2> HIDE DEF r
  <2>2. /\ q \in Seq(Bytes) /\ Len(q) = IF i <= r THEN r - i + 1 ELSE 0
        /\ \A k \in 1 .. r - i + 1 : q[k] = s[i + k - 1]
    BY <1>2, <1>3, <2>1, SubSeqProperties
  <2>3. QED
    BY <1>3, <2>2
<1> HIDE DEF q
<1>5. ASSUME i + n <= Len(s) + 1,
             \A k \in 1 .. n : s[i + k - 1] = f[k]
      PROVE  q = f
  <2>1. \A k \in 1 .. n : q[k] = f[k]
    BY <1>4, <1>5
  <2>2. QED
    BY <1>1, <1>4, <1>5, <2>1, SeqEqual
<1>6. ASSUME i + n <= Len(s) + 1, q = f
      PROVE  \A k \in 1 .. n : s[i + k - 1] = f[k]
  BY <1>4, <1>6
<1>7. QED
  BY <1>5, <1>6 DEF Fits, f, n, r, q

(* Another frame is sent.                                                   *)
LEMMA FramedAppend ==
  ASSUME NEW s \in Seq(Bytes), Framed(s, 1), NEW m \in Messages
  PROVE  Framed(s \o Frame(m), 1)
<1> DEFINE f == Frame(m)
           w == s \o f
           n == Len(s)
<1>1. f \in Seq(Bytes) /\ Len(f) \in Nat /\ Len(f) > 0
  BY MessageFrame
<1> HIDE DEF f
<1>2. /\ w \in Seq(Bytes) /\ Len(w) = n + Len(f)
      /\ \A i \in 1 .. n : w[i] = s[i]
      /\ \A i \in 1 .. Len(f) : w[n + i] = f[i]
  BY <1>1, BytesConcat
<1>3. n \in Nat
  OBVIOUS
<1> HIDE DEF w
<1>4. PICK C : Cuts(s, 1, C)
  BY DEF Framed
<1> DEFINE e == n + Len(f) + 1
           D == C \cup {e}
<1>5. /\ C \subseteq 1 .. n + 1 /\ 1 \in C /\ n + 1 \in C
      /\ D \subseteq 1 .. e /\ e = Len(w) + 1 /\ e \in Nat /\ n + 1 < e
  <2>1. C \subseteq 1 .. n + 1 /\ 1 \in C /\ n + 1 \in C
    BY <1>4 DEF Cuts
  <2>2. e = Len(w) + 1 /\ e \in Nat /\ n + 1 < e
    BY <1>1, <1>2, <1>3
  <2> HIDE DEF e
  <2>3. D \subseteq 1 .. e
    <3>1. \A j \in 1 .. n + 1 : j \in 1 .. e
      BY <1>3, <2>2
    <3>2. e \in 1 .. e
      BY <1>3, <2>2
    <3>3. QED
      BY <2>1, <3>1, <3>2
  <2>4. QED
    BY <2>1, <2>2, <2>3
<1>6. ASSUME NEW j \in D \ {e}
      PROVE  \E q \in Messages : Fits(w, j, q) /\ j + Len(Frame(q)) \in D
  <2>0. j \in 1 .. Len(w)
    BY <1>5
  <2>1. CASE j = n + 1
    <3>1. \A k \in 1 .. Len(f) : w[j + k - 1] = f[k]
      <4> TAKE k \in 1 .. Len(f)
      <4>1. j + k - 1 = n + k
        BY <1>1, <1>3, <2>1
      <4>2. QED
        BY <1>2, <4>1
    <3>2. j + Len(f) = e
      BY <1>1, <1>3, <2>1
    <3>3. Fits(w, j, m)
      BY <1>2, <1>5, <2>0, <3>1, <3>2, FitsAt DEF f
    <3>4. QED
      BY <3>2, <3>3 DEF f
  <2>2. CASE j # n + 1
    <3>1. j \in C \ {n + 1} /\ j \in 1 .. n
      BY <1>3, <1>5, <2>2
    <3>2. PICK q \in Messages : Fits(s, j, q) /\ j + Len(Frame(q)) \in C
      BY <1>4, <3>1 DEF Cuts
    <3>3. /\ j + Len(Frame(q)) <= n + 1
          /\ \A k \in 1 .. Len(Frame(q)) : s[j + k - 1] = Frame(q)[k]
      BY <3>1, <3>2, FitsAt
    <3>4. Len(Frame(q)) \in Nat
      BY MessageFrame
    <3>5. \A k \in 1 .. Len(Frame(q)) : w[j + k - 1] = Frame(q)[k]
      <4> TAKE k \in 1 .. Len(Frame(q))
      <4>1. j + k - 1 \in 1 .. n
        BY <1>3, <3>1, <3>3, <3>4
      <4>2. QED
        BY <1>2, <3>3, <4>1
    <3>6. j + Len(Frame(q)) <= Len(w) + 1
      BY <1>1, <1>2, <1>3, <3>1, <3>3, <3>4
    <3>7. Fits(w, j, q)
      BY <1>2, <2>0, <3>5, <3>6, FitsAt
    <3>8. QED
      BY <3>2, <3>7
  <2>3. QED
    BY <2>1, <2>2
<1>7. Cuts(w, 1, D)
  BY <1>5, <1>6 DEF Cuts
<1>8. QED
  BY <1>7 DEF Framed, w, f

(* What follows the first cuts is framed as well.                            *)
LEMMA FramedRest ==
  ASSUME NEW s \in Seq(Bytes), NEW t \in Seq(Bytes),
         Framed(s \o t, Len(s) + 1)
  PROVE  Framed(t, 1)
<1> DEFINE w == s \o t
           n == Len(s)
<1>1. /\ w \in Seq(Bytes) /\ Len(w) = n + Len(t)
      /\ \A i \in 1 .. Len(t) : w[n + i] = t[i]
  BY BytesConcat
<1>2. n \in Nat /\ Len(t) \in Nat
  OBVIOUS
<1>3. PICK C : Cuts(w, n + 1, C)
  BY DEF Framed
<1> HIDE DEF w, n
<1>4. C \subseteq n + 1 .. (n + Len(t)) + 1 /\ n + 1 \in C
      /\ n + Len(t) + 1 \in C
  BY <1>1, <1>3 DEF Cuts
<1> DEFINE D == {j \in 1 .. Len(t) + 1 : n + j \in C}
<1>5. D \subseteq 1 .. Len(t) + 1 /\ 1 \in D /\ Len(t) + 1 \in D
  BY <1>2, <1>4
<1>6. ASSUME NEW j \in D \ {Len(t) + 1}
      PROVE  \E q \in Messages : Fits(t, j, q) /\ j + Len(Frame(q)) \in D
  <2>1. j \in 1 .. Len(t) /\ n + j \in C /\ n + j # Len(w) + 1
        /\ n + j \in 1 .. Len(w)
    BY <1>1, <1>2, <1>6
  <2>2. PICK q \in Messages :
          Fits(w, n + j, q) /\ (n + j) + Len(Frame(q)) \in C
    BY <1>3, <2>1 DEF Cuts
  <2>3. /\ (n + j) + Len(Frame(q)) <= Len(w) + 1
        /\ \A k \in 1 .. Len(Frame(q)) : w[(n + j) + k - 1] = Frame(q)[k]
    BY <1>1, <2>1, <2>2, FitsAt
  <2>4. Len(Frame(q)) \in Nat
    BY MessageFrame
  <2>5. /\ j + Len(Frame(q)) <= Len(t) + 1
        /\ j + Len(Frame(q)) \in 1 .. Len(t) + 1
        /\ n + (j + Len(Frame(q))) = (n + j) + Len(Frame(q))
    BY <1>1, <1>2, <2>1, <2>3, <2>4
  <2>6. \A k \in 1 .. Len(Frame(q)) : t[j + k - 1] = Frame(q)[k]
    <3> TAKE k \in 1 .. Len(Frame(q))
    <3>1. /\ (n + j) + k - 1 = n + (j + k - 1)
          /\ j + k - 1 \in 1 .. Len(t)
      BY <1>2, <2>1, <2>4, <2>5
    <3>2. QED
      BY <1>1, <2>3, <3>1
  <2>7. Fits(t, j, q)
    BY <2>1, <2>5, <2>6, FitsAt
  <2>8. QED
    BY <2>2, <2>5, <2>7
<1>7. Cuts(t, 1, D)
  BY <1>5, <1>6 DEF Cuts
<1>8. QED
  BY <1>7 DEF Framed
-----------------------------------------------------------------------------
(* The automaton on the bytes of a frame.                                   *)
Busy == {"GOT_LENGTH", "GOT_PAYLOAD", "GOT_CRC1"}

PprzType ==
  [status : States, len : Bytes, sums : Bytes \X Bytes,
   payload : Seq(Bytes), received : BOOLEAN]

(* It holds the beginning of a payload, its sums, and never more than the     *)
(* length said.                                                             *)
InStep(p) ==
  /\ p \in PprzType
  /\ p.received => /\ p.status = "UNINIT" /\ p.len = Len(p.payload)
                   /\ Len(p.payload) \in 1 .. BYTE - 1
  /\ ~p.received /\ p.status \notin Busy => p.payload = <<>>
  /\ p.status \in Busy =>
       /\ p.len \in 1 .. BYTE - 1
       /\ p.sums = Checksums((p.len + 4) % BYTE, p.payload)
  /\ p.status = "GOT_LENGTH" => Len(p.payload) < p.len
  /\ p.status \in {"GOT_PAYLOAD", "GOT_CRC1"} => Len(p.payload) = p.len

LEMMA LengthByte ==
  ASSUME NEW a \in 1 .. BYTE - 1
  PROVE  /\ (a + 4) % BYTE \in Bytes
         /\ (((a + 4) % BYTE) - 4) % BYTE = a
<1> DEFINE c == (a + 4) % BYTE
<1>1. /\ BYTE \in Nat \ {0} /\ BYTE > 4
      /\ a \in Nat /\ a + 4 \in Nat /\ a + 4 \in Int
      /\ -BYTE <= a + 4 /\ a + 4 < 2 * BYTE
  BY PprzAssumption
<1>2. c = IF a + 4 < BYTE THEN a + 4 ELSE a + 4 - BYTE
  <2> DEFINE x == a + 4
  <2>1. /\ x \in Int /\ -BYTE <= x /\ x < 2 * BYTE /\ ~(x < 0)
    BY <1>1
  <2> HIDE DEF x
  <2>2. x % BYTE = IF x < BYTE THEN x ELSE x - BYTE
    BY <1>1, <2>1, OneTurn
  <2>3. c = IF x < BYTE THEN x ELSE x - BYTE
    BY <2>2 DEF x
  <2>4. x = a + 4
    BY DEF x
  <2> HIDE DEF c
  <2>5. QED
    BY <1>1, <2>1, <2>3, <2>4
<1>3. c \in Bytes
  BY <1>1, ByteMod
<1> HIDE DEF c
<1> DEFINE y == c - 4
<1>4. y \in Int /\ -BYTE <= y /\ y < BYTE /\ y < 2 * BYTE
      /\ (y < 0 => y + BYTE = a) /\ (~(y < 0) => y = a)
  BY <1>1, <1>2
<1> HIDE DEF y
<1>5. y % BYTE = IF y < 0 THEN y + BYTE ELSE IF y < BYTE THEN y ELSE y - BYTE
  BY <1>1, <1>4, OneTurn
<1>6. y % BYTE = a
  BY <1>4, <1>5
<1>7. QED
  BY <1>3, <1>6 DEF c, y

LEMMA LengthByteTells ==
  ASSUME NEW a \in 1 .. BYTE - 1, NEW b \in 1 .. BYTE - 1,
         (a + 4) % BYTE = (b + 4) % BYTE
  PROVE  a = b
BY LengthByte

(* Head and payload, as the automaton has taken them.                        *)
LEMMA TakenBusy ==
  ASSUME NEW p, InStep(p), p.status \in Busy
  PROVE  LET h == <<STX, (p.len + 4) % BYTE>>
             w == h \o p.payload
         IN  /\ w \in Seq(Bytes) /\ Len(w) = Len(p.payload) + 2
             /\ w[1] = STX /\ w[2] = (p.len + 4) % BYTE
             /\ \A k \in 1 .. Len(p.payload) : w[k + 2] = p.payload[k]
<1> DEFINE h == <<STX, (p.len + 4) % BYTE>>
           w == h \o p.payload
           q == p.payload
<1>1. STX \in Bytes /\ (p.len + 4) % BYTE \in Bytes
  <2>1. p.len \in 1 .. BYTE - 1
    BY DEF InStep
  <2>2. QED
    BY <2>1, LengthByte, PprzAssumption
<1>2. /\ h \in Seq(Bytes) /\ Len(h) = 2
      /\ h[1] = STX /\ h[2] = (p.len + 4) % BYTE
  BY <1>1
<1>3. q \in Seq(Bytes)
  BY DEF InStep, PprzType
<1> HIDE DEF h, q
<1>4. /\ h \o q \in Seq(Bytes) /\ Len(h \o q) = Len(h) + Len(q)
      /\ \A k \in 1 .. Len(h) : (h \o q)[k] = h[k]
      /\ \A k \in 1 .. Len(q) : (h \o q)[Len(h) + k] = q[k]
  BY <1>2, <1>3, BytesConcat
<1>5. Len(q) \in Nat /\ \A k \in 1 .. Len(q) : 2 + k = k + 2
  BY <1>3
<1>6. QED
  BY <1>2, <1>4, <1>5 DEF h, q

LEMMA TakenType ==
  ASSUME NEW p, InStep(p)
  PROVE  Taken(p) \in Seq(Bytes)
<1>1. CASE p.status = "UNINIT"
  <2>1. CASE p.received
    <3>1. p.payload \in Seq(Bytes)
      BY DEF InStep, PprzType
    <3>2. QED
      BY <1>1, <2>1, <3>1, FrameBytes DEF Taken
  <2>2. CASE ~p.received
    BY <1>1, <2>2 DEF Taken
  <2>3. QED
    BY <2>1, <2>2
<1>2. CASE p.status = "GOT_STX"
  BY <1>2, PprzAssumption DEF Taken
<1>3. CASE p.status \in {"GOT_LENGTH", "GOT_PAYLOAD"}
  <2>1. p.status \in Busy
    BY <1>3 DEF Busy
  <2>2. <<STX, (p.len + 4) % BYTE>> \o p.payload \in Seq(Bytes)
    BY <2>1, TakenBusy
  <2>3. QED
    BY <1>3, <2>2 DEF Taken
<1>4. CASE p.status = "GOT_CRC1"
  <2>1. p.status \in Busy
    BY <1>4 DEF Busy
  <2>2. <<STX, (p.len + 4) % BYTE>> \o p.payload \in Seq(Bytes)
    BY <2>1, TakenBusy
  <2>3. <<p.sums[1]>> \in Seq(Bytes)
    BY DEF InStep, PprzType
  <2>4. (<<STX, (p.len + 4) % BYTE>> \o p.payload) \o <<p.sums[1]>>
          \in Seq(Bytes)
    BY <2>2, <2>3, BytesConcat
  <2>5. QED
    BY <1>4, <2>4 DEF Taken
<1>5. p.status \in States
  BY DEF InStep, PprzType
<1>6. QED
  BY <1>1, <1>2, <1>3, <1>4, <1>5 DEF States
(* A byte that goes on with the frame takes the automaton on.                  *)
LEMMA Consumes ==
  ASSUME NEW p, InStep(p), ~p.received, NEW m \in Messages, NEW c \in Bytes,
         \A k \in 1 .. Len(Taken(p)) :
           k <= Len(Frame(m)) => Taken(p)[k] = Frame(m)[k],
         Len(Taken(p)) + 1 <= Len(Frame(m)) =>
           c = Frame(m)[Len(Taken(p)) + 1]
  PROVE  /\ InStep(parse_pprz(p, c))
         /\ Taken(parse_pprz(p, c)) = Append(Taken(p), c)
<1> DEFINE q == parse_pprz(p, c)
           f == Frame(m)
           K == Taken(p)
           l == (p.len + 4) % BYTE
<1>1. /\ m \in Seq(Bytes) /\ Len(m) \in 1 .. BYTE - 1
      /\ f \in Seq(Bytes) /\ Len(f) = Len(m) + 4 /\ Len(f) > 4
      /\ f[1] = STX /\ f[2] = (Len(m) + 4) % BYTE
      /\ \A i \in 1 .. Len(m) : f[i + 2] = m[i]
      /\ f[Len(m) + 3] = SumsOf(m)[1] /\ f[Len(m) + 4] = SumsOf(m)[2]
  BY MessageFrame, FrameBytes
<1> HIDE DEF f
<1>2. /\ p = [status |-> p.status, len |-> p.len, sums |-> p.sums,
              payload |-> p.payload, received |-> FALSE]
      /\ p.status \in States /\ p.len \in Bytes /\ p.sums \in Bytes \X Bytes
      /\ p.payload \in Seq(Bytes)
  BY DEF InStep, PprzType
<1>3. CASE p.status = "UNINIT"
  <2>1. K = <<>>
    BY <1>3 DEF Taken
  <2>2. c = STX
    BY <1>1, <2>1 DEF f
  <2>3. q = [p EXCEPT !.status = "GOT_STX"]
    BY <1>3, <2>2 DEF parse_pprz
  <2>4. p.payload = <<>>
    BY <1>3 DEF InStep, Busy
  <2>5. InStep(q)
    BY <1>2, <2>3, <2>4 DEF InStep, PprzType, States, Busy
  <2>6. Taken(q) = <<STX>>
    BY <1>2, <2>3 DEF Taken
  <2>7. Append(<<>>, c) = <<STX>>
    BY <2>2
  <2>8. QED
    BY <2>1, <2>5, <2>6, <2>7
<1>4. CASE p.status = "GOT_STX"
  <2>1. K = <<STX>>
    BY <1>4 DEF Taken
  <2>2. c = (Len(m) + 4) % BYTE
    BY <1>1, <2>1 DEF f
  <2>3. (c - 4) % BYTE = Len(m)
    BY <1>1, <2>2, LengthByte
  <2>4. q = [p EXCEPT !.status = "GOT_LENGTH", !.len = Len(m),
                      !.sums = Sums(c)]
    BY <1>4, <2>3 DEF parse_pprz
  <2>5. p.payload = <<>>
    BY <1>4 DEF InStep, Busy
  <2>6. /\ q.status = "GOT_LENGTH" /\ q.len = Len(m) /\ q.sums = Sums(c)
        /\ q.payload = <<>> /\ q.received = FALSE
        /\ q \in PprzType
    <3>1. Len(m) \in Bytes /\ Sums(c) \in Bytes \X Bytes
      <4>1. Len(m) \in Bytes
        BY <1>1, PprzAssumption DEF Bytes
      <4>2. QED
        BY <4>1 DEF Sums
    <3>2. p \in PprzType
      BY DEF InStep
    <3> HIDE DEF q
    <3>3. QED
      BY <2>4, <2>5, <3>1, <3>2 DEF PprzType, States
  <2> HIDE DEF q
  <2>7. Checksums((Len(m) + 4) % BYTE, <<>>) = Sums(c)
    BY <2>2, ChecksumsEmpty
  <2>8. InStep(q)
    BY <1>1, <2>6, <2>7 DEF InStep, Busy
  <2>9. Taken(q) = <<STX, c>> \o <<>>
    BY <2>2, <2>6 DEF Taken
  <2>10. <<STX, c>> \o <<>> = Append(<<STX>>, c)
    BY PprzAssumption
  <2>11. QED
    BY <2>1, <2>8, <2>9, <2>10 DEF q
<1>5. CASE p.status = "GOT_LENGTH"
  <2> DEFINE h == <<STX, l>>
             w == Append(p.payload, c)
  <2>1. /\ p.len \in 1 .. BYTE - 1 /\ p.sums = Checksums(l, p.payload)
        /\ Len(p.payload) < p.len
    BY <1>5 DEF InStep, Busy
  <2>2. l \in Bytes /\ STX \in Bytes
    BY <2>1, LengthByte, PprzAssumption
  <2>3. w \in Seq(Bytes) /\ Len(w) = Len(p.payload) + 1
    BY <1>2, AppendProperties
  <2>4. Len(w) \in 1 .. p.len /\ Len(w) \in Nat /\ Len(w) < BYTE
    BY <1>2, <2>1, <2>3, PprzAssumption
  <2>5. Len(w) % BYTE = Len(w)
    BY <2>4, SmallMod
  <2>6. Add(p.sums, c) = Checksums(l, w)
    BY <1>2, <2>1, ChecksumsAppend
  <2>7. Add(p.sums, c) \in Bytes \X Bytes
    BY <1>2, AddType
  <2>8. q = [p EXCEPT !.payload = w, !.sums = Add(p.sums, c),
                      !.status = IF Len(w) = p.len THEN "GOT_PAYLOAD"
                                 ELSE "GOT_LENGTH"]
    BY <1>5, <2>5 DEF parse_pprz, PayloadIsThere
  <2> HIDE DEF w
  <2>9. /\ q.status = IF Len(w) = p.len THEN "GOT_PAYLOAD" ELSE "GOT_LENGTH"
        /\ q.len = p.len /\ q.sums = Add(p.sums, c)
        /\ q.payload = w /\ q.received = FALSE
        /\ q \in PprzType
    <3>1. p \in PprzType
      BY DEF InStep
    <3> HIDE DEF q
    <3>2. QED
      BY <2>3, <2>7, <2>8, <3>1 DEF PprzType, States
  <2> HIDE DEF q
  <2>10. q.status \in {"GOT_PAYLOAD", "GOT_LENGTH"}
    BY <2>9
  <2>11. q.status = "GOT_LENGTH" => Len(w) < p.len
    BY <2>1, <2>4, <2>9
  <2>12. q.status = "GOT_PAYLOAD" => Len(w) = p.len
    BY <2>9
  <2> HIDE DEF l
  <2>13. InStep(q)
    BY <2>1, <2>6, <2>9, <2>10, <2>11, <2>12 DEF InStep, Busy, l
  <2>14. Taken(q) = h \o w
    BY <2>9, <2>10 DEF Taken, l
  <2>15. K = h \o p.payload
    BY <1>5 DEF Taken, l
  <2>16. h \in Seq(Bytes) /\ p.payload \in Seq(Bytes) /\ <<c>> \in Seq(Bytes)
    BY <1>2, <2>2
  <2> HIDE DEF h
  <2>17. h \o (p.payload \o <<c>>) = (h \o p.payload) \o <<c>>
    BY <2>16, BytesAssoc
  <2>18. w = p.payload \o <<c>>
    BY <1>2, AppendIsConcat DEF w
  <2>19. h \o p.payload \in Seq(Bytes)
    BY <2>16, BytesConcat
  <2>20. Append(h \o p.payload, c) = (h \o p.payload) \o <<c>>
    BY <2>19, AppendIsConcat
  <2>21. Taken(q) = Append(K, c)
    BY <2>14, <2>15, <2>17, <2>18, <2>20, Zenon
  <2>22. QED
    BY <2>13, <2>21 DEF q
<1>6. ASSUME p.status \in {"GOT_PAYLOAD", "GOT_CRC1"}
      PROVE  /\ p.payload = m /\ p.len = Len(m) /\ p.sums = SumsOf(m)
             /\ LET w == <<STX, l>> \o p.payload
                IN  w \in Seq(Bytes) /\ Len(w) = Len(m) + 2
  <2> DEFINE w == <<STX, l>> \o p.payload
             r == p.payload
  <2>1. /\ p.status \in Busy
        /\ p.len \in 1 .. BYTE - 1 /\ p.sums = Checksums(l, r)
        /\ Len(r) = p.len
    BY <1>6 DEF InStep, Busy
  <2>2. /\ w \in Seq(Bytes) /\ Len(w) = Len(r) + 2
        /\ w[2] = l /\ \A k \in 1 .. Len(r) : w[k + 2] = r[k]
    BY <2>1, TakenBusy
  <2>3. \A k \in 1 .. Len(w) : k <= Len(f) => w[k] = f[k]
    <3>1. CASE p.status = "GOT_PAYLOAD"
      <4>1. K = w
        BY <3>1 DEF Taken
      <4>2. QED
        BY <4>1 DEF f
    <3>2. CASE p.status = "GOT_CRC1"
      <4>1. K = w \o <<p.sums[1]>>
        BY <3>2 DEF Taken
      <4>2. <<p.sums[1]>> \in Seq(Bytes) /\ Len(<<p.sums[1]>>) = 1
        BY <1>2
      <4> HIDE DEF w
      <4>3. /\ Len(w \o <<p.sums[1]>>) = Len(w) + Len(<<p.sums[1]>>)
            /\ \A k \in 1 .. Len(w) : (w \o <<p.sums[1]>>)[k] = w[k]
        BY <2>2, <4>2, BytesConcat
      <4>4. Len(w) \in Nat /\ \A k \in 1 .. Len(w) : k \in 1 .. Len(K)
        BY <2>2, <4>1, <4>2, <4>3
      <4> HIDE DEF K
      <4>5. \A k \in 1 .. Len(K) : k <= Len(f) => K[k] = f[k]
        BY DEF K, f
      <4>6. QED
        BY <4>1, <4>3, <4>4, <4>5
    <3>3. QED
      BY <1>6, <3>1, <3>2
  <2> HIDE DEF w, l, r
  <2>4. r \in Seq(Bytes) /\ Len(r) \in Nat
    BY <1>2 DEF r
  <2>5. 2 \in 1 .. Len(w) /\ 2 <= Len(f)
    BY <1>1, <2>2, <2>4
  <2>6. l = (Len(m) + 4) % BYTE
    BY <1>1, <2>2, <2>3, <2>5
  <2>7. p.len = Len(m)
    BY <1>1, <2>1, <2>6, LengthByteTells DEF l
  <2>8. \A k \in 1 .. Len(r) : r[k] = m[k]
    <3> TAKE k \in 1 .. Len(r)
    <3>1. k \in 1 .. Len(m) /\ k + 2 \in 1 .. Len(w) /\ k + 2 <= Len(f)
      BY <1>1, <2>1, <2>2, <2>4, <2>7
    <3>2. w[k + 2] = f[k + 2]
      BY <2>3, <3>1
    <3>3. QED
      BY <1>1, <2>2, <3>1, <3>2
  <2>9. r = m
    BY <1>1, <2>1, <2>4, <2>7, <2>8, SeqEqual
  <2>10. p.sums = SumsOf(m)
    BY <2>1, <2>6, <2>9 DEF SumsOf
  <2>11. w \in Seq(Bytes) /\ Len(w) = Len(m) + 2
    BY <2>2, <2>9
  <2>12. QED
    BY <2>7, <2>9, <2>10, <2>11 DEF w, r
<1>7. CASE p.status = "GOT_PAYLOAD"
  <2> DEFINE w == <<STX, l>> \o p.payload
  <2>1. /\ p.payload = m /\ p.len = Len(m) /\ p.sums = SumsOf(m)
        /\ w \in Seq(Bytes) /\ Len(w) = Len(m) + 2
    BY <1>6, <1>7
  <2>2. K = w
    BY <1>7 DEF Taken
  <2> HIDE DEF w
  <2>3. c = p.sums[1]
    <3>1. Len(w) + 1 = Len(m) + 3 /\ Len(w) + 1 <= Len(f)
      BY <1>1, <2>1
    <3> HIDE DEF K
    <3>2. Len(K) + 1 <= Len(f) => c = f[Len(K) + 1]
      BY DEF K, f
    <3>3. QED
      BY <1>1, <2>1, <2>2, <3>1, <3>2
  <2>4. q = [p EXCEPT !.status = "GOT_CRC1"]
    BY <1>7, <2>3 DEF parse_pprz
  <2>5. /\ q.status = "GOT_CRC1" /\ q.len = p.len /\ q.sums = p.sums
        /\ q.payload = p.payload /\ q.received = p.received
        /\ q \in PprzType
    <3>1. p \in PprzType
      BY DEF InStep
    <3> HIDE DEF q
    <3>2. QED
      BY <2>4, <3>1 DEF PprzType, States
  <2> HIDE DEF q
  <2>6. InStep(q)
    BY <1>7, <2>5 DEF InStep, Busy
  <2>7. Taken(q) = w \o <<c>>
    BY <2>3, <2>5 DEF Taken, w
  <2>8. Append(w, c) = w \o <<c>>
    BY <2>1, AppendIsConcat
  <2>9. QED
    BY <2>2, <2>6, <2>7, <2>8 DEF q
<1>8. CASE p.status = "GOT_CRC1"
  <2> DEFINE w == <<STX, l>> \o p.payload
             s1 == <<p.sums[1]>>
  <2>1. /\ p.payload = m /\ p.len = Len(m) /\ p.sums = SumsOf(m)
        /\ w \in Seq(Bytes) /\ Len(w) = Len(m) + 2
    BY <1>6, <1>8
  <2>2. K = w \o s1
    BY <1>8 DEF Taken
  <2>3. s1 \in Seq(Bytes) /\ Len(s1) = 1
    BY <1>2
  <2> HIDE DEF w, s1
  <2>4. K \in Seq(Bytes) /\ Len(K) = Len(m) + 3
    <3>1. w \o s1 \in Seq(Bytes) /\ Len(w \o s1) = Len(w) + Len(s1)
      BY <2>1, <2>3, BytesConcat
    <3> HIDE DEF K
    <3>2. QED
      BY <1>1, <2>1, <2>2, <2>3, <3>1
  <2> HIDE DEF K
  <2>5. /\ Len(K) + 1 <= Len(f) => c = f[Len(K) + 1]
        /\ \A k \in 1 .. Len(K) : k <= Len(f) => K[k] = f[k]
    BY DEF K, f
  <2>6. Len(K) + 1 = Len(f) /\ Len(K) + 1 = Len(m) + 4 /\ Len(K) \in Nat
    BY <1>1, <2>4
  <2>7. c = f[Len(f)] /\ c = p.sums[2]
    BY <1>1, <2>1, <2>5, <2>6
  <2>8. q = [Restart EXCEPT !.received = TRUE, !.len = p.len,
                            !.payload = p.payload]
    BY <1>8, <2>7 DEF parse_pprz
  <2>9. q = [status |-> "UNINIT", len |-> Len(m), sums |-> <<0, 0>>,
             payload |-> m, received |-> TRUE]
    BY <2>1, <2>8 DEF Restart
  <2> HIDE DEF q
  <2>10. InStep(q)
    <3>1. 0 \in Bytes /\ Len(m) \in Bytes
      BY <1>1, PprzAssumption DEF Bytes
    <3>2. q \in PprzType
      BY <1>1, <2>9, <3>1 DEF PprzType, States
    <3>3. /\ q.status = "UNINIT" /\ q.received = TRUE
          /\ q.len = Len(q.payload)
          /\ Len(q.payload) \in 1 .. BYTE - 1
      BY <1>1, <2>9
    <3>4. QED
      BY <3>2, <3>3 DEF InStep, Busy
  <2>11. Taken(q) = f
    BY <2>9 DEF Taken, f
  <2>12. /\ Append(K, c) \in Seq(Bytes) /\ Len(Append(K, c)) = Len(K) + 1
         /\ \A k \in 1 .. Len(K) : Append(K, c)[k] = K[k]
         /\ Append(K, c)[Len(K) + 1] = c
    BY <2>4, AppendProperties
  <2>13. \A k \in 1 .. Len(f) : Append(K, c)[k] = f[k]
    <3> TAKE k \in 1 .. Len(f)
    <3>1. k \in 1 .. Len(K) \/ k = Len(K) + 1
      BY <2>6
    <3>2. QED
      BY <2>5, <2>6, <2>7, <2>12, <3>1
  <2>14. Append(K, c) = f
    BY <1>1, <2>6, <2>12, <2>13, SeqEqual
  <2>15. QED
    BY <2>10, <2>11, <2>14 DEF q, K
<1>9. QED
  BY <1>2, <1>3, <1>4, <1>5, <1>7, <1>8 DEF States
-----------------------------------------------------------------------------
(* The bytes that pass from one place to the next stay in order.               *)
LEMMA BytesEmpty ==
  \A s \in Seq(Bytes) : s \o <<>> = s /\ <<>> \o s = s
BY ConcatEmptySeq

LEMMA BytesAppend ==
  \A s \in Seq(Bytes), c \in Bytes :
    Append(s, c) = s \o <<c>> /\ Append(s, c) \in Seq(Bytes)
BY AppendIsConcat, AppendProperties

LEMMA BytesSingle == \A c \in Bytes : <<c>> \in Seq(Bytes) /\ Len(<<c>>) = 1
OBVIOUS

LEMMA BytesJoin == \A s, t \in Seq(Bytes) : s \o t \in Seq(Bytes)
BY BytesConcat

LEMMA BytesHead ==
  \A s \in Seq(Bytes) : s # <<>> =>
    /\ Head(s) \in Bytes /\ Tail(s) \in Seq(Bytes)
    /\ Len(Tail(s)) = Len(s) - 1
    /\ s = <<Head(s)>> \o Tail(s)
<1> TAKE s \in Seq(Bytes)
<1> HAVE s # <<>>
<1> DEFINE x == Head(s)
           t == Tail(s)
           w == <<x>> \o t
<1>1. /\ x \in Bytes /\ t \in Seq(Bytes) /\ Len(t) = Len(s) - 1
      /\ \A i \in 1 .. Len(t) : t[i] = s[i + 1]
  BY HeadTailProperties
<1>2. x = s[1] /\ Len(s) \in Nat /\ Len(s) > 0
  OBVIOUS
<1> HIDE DEF x, t
<1> DEFINE e == <<x>>
<1>3. e \in Seq(Bytes) /\ Len(e) = 1 /\ e[1] = x
  BY <1>1
<1> HIDE DEF e
<1>4. /\ e \o t \in Seq(Bytes) /\ Len(e \o t) = Len(e) + Len(t)
      /\ \A i \in 1 .. Len(e) : (e \o t)[i] = e[i]
      /\ \A i \in 1 .. Len(t) : (e \o t)[Len(e) + i] = t[i]
  BY <1>1, <1>3, BytesConcat
<1>5. \A i \in 1 .. Len(s) : s[i] = (e \o t)[i]
  <2> TAKE i \in 1 .. Len(s)
  <2>1. CASE i = 1
    BY <1>2, <1>3, <1>4, <2>1
  <2>2. CASE i # 1
    <3>1. i - 1 \in 1 .. Len(t) /\ (i - 1) + 1 = i /\ 1 + (i - 1) = i
      BY <1>1, <1>2, <2>2
    <3>2. QED
      BY <1>1, <1>3, <1>4, <3>1
  <2>3. QED
    BY <2>1, <2>2
<1>6. Len(e \o t) = Len(s)
  BY <1>1, <1>2, <1>3, <1>4
<1>7. s = e \o t
  BY <1>4, <1>5, <1>6, SeqEqual
<1>8. QED
  BY <1>1, <1>7 DEF x, t, e

LEMMA RestOfBytes ==
  ASSUME NEW x \in 0 .. BYTE, NEW t \in Seq(0 .. BYTE),
         <<x>> \o t \in Seq(Bytes)
  PROVE  /\ x \in Bytes /\ t \in Seq(Bytes)
         /\ Len(<<x>> \o t) = Len(t) + 1
<1> DEFINE e == <<x>>
           w == e \o t
<1>1. e \in Seq(0 .. BYTE) /\ Len(e) = 1 /\ e[1] = x
  OBVIOUS
<1> HIDE DEF e
<1>2. /\ Len(w) = Len(e) + Len(t)
      /\ \A i \in 1 .. Len(e) : w[i] = e[i]
      /\ \A i \in 1 .. Len(t) : w[Len(e) + i] = t[i]
  BY <1>1, CellsConcat
<1>3. w \in Seq(Bytes)
  BY DEF e
<1> HIDE DEF w
<1>4. Len(t) \in Nat /\ Len(w) = Len(t) + 1
  BY <1>1, <1>2
<1>5. \A i \in 1 .. Len(w) : w[i] \in Bytes
  BY <1>3
<1>6. x \in Bytes
  BY <1>1, <1>2, <1>4, <1>5
<1>7. \A i \in 1 .. Len(t) : t[i] \in Bytes
  <2> TAKE i \in 1 .. Len(t)
  <2>1. 1 + i \in 1 .. Len(w) /\ t[i] = w[1 + i]
    BY <1>1, <1>2, <1>4
  <2>2. QED
    BY <1>5, <2>1
<1>8. t \in Seq(Bytes)
  <2>1. t = [i \in 1 .. Len(t) |-> t[i]]
    OBVIOUS
  <2>2. QED
    BY <1>4, <1>7, <2>1
<1>9. QED
  BY <1>4, <1>6, <1>8 DEF w, e

Flow(r, g, t, s) == ((r \o g) \o t) \o s

LEMMA FlowType ==
  ASSUME NEW r \in Seq(Bytes), NEW g \in Seq(Bytes), NEW t \in Seq(Bytes),
         NEW s \in Seq(Bytes)
  PROVE  Flow(r, g, t, s) \in Seq(Bytes)
<1>1. r \o g \in Seq(Bytes)
  BY BytesJoin
<1>2. (r \o g) \o t \in Seq(Bytes)
  BY <1>1, BytesJoin
<1>3. QED
  BY <1>2, BytesJoin DEF Flow

LEMMA FlowStart ==
  ASSUME NEW r \in Seq(Bytes), NEW s \in Seq(Bytes), s # <<>>
  PROVE  Flow(r, <<>>, <<>>, s) = Flow(r, <<Head(s)>>, <<>>, Tail(s))
<1> DEFINE x == <<Head(s)>>
           u == Tail(s)
<1>1. x \in Seq(Bytes) /\ u \in Seq(Bytes) /\ s = x \o u
  BY BytesHead, BytesSingle
<1> HIDE DEF x, u
<1>2. Flow(r, <<>>, <<>>, s) = r \o s
  BY BytesEmpty DEF Flow
<1>3. r \o x \in Seq(Bytes)
  BY <1>1, BytesJoin
<1>4. Flow(r, x, <<>>, u) = (r \o x) \o u
  BY <1>3, BytesEmpty DEF Flow
<1>5. (r \o x) \o u = r \o (x \o u)
  BY <1>1, BytesAssoc
<1>6. QED
  BY <1>1, <1>2, <1>4, <1>5 DEF x, u

LEMMA FlowQueue ==
  ASSUME NEW r \in Seq(Bytes), NEW g \in Seq(Bytes), NEW t \in Seq(Bytes),
         NEW s \in Seq(Bytes), s # <<>>
  PROVE  Flow(r, g, t, s) = Flow(r, g, Append(t, Head(s)), Tail(s))
<1> DEFINE x == <<Head(s)>>
           u == Tail(s)
           w == r \o g
<1>1. x \in Seq(Bytes) /\ u \in Seq(Bytes) /\ s = x \o u
      /\ Append(t, Head(s)) = t \o x
  BY BytesHead, BytesSingle, BytesAppend
<1>2. w \in Seq(Bytes)
  BY BytesJoin
<1> HIDE DEF x, u, w
<1>3. w \o t \in Seq(Bytes)
  BY <1>2, BytesJoin
<1>4. (w \o t) \o (x \o u) = ((w \o t) \o x) \o u
  BY <1>1, <1>3, BytesAssoc
<1>5. (w \o t) \o x = w \o (t \o x)
  BY <1>1, <1>2, BytesAssoc
<1>6. QED
  BY <1>1, <1>4, <1>5 DEF Flow, x, u, w

LEMMA FlowSend ==
  ASSUME NEW r \in Seq(Bytes), NEW x \in Bytes, NEW t \in Seq(Bytes),
         NEW s \in Seq(Bytes)
  PROVE  Flow(r, <<>>, <<x>> \o t, s) = Flow(r, <<x>>, t, s)
<1> DEFINE q == <<x>>
<1>1. q \in Seq(Bytes)
  BY BytesSingle
<1> HIDE DEF q
<1>2. r \o <<>> = r
  BY BytesEmpty
<1>3. r \o (q \o t) = (r \o q) \o t
  BY <1>1, BytesAssoc
<1>4. QED
  BY <1>2, <1>3 DEF Flow, q

LEMMA FlowArrive ==
  ASSUME NEW r \in Seq(Bytes), NEW x \in Bytes, NEW t \in Seq(Bytes),
         NEW s \in Seq(Bytes)
  PROVE  Flow(Append(r, x), <<>>, t, s) = Flow(r, <<x>>, t, s)
<1>1. Append(r, x) = r \o <<x>> /\ Append(r, x) \in Seq(Bytes)
  BY BytesAppend
<1>2. Append(r, x) \o <<>> = Append(r, x)
  BY <1>1, BytesEmpty
<1>3. QED
  BY <1>1, <1>2 DEF Flow

Follows(rest, c, s) == s = <<c>> \o rest

LEMMA FlowFirst ==
  ASSUME NEW r \in Seq(Bytes), NEW g \in Seq(Bytes), NEW t \in Seq(Bytes),
         NEW s \in Seq(Bytes), NEW c \in Bytes
  PROVE  Follows(Flow(r, g, t, s), c, Flow(<<c>> \o r, g, t, s))
<1> DEFINE q == <<c>>
           w == Flow(r, g, t, s)
<1>1. q \in Seq(Bytes)
  BY BytesSingle
<1> HIDE DEF q
<1>2. r \o g \in Seq(Bytes) /\ (r \o g) \o t \in Seq(Bytes)
      /\ w \in Seq(Bytes)
  <2>1. r \o g \in Seq(Bytes)
    BY BytesJoin
  <2>2. QED
    BY <2>1, BytesJoin, FlowType
<1>3. (q \o r) \o g = q \o (r \o g)
  BY <1>1, BytesAssoc
<1>4. (q \o (r \o g)) \o t = q \o ((r \o g) \o t)
  BY <1>1, <1>2, BytesAssoc
<1>5. (q \o ((r \o g) \o t)) \o s = q \o w
  BY <1>1, <1>2, BytesAssoc DEF Flow
<1>6. Flow(q \o r, g, t, s) = q \o w
  BY <1>3, <1>4, <1>5 DEF Flow
<1>7. QED
  BY <1>6 DEF Follows, q

LEMMA FlowMore ==
  ASSUME NEW r \in Seq(Bytes), NEW g \in Seq(Bytes), NEW t \in Seq(Bytes),
         NEW f
  PROVE  /\ Flow(r, g, t, f) = Flow(r, g, t, <<>>) \o f
         /\ Flow(r, g, t, <<>>) \in Seq(Bytes)
<1> DEFINE w == (r \o g) \o t
<1>1. w \in Seq(Bytes)
  <2>1. r \o g \in Seq(Bytes)
    BY BytesJoin
  <2>2. QED
    BY <2>1, BytesJoin
<1>2. Flow(r, g, t, <<>>) = w
  BY <1>1, BytesEmpty DEF Flow
<1>3. Flow(r, g, t, f) = w \o f
  BY DEF Flow
<1> HIDE DEF w
<1>4. QED
  BY <1>1, <1>2, <1>3

-----------------------------------------------------------------------------
(* The invariant: types, what a transmission relies on, and the stream.         *)
TxRing == Held(tx_buffer, tx_extract_idx, tx_insert_idx, UART_TX_BUFFER_SIZE)
RxRing == Held(rx_buffer, rx_extract_idx, rx_insert_idx, UART_RX_BUFFER_SIZE)
Register == IF thr = None THEN <<>> ELSE <<thr>>

DatalinkTypeOK ==
  /\ sending \in Seq(Bytes) /\ room \in BOOLEAN
  /\ tx_buffer \in Ring(UART_TX_BUFFER_SIZE)
  /\ tx_insert_idx \in 0 .. UART_TX_BUFFER_SIZE - 1
  /\ tx_extract_idx \in 0 .. UART_TX_BUFFER_SIZE - 1
  /\ tx_running \in BOOLEAN
  /\ thr \in Bytes \cup {None}
  /\ rx_buffer \in Ring(UART_RX_BUFFER_SIZE)
  /\ rx_insert_idx \in 0 .. UART_RX_BUFFER_SIZE - 1
  /\ rx_extract_idx \in 0 .. UART_RX_BUFFER_SIZE - 1
  /\ pprz \in PprzType /\ harms \in Nat

(* No slot between the indices is empty.                                     *)
RingsHoldBytes == TxRing \in Seq(Bytes) /\ RxRing \in Seq(Bytes)

(* The room that was tested for a whole message is there for what is left of   *)
(* it, and a transmitter that has stopped has nothing left to send.           *)
RoomIsKept ==
  /\ Len(TxRing) + Len(sending) <= UART_TX_BUFFER_SIZE - 1
  /\ room => sending # <<>>
  /\ ~tx_running => thr = None /\ tx_insert_idx = tx_extract_idx

StreamIsFramed ==
  harms = 0 => InStep(pprz) /\ Framed(Taken(pprz) \o OnTheWay, 1)

DatalinkInv == DatalinkTypeOK /\ RingsHoldBytes /\ RoomIsKept /\ StreamIsFramed

LEMMA OnTheWayIs == OnTheWay = Flow(RxRing, Register, TxRing, sending)
BY DEF OnTheWay, Flow, RxRing, Register, TxRing

LEMMA OnTheWayIsNext ==
  OnTheWay' = Flow(RxRing', Register', TxRing', sending')
BY DEF OnTheWay, Flow, RxRing, Register, TxRing

LEMMA Sizes ==
  /\ UART_TX_BUFFER_SIZE \in Nat \ {0} /\ UART_RX_BUFFER_SIZE \in Nat \ {0}
  /\ \A c \in Bytes : c \in 0 .. BYTE /\ c # None
  /\ None \in 0 .. BYTE
BY DatalinkAssumption, PprzAssumption DEF Bytes, None

LEMMA RegisterType ==
  ASSUME DatalinkTypeOK
  PROVE  Register \in Seq(Bytes)
BY DEF DatalinkTypeOK, Register
LEMMA RingLengths ==
  ASSUME DatalinkTypeOK
  PROVE  /\ Len(TxRing) = Count(tx_extract_idx, tx_insert_idx,
                                UART_TX_BUFFER_SIZE)
         /\ Len(TxRing) \in Nat /\ Len(TxRing) <= UART_TX_BUFFER_SIZE - 1
<1>1. Len(TxRing) = Count(tx_extract_idx, tx_insert_idx, UART_TX_BUFFER_SIZE)
  BY Sizes, HeldIs DEF DatalinkTypeOK, TxRing
<1>2. Count(tx_extract_idx, tx_insert_idx, UART_TX_BUFFER_SIZE)
        \in 0 .. UART_TX_BUFFER_SIZE - 1
  BY Sizes, CountIs DEF DatalinkTypeOK
<1>3. QED
  BY Sizes, <1>1, <1>2

(* The test for free space is exact.                                        *)
LEMMA FreeSpace ==
  ASSUME DatalinkTypeOK, NEW len \in Nat
  PROVE  check_free_space(len) <=>
           Len(TxRing) + len <= UART_TX_BUFFER_SIZE - 1
<1> DEFINE e == tx_extract_idx
           i == tx_insert_idx
           n == UART_TX_BUFFER_SIZE
           k == Len(TxRing)
<1>1. n \in Nat \ {0} /\ e \in 0 .. n - 1 /\ i \in 0 .. n - 1
  BY Sizes DEF DatalinkTypeOK
<1>2. k = IF e <= i THEN i - e ELSE i - e + n
  BY <1>1, CountIs, RingLengths
<1>3. check_free_space(len) <=>
        (IF e - i <= 0 THEN (e - i) + n ELSE e - i) - 1 >= len
  BY DEF check_free_space
<1> HIDE DEF e, i, n, k
<1>4. (IF e - i <= 0 THEN (e - i) + n ELSE e - i) - 1 >= len
        <=> k + len <= n - 1
  <2>1. CASE e <= i
    BY <1>1, <1>2, <2>1
  <2>2. CASE ~(e <= i)
    BY <1>1, <1>2, <2>2
  <2>3. QED
    BY <2>1, <2>2
<1>5. QED
  BY <1>3, <1>4 DEF n, k

LEMMA StreamKept ==
  ASSUME StreamIsFramed, harms' = harms, pprz' = pprz, OnTheWay' = OnTheWay
  PROVE  StreamIsFramed'
<1>1. (Taken(pprz) \o OnTheWay)' = Taken(pprz) \o OnTheWay
  <2>1. Taken(pprz') = Taken(pprz)
    OBVIOUS
  <2>2. QED
    BY <2>1
<1>2. InStep(pprz') <=> InStep(pprz)
  OBVIOUS
<1>3. Framed(Taken(pprz) \o OnTheWay, 1)'
        <=> Framed(Taken(pprz) \o OnTheWay, 1)
  BY <1>1
<1>4. QED
  BY <1>2, <1>3 DEF StreamIsFramed

LEMMA DatalinkInitInv == DatalinkInit => DatalinkInv
<1> SUFFICES ASSUME DatalinkInit PROVE DatalinkInv
  OBVIOUS
<1>1. Restart \in PprzType /\ InStep(Restart) /\ Taken(Restart) = <<>>
  <2>1. 0 \in Bytes
    BY PprzAssumption DEF Bytes
  <2>2. Restart \in PprzType
    BY <2>1 DEF Restart, PprzType, States
  <2>3. QED
    BY <2>2 DEF Restart, InStep, Busy, Taken
<1>2. DatalinkTypeOK
  <2>1. /\ tx_buffer \in Ring(UART_TX_BUFFER_SIZE)
        /\ rx_buffer \in Ring(UART_RX_BUFFER_SIZE)
    BY Sizes DEF DatalinkInit, Ring
  <2>2. QED
    BY Sizes, <1>1, <2>1 DEF DatalinkInit, DatalinkTypeOK
<1>3. TxRing = <<>> /\ RxRing = <<>>
  <2>1. TxRing = <<>>
    BY Sizes, <1>2, HeldNone DEF DatalinkInit, DatalinkTypeOK, TxRing
  <2>2. RxRing = <<>>
    BY Sizes, <1>2, HeldNone DEF DatalinkInit, DatalinkTypeOK, RxRing
  <2>3. QED
    BY <2>1, <2>2
<1>4. RingsHoldBytes /\ RoomIsKept
  BY Sizes, <1>3 DEF RingsHoldBytes, RoomIsKept, DatalinkInit
<1>5. Taken(pprz) \o OnTheWay = <<>>
  <2>1. Register = <<>> /\ sending = <<>> /\ pprz = Restart
    BY DEF Register, DatalinkInit
  <2>2. Flow(<<>>, <<>>, <<>>, <<>>) = <<>>
    BY BytesEmpty DEF Flow
  <2>3. QED
    BY <1>1, <1>3, <2>1, <2>2, OnTheWayIs, BytesEmpty
<1>6. Framed(<<>>, 1)
  <2> DEFINE s == <<>>
  <2>1. s \in Seq(Bytes) /\ 1 \in 1 .. Len(s) + 1 /\ 1 = Len(s) + 1
    OBVIOUS
  <2> HIDE DEF s
  <2>2. Framed(s, 1)
    BY <2>1, FramedUnfold
  <2>3. QED
    BY <2>2 DEF s
<1>7. StreamIsFramed
  BY <1>1, <1>5, <1>6 DEF StreamIsFramed, DatalinkInit
<1>8. QED
  BY <1>2, <1>4, <1>7 DEF DatalinkInv
LEMMA SendKeeps ==
  ASSUME DatalinkInv, NEW m \in Messages, DownlinkSend(m)
  PROVE  DatalinkInv'
<1>1. DatalinkTypeOK /\ RingsHoldBytes /\ RoomIsKept /\ StreamIsFramed
  BY DEF DatalinkInv
<1>2. /\ sending = <<>> /\ sending' = Frame(m)
      /\ check_free_space(PprzTransportSizeOf(m))
      /\ UNCHANGED <<room, tx_buffer, tx_insert_idx, tx_extract_idx, tx_running,
                     rx_extract_idx, pprz, thr, rx_buffer, rx_insert_idx, harms>>
  BY DEF DownlinkSend, rx_vars, line_vars
<1>3. /\ Frame(m) \in Seq(Bytes) /\ Frame(m) # <<>>
      /\ Len(Frame(m)) = PprzTransportSizeOf(m) /\ Len(Frame(m)) \in Nat
  BY MessageFrame DEF PprzTransportSizeOf
<1>4. TxRing' = TxRing /\ RxRing' = RxRing /\ Register' = Register
  BY <1>2 DEF TxRing, RxRing, Register
<1>5. DatalinkTypeOK'
  BY <1>1, <1>2, <1>3 DEF DatalinkTypeOK
<1>6. RingsHoldBytes'
  BY <1>1, <1>4 DEF RingsHoldBytes
<1>7. RoomIsKept'
  <2>1. Len(TxRing) + Len(Frame(m)) <= UART_TX_BUFFER_SIZE - 1
    BY <1>1, <1>2, <1>3, FreeSpace
  <2>2. QED
    BY <1>1, <1>2, <1>3, <1>4, <2>1 DEF RoomIsKept
<1>8. StreamIsFramed'
  <2> SUFFICES ASSUME harms = 0
               PROVE  InStep(pprz) /\ Framed(Taken(pprz) \o OnTheWay', 1)
    BY <1>2 DEF StreamIsFramed
  <2>1. InStep(pprz) /\ Framed(Taken(pprz) \o OnTheWay, 1)
    BY <1>1 DEF StreamIsFramed
  <2> DEFINE taken == Taken(pprz)
             w == taken \o OnTheWay
  <2>2. /\ taken \in Seq(Bytes) /\ TxRing \in Seq(Bytes) /\ RxRing \in Seq(Bytes)
        /\ Register \in Seq(Bytes)
    BY <1>1, <2>1, TakenType, RegisterType DEF RingsHoldBytes
  <2>3. OnTheWay = Flow(RxRing, Register, TxRing, <<>>)
    BY <1>2, OnTheWayIs
  <2>4. OnTheWay' = Flow(RxRing, Register, TxRing, Frame(m))
    BY <1>2, <1>4, OnTheWayIsNext
  <2> HIDE DEF taken
  <2>5. taken \o OnTheWay' = w \o Frame(m)
    <3>1. OnTheWay' = OnTheWay \o Frame(m)
      <4>1. Flow(RxRing, Register, TxRing, Frame(m))
              = Flow(RxRing, Register, TxRing, <<>>) \o Frame(m)
        BY <1>3, <2>2, FlowMore, FlowType
      <4>2. QED
        BY <2>3, <2>4, <4>1
    <3>2. OnTheWay \in Seq(Bytes)
      BY <2>2, <2>3, FlowMore
    <3>3. taken \o (OnTheWay \o Frame(m)) = (taken \o OnTheWay) \o Frame(m)
      BY <1>3, <2>2, <3>2, BytesAssoc
    <3>4. QED
      BY <3>1, <3>3
  <2>6. w \in Seq(Bytes)
    <3>1. <<>> \in Seq(Bytes)
      OBVIOUS
    <3>2. OnTheWay \in Seq(Bytes)
      BY <2>2, <2>3, <3>1, FlowType
    <3>3. QED
      BY <2>2, <3>2, BytesJoin
  <2>7. Framed(w, 1)
    BY <2>1 DEF taken
  <2> HIDE DEF w
  <2>8. Framed(w \o Frame(m), 1)
    BY <2>6, <2>7, FramedAppend
  <2>9. QED
    BY <2>1, <2>5, <2>8 DEF taken
<1>9. QED
  BY <1>5, <1>6, <1>7, <1>8 DEF DatalinkInv

(* There is room whenever uart_transmit looks.                               *)
LEMMA RoomIsThere ==
  ASSUME DatalinkInv, sending # <<>>
  PROVE  /\ After(tx_insert_idx, UART_TX_BUFFER_SIZE) # tx_extract_idx
         /\ NextTx(tx_insert_idx) # tx_extract_idx
<1>1. Len(sending) \in Nat /\ Len(sending) > 0
  BY DEF DatalinkInv, DatalinkTypeOK
<1>2. Len(TxRing) \in Nat /\ Len(TxRing) # UART_TX_BUFFER_SIZE - 1
  BY Sizes, <1>1, RingLengths DEF DatalinkInv, RoomIsKept
<1>3. Count(tx_extract_idx, tx_insert_idx, UART_TX_BUFFER_SIZE)
        # UART_TX_BUFFER_SIZE - 1
  BY <1>2, RingLengths DEF DatalinkInv
<1>4. After(tx_insert_idx, UART_TX_BUFFER_SIZE) # tx_extract_idx
  BY Sizes, <1>3, RingSteps DEF DatalinkInv, DatalinkTypeOK
<1>5. QED
  BY <1>4 DEF After, NextTx

LEMMA TestKeepsDatalink ==
  ASSUME DatalinkInv, TransmitTest
  PROVE  DatalinkInv'
<1>1. DatalinkTypeOK /\ RingsHoldBytes /\ RoomIsKept /\ StreamIsFramed
  BY DEF DatalinkInv
<1>2. /\ sending # <<>> /\ room' = TRUE /\ sending' = sending
      /\ UNCHANGED <<tx_buffer, tx_insert_idx, tx_extract_idx, tx_running,
                     rx_extract_idx, pprz, thr, rx_buffer, rx_insert_idx, harms>>
  BY RoomIsThere DEF TransmitTest, rx_vars, line_vars
<1>3. TxRing' = TxRing /\ RxRing' = RxRing /\ Register' = Register
  BY <1>2 DEF TxRing, RxRing, Register
<1>4. DatalinkTypeOK' /\ RingsHoldBytes' /\ RoomIsKept'
  BY <1>1, <1>2, <1>3 DEF DatalinkTypeOK, RingsHoldBytes, RoomIsKept
<1>5. OnTheWay' = OnTheWay
  BY <1>2, <1>3, OnTheWayIs, OnTheWayIsNext
<1>6. StreamIsFramed'
  BY <1>1, <1>2, <1>5, StreamKept
<1>7. QED
  BY <1>4, <1>6 DEF DatalinkInv
LEMMA ByteKeeps ==
  ASSUME DatalinkInv, TransmitByte
  PROVE  DatalinkInv'
<1>1. DatalinkTypeOK /\ RingsHoldBytes /\ RoomIsKept /\ StreamIsFramed
  BY DEF DatalinkInv
<1>2. /\ room /\ room' = FALSE /\ sending' = Tail(sending)
      /\ UNCHANGED <<tx_extract_idx, rx_extract_idx, pprz, rx_buffer,
                     rx_insert_idx, harms>>
  BY DEF TransmitByte, rx_vars
<1>3. sending # <<>> /\ sending \in Seq(Bytes)
  BY <1>1, <1>2 DEF RoomIsKept, DatalinkTypeOK
<1>4. /\ Head(sending) \in Bytes /\ Head(sending) # None
      /\ Head(sending) \in 0 .. BYTE
      /\ Tail(sending) \in Seq(Bytes)
      /\ Len(Tail(sending)) = Len(sending) - 1 /\ Len(sending) \in Nat
  BY Sizes, <1>3, BytesHead
<1>5. RxRing' = RxRing /\ RxRing \in Seq(Bytes) /\ TxRing \in Seq(Bytes)
  BY <1>1, <1>2 DEF RxRing, RingsHoldBytes
<1>6. /\ Len(TxRing) \in Nat
      /\ Len(TxRing) + Len(sending) <= UART_TX_BUFFER_SIZE - 1
  BY <1>1, RingLengths DEF RoomIsKept
<1>7. CASE tx_running
  <2>1. /\ tx_buffer' = [tx_buffer EXCEPT ![tx_insert_idx] = Head(sending)]
        /\ tx_insert_idx' = After(tx_insert_idx, UART_TX_BUFFER_SIZE)
        /\ UNCHANGED <<tx_running, thr>>
    BY <1>7 DEF TransmitByte, NextTx, After
  <2>2. After(tx_insert_idx, UART_TX_BUFFER_SIZE) # tx_extract_idx
    BY <1>3, RoomIsThere
  <2>3. /\ tx_buffer' \in Ring(UART_TX_BUFFER_SIZE)
        /\ TxRing' = Append(TxRing, Head(sending))
    <3> DEFINE b == [tx_buffer EXCEPT ![tx_insert_idx] = Head(sending)]
               i == After(tx_insert_idx, UART_TX_BUFFER_SIZE)
    <3>1. /\ b \in Ring(UART_TX_BUFFER_SIZE)
          /\ Held(b, tx_extract_idx, i, UART_TX_BUFFER_SIZE)
               = Append(TxRing, Head(sending))
      <4>1. /\ UART_TX_BUFFER_SIZE \in Nat \ {0}
            /\ tx_extract_idx \in 0 .. UART_TX_BUFFER_SIZE - 1
            /\ tx_insert_idx \in 0 .. UART_TX_BUFFER_SIZE - 1
            /\ tx_buffer \in Ring(UART_TX_BUFFER_SIZE)
            /\ Head(sending) \in 0 .. BYTE
        BY Sizes, <1>1, <1>4 DEF DatalinkTypeOK
      <4>2. QED
        BY <2>2, <4>1, HeldInsert, Zenon DEF TxRing
    <3> HIDE DEF b, i
    <3>2. tx_buffer' = b /\ tx_insert_idx' = i
      BY <2>1 DEF b, i
    <3>3. TxRing' = Held(b, tx_extract_idx, i, UART_TX_BUFFER_SIZE)
      BY <1>2, <3>2 DEF TxRing
    <3>4. QED
      BY <3>1, <3>2, <3>3
  <2>4. tx_insert_idx' \in 0 .. UART_TX_BUFFER_SIZE - 1
    BY Sizes, <1>1, <2>1, AfterIs DEF DatalinkTypeOK
  <2>5. DatalinkTypeOK'
    BY <1>1, <1>2, <1>4, <2>1, <2>3, <2>4 DEF DatalinkTypeOK
  <2>6. /\ TxRing' \in Seq(Bytes) /\ Len(TxRing') = Len(TxRing) + 1
    BY <1>4, <1>5, <2>3, AppendProperties
  <2>7. RingsHoldBytes'
    BY <1>5, <2>6 DEF RingsHoldBytes
  <2>8. RoomIsKept'
    <3>1. Len(TxRing') + Len(sending') <= UART_TX_BUFFER_SIZE - 1
      BY Sizes, <1>2, <1>4, <1>6, <2>6
    <3>2. QED
      BY <1>2, <1>7, <2>1, <3>1 DEF RoomIsKept
  <2>9. OnTheWay' = OnTheWay
    <3>1. Register' = Register /\ Register \in Seq(Bytes)
      BY <1>1, <2>1, RegisterType DEF Register
    <3>2. Flow(RxRing, Register, TxRing, sending)
            = Flow(RxRing, Register, Append(TxRing, Head(sending)),
                   Tail(sending))
      BY <1>3, <1>5, <3>1, FlowQueue
    <3>3. QED
      BY <1>2, <1>5, <2>3, <3>1, <3>2, OnTheWayIs, OnTheWayIsNext
  <2>10. StreamIsFramed'
    BY <1>1, <1>2, <2>9, StreamKept
  <2>11. QED
    BY <2>5, <2>7, <2>8, <2>10 DEF DatalinkInv
<1>8. CASE ~tx_running
  <2>1. /\ tx_running' = TRUE /\ thr' = Head(sending)
        /\ UNCHANGED <<tx_buffer, tx_insert_idx>>
    BY <1>8 DEF TransmitByte
  <2>2. thr = None /\ tx_insert_idx = tx_extract_idx
    BY <1>1, <1>8 DEF RoomIsKept
  <2>3. TxRing = <<>>
    BY Sizes, <1>1, <2>2, HeldNone DEF DatalinkTypeOK, TxRing
  <2>4. TxRing' = TxRing
    BY <1>2, <2>1 DEF TxRing
  <2>5. DatalinkTypeOK'
    BY <1>1, <1>2, <1>4, <2>1 DEF DatalinkTypeOK
  <2>6. RingsHoldBytes'
    BY <1>5, <2>4 DEF RingsHoldBytes
  <2>7. RoomIsKept'
    <3>1. Len(TxRing') + Len(sending') <= UART_TX_BUFFER_SIZE - 1
      BY Sizes, <1>2, <1>4, <1>6, <2>4
    <3>2. QED
      BY <1>2, <2>1, <3>1 DEF RoomIsKept
  <2>8. OnTheWay' = OnTheWay
    <3>1. Register = <<>> /\ Register' = <<Head(sending)>>
      BY <1>4, <2>1, <2>2 DEF Register
    <3>2. Flow(RxRing, <<>>, <<>>, sending)
            = Flow(RxRing, <<Head(sending)>>, <<>>, Tail(sending))
      BY <1>3, <1>5, FlowStart
    <3>3. QED
      BY <1>2, <1>5, <2>3, <2>4, <3>1, <3>2, OnTheWayIs, OnTheWayIsNext
  <2>9. StreamIsFramed'
    BY <1>1, <1>2, <2>8, StreamKept
  <2>10. QED
    BY <2>5, <2>6, <2>7, <2>9 DEF DatalinkInv
<1>9. QED
  BY <1>7, <1>8

LEMMA InterruptKeepsDatalink ==
  ASSUME DatalinkInv, TransmitInterrupt
  PROVE  DatalinkInv'
<1>1. DatalinkTypeOK /\ RingsHoldBytes /\ RoomIsKept /\ StreamIsFramed
  BY DEF DatalinkInv
<1>2. /\ tx_running /\ thr = None
      /\ UNCHANGED <<sending, room, tx_insert_idx, rx_extract_idx, pprz,
                     rx_buffer, rx_insert_idx, harms>>
  BY DEF TransmitInterrupt, rx_vars
<1>3. RxRing' = RxRing /\ RxRing \in Seq(Bytes) /\ TxRing \in Seq(Bytes)
      /\ sending \in Seq(Bytes) /\ Register = <<>>
  BY <1>1, <1>2 DEF RxRing, RingsHoldBytes, DatalinkTypeOK, Register
<1>4. /\ Len(TxRing) \in Nat /\ Len(sending) \in Nat
      /\ Len(TxRing) + Len(sending) <= UART_TX_BUFFER_SIZE - 1
  BY <1>1, <1>3, RingLengths DEF RoomIsKept
<1>5. CASE tx_insert_idx # tx_extract_idx
  <2> DEFINE x == tx_buffer[tx_extract_idx]
  <2>1. /\ thr' = x
        /\ tx_buffer' = [tx_buffer EXCEPT ![tx_extract_idx] = None]
        /\ tx_extract_idx' = After(tx_extract_idx, UART_TX_BUFFER_SIZE)
        /\ tx_running' = tx_running
    BY <1>5 DEF TransmitInterrupt, NextTx, After
  <2>2. /\ tx_buffer' \in Ring(UART_TX_BUFFER_SIZE)
        /\ TxRing = <<x>> \o TxRing'
    BY Sizes, <1>1, <1>2, <1>5, <2>1, HeldTake DEF DatalinkTypeOK, TxRing
  <2>3. tx_extract_idx' \in 0 .. UART_TX_BUFFER_SIZE - 1
    BY Sizes, <1>1, <2>1, AfterIs DEF DatalinkTypeOK
  <2>4. /\ x \in Bytes /\ TxRing' \in Seq(Bytes)
        /\ Len(TxRing) = Len(TxRing') + 1
    <3>1. x \in 0 .. BYTE
      BY <1>1 DEF DatalinkTypeOK, Ring
    <3>2. TxRing' \in Seq(0 .. BYTE)
      BY Sizes, <1>1, <1>2, <2>2, <2>3, HeldIs DEF DatalinkTypeOK, TxRing
    <3>3. QED
      BY <1>3, <2>2, <3>1, <3>2, RestOfBytes
  <2> HIDE DEF x
  <2>5. DatalinkTypeOK'
    BY <1>1, <1>2, <2>1, <2>2, <2>3, <2>4 DEF DatalinkTypeOK
  <2>6. RingsHoldBytes'
    BY <1>3, <2>4 DEF RingsHoldBytes
  <2>7. RoomIsKept'
    <3>1. Len(TxRing') \in Nat
      BY <2>4
    <3>2. Len(TxRing') + Len(sending) <= UART_TX_BUFFER_SIZE - 1
      BY Sizes, <1>4, <2>4, <3>1
    <3>3. QED
      BY <1>1, <1>2, <2>1, <3>2 DEF RoomIsKept
  <2>8. OnTheWay' = OnTheWay
    <3>1. Register' = <<x>>
      BY Sizes, <2>1, <2>4 DEF Register
    <3>2. Flow(RxRing, <<>>, <<x>> \o TxRing', sending)
            = Flow(RxRing, <<x>>, TxRing', sending)
      BY <1>3, <2>4, FlowSend
    <3>3. QED
      BY <1>2, <1>3, <2>2, <3>1, <3>2, OnTheWayIs, OnTheWayIsNext
  <2>9. StreamIsFramed'
    BY <1>1, <1>2, <2>8, StreamKept
  <2>10. QED
    BY <2>5, <2>6, <2>7, <2>9 DEF DatalinkInv
<1>6. CASE tx_insert_idx = tx_extract_idx
  <2>1. tx_running' = FALSE /\ UNCHANGED <<thr, tx_buffer, tx_extract_idx>>
    BY <1>6 DEF TransmitInterrupt
  <2>2. TxRing' = TxRing /\ Register' = Register
    BY <1>2, <2>1 DEF TxRing, Register
  <2>3. DatalinkTypeOK' /\ RingsHoldBytes' /\ RoomIsKept'
    BY <1>1, <1>2, <1>3, <1>6, <2>1, <2>2
       DEF DatalinkTypeOK, RingsHoldBytes, RoomIsKept
  <2>4. OnTheWay' = OnTheWay
    BY <1>2, <1>3, <2>2, OnTheWayIs, OnTheWayIsNext
  <2>5. StreamIsFramed'
    BY <1>1, <1>2, <2>4, StreamKept
  <2>6. QED
    BY <2>3, <2>5 DEF DatalinkInv
<1>7. QED
  BY <1>5, <1>6
(* What the receive interrupt stores, whole or damaged.                       *)
LEMMA ReceiveKeeps ==
  ASSUME DatalinkInv, NEW c \in Bytes, RxRoom, Receive(c), harms' \in Nat
  PROVE  /\ DatalinkTypeOK' /\ RingsHoldBytes' /\ RoomIsKept'
         /\ c = thr => OnTheWay' = OnTheWay
         /\ pprz' = pprz
<1>1. DatalinkTypeOK /\ RingsHoldBytes /\ RoomIsKept
  BY DEF DatalinkInv
<1>2. /\ thr # None /\ thr' = None
      /\ rx_buffer' = [rx_buffer EXCEPT ![rx_insert_idx] = c]
      /\ rx_insert_idx' = After(rx_insert_idx, UART_RX_BUFFER_SIZE)
      /\ UNCHANGED <<sending, room, tx_buffer, tx_insert_idx, tx_extract_idx,
                     tx_running, rx_extract_idx, pprz>>
  BY DEF Receive, NextRx, After, tx_vars, rx_vars
<1>3. After(rx_insert_idx, UART_RX_BUFFER_SIZE) # rx_extract_idx
  BY DEF RxRoom, NextRx, After
<1>4. /\ rx_buffer' \in Ring(UART_RX_BUFFER_SIZE)
      /\ RxRing' = Append(RxRing, c)
  <2> DEFINE b == [rx_buffer EXCEPT ![rx_insert_idx] = c]
             i == After(rx_insert_idx, UART_RX_BUFFER_SIZE)
  <2>1. /\ b \in Ring(UART_RX_BUFFER_SIZE)
        /\ Held(b, rx_extract_idx, i, UART_RX_BUFFER_SIZE)
             = Append(RxRing, c)
    <3>1. /\ UART_RX_BUFFER_SIZE \in Nat \ {0}
          /\ rx_extract_idx \in 0 .. UART_RX_BUFFER_SIZE - 1
          /\ rx_insert_idx \in 0 .. UART_RX_BUFFER_SIZE - 1
          /\ rx_buffer \in Ring(UART_RX_BUFFER_SIZE)
          /\ c \in 0 .. BYTE
      BY Sizes, <1>1 DEF DatalinkTypeOK
    <3>2. QED
      BY <1>3, <3>1, HeldInsert, Zenon DEF RxRing
  <2> HIDE DEF b, i
  <2>2. rx_buffer' = b /\ rx_insert_idx' = i
    BY <1>2 DEF b, i
  <2>3. RxRing' = Held(b, rx_extract_idx, i, UART_RX_BUFFER_SIZE)
    BY <1>2, <2>2 DEF RxRing
  <2>4. QED
    BY <2>1, <2>2, <2>3
<1>5. rx_insert_idx' \in 0 .. UART_RX_BUFFER_SIZE - 1
  BY Sizes, <1>1, <1>2, AfterIs DEF DatalinkTypeOK
<1>6. DatalinkTypeOK'
  BY <1>1, <1>2, <1>4, <1>5 DEF DatalinkTypeOK
<1>7. TxRing' = TxRing /\ TxRing \in Seq(Bytes) /\ RxRing \in Seq(Bytes)
      /\ sending \in Seq(Bytes)
  BY <1>1, <1>2 DEF TxRing, RingsHoldBytes, DatalinkTypeOK
<1>8. RingsHoldBytes'
  BY <1>4, <1>7, BytesAppend DEF RingsHoldBytes
<1>9. RoomIsKept'
  BY <1>1, <1>2, <1>7 DEF RoomIsKept
<1>10. ASSUME c = thr PROVE OnTheWay' = OnTheWay
  <2>1. Register = <<c>> /\ Register' = <<>>
    BY <1>2, <1>10 DEF Register
  <2>2. Flow(Append(RxRing, c), <<>>, TxRing, sending)
          = Flow(RxRing, <<c>>, TxRing, sending)
    BY <1>7, FlowArrive
  <2>3. QED
    BY <1>2, <1>4, <1>7, <2>1, <2>2, OnTheWayIs, OnTheWayIsNext
<1>11. QED
  BY <1>2, <1>6, <1>8, <1>9, <1>10

LEMMA LineKeeps ==
  ASSUME DatalinkInv, Shift \/ Damage \/ Lose
  PROVE  DatalinkInv'
<1>1. DatalinkTypeOK /\ RingsHoldBytes /\ RoomIsKept /\ StreamIsFramed
  BY DEF DatalinkInv
<1>2. CASE Shift
  <2>1. RxRoom /\ Receive(thr) /\ harms' = harms /\ thr \in Bytes
    BY <1>1, <1>2 DEF Shift, Receive, DatalinkTypeOK
  <2>2. harms' \in Nat
    BY <1>1, <2>1 DEF DatalinkTypeOK
  <2>3. /\ DatalinkTypeOK' /\ RingsHoldBytes' /\ RoomIsKept'
        /\ OnTheWay' = OnTheWay /\ pprz' = pprz
    BY <2>1, <2>2, ReceiveKeeps
  <2>4. QED
    BY <1>1, <2>1, <2>3, StreamKept DEF DatalinkInv
<1>3. CASE Damage
  <2>1. PICK c \in Noise \ {thr} : Receive(c)
    BY <1>3 DEF Damage
  <2>2. RxRoom /\ harms' = harms + 1 /\ c \in Bytes
    BY <1>3, DatalinkAssumption DEF Damage
  <2>3. harms' \in Nat /\ harms' # 0
    BY <1>1, <2>2 DEF DatalinkTypeOK
  <2>4. DatalinkTypeOK' /\ RingsHoldBytes' /\ RoomIsKept'
    BY <2>1, <2>2, <2>3, ReceiveKeeps
  <2>5. StreamIsFramed'
    BY <2>3 DEF StreamIsFramed
  <2>6. QED
    BY <2>4, <2>5 DEF DatalinkInv
<1>4. CASE Lose
  <2>1. /\ thr' = None /\ harms' = harms + 1
        /\ UNCHANGED <<sending, room, tx_buffer, tx_insert_idx, tx_extract_idx,
                       tx_running, rx_extract_idx, pprz, rx_buffer,
                       rx_insert_idx>>
    BY <1>4 DEF Lose, tx_vars, rx_vars
  <2>2. harms' \in Nat /\ harms' # 0
    BY <1>1, <2>1 DEF DatalinkTypeOK
  <2>3. TxRing' = TxRing /\ RxRing' = RxRing
    BY <2>1 DEF TxRing, RxRing
  <2>4. DatalinkTypeOK'
    BY <1>1, <2>1, <2>2 DEF DatalinkTypeOK
  <2>5. RingsHoldBytes' /\ RoomIsKept' /\ StreamIsFramed'
    BY <1>1, <2>1, <2>2, <2>3 DEF RingsHoldBytes, RoomIsKept, StreamIsFramed
  <2>6. QED
    BY <2>4, <2>5 DEF DatalinkInv
<1>5. QED
  BY <1>2, <1>3, <1>4

LEMMA ParseType ==
  ASSUME NEW p \in PprzType, NEW c \in Bytes
  PROVE  parse_pprz(p, c) \in PprzType
<1>1. Restart \in PprzType
  <2>1. 0 \in Bytes
    BY PprzAssumption DEF Bytes
  <2>2. QED
    BY <2>1 DEF Restart, PprzType, States
<1>2. Error(p) \in PprzType
  <2>1. [p EXCEPT !.status = "UNINIT"] \in PprzType
    BY DEF PprzType, States
  <2>2. QED
    BY <1>1, <2>1 DEF Error
<1>3. CASE p.status = "UNINIT"
  <2>1. [p EXCEPT !.status = "GOT_STX"] \in PprzType
    BY DEF PprzType, States
  <2>2. QED
    BY <1>3, <2>1 DEF parse_pprz
<1>4. CASE p.status = "GOT_STX"
  <2>1. (c - 4) % BYTE \in Bytes /\ Sums(c) \in Bytes \X Bytes
    BY PprzAssumption DEF Bytes, Sums
  <2> DEFINE l == (c - 4) % BYTE
  <2> HIDE DEF l
  <2>2. [p EXCEPT !.status = "GOT_LENGTH", !.len = l,
                  !.sums = Sums(c)] \in PprzType
    BY <2>1 DEF PprzType, States, l
  <2>3. QED
    BY <1>2, <1>4, <2>2 DEF parse_pprz, l
<1>5. CASE p.status = "GOT_LENGTH"
  <2> DEFINE w == Append(p.payload, c)
             k == IF PayloadIsThere(w, p.len) THEN "GOT_PAYLOAD"
                  ELSE "GOT_LENGTH"
  <2>1. w \in Seq(Bytes) /\ Add(p.sums, c) \in Bytes \X Bytes
    <3>1. p.payload \in Seq(Bytes) /\ p.sums \in Bytes \X Bytes
      BY DEF PprzType
    <3>2. QED
      BY <3>1, AddType, BytesAppend
  <2>2. k \in States
    BY DEF States
  <2>3. parse_pprz(p, c) = [p EXCEPT !.payload = w, !.sums = Add(p.sums, c),
                                     !.status = k]
    BY <1>5 DEF parse_pprz
  <2> HIDE DEF w, k
  <2>4. QED
    BY <2>1, <2>2, <2>3 DEF PprzType
<1>6. CASE p.status = "GOT_PAYLOAD"
  <2>1. [p EXCEPT !.status = "GOT_CRC1"] \in PprzType
    BY DEF PprzType, States
  <2>2. QED
    BY <1>2, <1>6, <2>1 DEF parse_pprz
<1>7. CASE p.status = "GOT_CRC1"
  <2>1. [Restart EXCEPT !.received = TRUE, !.len = p.len,
                        !.payload = p.payload] \in PprzType
    BY <1>1 DEF PprzType
  <2>2. QED
    BY <1>2, <1>7, <2>1 DEF parse_pprz
<1>8. QED
  BY <1>3, <1>4, <1>5, <1>6, <1>7 DEF PprzType, States
(* The frame that comes first, or nothing is there.                          *)
LEMMA FirstFrame ==
  ASSUME NEW k \in Seq(Bytes), NEW u \in Seq(Bytes), Framed(k \o u, 1),
         k \o u # <<>>
  PROVE  \E m \in Messages :
           /\ Len(Frame(m)) <= Len(k) + Len(u)
           /\ \A i \in 1 .. Len(k) : i <= Len(Frame(m)) => k[i] = Frame(m)[i]
           /\ \A i \in 1 .. Len(u) :
                Len(k) + i <= Len(Frame(m)) => u[i] = Frame(m)[Len(k) + i]
           /\ Framed(k \o u, 1 + Len(Frame(m)))
<1> DEFINE w == k \o u
<1>1. /\ w \in Seq(Bytes) /\ Len(w) = Len(k) + Len(u)
      /\ \A i \in 1 .. Len(k) : w[i] = k[i]
      /\ \A i \in 1 .. Len(u) : w[Len(k) + i] = u[i]
  BY BytesConcat
<1>2. Len(k) \in Nat /\ Len(u) \in Nat
  OBVIOUS
<1>3. w # <<>>
  OBVIOUS
<1> HIDE DEF w
<1>4. Len(w) > 0 /\ 1 \in 1 .. Len(w) + 1 /\ 1 # Len(w) + 1 /\ 1 \in 1 .. Len(w)
  BY <1>1, <1>2, <1>3
<1>5. Framed(w, 1)
  BY DEF w
<1>6. PICK m \in Messages : Fits(w, 1, m) /\ Framed(w, 1 + Len(Frame(m)))
  BY <1>1, <1>4, <1>5, FramedUnfold
<1>7. /\ 1 + Len(Frame(m)) <= Len(w) + 1
      /\ \A i \in 1 .. Len(Frame(m)) : w[1 + i - 1] = Frame(m)[i]
  BY <1>1, <1>4, <1>6, FitsAt
<1>8. Len(Frame(m)) \in Nat
  BY MessageFrame
<1>9. \A i \in 1 .. Len(Frame(m)) : w[i] = Frame(m)[i]
  <2> TAKE i \in 1 .. Len(Frame(m))
  <2>1. 1 + i - 1 = i
    BY <1>8
  <2>2. QED
    BY <1>7, <2>1
<1>10. \A i \in 1 .. Len(k) : i <= Len(Frame(m)) => k[i] = Frame(m)[i]
  BY <1>1, <1>2, <1>8, <1>9
<1>11. \A i \in 1 .. Len(u) :
         Len(k) + i <= Len(Frame(m)) => u[i] = Frame(m)[Len(k) + i]
  <2> TAKE i \in 1 .. Len(u)
  <2> HAVE Len(k) + i <= Len(Frame(m))
  <2>1. Len(k) + i \in 1 .. Len(Frame(m))
    BY <1>2, <1>8
  <2>2. QED
    BY <1>1, <1>9, <2>1
<1>12. Len(Frame(m)) <= Len(k) + Len(u)
  BY <1>1, <1>2, <1>7, <1>8
<1>13. QED
  BY <1>6, <1>10, <1>11, <1>12 DEF w

LEMMA ReadKeeps ==
  ASSUME DatalinkInv, ReadPprzBuffer
  PROVE  DatalinkInv'
<1> DEFINE c == rx_buffer[rx_extract_idx]
<1>1. DatalinkTypeOK /\ RingsHoldBytes /\ RoomIsKept /\ StreamIsFramed
  BY DEF DatalinkInv
<1>2. /\ rx_insert_idx # rx_extract_idx /\ ~pprz.received
      /\ pprz' = parse_pprz(pprz, c)
      /\ rx_buffer' = [rx_buffer EXCEPT ![rx_extract_idx] = None]
      /\ rx_extract_idx' = After(rx_extract_idx, UART_RX_BUFFER_SIZE)
      /\ UNCHANGED <<sending, room, tx_buffer, tx_insert_idx, tx_extract_idx,
                     tx_running, thr, rx_insert_idx, harms>>
  BY DEF ReadPprzBuffer, NextRx, After, tx_vars
<1>3. /\ rx_buffer' \in Ring(UART_RX_BUFFER_SIZE)
      /\ RxRing = <<c>> \o RxRing'
  <2> DEFINE b == [rx_buffer EXCEPT ![rx_extract_idx] = None]
             e == After(rx_extract_idx, UART_RX_BUFFER_SIZE)
  <2>1. /\ b \in Ring(UART_RX_BUFFER_SIZE)
        /\ RxRing = <<c>> \o Held(b, e, rx_insert_idx, UART_RX_BUFFER_SIZE)
    <3>1. /\ UART_RX_BUFFER_SIZE \in Nat \ {0}
          /\ rx_extract_idx \in 0 .. UART_RX_BUFFER_SIZE - 1
          /\ rx_insert_idx \in 0 .. UART_RX_BUFFER_SIZE - 1
          /\ rx_buffer \in Ring(UART_RX_BUFFER_SIZE)
          /\ None \in 0 .. BYTE
      BY Sizes, <1>1 DEF DatalinkTypeOK
    <3>2. QED
      BY <1>2, <3>1, HeldTake, Zenon DEF RxRing
  <2> HIDE DEF b, e
  <2>2. rx_buffer' = b /\ rx_extract_idx' = e
    BY <1>2 DEF b, e
  <2>3. RxRing' = Held(b, e, rx_insert_idx, UART_RX_BUFFER_SIZE)
    BY <1>2, <2>2 DEF RxRing
  <2>4. QED
    BY <2>1, <2>2, <2>3
<1>4. rx_extract_idx' \in 0 .. UART_RX_BUFFER_SIZE - 1
  BY Sizes, <1>1, <1>2, AfterIs DEF DatalinkTypeOK
<1>5. c \in Bytes /\ RxRing' \in Seq(Bytes)
  <2>1. c \in 0 .. BYTE
    BY <1>1 DEF DatalinkTypeOK, Ring
  <2>2. RxRing' \in Seq(0 .. BYTE)
    BY Sizes, <1>1, <1>2, <1>3, <1>4, HeldIs DEF DatalinkTypeOK, RxRing
  <2>3. QED
    BY <1>1, <1>3, <2>1, <2>2, RestOfBytes DEF RingsHoldBytes
<1> HIDE DEF c
<1>6. pprz' \in PprzType
  BY <1>1, <1>2, <1>5, ParseType DEF DatalinkTypeOK
<1>7. DatalinkTypeOK'
  BY <1>1, <1>2, <1>3, <1>4, <1>6 DEF DatalinkTypeOK
<1>8. /\ TxRing' = TxRing /\ TxRing \in Seq(Bytes)
      /\ Register' = Register /\ Register \in Seq(Bytes)
      /\ sending \in Seq(Bytes)
  BY <1>1, <1>2, RegisterType
     DEF TxRing, RingsHoldBytes, Register, DatalinkTypeOK
<1>9. RingsHoldBytes' /\ RoomIsKept'
  BY <1>1, <1>2, <1>5, <1>8 DEF RingsHoldBytes, RoomIsKept
<1>10. ASSUME harms = 0
       PROVE  InStep(pprz') /\ Framed(Taken(pprz') \o OnTheWay', 1)
  <2> DEFINE k == Taken(pprz)
             u == OnTheWay
             v == OnTheWay'
  <2>1. InStep(pprz) /\ Framed(k \o u, 1) /\ k \in Seq(Bytes)
    BY <1>1, <1>10, TakenType DEF StreamIsFramed
  <2>2. /\ u = Flow(RxRing, Register, TxRing, sending)
        /\ v = Flow(RxRing', Register, TxRing, sending)
    BY <1>2, <1>8, OnTheWayIs, OnTheWayIsNext
  <2>3. v \in Seq(Bytes)
    BY <1>5, <1>8, <2>2, FlowType
  <2> HIDE DEF k, u, v
  <2>4. u = <<c>> \o v /\ k \o u = Append(k, c) \o v
    <3> DEFINE r == RxRing'
    <3>1. r \in Seq(Bytes)
      BY <1>5
    <3>2. u = Flow(<<c>> \o r, Register, TxRing, sending)
          /\ v = Flow(r, Register, TxRing, sending)
      BY <1>3, <2>2
    <3> HIDE DEF r
    <3>3. Flow(<<c>> \o r, Register, TxRing, sending) = <<c>> \o v
      <4>1. Follows(Flow(r, Register, TxRing, sending), c,
                    Flow(<<c>> \o r, Register, TxRing, sending))
        BY <1>5, <1>8, <3>1, FlowFirst
      <4>2. QED
        BY <3>2, <4>1 DEF Follows
    <3>4. k \o (<<c>> \o v) = (k \o <<c>>) \o v
      BY <1>5, <2>1, <2>3, BytesAssoc, BytesSingle
    <3>5. Append(k, c) = k \o <<c>>
      BY <1>5, <2>1, BytesAppend
    <3>6. QED
      BY <3>2, <3>3, <3>4, <3>5, Zenon
  <2>5. u \in Seq(Bytes) /\ u # <<>> /\ u[1] = c /\ Len(u) \in Nat
        /\ 1 \in 1 .. Len(u)
    <3> DEFINE e == <<c>>
    <3>1. e \in Seq(Bytes) /\ Len(e) = 1 /\ e[1] = c
      BY <1>5
    <3> HIDE DEF e
    <3>2. /\ e \o v \in Seq(Bytes) /\ Len(e \o v) = Len(e) + Len(v)
          /\ \A i \in 1 .. Len(e) : (e \o v)[i] = e[i]
      BY <2>3, <3>1, BytesConcat
    <3>3. u = e \o v
      BY <2>4 DEF e
    <3>4. Len(v) \in Nat
      BY <2>3
    <3>5. QED
      BY <3>1, <3>2, <3>3, <3>4
  <2>6. k \o u # <<>>
    <3>1. Len(k \o u) = Len(k) + Len(u) /\ Len(k) \in Nat
      BY <2>1, <2>5, BytesConcat
    <3>2. QED
      BY <2>5, <3>1
  <2>7. PICK m \in Messages :
          /\ \A i \in 1 .. Len(k) : i <= Len(Frame(m)) => k[i] = Frame(m)[i]
          /\ \A i \in 1 .. Len(u) :
               Len(k) + i <= Len(Frame(m)) => u[i] = Frame(m)[Len(k) + i]
    BY <2>1, <2>5, <2>6, FirstFrame
  <2>8. Len(k) + 1 <= Len(Frame(m)) => c = Frame(m)[Len(k) + 1]
    BY <2>5, <2>7
  <2>9. /\ InStep(parse_pprz(pprz, c))
        /\ Taken(parse_pprz(pprz, c)) = Append(k, c)
    BY <1>2, <1>5, <2>1, <2>7, <2>8, Consumes DEF k
  <2>10. Taken(pprz') = Append(k, c) /\ InStep(pprz')
    BY <1>2, <2>9
  <2>11. Framed(Append(k, c) \o v, 1)
    BY <2>1, <2>4
  <2>12. QED
    BY <2>10, <2>11 DEF v
<1>11. StreamIsFramed'
  BY <1>2, <1>10 DEF StreamIsFramed
<1>12. QED
  BY <1>7, <1>9, <1>11 DEF DatalinkInv

(* A message that is handed over was the first of the stream.                 *)
LEMMA HandsOver ==
  ASSUME DatalinkInv, pprz.received, harms = 0
  PROVE  HandedOver \in Messages /\ Framed(OnTheWay, 1)
<1> DEFINE q == pprz.payload
           k == Frame(q)
           u == OnTheWay
<1>1. DatalinkTypeOK /\ RingsHoldBytes /\ StreamIsFramed
  BY DEF DatalinkInv
<1>2. InStep(pprz) /\ Framed(Taken(pprz) \o u, 1)
  BY <1>1 DEF StreamIsFramed
<1>3. /\ pprz.status = "UNINIT" /\ Len(q) \in 1 .. BYTE - 1
      /\ q \in Seq(Bytes) /\ pprz.len = Len(q)
  BY <1>2 DEF InStep, PprzType
<1>4. Taken(pprz) = k
  BY <1>3 DEF Taken
<1>5. u \in Seq(Bytes)
  BY <1>1, OnTheWayIs, FlowType, RegisterType
     DEF RingsHoldBytes, DatalinkTypeOK
<1>6. /\ k \in Seq(Bytes) /\ Len(k) = Len(q) + 4
      /\ k[2] = (Len(q) + 4) % BYTE
      /\ \A i \in 1 .. Len(q) : k[i + 2] = q[i]
  BY <1>3, FrameBytes
<1>7. Framed(k \o u, 1)
  BY <1>2, <1>4
<1>8. HandedOver = q
  BY <1>3 DEF HandedOver
<1> HIDE DEF q, k, u
<1>9. Len(k) \in Nat /\ Len(k) > 4 /\ 2 \in 1 .. Len(k)
  BY <1>3, <1>6, PprzAssumption
<1>10. k \o u # <<>>
  <2>1. Len(k \o u) = Len(k) + Len(u)
    BY <1>5, <1>6, BytesConcat
  <2>2. Len(u) \in Nat
    BY <1>5
  <2>3. QED
    BY <1>9, <2>1, <2>2
<1>11. PICK m \in Messages :
         /\ \A i \in 1 .. Len(k) : i <= Len(Frame(m)) => k[i] = Frame(m)[i]
         /\ Framed(k \o u, 1 + Len(Frame(m)))
  BY <1>5, <1>6, <1>7, <1>10, FirstFrame
<1>12. /\ m \in Seq(Bytes) /\ Len(m) \in 1 .. BYTE - 1
       /\ Len(Frame(m)) = Len(m) + 4 /\ Len(Frame(m)) > 4
       /\ Len(Frame(m)) \in Nat
       /\ Frame(m)[2] = (Len(m) + 4) % BYTE
       /\ \A i \in 1 .. Len(m) : Frame(m)[i + 2] = m[i]
  BY MessageFrame, FrameBytes
<1>13. (Len(q) + 4) % BYTE = (Len(m) + 4) % BYTE
  BY <1>6, <1>9, <1>11, <1>12
<1>14. Len(q) = Len(m)
  BY <1>3, <1>12, <1>13, LengthByteTells
<1>15. 1 + Len(Frame(m)) = Len(k) + 1
  BY <1>6, <1>9, <1>12, <1>14
<1>16. Framed(u, 1)
  BY <1>5, <1>6, <1>11, <1>15, FramedRest
<1>17. \A i \in 1 .. Len(q) : q[i] = m[i]
  <2> TAKE i \in 1 .. Len(q)
  <2>1. i + 2 \in 1 .. Len(k) /\ i + 2 <= Len(Frame(m)) /\ i \in 1 .. Len(m)
    BY <1>3, <1>6, <1>9, <1>12, <1>14
  <2>2. k[i + 2] = Frame(m)[i + 2]
    BY <1>11, <2>1
  <2>3. QED
    BY <1>6, <1>12, <2>1, <2>2
<1>18. q = m
  BY <1>3, <1>12, <1>14, <1>17, SeqEqual
<1>19. QED
  BY <1>8, <1>16, <1>18 DEF u

LEMMA EventKeeps ==
  ASSUME DatalinkInv, DatalinkEvent
  PROVE  DatalinkInv'
<1>1. DatalinkTypeOK /\ RingsHoldBytes /\ RoomIsKept /\ StreamIsFramed
  BY DEF DatalinkInv
<1>2. /\ pprz.received /\ pprz' = Restart
      /\ UNCHANGED <<sending, room, tx_buffer, tx_insert_idx, tx_extract_idx,
                     tx_running, thr, rx_buffer, rx_insert_idx,
                     rx_extract_idx, harms>>
  BY DEF DatalinkEvent, tx_vars, line_vars
<1>3. TxRing' = TxRing /\ RxRing' = RxRing /\ Register' = Register
  BY <1>2 DEF TxRing, RxRing, Register
<1>4. Restart \in PprzType /\ InStep(Restart) /\ Taken(Restart) = <<>>
  <2>1. 0 \in Bytes
    BY PprzAssumption DEF Bytes
  <2>2. Restart \in PprzType
    BY <2>1 DEF Restart, PprzType, States
  <2>3. QED
    BY <2>2 DEF Restart, InStep, Busy, Taken
<1>5. DatalinkTypeOK' /\ RingsHoldBytes' /\ RoomIsKept'
  BY <1>1, <1>2, <1>3, <1>4 DEF DatalinkTypeOK, RingsHoldBytes, RoomIsKept
<1>6. ASSUME harms = 0
      PROVE  Framed(OnTheWay, 1)
  BY <1>2, <1>6, HandsOver
<1>7. StreamIsFramed'
  <2>1. OnTheWay' = OnTheWay
    BY <1>2, <1>3, OnTheWayIs, OnTheWayIsNext
  <2>2. OnTheWay \in Seq(Bytes)
    BY <1>1, OnTheWayIs, FlowType, RegisterType
       DEF RingsHoldBytes, DatalinkTypeOK
  <2>3. Taken(pprz') \o OnTheWay' = OnTheWay
    BY <1>2, <1>4, <2>1, <2>2, BytesEmpty
  <2>4. InStep(pprz')
    BY <1>2, <1>4
  <2>5. QED
    BY <1>2, <1>6, <2>3, <2>4 DEF StreamIsFramed
<1>8. QED
  BY <1>5, <1>7 DEF DatalinkInv

LEMMA DatalinkStep == DatalinkInv /\ [DatalinkNext]_dl_vars => DatalinkInv'
<1> SUFFICES ASSUME DatalinkInv, [DatalinkNext]_dl_vars PROVE DatalinkInv'
  OBVIOUS
<1>1. CASE \E m \in Messages : DownlinkSend(m)
  BY <1>1, SendKeeps
<1>2. CASE TransmitTest
  BY <1>2, TestKeepsDatalink
<1>3. CASE TransmitByte
  BY <1>3, ByteKeeps
<1>4. CASE TransmitInterrupt
  BY <1>4, InterruptKeepsDatalink
<1>5. CASE Shift \/ Damage \/ Lose
  BY <1>5, LineKeeps
<1>6. CASE ReadPprzBuffer
  BY <1>6, ReadKeeps
<1>7. CASE DatalinkEvent
  BY <1>7, EventKeeps
<1>8. CASE UNCHANGED dl_vars
  BY <1>8 DEF dl_vars, tx_vars, rx_vars, line_vars, DatalinkInv,
              DatalinkTypeOK, RingsHoldBytes, RoomIsKept, StreamIsFramed,
              TxRing, RxRing, OnTheWay
<1>9. QED
  BY <1>1, <1>2, <1>3, <1>4, <1>5, <1>6, <1>7, <1>8 DEF DatalinkNext

LEMMA DatalinkInvariant == DatalinkSpec => []DatalinkInv
BY DatalinkInitInv, DatalinkStep, PTL DEF DatalinkSpec

(* Indices, buffers, registers and the automaton stay in range, for every size *)
(* of the rings and every harm on the line (uart_arch.c, pprz_transport.h).    *)
THEOREM DatalinkTypeCorrect == DatalinkSpec => []DatalinkTypeOK
<1>1. DatalinkInv => DatalinkTypeOK
  BY DEF DatalinkInv
<1>2. QED
  BY <1>1, DatalinkInvariant, PTL

(* A byte that waits in the ring or register always has an interrupt to come:    *)
(* uart0_transmit decides with the interrupt off whether to start the           *)
(* transmitter, and the interrupt stops it only when nothing is left.          *)
THEOREM QueuedBytesAreSent ==
  DatalinkSpec =>
    [](tx_insert_idx # tx_extract_idx \/ thr # None => tx_running)
<1>1. DatalinkInv => (tx_insert_idx # tx_extract_idx \/ thr # None => tx_running)
  BY DEF DatalinkInv, RoomIsKept
<1>2. QED
  BY <1>1, DatalinkInvariant, PTL

(* uart0_transmit never gives up a byte of a message that check_free_space has  *)
(* let through: the room for all of it stays until the last byte is queued.    *)
THEOREM NoByteIsGivenUp ==
  DatalinkSpec => [][TransmitTest => sending' = sending]_dl_vars
<1>1. DatalinkInv => [TransmitTest => sending' = sending]_dl_vars
  BY RoomIsThere DEF TransmitTest
<1>2. QED
  BY <1>1, DatalinkInvariant, PTL

(* On a line that does no harm, dl_parse_msg is only given messages that were   *)
(* sent (event_task_ap).                                                    *)
THEOREM OnlyMessagesAreHandedOver ==
  DatalinkSpec =>
    [][DatalinkEvent /\ harms = 0 => HandedOver \in Messages]_dl_vars
<1>1. DatalinkInv =>
        [DatalinkEvent /\ harms = 0 => HandedOver \in Messages]_dl_vars
  BY HandsOver DEF DatalinkEvent
<1>2. QED
  BY <1>1, DatalinkInvariant, PTL

(* Bytes stay in order and frames stay whole from uart0_transmit through both   *)
(* rings into parse_pprz, for every message and every size of the rings.       *)
THEOREM MessagesStayWhole == DatalinkSpec => []MessagesAreWhole
<1>1. DatalinkInv => MessagesAreWhole
  <2> SUFFICES ASSUME DatalinkInv, harms = 0
               PROVE  WholeFrames(Taken(pprz) \o OnTheWay)
    BY DEF MessagesAreWhole
  <2>1. InStep(pprz) /\ Framed(Taken(pprz) \o OnTheWay, 1)
    BY DEF DatalinkInv, StreamIsFramed
  <2>2. Taken(pprz) \o OnTheWay \in Seq(Bytes)
    <3>1. Taken(pprz) \in Seq(Bytes)
      BY <2>1, TakenType
    <3>2. OnTheWay \in Seq(Bytes)
      BY OnTheWayIs, FlowType, RegisterType
         DEF DatalinkInv, RingsHoldBytes, DatalinkTypeOK
    <3>3. QED
      BY <3>1, <3>2, BytesJoin
  <2>3. QED
    BY <2>1, <2>2, FramedIsWhole
<1>2. QED
  BY <1>1, DatalinkInvariant, PTL
=============================================================================
