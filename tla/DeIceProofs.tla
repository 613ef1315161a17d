---------------------------- MODULE DeIceProofs ----------------------------
(* The debugger's target for every byte size, buffer size, request and       *)
(* disturbance: a frame in flight is the buffer as far as it is read and the *)
(* line from there on, and its sum tells whether it is as it was sent; the   *)
(* functions, which build the reply over the request, keep the promise of    *)
(* DeIceProtocol.                                                            *)
EXTENDS DeIce, SequenceTheorems, WellFoundedInduction, TLAPS

(* A set of numbers that is not empty has a least one: this is what stands  *)
(* for induction below.                                                      *)
LEMMA Least ==
  ASSUME NEW T, T \subseteq Nat, T # {}
  PROVE  \E i \in T : \A j \in T : i <= j
<1> DEFINE R == {pair \in Nat \X Nat : pair[1] < pair[2]}
<1>1. IsWellFoundedOn(R, Nat)
  BY NatLessThanWellFounded DEF OpToRel
<1>2. PICK i \in T : \A j \in T : ~(<<j, i>> \in R)
  <2> HIDE DEF R
  <2> QED BY <1>1, WFMin, Zenon
<1>3. \A j \in T : j < i => <<j, i>> \in R
  OBVIOUS
<1>4. \A j \in T : ~(j < i)
  <2> HIDE DEF R
  <2> QED BY <1>2, <1>3
<1>5. \A j \in T : i <= j
  BY <1>4
<1> QED BY <1>5

(* The prefix sums of a sequence, which Sum reduces to a byte.               *)
Totals(s) ==
    LET total[k \in 0 .. Len(s)] == IF k = 0 THEN 0 ELSE total[k - 1] + s[k]
    IN  total

LEMMA SumIsTotal == ASSUME NEW s PROVE Sum(s) = Totals(s)[Len(s)] % M
  BY DEF Sum, Totals

(* The recursive definition has a solution.                                  *)
LEMMA TotalsExist ==
  ASSUME NEW s \in Seq(Int)
  PROVE  Totals(s) = [k \in 0 .. Len(s) |-> IF k = 0 THEN 0 ELSE Totals(s)[k - 1] + s[k]]
<1> DEFINE Solves(f, m) == f = [k \in 0 .. m |-> IF k = 0 THEN 0 ELSE f[k - 1] + s[k]]
<1> DEFINE Bad == {m \in Nat : ~\E f : Solves(f, m)}
<1>1. Bad = {}
  <2> SUFFICES ASSUME Bad # {} PROVE FALSE
    OBVIOUS
  <2>1. PICK m \in Bad : \A j \in Bad : m <= j
    <3> HIDE DEF Solves
    <3> QED BY Least
  <2>2. Solves([k \in {0} |-> 0], 0)
    OBVIOUS
  <2>3. m # 0
    BY <2>1, <2>2
  <2>4. PICK f : Solves(f, m - 1)
    <3>1. m - 1 \in Nat /\ ~(m <= m - 1)
      BY <2>1, <2>3
    <3> HIDE DEF Solves
    <3>2. m - 1 \notin Bad
      <4> HIDE DEF Bad
      <4> QED BY <2>1, <3>1
    <3> QED BY <3>1, <3>2
  <2> DEFINE g == [k \in 0 .. m |-> IF k = m THEN f[m - 1] + s[m] ELSE f[k]]
  <2>5. Solves(g, m)
    <3>1. \A k \in 0 .. (m - 1) : f[k] = IF k = 0 THEN 0 ELSE f[k - 1] + s[k]
      BY <2>4
    <3>2. ASSUME NEW k \in 0 .. m PROVE g[k] = IF k = 0 THEN 0 ELSE g[k - 1] + s[k]
      <4>1. CASE k = m
        BY <4>1, <2>1, <2>3
      <4>2. CASE k # m
        <5>1. k \in 0 .. (m - 1) /\ (k # 0 => k - 1 \in 0 .. (m - 1) /\ k - 1 # m)
          BY <4>2, <2>1
        <5>2. g[k] = f[k] /\ (k # 0 => g[k - 1] = f[k - 1])
          BY <5>1, <4>2, <2>1
        <5> QED BY <5>1, <5>2, <3>1
      <4> QED BY <4>1, <4>2
    <3> QED BY <3>2
  <2> QED BY <2>5, <2>1
<1>2. \E f : Solves(f, Len(s))
  BY <1>1, LenProperties
<1>3. Totals(s) = CHOOSE f : Solves(f, Len(s))
  BY DEF Totals
<1>4. Solves(Totals(s), Len(s))
  <2> HIDE DEF Solves
  <2> QED BY <1>2, <1>3
<1> QED BY <1>4

LEMMA TotalsStep ==
  ASSUME NEW s \in Seq(Int)
  PROVE  /\ Totals(s)[0] = 0
         /\ \A k \in 1 .. Len(s) : Totals(s)[k] = Totals(s)[k - 1] + s[k]
         /\ \A k \in 0 .. Len(s) : Totals(s)[k] \in Int
<1> DEFINE t == Totals(s)
<1>1. Len(s) \in Nat /\ \A k \in 1 .. Len(s) : s[k] \in Int
  BY LenProperties
<1>2. \A k \in 0 .. Len(s) : t[k] = IF k = 0 THEN 0 ELSE t[k - 1] + s[k]
  BY TotalsExist
<1> HIDE DEF t
<1>3. t[0] = 0 /\ \A k \in 1 .. Len(s) : t[k] = t[k - 1] + s[k]
  BY <1>1, <1>2
<1> DEFINE Bad == {k \in 0 .. Len(s) : t[k] \notin Int}
<1>4. Bad = {}
  <2> SUFFICES ASSUME Bad # {} PROVE FALSE
    OBVIOUS
  <2>1. Bad \subseteq Nat
    BY <1>1
  <2>2. PICK i \in Bad : \A j \in Bad : i <= j
    <3> HIDE DEF Bad
    <3> QED BY <2>1, Least
  <2>3. i # 0
    BY <1>3, <2>2
  <2>4. t[i - 1] \in Int
    <3>1. i - 1 \in 0 .. Len(s) /\ ~(i <= i - 1)
      BY <2>2, <2>3, <1>1
    <3>2. i - 1 \notin Bad
      <4> HIDE DEF Bad
      <4> QED BY <2>2, <3>1
    <3> QED BY <3>1, <3>2
  <2>5. i \in 1 .. Len(s) /\ t[i] \notin Int
    BY <2>2, <2>3, <1>1
  <2>6. t[i] = t[i - 1] + s[i] /\ s[i] \in Int
    BY <2>5, <1>1, <1>3
  <2> HIDE DEF Bad
  <2> QED BY <2>4, <2>5, <2>6
<1> QED BY <1>3, <1>4 DEF t

(* Sequences that agree up to a place have the same sum there.               *)
LEMMA SameTotals ==
  ASSUME NEW s \in Seq(Int), NEW t \in Seq(Int), NEW m \in Nat, m <= Len(s), m <= Len(t),
         \A k \in 1 .. m : s[k] = t[k]
  PROVE  Totals(s)[m] = Totals(t)[m]
<1> DEFINE Bad == {k \in 0 .. m : Totals(s)[k] # Totals(t)[k]}
<1>1. Bad = {}
  <2> SUFFICES ASSUME Bad # {} PROVE FALSE
    OBVIOUS
  <2>1. PICK i \in Bad : \A j \in Bad : i <= j
    <3>1. Bad \subseteq Nat
      OBVIOUS
    <3> HIDE DEF Bad
    <3> QED BY <3>1, Least
  <2>2. i # 0
    BY <2>1, TotalsStep
  <2>3. Totals(s)[i - 1] = Totals(t)[i - 1]
    <3>1. i - 1 \in 0 .. m /\ ~(i <= i - 1)
      BY <2>1, <2>2
    <3>2. i - 1 \notin Bad
      <4> HIDE DEF Bad
      <4> QED BY <2>1, <3>1
    <3> QED BY <3>1, <3>2
  <2>4. i \in 1 .. Len(s) /\ i \in 1 .. Len(t)
    BY <2>1, <2>2, LenProperties
  <2> QED BY <2>1, <2>3, <2>4, TotalsStep
<1> QED BY <1>1

(* A value whose rest is known.                                              *)
LEMMA Rest ==
  ASSUME NEW q \in Int, NEW r \in Byte
  PROVE  (q * M + r) % M = r
BY ByteAssumption DEF Byte

LEMMA Division ==
  ASSUME NEW a \in Int
  PROVE  a % M \in Byte /\ \E q \in Int : a = (q * M) + (a % M)
<1>1. M \in Nat /\ M > 0
  BY ByteAssumption
<1>2. a = ((a \div M) * M) + (a % M)
  BY <1>1
<1> QED BY <1>1, <1>2 DEF Byte

(* What is added before or after the rest is taken is the same.              *)
LEMMA RestOfSum ==
  ASSUME NEW a \in Int, NEW b \in Int
  PROVE  ((a % M) + b) % M = (a + b) % M
<1> DEFINE c == (a % M) + b
<1>1. M \in Nat /\ a % M \in Int /\ c \in Int
  BY ByteAssumption, Division DEF Byte
<1>2. PICK q \in Int : a = (q * M) + (a % M)
  BY Division
<1>3. PICK r \in Int : c = (r * M) + (c % M)
  BY <1>1, Division
<1>4. c % M \in Byte /\ c % M \in Int
  BY <1>1, Division DEF Byte
<1>5. a + b = (q * M) + c
  BY <1>1, <1>2
<1> HIDE DEF c
<1>6. (q + r) * M = (q * M) + (r * M)
  BY <1>1
<1> DEFINE d == c % M
<1>7. a + b = ((q + r) * M) + d
  <2>1. d \in Int /\ c = (r * M) + d
    BY <1>3, <1>4
  <2>2. q * M \in Int /\ r * M \in Int
    BY <1>1
  <2> HIDE DEF d
  <2> QED BY <2>1, <2>2, <1>5, <1>6
<1>8. (a + b) % M = d
  BY <1>4, <1>7, Rest
<1> QED BY <1>8 DEF c

-----------------------------------------------------------------------------
(* The checksum.                                                             *)

LEMMA BytesAreInts == ASSUME NEW s \in Seq(Byte) PROVE s \in Seq(Int)
<1>1. Byte \subseteq Int
  BY ByteAssumption DEF Byte
<1> QED BY <1>1, SeqMonotonic

LEMMA SumType == ASSUME NEW s \in Seq(Int) PROVE Sum(s) \in Byte
<1>1. Totals(s)[Len(s)] \in Int
  BY TotalsStep, LenProperties
<1> QED BY <1>1, Division, SumIsTotal

(* The sum of a frame and its checksum.                                      *)
LEMMA SumAppend ==
  ASSUME NEW s \in Seq(Int), NEW b \in Int
  PROVE  Sum(Append(s, b)) = (Sum(s) + b) % M
<1> DEFINE t == Append(s, b)
<1>1. /\ t \in Seq(Int) /\ Len(t) = Len(s) + 1 /\ Len(s) \in Nat
      /\ t[Len(s) + 1] = b /\ \A k \in 1 .. Len(s) : t[k] = s[k]
  BY AppendProperties, LenProperties
<1> HIDE DEF t
<1>2. Totals(t)[Len(s)] = Totals(s)[Len(s)]
  <2>1. Len(s) <= Len(s) /\ Len(s) <= Len(t) /\ \A k \in 1 .. Len(s) : s[k] = t[k]
    BY <1>1
  <2> QED BY <1>1, <2>1, SameTotals
<1>3. Totals(t)[Len(t)] = Totals(s)[Len(s)] + b
  <2>1. \A k \in 1 .. Len(t) : Totals(t)[k] = Totals(t)[k - 1] + t[k]
    BY <1>1, TotalsStep
  <2>2. Len(t) \in 1 .. Len(t) /\ Len(t) - 1 = Len(s)
    BY <1>1
  <2> QED BY <1>1, <1>2, <2>1, <2>2
<1>4. Totals(s)[Len(s)] \in Int
  BY <1>1, TotalsStep
<1>5. ((Totals(s)[Len(s)] % M) + b) % M = (Totals(s)[Len(s)] + b) % M
  BY <1>4, RestOfSum
<1>6. Sum(t) = (Sum(s) + b) % M
  BY <1>3, <1>5, SumIsTotal
<1> QED BY <1>6 DEF t

(* One byte changed by d changes the sum by d.                               *)
LEMMA SumChanged ==
  ASSUME NEW s \in Seq(Int), NEW i \in 1 .. Len(s), NEW e \in Int
  PROVE  Totals([s EXCEPT ![i] = e])[Len(s)] = Totals(s)[Len(s)] + e - s[i]
<1> DEFINE t == [s EXCEPT ![i] = e]
<1>1. /\ t \in Seq(Int) /\ Len(t) = Len(s) /\ Len(s) \in Nat
      /\ \A k \in 1 .. Len(s) : t[k] = (IF k = i THEN e ELSE s[k]) /\ s[k] \in Int
  BY ExceptSeq, LenProperties
<1> HIDE DEF t
<1>a. \A k \in 0 .. Len(s) : Totals(t)[k] \in Int /\ Totals(s)[k] \in Int
  BY <1>1, TotalsStep
<1>b. \A k \in 1 .. Len(s) : Totals(t)[k] = Totals(t)[k - 1] + t[k]
  BY <1>1, TotalsStep
<1>c. \A k \in 1 .. Len(s) : Totals(s)[k] = Totals(s)[k - 1] + s[k]
  BY TotalsStep
<1> DEFINE Bad == {k \in i .. Len(s) : Totals(t)[k] # Totals(s)[k] + e - s[i]}
<1>2. Bad = {}
  <2> SUFFICES ASSUME Bad # {} PROVE FALSE
    OBVIOUS
  <2>1. PICK j \in Bad : \A k \in Bad : j <= k
    <3>1. Bad \subseteq Nat
      OBVIOUS
    <3> HIDE DEF Bad
    <3> QED BY <3>1, Least
  <2>2. j \in 1 .. Len(s) /\ j - 1 \in 0 .. Len(s) /\ i \in Int
    BY <1>1, <2>1
  <2>3. CASE j = i
    <3>1. Totals(t)[j - 1] = Totals(s)[j - 1]
      <4>1. j - 1 \in Nat /\ j - 1 <= Len(t) /\ j - 1 <= Len(s) /\ \A k \in 1 .. (j - 1) : t[k] = s[k]
        BY <1>1, <2>2, <2>3
      <4> QED BY <1>1, <4>1, SameTotals
    <3>2. Totals(t)[j] = Totals(s)[j - 1] + e /\ Totals(s)[j] = Totals(s)[j - 1] + s[i]
      BY <1>1, <1>b, <1>c, <2>2, <2>3, <3>1
    <3>3. Totals(s)[j - 1] \in Int /\ s[i] \in Int
      BY <1>1, <1>a, <2>2
    <3>4. Totals(t)[j] = Totals(s)[j] + e - s[i]
      BY <3>2, <3>3
    <3> QED BY <2>1, <3>4
  <2>4. CASE j # i
    <3>1. Totals(t)[j - 1] = Totals(s)[j - 1] + e - s[i]
      BY <1>1, <2>1, <2>4
    <3>2. Totals(t)[j] = Totals(t)[j - 1] + s[j] /\ Totals(s)[j] = Totals(s)[j - 1] + s[j]
      BY <1>1, <1>b, <1>c, <2>2, <2>4
    <3>3. Totals(s)[j - 1] \in Int /\ s[i] \in Int /\ s[j] \in Int
      BY <1>1, <1>a, <2>2
    <3>4. Totals(t)[j] = Totals(s)[j] + e - s[i]
      BY <3>1, <3>2, <3>3
    <3> QED BY <2>1, <3>4
  <2> QED BY <2>3, <2>4
<1>3. Totals(t)[Len(s)] = Totals(s)[Len(s)] + e - s[i]
  <2>1. Len(s) \in i .. Len(s)
    BY <1>1
  <2> QED BY <2>1, <1>2
<1> QED BY <1>3 DEF t

(* A frame with its checksum sums up to 0 ...                                *)
LEMMA FramedFacts ==
  ASSUME NEW req \in Seq(Byte)
  PROVE  /\ Framed(req) \in Seq(Byte) /\ Len(Framed(req)) = Len(req) + 1
         /\ \A k \in 1 .. Len(req) : Framed(req)[k] = req[k]
         /\ Sum(Framed(req)) = 0
<1> DEFINE c == Sum(req)
           x == (M - c) % M
<1>1. M \in Nat /\ M > 0 /\ c \in 0 .. (M - 1)
  BY ByteAssumption, BytesAreInts, SumType DEF Byte
<1>2. x \in Byte /\ x \in Int
  BY <1>1, Division DEF Byte
<1>3. Framed(req) = Append(req, x)
  BY DEF Framed
<1>4. Sum(Framed(req)) = (c + x) % M
  <2> HIDE DEF x
  <2> QED BY <1>2, <1>3, BytesAreInts, SumAppend
<1>5. CASE c = 0
  <2>1. x = 0
    <3>1. M - c = (1 * M) + 0 /\ 0 \in Byte
      BY <1>1, <1>5 DEF Byte
    <3> QED BY <3>1, Rest
  <2>2. (0 * M) + 0 = c + x /\ 0 \in Byte
    BY <1>1, <1>5, <2>1 DEF Byte
  <2>3. (c + x) % M = 0
    BY <2>2, Rest
  <2> QED BY <1>2, <1>3, <1>4, <2>3, AppendProperties
<1>6. CASE c # 0
  <2>1. x = M - c
    <3>1. M - c = (0 * M) + (M - c) /\ M - c \in Byte
      BY <1>1, <1>6 DEF Byte
    <3> QED BY <3>1, Rest
  <2>2. (1 * M) + 0 = c + x /\ 0 \in Byte
    BY <1>1, <2>1 DEF Byte
  <2>3. (c + x) % M = 0
    BY <2>2, Rest
  <2> QED BY <1>2, <1>3, <1>4, <2>3, AppendProperties
<1> QED BY <1>5, <1>6

(* ... and one that has a byte changed on the line does not.                 *)
Disturbed(f, k, d) == [f EXCEPT ![k] = (f[k] + d) % M]

LEMMA DisturbedFacts ==
  ASSUME NEW f \in Seq(Byte), NEW i \in 1 .. Len(f), NEW d \in 1 .. (M - 1), Sum(f) = 0
  PROVE  /\ Disturbed(f, i, d) \in Seq(Byte) /\ Len(Disturbed(f, i, d)) = Len(f)
         /\ \A k \in 1 .. Len(f) : k # i => Disturbed(f, i, d)[k] = f[k]
         /\ Sum(Disturbed(f, i, d)) = d
<1> DEFINE e == (f[i] + d) % M
           g == Disturbed(f, i, d)
           t == Totals(f)[Len(f)]
<1>1. M \in Nat /\ M > 0 /\ f[i] \in Int /\ d \in Int /\ d \in Byte
  BY ByteAssumption, ElementOfSeq DEF Byte
<1>2. e \in Byte /\ e \in Int
  BY <1>1, Division DEF Byte
<1>3. PICK q \in Int : f[i] + d = (q * M) + e
  <2>1. f[i] + d \in Int
    BY <1>1
  <2> QED BY <2>1, Division
<1>4. t \in Int /\ t % M = 0
  BY BytesAreInts, TotalsStep, SumIsTotal, LenProperties
<1>5. PICK r \in Int : t = (r * M) + 0
  BY <1>4, Division
<1>6. g = [f EXCEPT ![i] = e]
  BY DEF Disturbed
<1> HIDE DEF e, t
<1>7. /\ g \in Seq(Byte) /\ Len(g) = Len(f)
      /\ \A k \in 1 .. Len(f) : k # i => g[k] = f[k]
  BY <1>2, <1>6, ExceptSeq
<1>8. Totals(g)[Len(f)] = t + e - f[i]
  <2>1. f \in Seq(Int)
    BY BytesAreInts
  <2>2. Totals([f EXCEPT ![i] = e])[Len(f)] = Totals(f)[Len(f)] + e - f[i]
    BY <1>2, <2>1, SumChanged
  <2> QED BY <1>6, <2>2 DEF t
<1>9. t + e - f[i] = ((r - q) * M) + d
  <2>1. (r - q) * M = (r * M) - (q * M) /\ r * M \in Int /\ q * M \in Int
    BY <1>1
  <2> QED BY <1>1, <1>2, <1>3, <1>5, <2>1
<1>10. Sum(g) = d
  <2>1. Sum(g) = (t + e - f[i]) % M
    BY <1>7, <1>8, SumIsTotal
  <2>2. r - q \in Int
    OBVIOUS
  <2>3. (((r - q) * M) + d) % M = d
    BY <1>1, <2>2, Rest
  <2> QED BY <1>9, <2>1, <2>3
<1> QED BY <1>7, <1>10

-----------------------------------------------------------------------------
(* The buffer and the line.                                                  *)

Buffer == [0 .. (M + 1) -> Byte]

(* A frame on its way is in the buffer as far as it is read, and on the      *)
(* line from there on.                                                       *)
Arriving(buf, i, rest) == Take(buf, 0, i) \o rest

LEMMA TakeFacts ==
  ASSUME NEW buf \in Buffer, NEW i \in Nat, NEW len \in Nat, i + len <= M + 2
  PROVE  /\ Take(buf, i, len) \in Seq(Byte) /\ Len(Take(buf, i, len)) = len
         /\ \A k \in 1 .. len : Take(buf, i, len)[k] = buf[i + k - 1]
<1>1. \A k \in 1 .. len : buf[i + k - 1] \in Byte
  BY ByteAssumption DEF Buffer
<1> QED BY <1>1 DEF Take

LEMMA ArrivingFacts ==
  ASSUME NEW buf \in Buffer, NEW i \in 0 .. (M + 2), NEW rest \in Seq(Byte)
  PROVE  /\ Arriving(buf, i, rest) \in Seq(Byte)
         /\ Len(Arriving(buf, i, rest)) = i + Len(rest)
         /\ \A k \in 1 .. i : Arriving(buf, i, rest)[k] = buf[k - 1]
         /\ \A k \in 1 .. Len(rest) : Arriving(buf, i, rest)[i + k] = rest[k]
<1> DEFINE t == Take(buf, 0, i)
<1>1. t \in Seq(Byte) /\ Len(t) = i /\ \A k \in 1 .. i : t[k] = buf[k - 1]
  <2>1. i \in Nat /\ 0 + i <= M + 2 /\ \A k \in 1 .. i : 0 + k - 1 = k - 1
    BY ByteAssumption
  <2> QED BY <2>1, TakeFacts
<1> HIDE DEF t
<1>2. Len(rest) \in Nat
  BY LenProperties
<1>3. /\ t \o rest \in Seq(Byte) /\ Len(t \o rest) = i + Len(rest)
      /\ \A k \in 1 .. (i + Len(rest)) : (t \o rest)[k] = IF k <= i THEN t[k] ELSE rest[k - i]
  BY <1>1, ConcatProperties
<1>4. \A k \in 1 .. i : (t \o rest)[k] = buf[k - 1]
  BY <1>1, <1>2, <1>3
<1>5. \A k \in 1 .. Len(rest) : (t \o rest)[i + k] = rest[k]
  BY <1>2, <1>3
<1> QED BY <1>3, <1>4, <1>5 DEF t, Arriving

(* Reading a byte of it changes nothing of the frame.                        *)
StoredAt(buf, i, b) == [buf EXCEPT ![i] = b]

LEMMA ReadKeeps ==
  ASSUME NEW buf \in Buffer, NEW i \in 0 .. (M + 1), NEW rest \in Seq(Byte), rest # <<>>
  PROVE  /\ StoredAt(buf, i, Head(rest)) \in Buffer
         /\ Tail(rest) \in Seq(Byte)
         /\ Arriving(StoredAt(buf, i, Head(rest)), i + 1, Tail(rest)) = Arriving(buf, i, rest)
<1> DEFINE new == StoredAt(buf, i, Head(rest))
           v == Arriving(new, i + 1, Tail(rest))
           w == Arriving(buf, i, rest)
<1>1. /\ Head(rest) \in Byte /\ Head(rest) = rest[1] /\ Tail(rest) \in Seq(Byte) /\ Len(rest) \in Nat \ {0}
      /\ Len(Tail(rest)) = Len(rest) - 1
      /\ \A k \in 1 .. Len(Tail(rest)) : Tail(rest)[k] = rest[k + 1]
  BY HeadTailProperties, EmptySeq
<1>2. new \in Buffer /\ new[i] = Head(rest) /\ \A k \in 0 .. (M + 1) : k # i => new[k] = buf[k]
  BY <1>1 DEF StoredAt, Buffer
<1>3. i + 1 \in 0 .. (M + 2) /\ i \in 0 .. (M + 2)
  BY ByteAssumption
<1> HIDE DEF new
<1>4. /\ v \in Seq(Byte) /\ Len(v) = i + 1 + Len(Tail(rest))
      /\ \A k \in 1 .. (i + 1) : v[k] = new[k - 1]
      /\ \A k \in 1 .. Len(Tail(rest)) : v[i + 1 + k] = Tail(rest)[k]
  BY <1>1, <1>2, <1>3, ArrivingFacts
<1>5. /\ w \in Seq(Byte) /\ Len(w) = i + Len(rest)
      /\ \A k \in 1 .. i : w[k] = buf[k - 1]
      /\ \A k \in 1 .. Len(rest) : w[i + k] = rest[k]
  BY <1>3, ArrivingFacts
<1> HIDE DEF v, w
<1>6. Len(v) = Len(w)
  BY <1>1, <1>3, <1>4, <1>5
<1>7. ASSUME NEW k \in 1 .. Len(v) PROVE v[k] = w[k]
  <2>1. CASE k <= i
    <3>1. k \in 1 .. i /\ k \in 1 .. (i + 1) /\ k - 1 \in 0 .. (M + 1) /\ k - 1 # i
      BY <1>3, <1>4, <2>1, ByteAssumption
    <3> QED BY <1>2, <1>4, <1>5, <3>1
  <2>2. CASE k = i + 1
    BY <1>1, <1>2, <1>3, <1>4, <1>5, <2>2
  <2>3. CASE k > i + 1
    <3>1. k - i - 1 \in 1 .. Len(Tail(rest)) /\ k - i \in 1 .. Len(rest)
      BY <1>1, <1>3, <1>4, <2>3
    <3>2. v[k] = Tail(rest)[k - i - 1] /\ w[k] = rest[k - i]
      <4>1. i + 1 + (k - i - 1) = k /\ i + (k - i) = k
        BY <1>3, <3>1
      <4> QED BY <1>4, <1>5, <3>1, <4>1
    <3> QED BY <1>1, <3>1, <3>2
  <2> QED BY <1>3, <1>4, <2>1, <2>2, <2>3
<1>8. v = w
  BY <1>4, <1>5, <1>6, <1>7, SeqEqual
<1> QED BY <1>1, <1>2, <1>8 DEF new, v, w

-----------------------------------------------------------------------------
(* The reply.                                                                *)

LEMMA Sizes ==
  /\ M \in Nat /\ M > 24 /\ COMSZ \in Nat /\ COMSZ >= 8 /\ COMSZ <= M - 16
  /\ REGS \in Nat /\ REGS + 4 <= COMSZ
  /\ TSTG \in Seq(Byte) /\ Len(TSTG) \in Nat /\ Len(TSTG) + 3 <= COMSZ
  /\ \A b \in Byte : b \in Nat /\ b < M
BY ByteAssumption, RegsAssumption, HostAssumption, LenProperties DEF FN_ERROR, Byte

LEMMA BufferBytes ==
  ASSUME NEW buf \in Buffer
  PROVE  /\ DOMAIN buf = 0 .. (M + 1)
         /\ \A k \in 0 .. (M + 1) : buf[k] \in Byte /\ buf[k] \in Nat /\ buf[k] < M
         /\ buf[1] \in Nat /\ buf[1] < M
<1>1. DOMAIN buf = 0 .. (M + 1) /\ \A k \in 0 .. (M + 1) : buf[k] \in Byte
  BY DEF Buffer
<1>2. 1 \in 0 .. (M + 1)
  BY Sizes
<1> QED BY <1>1, <1>2, Sizes

(* The front of the buffer.                                                  *)
LEMMA FrontFacts ==
  ASSUME NEW buf \in Buffer, NEW len \in Nat, len <= M + 2
  PROVE  /\ Take(buf, 0, len) \in Seq(Byte) /\ Len(Take(buf, 0, len)) = len
         /\ \A k \in 1 .. len : Take(buf, 0, len)[k] = buf[k - 1]
<1>1. 0 \in Nat /\ 0 + len <= M + 2 /\ \A k \in 1 .. len : 0 + k - 1 = k - 1
  OBVIOUS
<1>2. /\ Take(buf, 0, len) \in Seq(Byte) /\ Len(Take(buf, 0, len)) = len
      /\ \A k \in 1 .. len : Take(buf, 0, len)[k] = buf[0 + k - 1]
  BY <1>1, TakeFacts
<1> QED BY <1>1, <1>2

(* What the buffer and the memory are written with are bytes.                *)
LEMMA PutFacts ==
  ASSUME NEW buf \in Buffer, NEW i \in Nat, NEW bytes \in Seq(Byte)
  PROVE  /\ Put(buf, i, bytes) \in Buffer
         /\ \A k \in 0 .. (M + 1) :
              Put(buf, i, bytes)[k] =
                IF k \in i .. (i + Len(bytes) - 1) THEN bytes[k - i + 1] ELSE buf[k]
<1>1. DOMAIN buf = 0 .. (M + 1) /\ \A k \in 0 .. (M + 1) : buf[k] \in Byte
  BY DEF Buffer
<1>2. Len(bytes) \in Nat /\ \A k \in 1 .. Len(bytes) : bytes[k] \in Byte
  BY LenProperties
<1>3. ASSUME NEW k \in 0 .. (M + 1), k \in i .. (i + Len(bytes) - 1) PROVE bytes[k - i + 1] \in Byte
  <2>1. k - i + 1 \in 1 .. Len(bytes)
    BY <1>2, <1>3, Sizes
  <2> QED BY <1>2, <2>1
<1> QED BY <1>1, <1>3 DEF Put, Buffer

LEMMA PeekType == ASSUME NEW m \in [Ram -> Byte], NEW a PROVE Peek(m, a) \in Byte
BY HostAssumption DEF Peek

LEMMA ChecksumIsSum ==
  ASSUME NEW buf \in Buffer
  PROVE  /\ Checksum(buf) \in Byte
         /\ buf[1] + 2 < M => Checksum(buf) = Sum(Take(buf, 0, buf[1] + 2))
<1> DEFINE len == (buf[1] + 2) % M
           read == [k \in 1 .. len |-> buf[k - 1]]
<1>1. buf[1] \in Byte /\ buf[1] \in Nat /\ buf[1] + 2 \in Int
  BY Sizes DEF Buffer
<1>2. len \in Nat /\ len < M
  BY <1>1, Division, Sizes
<1>3. read \in Seq(Byte)
  <2>1. \A k \in 1 .. len : k - 1 \in 0 .. (M + 1)
    BY <1>2, Sizes
  <2>2. \A k \in 1 .. len : buf[k - 1] \in Byte
    BY <2>1, BufferBytes
  <2> HIDE DEF len
  <2> QED BY <1>2, <2>2
<1>4. Checksum(buf) = Sum(read)
  BY DEF Checksum
<1>5. Checksum(buf) \in Byte
  <2> HIDE DEF read
  <2> QED BY <1>3, <1>4, BytesAreInts, SumType
<1>6. ASSUME buf[1] + 2 < M PROVE len = buf[1] + 2
  <2>1. buf[1] + 2 \in Byte /\ (0 * M) + (buf[1] + 2) = buf[1] + 2
    BY <1>1, <1>6, Sizes DEF Byte
  <2> QED BY <2>1, Rest
<1>7. ASSUME buf[1] + 2 < M PROVE read = Take(buf, 0, buf[1] + 2)
  BY <1>6, <1>7, <1>1 DEF Take
<1> QED BY <1>4, <1>5, <1>7

LEMMA SummedFacts ==
  ASSUME NEW buf \in Buffer
  PROVE  /\ Summed(buf) \in Buffer
         /\ \A k \in 0 .. (M + 1) : k # buf[1] + 2 => Summed(buf)[k] = buf[k]
         /\ Summed(buf)[buf[1] + 2] = (M - Checksum(buf)) % M
<1> DEFINE x == (M - Checksum(buf)) % M
<1>1. x \in Byte
  <2>1. M - Checksum(buf) \in Int
    BY ChecksumIsSum, Sizes
  <2> QED BY <2>1, Division
<1>2. buf[1] + 2 \in 0 .. (M + 1)
  BY Sizes, BufferBytes
<1>3. Summed(buf) = [buf EXCEPT ![buf[1] + 2] = x]
  BY DEF Summed
<1> HIDE DEF x
<1>4. Summed(buf) \in Buffer /\ Summed(buf)[buf[1] + 2] = x
  BY <1>1, <1>2, <1>3 DEF Buffer
<1>5. \A k \in 0 .. (M + 1) : k # buf[1] + 2 => Summed(buf)[k] = buf[k]
  BY <1>3 DEF Buffer
<1> QED BY <1>4, <1>5 DEF x

(* What is sent is the frame in the buffer, with a checksum that fits.       *)
LEMMA WireIsFramed ==
  ASSUME NEW buf \in Buffer, buf[1] + 3 < M
  PROVE  Wire(buf) = Framed(Take(buf, 0, buf[1] + 2))
<1> DEFINE len == buf[1]
           w == Take(buf, 0, len + 2)
           x == (M - Sum(w)) % M
           v == Take(Summed(buf), 0, len + 3)
<1>1. len \in Nat /\ len + 3 < M
  BY Sizes DEF Buffer
<1>2. w \in Seq(Byte) /\ Len(w) = len + 2 /\ \A k \in 1 .. (len + 2) : w[k] = buf[k - 1]
  <2>1. len + 2 <= M + 2 /\ len + 2 \in Nat
    BY <1>1, Sizes
  <2> HIDE DEF len
  <2> QED BY <2>1, FrontFacts
<1>3. Checksum(buf) = Sum(w) /\ Sum(w) \in Byte /\ x \in Byte
  <2>1. buf[1] + 2 < M
    BY <1>1, Sizes
  <2>2. Checksum(buf) = Sum(w) /\ Sum(w) \in Byte
    BY <2>1, ChecksumIsSum
  <2>3. M - Sum(w) \in Int
    BY <2>2, Sizes
  <2> QED BY <2>2, <2>3, Division
<1>4. v \in Seq(Byte) /\ Len(v) = len + 3 /\ \A k \in 1 .. (len + 3) : v[k] = Summed(buf)[k - 1]
  <2>1. len + 3 <= M + 2 /\ len + 3 \in Nat /\ Summed(buf) \in Buffer
    BY <1>1, Sizes, SummedFacts
  <2> HIDE DEF len
  <2> QED BY <2>1, FrontFacts
<1>5. Wire(buf) = v
  <2>1. len + 3 \in Byte /\ (0 * M) + (len + 3) = len + 3
    BY <1>1, Sizes DEF Byte
  <2>2. (len + 3) % M = len + 3
    BY <2>1, Rest
  <2> QED BY <2>2 DEF Wire
<1> HIDE DEF w, v, x
<1>6. /\ Append(w, x) \in Seq(Byte) /\ Len(Append(w, x)) = len + 3 /\ Append(w, x)[len + 3] = x
      /\ \A k \in 1 .. (len + 2) : Append(w, x)[k] = w[k]
  <2>1. Len(w) + 1 = len + 3
    BY <1>1, <1>2
  <2> QED BY <1>2, <1>3, <2>1, AppendProperties
<1>7. ASSUME NEW k \in 1 .. (len + 3) PROVE v[k] = Append(w, x)[k]
  <2>1. CASE k = len + 3
    <3>1. k - 1 = buf[1] + 2
      BY <1>1, <2>1
    <3> QED BY <1>3, <1>4, <1>6, <2>1, <3>1, SummedFacts DEF x
  <2>2. CASE k # len + 3
    <3>1. k \in 1 .. (len + 2) /\ k - 1 \in 0 .. (M + 1) /\ k - 1 # buf[1] + 2
      BY <1>1, <2>2, Sizes
    <3> QED BY <1>2, <1>4, <1>6, <3>1, SummedFacts
  <2> QED BY <2>1, <2>2
<1>8. v = Append(w, x)
  BY <1>4, <1>6, <1>7, SeqEqual
<1> QED BY <1>5, <1>8 DEF w, x, Framed

(* A buffer that holds a function, a length and as many bytes.               *)
Holds(buf, fn, data) ==
  /\ buf \in Buffer /\ buf[0] = fn /\ buf[1] = Len(data)
  /\ \A k \in 1 .. Len(data) : buf[k + 1] = data[k]

LEMMA ReplyIs ==
  ASSUME NEW buf, NEW fn \in Byte, NEW data \in Seq(Byte), Len(data) + 3 < M, Holds(buf, fn, data)
  PROVE  Wire(buf) = Framed(FrameOf(fn, data))
<1> DEFINE len == Len(data)
           w == Take(buf, 0, len + 2)
           v == FrameOf(fn, data)
<1>1. len \in Nat /\ len + 3 < M /\ buf \in Buffer /\ buf[0] = fn /\ buf[1] = len
  BY LenProperties DEF Holds
<1>2. Wire(buf) = Framed(w)
  BY <1>1, WireIsFramed
<1>3. w \in Seq(Byte) /\ Len(w) = len + 2 /\ \A k \in 1 .. (len + 2) : w[k] = buf[k - 1]
  <2>1. len + 2 <= M + 2 /\ len + 2 \in Nat
    BY <1>1, Sizes
  <2> HIDE DEF len
  <2> QED BY <1>1, <2>1, FrontFacts
<1>4. /\ v \in Seq(Byte) /\ Len(v) = len + 2 /\ v[1] = fn /\ v[2] = len
      /\ \A k \in 3 .. (len + 2) : v[k] = data[k - 2]
  <2> DEFINE head == <<fn, len>>
  <2>1. len \in Byte
    BY <1>1, Sizes DEF Byte
  <2>2. head \in Seq(Byte) /\ Len(head) = 2 /\ head[1] = fn /\ head[2] = len
    BY <2>1
  <2> HIDE DEF head
  <2>3. /\ head \o data \in Seq(Byte) /\ Len(head \o data) = Len(head) + len
        /\ \A k \in 1 .. (Len(head) + len) :
              (head \o data)[k] = IF k <= Len(head) THEN head[k] ELSE data[k - Len(head)]
    <3> HIDE DEF len
    <3> QED BY <2>2, ConcatProperties DEF len
  <2>4. v = head \o data
    BY DEF head, FrameOf
  <2> HIDE DEF v
  <2> QED BY <1>1, <2>2, <2>3, <2>4
<1> HIDE DEF w, v
<1>5. ASSUME NEW k \in 1 .. (len + 2) PROVE w[k] = v[k]
  <2>1. CASE k = 1
    BY <1>1, <1>3, <1>4, <2>1
  <2>2. CASE k = 2
    BY <1>1, <1>3, <1>4, <2>2
  <2>3. CASE k > 2
    <3>1. k - 2 \in 1 .. len /\ (k - 2) + 1 = k - 1 /\ k \in 3 .. (len + 2)
      BY <1>1, <2>3
    <3>2. buf[k - 1] = data[k - 2]
      BY <3>1 DEF Holds
    <3> QED BY <1>3, <1>4, <3>1, <3>2
  <2> QED BY <1>1, <2>1, <2>2, <2>3
<1>6. w = v
  BY <1>3, <1>4, <1>5, SeqEqual
<1> QED BY <1>2, <1>6 DEF v

-----------------------------------------------------------------------------
(* SET_BYTES, which reads its list from the buffer it writes the old bytes   *)
(* over.                                                                     *)

Passes == [buf : Buffer, mem : [Ram -> Byte], ll : Nat, out : BOOLEAN]

SetAfter(buf, m) ==
    LET after[k \in 0 .. (buf[1] \div SB_LEN)] ==
            IF k = 0 THEN [buf |-> buf, mem |-> m, ll |-> 0, out |-> FALSE]
            ELSE SetByte(after[k - 1], k)
    IN  after

LEMMA SetAfterExists ==
  ASSUME NEW buf, NEW m, buf[1] \in Nat
  PROVE  LET len == buf[1] \div SB_LEN
         IN  /\ len \in Nat
             /\ SetAfter(buf, m)[0] = [buf |-> buf, mem |-> m, ll |-> 0, out |-> FALSE]
             /\ \A k \in 1 .. len : SetAfter(buf, m)[k] = SetByte(SetAfter(buf, m)[k - 1], k)
<1> DEFINE len == buf[1] \div SB_LEN
           first == [buf |-> buf, mem |-> m, ll |-> 0, out |-> FALSE]
           Solves(f, h) == f = [k \in 0 .. h |-> IF k = 0 THEN first ELSE SetByte(f[k - 1], k)]
           Bad == {h \in Nat : ~\E f : Solves(f, h)}
<1>0. len \in Nat
  BY DEF SB_LEN
<1> HIDE DEF len, first
<1>1. Bad = {}
  <2> SUFFICES ASSUME Bad # {} PROVE FALSE
    OBVIOUS
  <2>1. PICK h \in Bad : \A j \in Bad : h <= j
    <3> HIDE DEF Solves
    <3> QED BY Least
  <2>2. Solves([k \in {0} |-> first], 0)
    OBVIOUS
  <2>3. h # 0
    BY <2>1, <2>2
  <2>4. PICK f : Solves(f, h - 1)
    BY <2>1, <2>3
  <2> DEFINE g == [k \in 0 .. h |-> IF k = h THEN SetByte(f[h - 1], h) ELSE f[k]]
  <2>5. Solves(g, h)
    <3>1. \A k \in 0 .. (h - 1) : f[k] = IF k = 0 THEN first ELSE SetByte(f[k - 1], k)
      BY <2>4
    <3>2. ASSUME NEW k \in 0 .. h PROVE g[k] = IF k = 0 THEN first ELSE SetByte(g[k - 1], k)
      <4>1. CASE k = h
        BY <4>1, <2>1, <2>3
      <4>2. CASE k # h
        <5>1. k \in 0 .. (h - 1) /\ (k # 0 => k - 1 \in 0 .. (h - 1) /\ k - 1 # h)
          BY <4>2, <2>1
        <5>2. g[k] = f[k] /\ (k # 0 => g[k - 1] = f[k - 1])
          BY <5>1, <4>2, <2>1
        <5> QED BY <5>1, <5>2, <3>1
      <4> QED BY <4>1, <4>2
    <3> QED BY <3>2
  <2> QED BY <2>5, <2>1
<1>2. \E f : Solves(f, len)
  BY <1>0, <1>1
<1>3. SetAfter(buf, m) = CHOOSE f : Solves(f, len)
  BY DEF SetAfter, len, first
<1>4. Solves(SetAfter(buf, m), len)
  <2> HIDE DEF Solves
  <2> QED BY <1>2, <1>3
<1>5. /\ SetAfter(buf, m)[0] = first
      /\ \A k \in 1 .. len : SetAfter(buf, m)[k] = SetByte(SetAfter(buf, m)[k - 1], k)
  <2>1. \A k \in 0 .. len : SetAfter(buf, m)[k] = IF k = 0 THEN first ELSE SetByte(SetAfter(buf, m)[k - 1], k)
    BY <1>4
  <2> HIDE DEF Solves
  <2> QED BY <1>0, <2>1
<1> QED BY <1>0, <1>5 DEF len, first

(* One address and byte: it sticks, or ends the list.                        *)
PassAt(s, addr, d) ==
    LET m == Poke(s.mem, addr, d)
    IN  IF s.out THEN s
        ELSE IF Peek(m, addr) # d THEN [s EXCEPT !.mem = m, !.out = TRUE]
        ELSE [buf |-> [s.buf EXCEPT ![2 + s.ll] = Peek(s.mem, addr)],
              mem |-> m, ll |-> s.ll + 1, out |-> FALSE]

LEMMA SetByteFacts ==
  ASSUME NEW s \in Passes, NEW k \in Nat, k >= 1, 2 * k <= M, s.ll < k
  PROVE  LET addr == s.buf[2 * k]
             d == s.buf[2 * k + 1]
             sticks == addr \in Ram \/ Rom = d
             new == SetByte(s, k)
         IN  /\ new \in Passes
             /\ s.out => new = s
             /\ ~s.out /\ sticks =>
                  /\ new.buf = StoredAt(s.buf, 2 + s.ll, Peek(s.mem, addr))
                  /\ new.mem = Poke(s.mem, addr, d)
                  /\ new.ll = s.ll + 1 /\ ~new.out
             /\ ~s.out /\ ~sticks =>
                  new.buf = s.buf /\ new.mem = s.mem /\ new.ll = s.ll /\ new.out
<1> DEFINE addr == s.buf[2 * k]
           d == s.buf[2 * k + 1]
           m == Poke(s.mem, addr, d)
           stuck == Peek(m, addr) = d
           cut == [s EXCEPT !.mem = m, !.out = TRUE]
           buf == StoredAt(s.buf, 2 + s.ll, Peek(s.mem, addr))
           on == [buf |-> buf, mem |-> m, ll |-> s.ll + 1, out |-> FALSE]
<1>a. s.buf \in Buffer /\ s.mem \in [Ram -> Byte] /\ s.ll \in Nat /\ s.out \in BOOLEAN
  BY DEF Passes
<1>b. d \in Byte
  <2>1. 2 * k + 1 \in 0 .. (M + 1)
    BY Sizes
  <2> QED BY <1>a, <2>1, BufferBytes
<1>1. SetByte(s, k) = IF s.out THEN s ELSE IF ~stuck THEN cut ELSE on
  <2> DEFINE i == 2 + SB_LEN * (k - 1)
  <2>1. SetByte(s, k) = PassAt(s, s.buf[i], s.buf[i + 1])
    BY DEF SetByte, PassAt
  <2>2. i = 2 * k
    BY DEF SB_LEN
  <2> HIDE DEF i
  <2>3. SetByte(s, k) = PassAt(s, addr, d)
    BY <2>1, <2>2
  <2> QED BY <2>3 DEF PassAt, StoredAt
<1>2. m \in [Ram -> Byte] /\ (addr \in Ram => m[addr] = d) /\ (addr \notin Ram => m = s.mem)
  BY <1>a, <1>b DEF Poke
<1>3. stuck <=> addr \in Ram \/ Rom = d
  BY <1>2 DEF Peek
<1>4. buf \in Buffer
  <2>1. Peek(s.mem, addr) \in Byte
    BY <1>a, PeekType
  <2> HIDE DEF addr
  <2> QED BY <1>a, <2>1 DEF StoredAt, Buffer
<1> HIDE DEF m, buf, addr, d, stuck
<1>5. cut \in Passes /\ cut.buf = s.buf /\ cut.mem = m /\ cut.ll = s.ll /\ cut.out = TRUE
  BY <1>2 DEF Passes
<1>6. on \in Passes /\ on.buf = buf /\ on.mem = m /\ on.ll = s.ll + 1 /\ on.out = FALSE
  BY <1>a, <1>2, <1>4 DEF Passes
<1> HIDE DEF cut, on
<1>7. CASE s.out
  BY <1>1, <1>7
<1>8. CASE ~s.out /\ stuck
  <2>1. SetByte(s, k) = on
    BY <1>1, <1>8
  <2> QED BY <1>3, <1>6, <1>8, <2>1 DEF m, buf, addr, d
<1>9. CASE ~s.out /\ ~stuck
  <2>1. SetByte(s, k) = cut
    BY <1>1, <1>9
  <2> QED BY <1>2, <1>3, <1>5, <1>9, <2>1 DEF addr, d
<1> QED BY <1>7, <1>8, <1>9

(* What a cell holds after one pair more.                                    *)
LEMMA AfterFacts ==
  ASSUME NEW m, NEW req, NEW k \in Nat, NEW a
  PROVE  /\ After(m, req, 0, a) = Peek(m, a)
         /\ After(m, req, k + 1, a) =
              IF a \in Ram /\ AddrOf(req, k + 1) = a THEN ByteOf(req, k + 1) ELSE After(m, req, k, a)
<1> DEFINE Hits(i) == {j \in 1 .. i : AddrOf(req, j) = a}
           last == CHOOSE j \in Hits(k + 1) : \A h \in Hits(k + 1) : h <= j
<1>1. After(m, req, 0, a) = Peek(m, a)
  <2>1. Hits(0) = {}
    OBVIOUS
  <2> QED BY <2>1 DEF After
<1>2. CASE AddrOf(req, k + 1) = a
  <2>1. k + 1 \in Hits(k + 1) /\ \A h \in Hits(k + 1) : h <= k + 1
    BY <1>2
  <2>2. \A j \in Hits(k + 1) : (\A h \in Hits(k + 1) : h <= j) => j = k + 1
    BY <2>1
  <2>3. last = k + 1
    <3> HIDE DEF Hits
    <3> QED BY <2>1, <2>2
  <2>4. Hits(k + 1) # {}
    BY <2>1
  <2>5. After(m, req, k + 1, a) = IF a \notin Ram \/ Hits(k + 1) = {} THEN Peek(m, a) ELSE ByteOf(req, last)
    BY DEF After
  <2>6. After(m, req, k, a) = IF a \notin Ram THEN Peek(m, a) ELSE After(m, req, k, a)
    BY DEF After
  <2> HIDE DEF last, Hits
  <2> QED BY <1>1, <1>2, <2>3, <2>4, <2>5, <2>6
<1>3. CASE AddrOf(req, k + 1) # a
  <2>1. Hits(k + 1) = Hits(k)
    BY <1>3
  <2> DEFINE Value(h) ==
        IF a \notin Ram \/ h = {} THEN Peek(m, a) ELSE ByteOf(req, CHOOSE j \in h : \A g \in h : g <= j)
  <2>2. After(m, req, k + 1, a) = Value(Hits(k + 1)) /\ After(m, req, k, a) = Value(Hits(k))
    BY DEF After
  <2>3. After(m, req, k + 1, a) = After(m, req, k, a)
    <3> HIDE DEF Value, Hits
    <3> QED BY <2>1, <2>2
  <2> HIDE DEF Hits
  <2> QED BY <1>1, <1>3, <2>3
<1> QED BY <1>2, <1>3

(* The list is done up to where it ends: the cells hold what the pairs done  *)
(* leave, the buffer holds in front what the cells held before and behind    *)
(* what of the request is still to be read.                                  *)
ListDone(s, k, buf, m) ==
  LET req == Take(buf, 0, buf[1] + 2)
  IN  /\ s \in Passes /\ s.ll <= k /\ (~s.out => s.ll = k)
      /\ s.out => s.ll < k /\ ~Sticks(req, s.ll + 1)
      /\ \A j \in 1 .. s.ll : Sticks(req, j)
      /\ \A c \in Ram : s.mem[c] = After(m, req, s.ll, c)
      /\ s.buf[0] = buf[0] /\ s.buf[1] = buf[1]
      /\ \A j \in 1 .. s.ll : s.buf[j + 1] = After(m, req, j - 1, AddrOf(req, j))
      /\ \A i \in (s.ll + 2) .. (M + 1) : s.buf[i] = buf[i]

LEMMA StoredFacts ==
  ASSUME NEW buf \in Buffer, NEW i \in 0 .. (M + 1), NEW b
  PROVE  /\ StoredAt(buf, i, b)[i] = b
         /\ \A j \in 0 .. (M + 1) : j # i => StoredAt(buf, i, b)[j] = buf[j]
BY DEF StoredAt, Buffer

LEMMA ListStep ==
  ASSUME NEW buf \in Buffer, NEW m \in [Ram -> Byte], NEW s, NEW k \in Nat,
         k >= 1, 2 * k <= buf[1], ListDone(s, k - 1, buf, m)
  PROVE  ListDone(SetByte(s, k), k, buf, m)
<1> DEFINE req == Take(buf, 0, buf[1] + 2)
           new == SetByte(s, k)
           addr == s.buf[2 * k]
           d == s.buf[2 * k + 1]
<1>a. /\ s \in Passes /\ s.buf \in Buffer /\ s.mem \in [Ram -> Byte] /\ s.ll \in Nat /\ s.out \in BOOLEAN
      /\ s.ll <= k - 1 /\ (~s.out => s.ll = k - 1)
      /\ s.out => s.ll < k - 1 /\ ~Sticks(req, s.ll + 1)
      /\ \A j \in 1 .. s.ll : Sticks(req, j)
      /\ \A c \in Ram : s.mem[c] = After(m, req, s.ll, c)
      /\ s.buf[0] = buf[0] /\ s.buf[1] = buf[1]
      /\ \A j \in 1 .. s.ll : s.buf[j + 1] = After(m, req, j - 1, AddrOf(req, j))
      /\ \A i \in (s.ll + 2) .. (M + 1) : s.buf[i] = buf[i]
  BY DEF ListDone, Passes
<1>b. buf[1] \in Nat /\ buf[1] < M /\ 2 * k <= M /\ 2 * k \in 0 .. (M + 1) /\ 2 * k + 1 \in 0 .. (M + 1)
  <2>1. buf[1] \in Nat /\ buf[1] < M
    BY BufferBytes
  <2>2. \A h \in Nat : k >= 1 /\ 2 * k <= h /\ h < M => 2 * k <= M /\ 2 * k \in 0 .. (M + 1) /\ 2 * k + 1 \in 0 .. (M + 1)
    BY Sizes
  <2> QED BY <2>1, <2>2
<1>c. AddrOf(req, k) = buf[2 * k] /\ ByteOf(req, k) = buf[2 * k + 1]
  <2>1. buf[1] + 2 \in Nat /\ buf[1] + 2 <= M + 2 /\ 2 * k + 1 \in 1 .. (buf[1] + 2) /\ 2 * k + 2 \in 1 .. (buf[1] + 2)
    <3>1. \A h \in Nat : 2 * k <= h /\ h < M =>
            h + 2 \in Nat /\ h + 2 <= M + 2 /\ 2 * k + 1 \in 1 .. (h + 2) /\ 2 * k + 2 \in 1 .. (h + 2)
      BY Sizes
    <3> QED BY <1>b, <3>1
  <2>2. req[2 * k + 1] = buf[(2 * k + 1) - 1] /\ req[2 * k + 2] = buf[(2 * k + 2) - 1]
    <3> DEFINE len == buf[1] + 2
    <3> HIDE DEF len
    <3>1. \A i \in 1 .. len : Take(buf, 0, len)[i] = buf[i - 1]
      BY <2>1, FrontFacts DEF len
    <3> QED BY <2>1, <3>1 DEF len
  <2>3. (2 * k + 1) - 1 = 2 * k /\ (2 * k + 2) - 1 = 2 * k + 1
    OBVIOUS
  <2> QED BY <2>2, <2>3 DEF AddrOf, ByteOf
<1>d. addr = AddrOf(req, k) /\ d = ByteOf(req, k)
  <2>1. 2 * k \in (s.ll + 2) .. (M + 1) /\ 2 * k + 1 \in (s.ll + 2) .. (M + 1)
    BY <1>a, <1>b
  <2> QED BY <1>a, <1>c, <2>1
<1>e. Sticks(req, k) <=> addr \in Ram \/ Rom = d
  BY <1>d DEF Sticks
<1>f. s.ll < k
  BY <1>a
<1>g. /\ new \in Passes
      /\ s.out => new = s
      /\ ~s.out /\ Sticks(req, k) =>
           /\ new.buf = StoredAt(s.buf, 2 + s.ll, Peek(s.mem, addr))
           /\ new.mem = Poke(s.mem, addr, d)
           /\ new.ll = s.ll + 1 /\ ~new.out
      /\ ~s.out /\ ~Sticks(req, k) =>
           new.buf = s.buf /\ new.mem = s.mem /\ new.ll = s.ll /\ new.out
  BY <1>a, <1>b, <1>e, <1>f, SetByteFacts
<1>h. new.ll \in Nat
  BY <1>g DEF Passes
<1> HIDE DEF req, new, addr, d
<1>1. CASE s.out
  <2>1. new = s
    BY <1>1, <1>g
  <2>2. ListDone(s, k, buf, m)
    BY <1>1, <1>a DEF ListDone, req
  <2> QED BY <2>1, <2>2 DEF new
<1>2. CASE ~s.out /\ ~Sticks(req, k)
  <2>1. new.ll = k - 1 /\ new.ll + 1 = k
    BY <1>2, <1>a, <1>g
  <2> QED BY <1>2, <1>a, <1>g, <2>1 DEF ListDone, req, new
<1>3. CASE ~s.out /\ Sticks(req, k)
  <2> DEFINE old == Peek(s.mem, addr)
  <2>1. s.ll = k - 1 /\ new.ll = k /\ 2 + s.ll = k + 1 /\ ~new.out
    BY <1>3, <1>a, <1>g
  <2>2. new.buf = StoredAt(s.buf, k + 1, old) /\ new.mem = Poke(s.mem, addr, d)
    BY <1>3, <1>g, <2>1
  <2>3. old = After(m, req, k - 1, addr)
    <3>1. CASE addr \in Ram
      BY <1>a, <2>1, <3>1 DEF Peek
    <3>2. CASE addr \notin Ram
      BY <3>2 DEF Peek, After
    <3> QED BY <3>1, <3>2
  <2> HIDE DEF old
  <2>4. k + 1 \in 0 .. (M + 1) /\ k + 1 # 0 /\ k + 1 # 1 /\ 0 \in 0 .. (M + 1) /\ 1 \in 0 .. (M + 1)
    <3>1. 2 * k <= M => k <= M
      BY Sizes
    <3> QED BY <1>b, <3>1, Sizes
  <2>5. new.buf[k + 1] = old /\ \A i \in 0 .. (M + 1) : i # k + 1 => new.buf[i] = s.buf[i]
    BY <1>a, <2>2, <2>4, StoredFacts
  <2>6. \A j \in 1 .. k : Sticks(req, j)
    BY <1>3, <1>a, <2>1
  <2>7. ASSUME NEW c \in Ram PROVE new.mem[c] = After(m, req, k, c)
    <3>1. (k - 1) + 1 = k /\ k - 1 \in Nat
      OBVIOUS
    <3>2. After(m, req, k, c) = IF AddrOf(req, k) = c THEN ByteOf(req, k) ELSE After(m, req, k - 1, c)
      <4> DEFINE i == k - 1
      <4>1. i \in Nat /\ i + 1 = k
        BY <3>1
      <4> HIDE DEF i
      <4>2. After(m, req, i + 1, c) =
              IF c \in Ram /\ AddrOf(req, i + 1) = c THEN ByteOf(req, i + 1) ELSE After(m, req, i, c)
        BY <4>1, AfterFacts
      <4> QED BY <2>7, <4>1, <4>2 DEF i
    <3>3. s.mem[c] = After(m, req, k - 1, c)
      BY <1>a, <2>1
    <3>4. new.mem[c] = IF addr = c THEN d ELSE s.mem[c]
      BY <1>a, <2>2 DEF Poke
    <3> QED BY <1>d, <3>2, <3>3, <3>4
  <2>8. ASSUME NEW j \in 1 .. k PROVE new.buf[j + 1] = After(m, req, j - 1, AddrOf(req, j))
    <3>1. CASE j = k
      BY <1>d, <2>3, <2>5, <3>1
    <3>2. CASE j # k
      <4>1. j \in 1 .. (k - 1) /\ j + 1 \in 0 .. (M + 1) /\ j + 1 # k + 1
        BY <2>4, <3>2, Sizes
      <4> QED BY <1>a, <2>1, <2>5, <4>1
    <3> QED BY <3>1, <3>2
  <2>9. ASSUME NEW i \in (k + 2) .. (M + 1) PROVE new.buf[i] = buf[i]
    <3>1. i \in (s.ll + 2) .. (M + 1) /\ i \in 0 .. (M + 1) /\ i # k + 1
      BY <2>1
    <3> QED BY <1>a, <2>5, <3>1
  <2>10. new.buf[0] = buf[0] /\ new.buf[1] = buf[1]
    BY <1>a, <2>4, <2>5
  <2> QED BY <1>g, <2>1, <2>6, <2>7, <2>8, <2>9, <2>10 DEF ListDone, req, new
<1> QED BY <1>a, <1>1, <1>2, <1>3

(* The whole list, by the pairs there are.                                   *)
LEMMA ListResult ==
  ASSUME NEW buf \in Buffer, NEW m \in [Ram -> Byte]
  PROVE  LET len == buf[1] \div SB_LEN
         IN  len \in Nat /\ 2 * len <= buf[1] /\ ListDone(SetAfter(buf, m)[len], len, buf, m)
<1> DEFINE len == buf[1] \div SB_LEN
           f == SetAfter(buf, m)
           start == [buf |-> buf, mem |-> m, ll |-> 0, out |-> FALSE]
           Bad == {k \in 0 .. len : ~ListDone(f[k], k, buf, m)}
<1>1. buf[1] \in Nat
  BY BufferBytes
<1>2. len \in Nat /\ 2 * len <= buf[1]
  BY <1>1 DEF SB_LEN
<1>3. f[0] = start /\ \A k \in 1 .. len : f[k] = SetByte(f[k - 1], k)
  BY <1>1, SetAfterExists
<1>4. ListDone(start, 0, buf, m)
  <2>1. start \in Passes /\ start.buf = buf /\ start.mem = m /\ start.ll = 0 /\ start.out = FALSE
    BY DEF Passes
  <2>2. ASSUME NEW c \in Ram PROVE m[c] = After(m, Take(buf, 0, buf[1] + 2), 0, c)
    BY AfterFacts DEF Peek
  <2> HIDE DEF start
  <2> QED BY <2>1, <2>2 DEF ListDone
<1> HIDE DEF f, start, len
<1>5. Bad = {}
  <2> SUFFICES ASSUME Bad # {} PROVE FALSE
    OBVIOUS
  <2>1. PICK i \in Bad : \A j \in Bad : i <= j
    <3>1. Bad \subseteq Nat
      BY <1>2
    <3> HIDE DEF Bad
    <3> QED BY <3>1, Least
  <2>2. i # 0
    BY <1>3, <1>4, <2>1
  <2>3. i \in Nat /\ i >= 1 /\ i - 1 \in 0 .. len /\ 2 * i <= buf[1] /\ i \in 1 .. len
    BY <1>1, <1>2, <2>1, <2>2
  <2>4. ListDone(f[i - 1], i - 1, buf, m)
    BY <2>1, <2>3
  <2>5. ListDone(SetByte(f[i - 1], i), i, buf, m)
    BY <2>3, <2>4, ListStep
  <2> QED BY <1>3, <2>1, <2>3, <2>5
<1>6. len \in 0 .. len
  BY <1>2
<1> QED BY <1>2, <1>5, <1>6 DEF len, f

(* Where the list ends is where the promise says it does.                    *)
LEMMA DoneIs ==
  ASSUME NEW req, NEW d \in 0 .. Pairs(req), Pairs(req) \in Nat,
         \A j \in 1 .. d : Sticks(req, j), d < Pairs(req) => ~Sticks(req, d + 1)
  PROVE  Done(req) = d
<1> DEFINE Ends(k) == /\ \A j \in 1 .. k : Sticks(req, j)
                      /\ k < Pairs(req) => ~Sticks(req, k + 1)
<1>1. Ends(d)
  OBVIOUS
<1>2. ASSUME NEW k \in 0 .. Pairs(req), Ends(k) PROVE k = d
  <2>1. CASE k < d
    <3>1. k + 1 \in 1 .. d /\ k < Pairs(req)
      BY <2>1
    <3> QED BY <1>2, <3>1
  <2>2. CASE d < k
    <3>1. d + 1 \in 1 .. k /\ d < Pairs(req)
      BY <2>2
    <3> QED BY <1>2, <3>1
  <2> QED BY <2>1, <2>2
<1>3. Done(req) = CHOOSE k \in 0 .. Pairs(req) : Ends(k)
  BY DEF Done
<1> HIDE DEF Ends
<1> QED BY <1>1, <1>2, <1>3

-----------------------------------------------------------------------------
(* The answers.                                                              *)

LEMMA LenOfRange ==
  ASSUME NEW s \in Seq(Byte)
  PROVE  Len(s) \in Nat /\ \A k \in 1 .. Len(s) : s[k] \in Byte
BY LenProperties

(* A length and as many bytes, put behind the function that is answered.     *)
LEMMA PutReply ==
  ASSUME NEW buf \in Buffer, NEW data \in Seq(Byte), Len(data) < M
  PROVE  /\ Put(buf, 1, <<Len(data)>> \o data) \in Buffer
         /\ Holds(Put(buf, 1, <<Len(data)>> \o data), buf[0], data)
<1> DEFINE len == Len(data)
           bytes == <<len>> \o data
           new == Put(buf, 1, bytes)
<1>1. len \in Nat /\ len < M /\ len \in Byte
  BY LenOfRange, Sizes DEF Byte
<1>2. /\ bytes \in Seq(Byte) /\ Len(bytes) = len + 1 /\ bytes[1] = len
      /\ \A k \in 1 .. len : bytes[k + 1] = data[k]
  <2> DEFINE head == <<len>>
  <2>1. head \in Seq(Byte) /\ Len(head) = 1 /\ head[1] = len
    BY <1>1
  <2> HIDE DEF head
  <2>2. /\ head \o data \in Seq(Byte) /\ Len(head \o data) = Len(head) + Len(data)
        /\ \A k \in 1 .. (Len(head) + Len(data)) :
              (head \o data)[k] = IF k <= Len(head) THEN head[k] ELSE data[k - Len(head)]
    <3> HIDE DEF len
    <3> QED BY <2>1, ConcatProperties
  <2>3. bytes = head \o data
    BY DEF head
  <2> HIDE DEF bytes
  <2> QED BY <1>1, <2>1, <2>2, <2>3
<1> HIDE DEF bytes
<1>3. /\ new \in Buffer
      /\ \A k \in 0 .. (M + 1) : new[k] = IF k \in 1 .. (1 + Len(bytes) - 1) THEN bytes[k - 1 + 1] ELSE buf[k]
  <2> DEFINE i == 1
  <2>1. i \in Nat
    OBVIOUS
  <2> HIDE DEF i
  <2>2. /\ Put(buf, i, bytes) \in Buffer
        /\ \A k \in 0 .. (M + 1) :
              Put(buf, i, bytes)[k] = IF k \in i .. (i + Len(bytes) - 1) THEN bytes[k - i + 1] ELSE buf[k]
    BY <1>2, <2>1, PutFacts
  <2> QED BY <2>2 DEF i
<1> HIDE DEF new
<1>4. new[0] = buf[0] /\ new[1] = len
  <2>1. 0 \in 0 .. (M + 1) /\ 0 \notin 1 .. (1 + Len(bytes) - 1)
    BY <1>1, Sizes
  <2>2. 1 \in 0 .. (M + 1) /\ 1 \in 1 .. (1 + Len(bytes) - 1) /\ 1 - 1 + 1 = 1
    BY <1>1, <1>2, Sizes
  <2> QED BY <1>2, <1>3, <2>1, <2>2
<1>5. ASSUME NEW k \in 1 .. len PROVE new[k + 1] = data[k]
  <2>1. k + 1 \in 0 .. (M + 1) /\ k + 1 \in 1 .. (1 + Len(bytes) - 1) /\ (k + 1) - 1 + 1 = k + 1
    BY <1>1, <1>2, Sizes
  <2> QED BY <1>2, <1>3, <2>1
<1> QED BY <1>3, <1>4, <1>5 DEF Holds, new, bytes

LEMMA StatusReply ==
  ASSUME NEW buf \in Buffer, NEW code \in Byte
  PROVE  /\ StatusFrame(buf, code) \in Buffer
         /\ Holds(StatusFrame(buf, code), buf[0], <<code>>)
<1> DEFINE data == <<code>>
<1>1. data \in Seq(Byte) /\ Len(data) = 1
  OBVIOUS
<1>2. <<1, code>> = <<1>> \o data
  OBVIOUS
<1>3. StatusFrame(buf, code) = Put(buf, 1, <<Len(data)>> \o data)
  BY <1>1, <1>2 DEF StatusFrame
<1> HIDE DEF data
<1>4. Len(data) < M
  BY <1>1, Sizes
<1> QED BY <1>1, <1>3, <1>4, PutReply DEF data

(* The registers and the status, put over the whole frame.                   *)
FrameIn(buf, fn, regs, status) == Put(buf, 0, <<fn, REGS + 1>> \o regs \o <<status>>)

LEMMA RegisterReply ==
  ASSUME NEW buf \in Buffer, NEW fn \in Byte, NEW regs \in [1 .. REGS -> Byte], NEW status \in Byte
  PROVE  /\ FrameIn(buf, fn, regs, status) \in Buffer
         /\ Append(regs, status) \in Seq(Byte) /\ Len(Append(regs, status)) = REGS + 1
         /\ Holds(FrameIn(buf, fn, regs, status), fn, Append(regs, status))
<1> DEFINE head == <<fn, REGS + 1>>
           data == Append(regs, status)
           bytes == head \o data
           new == Put(buf, 0, bytes)
<1>0. REGS \in Nat /\ REGS + 1 \in Byte /\ REGS + 4 < M
  BY Sizes DEF Byte
<1>1. head \in Seq(Byte) /\ Len(head) = 2 /\ head[1] = fn /\ head[2] = REGS + 1
  BY <1>0
<1>2. regs \in Seq(Byte) /\ Len(regs) = REGS
  BY <1>0
<1>3. data \in Seq(Byte) /\ Len(data) = REGS + 1
  BY <1>2, AppendProperties
<1> HIDE DEF head
<1>4. <<fn, REGS + 1>> \o regs \o <<status>> = bytes
  <2>1. <<status>> \in Seq(Byte)
    OBVIOUS
  <2>2. data = regs \o <<status>>
    BY <1>2, AppendIsConcat
  <2> QED BY <1>1, <1>2, <2>1, <2>2, ConcatAssociative DEF head
<1> HIDE DEF data
<1>5. /\ bytes \in Seq(Byte) /\ Len(bytes) = 2 + Len(data)
      /\ \A k \in 1 .. (2 + Len(data)) : bytes[k] = IF k <= 2 THEN head[k] ELSE data[k - 2]
  <2>1. /\ bytes \in Seq(Byte) /\ Len(bytes) = Len(head) + Len(data)
        /\ \A k \in 1 .. (Len(head) + Len(data)) :
              bytes[k] = IF k <= Len(head) THEN head[k] ELSE data[k - Len(head)]
    BY <1>1, <1>3, ConcatProperties
  <2> HIDE DEF bytes
  <2> QED BY <1>1, <2>1
<1> HIDE DEF bytes
<1>6. /\ new \in Buffer
      /\ \A k \in 0 .. (M + 1) : new[k] = IF k \in 0 .. (0 + Len(bytes) - 1) THEN bytes[k - 0 + 1] ELSE buf[k]
  BY <1>5, PutFacts
<1>7. new = FrameIn(buf, fn, regs, status)
  BY <1>4 DEF FrameIn
<1> HIDE DEF new
<1>8. ASSUME NEW k \in 0 .. (REGS + 2) PROVE new[k] = bytes[k + 1]
  <2>1. k \in 0 .. (M + 1) /\ k \in 0 .. (0 + Len(bytes) - 1) /\ k - 0 + 1 = k + 1
    BY <1>0, <1>3, <1>5, Sizes
  <2> QED BY <1>6, <2>1
<1>9. new[0] = fn /\ new[1] = REGS + 1
  <2>1. 0 \in 0 .. (REGS + 2) /\ 1 \in 0 .. (REGS + 2) /\ 1 \in 1 .. (2 + Len(data)) /\ 2 \in 1 .. (2 + Len(data))
    BY <1>0, <1>3
  <2>2. new[0] = bytes[0 + 1] /\ new[1] = bytes[1 + 1]
    BY <1>8, <2>1
  <2> QED BY <1>1, <1>5, <2>1, <2>2
<1>10. ASSUME NEW k \in 1 .. Len(data) PROVE new[k + 1] = data[k]
  <2>1. k + 1 \in 0 .. (REGS + 2) /\ (k + 1) + 1 \in 1 .. (2 + Len(data)) /\ ((k + 1) + 1) - 2 = k
        /\ ~((k + 1) + 1 <= 2)
    BY <1>0, <1>3
  <2> QED BY <1>5, <1>8, <2>1
<1> QED BY <1>3, <1>6, <1>7, <1>9, <1>10 DEF Holds, data

-----------------------------------------------------------------------------
(* The functions keep the promise, and the types.                            *)

Types ==
  /\ combuf \in Buffer /\ mem \in [Ram -> Byte]
  /\ deice_registers \in [1 .. REGS -> Byte] /\ deice_host_status \in Byte

Request == Take(combuf, 0, combuf[1] + 2)
Want == Promised(Request, mem, deice_registers, deice_host_status)

Promise ==
  pc = "serve" /\ pc' = "fn" /\ WellFormed(Request, COMSZ) =>
    /\ mem' = Want.mem /\ deice_registers' = Want.regs
    /\ \E w \in CutOff(Framed(Want.reply)) : replies' = <<w>>

Ready == Types /\ pc = "serve" /\ combuf[1] <= COMSZ /\ replies = <<>>

LEMMA RequestFacts ==
  ASSUME Ready
  PROVE  /\ combuf[1] \in Nat /\ combuf[1] <= COMSZ /\ Request \in Seq(Byte) /\ Len(Request) = combuf[1] + 2
         /\ \A k \in 1 .. (combuf[1] + 2) : Request[k] = combuf[k - 1] /\ Request[k] \in Byte
         /\ Request[1] = combuf[0] /\ Request[2] = combuf[1] /\ combuf[0] \in Byte
<1> DEFINE len == combuf[1] + 2
<1>1. combuf \in Buffer /\ combuf[1] \in Nat /\ combuf[1] <= COMSZ
  BY BufferBytes DEF Ready, Types
<1>2. len \in Nat /\ len <= M + 2 /\ 1 \in 1 .. len /\ 2 \in 1 .. len /\ 0 \in 0 .. (M + 1)
  BY <1>1, Sizes
<1>3. combuf[0] \in Byte
  BY <1>1, <1>2, BufferBytes
<1> HIDE DEF len
<1>4. /\ Take(combuf, 0, len) \in Seq(Byte) /\ Len(Take(combuf, 0, len)) = len
      /\ \A k \in 1 .. len : Take(combuf, 0, len)[k] = combuf[k - 1]
  BY <1>1, <1>2, FrontFacts
<1>5. Request = Take(combuf, 0, len)
  BY DEF Request, len
<1>6. \A k \in 1 .. len : Request[k] = combuf[k - 1] /\ Request[k] \in Byte
  BY <1>4, <1>5, LenOfRange
<1>7. Request[1] = combuf[1 - 1] /\ Request[2] = combuf[2 - 1]
  BY <1>2, <1>6
<1> QED BY <1>1, <1>3, <1>4, <1>5, <1>6, <1>7 DEF len

(* The cases of the promise exclude each other.                              *)
LEMMA PromisedCases ==
  ASSUME NEW req, NEW m, NEW r, NEW status
  PROVE  /\ req[1] = FN_GET_STAT => Promised(req, m, r, status) = Same(m, r, FrameOf(req[1], TSTG))
         /\ req[1] = FN_READ_MEM => Promised(req, m, r, status) =
              Same(m, r, FrameOf(req[1], [k \in 1 .. req[4] |-> Peek(m, req[3] + k - 1)]))
         /\ req[1] = FN_WRITE_M => Promised(req, m, r, status) =
              LET bytes == SubSeq(req, 4, Len(req))
                  sticks == \A k \in 1 .. Len(bytes) : req[3] + k - 1 \in Ram \/ Rom = bytes[k]
              IN  Same(IF bytes = <<>> THEN m ELSE Written(m, req[3], bytes), r,
                       FrameOf(req[1], <<IF sticks THEN 0 ELSE 1>>))
         /\ req[1] = FN_READ_RG => Promised(req, m, r, status) = Same(m, r, FrameOf(req[1], Append(r, status)))
         /\ req[1] = FN_WRITE_RG => Promised(req, m, r, status) =
              Same(m, SubSeq(req, 3, REGS + 2), FrameOf(req[1], <<0>>))
         /\ req[1] = FN_SET_BYTES => Promised(req, m, r, status) =
              Same([c \in Ram |-> After(m, req, Done(req), c)], r,
                   FrameOf(req[1], [j \in 1 .. Done(req) |-> After(m, req, j - 1, AddrOf(req, j))]))
         /\ req[1] \in {FN_IN, FN_OUT} => Promised(req, m, r, status) = Same(m, r, FrameOf(req[1], <<FN_ERROR>>))
<1> DEFINE stat == Same(m, r, FrameOf(req[1], TSTG))
           read == Same(m, r, FrameOf(req[1], [k \in 1 .. req[4] |-> Peek(m, req[3] + k - 1)]))
           write == LET bytes == SubSeq(req, 4, Len(req))
                        sticks == \A k \in 1 .. Len(bytes) : req[3] + k - 1 \in Ram \/ Rom = bytes[k]
                    IN  Same(IF bytes = <<>> THEN m ELSE Written(m, req[3], bytes), r,
                       FrameOf(req[1], <<IF sticks THEN 0 ELSE 1>>))
           regs == Same(m, r, FrameOf(req[1], Append(r, status)))
           wregs == Same(m, SubSeq(req, 3, REGS + 2), FrameOf(req[1], <<0>>))
           bytes == Same([c \in Ram |-> After(m, req, Done(req), c)], r,
                         FrameOf(req[1], [j \in 1 .. Done(req) |-> After(m, req, j - 1, AddrOf(req, j))]))
           error == Same(m, r, FrameOf(req[1], <<FN_ERROR>>))
<1>1. Promised(req, m, r, status) =
        CASE req[1] = FN_GET_STAT -> stat
          [] req[1] = FN_READ_MEM -> read
          [] req[1] = FN_WRITE_M -> write
          [] req[1] = FN_READ_RG -> regs
          [] req[1] = FN_WRITE_RG -> wregs
          [] req[1] = FN_SET_BYTES -> bytes
          [] OTHER -> error
  BY DEF Promised
<1> HIDE DEF stat, read, write, regs, wregs, bytes, error
<1>2. M \in Nat
  BY Sizes
<1>3. /\ req[1] = FN_GET_STAT => Promised(req, m, r, status) = stat
      /\ req[1] = FN_READ_MEM => Promised(req, m, r, status) = read
      /\ req[1] = FN_WRITE_M => Promised(req, m, r, status) = write
      /\ req[1] = FN_READ_RG => Promised(req, m, r, status) = regs
      /\ req[1] = FN_WRITE_RG => Promised(req, m, r, status) = wregs
      /\ req[1] = FN_SET_BYTES => Promised(req, m, r, status) = bytes
      /\ req[1] \in {FN_IN, FN_OUT} => Promised(req, m, r, status) = error
  BY <1>1, <1>2 DEF FN_GET_STAT, FN_READ_MEM, FN_WRITE_M, FN_READ_RG, FN_WRITE_RG, FN_SET_BYTES, FN_IN, FN_OUT
<1> QED BY <1>3 DEF stat, read, write, regs, wregs, bytes, error

(* A frame that is sent is in the buffer with its checksum, and cut off      *)
(* somewhere on the line.                                                    *)
LEMMA SendFacts ==
  ASSUME NEW buf \in Buffer, Send(buf)
  PROVE  /\ combuf' \in Buffer
         /\ \A fn \in Byte : \A data \in Seq(Byte) :
              Holds(buf, fn, data) /\ Len(data) + 3 < M /\ replies = <<>> =>
                \E w \in CutOff(Framed(FrameOf(fn, data))) : replies' = <<w>>
<1>1. combuf' = Summed(buf) /\ \E w \in CutOff(Wire(buf)) : replies' = Append(replies, w)
  BY DEF Send
<1>2. ASSUME NEW fn \in Byte, NEW data \in Seq(Byte), Holds(buf, fn, data), Len(data) + 3 < M, replies = <<>>
      PROVE  \E w \in CutOff(Framed(FrameOf(fn, data))) : replies' = <<w>>
  <2>1. Wire(buf) = Framed(FrameOf(fn, data))
    BY <1>2, ReplyIs
  <2>2. PICK w \in CutOff(Wire(buf)) : replies' = Append(replies, w)
    BY <1>1
  <2>3. Append(<<>>, w) = <<w>>
    OBVIOUS
  <2> QED BY <1>2, <2>1, <2>2, <2>3
<1> QED BY <1>1, <1>2, SummedFacts

(* What is left to show of a function that sends one answer.                 *)
LEMMA Answered ==
  ASSUME Ready, NEW buf \in Buffer, Send(buf), NEW data \in Seq(Byte),
         mem' \in [Ram -> Byte], deice_registers' \in [1 .. REGS -> Byte], UNCHANGED deice_host_status,
         WellFormed(Request, COMSZ) =>
           /\ Holds(buf, combuf[0], data) /\ Len(data) + 3 < M
           /\ Want = Same(mem', deice_registers', FrameOf(combuf[0], data))
  PROVE  Types' /\ Promise
<1>1. Types'
  BY SendFacts DEF Ready, Types
<1>2. ASSUME WellFormed(Request, COMSZ)
      PROVE  /\ mem' = Want.mem /\ deice_registers' = Want.regs
             /\ \E w \in CutOff(Framed(Want.reply)) : replies' = <<w>>
  <2>1. /\ Want.mem = mem' /\ Want.regs = deice_registers'
        /\ Want.reply = FrameOf(combuf[0], data)
    BY <1>2 DEF Same
  <2>2. \E w \in CutOff(Framed(FrameOf(combuf[0], data))) : replies' = <<w>>
    BY <1>2, RequestFacts, SendFacts DEF Ready
  <2> QED BY <2>1, <2>2
<1> QED BY <1>1, <1>2 DEF Promise

LEMMA StatServed == ASSUME Ready, FnGetStat PROVE Types' /\ Promise
<1> DEFINE buf == Put(combuf, 1, <<Len(TSTG)>> \o TSTG)
<1>1. /\ combuf[0] = FN_GET_STAT /\ Send(buf) /\ UNCHANGED <<mem, deice_registers, deice_host_status>>
  BY DEF FnGetStat, Serve
<1>2. combuf \in Buffer /\ TSTG \in Seq(Byte) /\ Len(TSTG) < M /\ Len(TSTG) + 3 < M
  BY Sizes DEF Ready, Types
<1>3. buf \in Buffer /\ Holds(buf, combuf[0], TSTG)
  BY <1>2, PutReply
<1>4. Want = Same(mem, deice_registers, FrameOf(combuf[0], TSTG))
  BY <1>1, RequestFacts, PromisedCases DEF Want
<1> HIDE DEF buf
<1>5. mem' = mem /\ deice_registers' = deice_registers
  BY <1>1
<1> QED BY <1>1, <1>2, <1>3, <1>4, <1>5, Answered DEF Ready, Types

LEMMA ReadServed == ASSUME Ready, FnReadMem PROVE Types' /\ Promise
<1> DEFINE len == combuf[3]
           data == [k \in 1 .. len |-> Peek(mem, combuf[2] + k - 1)]
           buf == Put(combuf, 1, <<len>> \o data)
<1>1. /\ combuf[0] = FN_READ_MEM /\ Send(buf) /\ UNCHANGED <<mem, deice_registers, deice_host_status>>
  BY DEF FnReadMem, Serve
<1>2. combuf \in Buffer /\ mem \in [Ram -> Byte] /\ len \in Nat /\ len < M
  <2>1. 3 \in 0 .. (M + 1)
    BY Sizes
  <2> QED BY <2>1, BufferBytes DEF Ready, Types
<1>3. data \in Seq(Byte) /\ Len(data) = len
  <2>1. \A k \in 1 .. len : Peek(mem, combuf[2] + k - 1) \in Byte
    BY <1>2, PeekType
  <2> HIDE DEF len
  <2> QED BY <1>2, <2>1
<1>4. buf \in Buffer /\ Holds(buf, combuf[0], data)
  <2> HIDE DEF len, data
  <2> QED BY <1>2, <1>3, PutReply
<1>5. ASSUME WellFormed(Request, COMSZ)
      PROVE  Len(data) + 3 < M /\ Want = Same(mem, deice_registers, FrameOf(combuf[0], data))
  <2>1. Len(Request) >= 4 /\ Request[4] + 3 <= COMSZ
    BY <1>1, <1>5, RequestFacts DEF WellFormed
  <2>2. 3 \in 1 .. (combuf[1] + 2) /\ 4 \in 1 .. (combuf[1] + 2) /\ 4 - 1 = 3 /\ 3 - 1 = 2
    BY <2>1, RequestFacts
  <2>3. Request[3] = combuf[2] /\ Request[4] = combuf[3]
    BY <2>2, RequestFacts
  <2>4. data = [k \in 1 .. Request[4] |-> Peek(mem, Request[3] + k - 1)]
    BY <2>3
  <2>5. Len(data) + 3 < M
    BY <1>2, <1>3, <2>1, <2>3, Sizes
  <2>6. Want = Same(mem, deice_registers,
                    FrameOf(Request[1], [k \in 1 .. Request[4] |-> Peek(mem, Request[3] + k - 1)]))
    <3>1. Request[1] = FN_READ_MEM
      BY <1>1, RequestFacts
    <3> QED BY <3>1, PromisedCases DEF Want
  <2> HIDE DEF data
  <2> QED BY <2>4, <2>5, <2>6, RequestFacts
<1> HIDE DEF buf, data
<1>6. mem' = mem /\ deice_registers' = deice_registers
  BY <1>1
<1> QED BY <1>1, <1>3, <1>4, <1>5, <1>6, Answered DEF Ready, Types

LEMMA RegistersServed == ASSUME Ready, FnReadRg PROVE Types' /\ Promise
<1> DEFINE buf == FrameIn(combuf, FN_READ_RG, deice_registers, deice_host_status)
           data == Append(deice_registers, deice_host_status)
<1>1. /\ combuf[0] = FN_READ_RG /\ Send(buf) /\ UNCHANGED <<mem, deice_registers, deice_host_status>>
  BY DEF FnReadRg, Serve, RegisterFrame, FrameIn
<1>2. FN_READ_RG \in Byte
  BY Sizes DEF FN_READ_RG, Byte
<1>3. /\ buf \in Buffer /\ data \in Seq(Byte) /\ Len(data) = REGS + 1 /\ Holds(buf, combuf[0], data)
  BY <1>1, <1>2, RegisterReply DEF Ready, Types
<1>4. Len(data) + 3 < M
  BY <1>3, Sizes
<1>5. Want = Same(mem, deice_registers, FrameOf(combuf[0], data))
  <2>1. Request[1] = FN_READ_RG
    BY <1>1, RequestFacts
  <2>2. Want = Same(mem, deice_registers, FrameOf(Request[1], data))
    <3> HIDE DEF data
    <3>1. ASSUME NEW req, NEW m, NEW r, NEW status, req[1] = FN_READ_RG
          PROVE  Promised(req, m, r, status) = Same(m, r, FrameOf(req[1], Append(r, status)))
      BY <3>1, PromisedCases, ZenonT(60)
    <3> QED BY <2>1, <3>1 DEF Want, data
  <2> QED BY <2>2, RequestFacts
<1> HIDE DEF buf, data
<1>6. mem' = mem /\ deice_registers' = deice_registers
  BY <1>1
<1> QED BY <1>1, <1>3, <1>4, <1>5, <1>6, Answered DEF Ready, Types

LEMMA ErrorServed == ASSUME Ready, FnError PROVE Types' /\ Promise
<1> DEFINE buf == StatusFrame(combuf, FN_ERROR)
           data == <<FN_ERROR>>
<1>1. combuf[0] \in {FN_IN, FN_OUT} /\ Send(buf) /\ UNCHANGED <<mem, deice_registers, deice_host_status>>
  BY DEF FnError, Serve
<1>2. FN_ERROR \in Byte
  BY Sizes DEF FN_ERROR, Byte
<1>3. buf \in Buffer /\ data \in Seq(Byte) /\ Len(data) = 1 /\ Holds(buf, combuf[0], data)
  BY <1>2, StatusReply DEF Ready, Types
<1>4. Len(data) + 3 < M
  BY <1>3, Sizes
<1>5. Want = Same(mem, deice_registers, FrameOf(combuf[0], data))
  <2>1. Request[1] \in {FN_IN, FN_OUT}
    BY <1>1, RequestFacts
  <2>2. Want = Same(mem, deice_registers, FrameOf(Request[1], data))
    BY <2>1, PromisedCases DEF Want
  <2> QED BY <2>2, RequestFacts
<1> HIDE DEF buf, data
<1>6. mem' = mem /\ deice_registers' = deice_registers
  BY <1>1
<1> QED BY <1>1, <1>3, <1>4, <1>5, <1>6, Answered DEF Ready, Types

LEMMA WriteServed == ASSUME Ready, FnWriteM PROVE Types' /\ Promise
<1> DEFINE src == Take(combuf, 3, combuf[1] - 1)
           dest == combuf[2]
           after == Written(mem, dest, src)
           good == \A k \in DOMAIN src : Peek(after, dest + k - 1) = src[k]
           code == IF good THEN 0 ELSE 1
           buf == StatusFrame(combuf, code)
           data == <<code>>
<1>1. combuf[0] = FN_WRITE_M /\ mem' = after /\ UNCHANGED <<deice_registers, deice_host_status>>
  BY DEF FnWriteM, Serve
<1>2. Send(buf)
  <2>1. \/ /\ \A k \in DOMAIN src : Peek(mem', dest + k - 1) = src[k]
           /\ Send(StatusFrame(combuf, 0))
        \/ /\ \E k \in DOMAIN src : Peek(mem', dest + k - 1) # src[k]
           /\ Send(StatusFrame(combuf, 1))
    BY DEF FnWriteM
  <2> HIDE DEF src, dest, after
  <2> QED BY <1>1, <2>1
<1>3. combuf \in Buffer /\ mem \in [Ram -> Byte] /\ combuf[1] \in Nat /\ combuf[1] <= COMSZ /\ dest \in Byte /\ dest \in Nat
  <2>1. 2 \in 0 .. (M + 1)
    BY Sizes
  <2> QED BY <2>1, BufferBytes, RequestFacts DEF Ready, Types
<1>4. /\ src \in Seq(Byte)
      /\ combuf[1] >= 1 => Len(src) = combuf[1] - 1 /\ \A k \in 1 .. (combuf[1] - 1) : src[k] = combuf[3 + k - 1]
      /\ combuf[1] = 0 => Len(src) = 0
  <2>1. CASE combuf[1] = 0
    <3>1. 1 .. (combuf[1] - 1) = {}
      BY <2>1
    <3>2. src = <<>>
      BY <3>1 DEF Take
    <3>3. <<>> \in Seq(Byte) /\ Len(<<>>) = 0 /\ ~(combuf[1] >= 1)
      BY <2>1
    <3> HIDE DEF src
    <3> QED BY <3>2, <3>3
  <2>2. CASE combuf[1] # 0
    <3> DEFINE len == combuf[1] - 1
    <3>1. len \in Nat /\ 3 + len <= M + 2 /\ 3 \in Nat
      BY <1>3, <2>2, Sizes
    <3> HIDE DEF len
    <3>2. /\ Take(combuf, 3, len) \in Seq(Byte) /\ Len(Take(combuf, 3, len)) = len
          /\ \A k \in 1 .. len : Take(combuf, 3, len)[k] = combuf[3 + k - 1]
      BY <1>3, <3>1, TakeFacts
    <3> QED BY <3>2 DEF len
  <2> QED BY <2>1, <2>2
<1>5. DOMAIN src = 1 .. Len(src) /\ Len(src) \in Nat /\ \A k \in 1 .. Len(src) : src[k] \in Byte
  BY <1>4, LenProperties
<1> HIDE DEF src
<1>6. after \in [Ram -> Byte]
  <2>1. ASSUME NEW c \in Ram, c \in dest .. (dest + Len(src) - 1) PROVE src[c - dest + 1] \in Byte
    <3>1. c - dest + 1 \in 1 .. Len(src)
      BY <1>3, <1>5, <2>1
    <3> QED BY <1>5, <3>1
  <2>2. ASSUME NEW c \in Ram PROVE mem[c] \in Byte
    BY <1>3
  <2> HIDE DEF dest
  <2> QED BY <2>1, <2>2 DEF Written
<1>7. code \in Byte
  BY Sizes DEF Byte
<1>8. good <=> \A k \in 1 .. Len(src) : dest + k - 1 \in Ram \/ Rom = src[k]
  <2>1. ASSUME NEW k \in 1 .. Len(src)
        PROVE  Peek(after, dest + k - 1) = src[k] <=> dest + k - 1 \in Ram \/ Rom = src[k]
    <3> DEFINE a == dest + k - 1
    <3>1. a \in dest .. (dest + Len(src) - 1) /\ a - dest + 1 = k
      BY <1>3, <1>5
    <3>2. a \in Ram => after[a] = src[a - dest + 1]
      <4> HIDE DEF a, dest
      <4> QED BY <3>1 DEF Written
    <3> HIDE DEF a, after
    <3>3. Peek(after, a) = src[k] <=> a \in Ram \/ Rom = src[k]
      BY <3>1, <3>2 DEF Peek
    <3> QED BY <3>3 DEF a
  <2> HIDE DEF after, dest
  <2> QED BY <1>5, <2>1
<1>9. ASSUME WellFormed(Request, COMSZ)
      PROVE  Want = Same(after, deice_registers, FrameOf(combuf[0], data))
  <2>1. Request[1] = FN_WRITE_M
    BY <1>1, RequestFacts
  <2>2. combuf[1] >= 1 => Request[3] = dest
    <3>1. ASSUME combuf[1] >= 1 PROVE 3 \in 1 .. (combuf[1] + 2) /\ 3 - 1 = 2
      BY <1>3, <3>1
    <3> QED BY <3>1, RequestFacts
  <2> DEFINE bytes == SubSeq(Request, 4, Len(Request))
  <2>3. bytes = src
    <3> DEFINE top == Len(Request)
    <3>1. top = combuf[1] + 2 /\ top \in Int /\ 4 \in Int /\ \A i \in 4 .. top : Request[i] \in Byte
      BY <1>3, RequestFacts
    <3> HIDE DEF top
    <3>2. /\ SubSeq(Request, 4, top) \in Seq(Byte)
          /\ Len(SubSeq(Request, 4, top)) = IF 4 <= top THEN top - 4 + 1 ELSE 0
          /\ \A i \in 1 .. (top - 4 + 1) : SubSeq(Request, 4, top)[i] = Request[4 + i - 1]
      BY <3>1, SubSeqProperties
    <3>3. Len(SubSeq(Request, 4, top)) = Len(src)
      BY <1>3, <1>4, <3>1, <3>2
    <3>4. ASSUME NEW i \in 1 .. Len(src) PROVE SubSeq(Request, 4, top)[i] = src[i]
      <4>1. combuf[1] >= 1 /\ i \in 1 .. (combuf[1] - 1)
        BY <1>3, <1>4
      <4>2. i \in 1 .. (top - 4 + 1) /\ 4 + i - 1 \in 1 .. (combuf[1] + 2) /\ (4 + i - 1) - 1 = 3 + i - 1
        BY <1>3, <3>1, <4>1
      <4> QED BY <1>4, <3>2, <4>1, <4>2, RequestFacts
    <3>5. SubSeq(Request, 4, top) = src
      BY <1>4, <3>2, <3>3, <3>4, SeqEqual
    <3> QED BY <3>5 DEF top
  <2>4. Want = LET sticks == \A k \in 1 .. Len(bytes) : Request[3] + k - 1 \in Ram \/ Rom = bytes[k]
               IN  Same(IF bytes = <<>> THEN mem ELSE Written(mem, Request[3], bytes), deice_registers,
                        FrameOf(Request[1], <<IF sticks THEN 0 ELSE 1>>))
    BY <2>1, PromisedCases DEF Want
  <2>5. CASE combuf[1] >= 2
    <3>1. Len(src) # 0
      BY <1>3, <1>4, <2>5
    <3>2. src # <<>>
      BY <3>1
    <3>3. Request[3] = dest
      BY <1>3, <2>2, <2>5
    <3> HIDE DEF bytes, dest, good
    <3>4. Want = Same(Written(mem, dest, src), deice_registers, FrameOf(Request[1], <<IF good THEN 0 ELSE 1>>))
      BY <1>8, <2>3, <2>4, <3>2, <3>3
    <3> QED BY <3>4, RequestFacts
  <2>6. CASE ~(combuf[1] >= 2)
    <3>0. Len(src) = 0
      BY <1>3, <1>4, <2>6
    <3>1. src = <<>> /\ 1 .. Len(src) = {}
      BY <1>4, <3>0, EmptySeq
    <3>2. good
      BY <1>8, <3>1
    <3>3. after = mem
      <4>1. ASSUME NEW c \in Ram PROVE after[c] = mem[c]
        <5>1. ~(c \in dest .. (dest + Len(src) - 1))
          BY <1>3, <3>1
        <5> HIDE DEF dest
        <5> QED BY <5>1 DEF Written
      <4> HIDE DEF after
      <4> QED BY <1>3, <1>6, <4>1
    <3>4. \A k \in 1 .. Len(bytes) : Request[3] + k - 1 \in Ram \/ Rom = bytes[k]
      BY <2>3, <3>1
    <3> HIDE DEF bytes, dest, good, after
    <3>5. Want = Same(mem, deice_registers, FrameOf(Request[1], <<IF good THEN 0 ELSE 1>>))
      BY <2>3, <2>4, <3>1, <3>2, <3>4
    <3> QED BY <3>3, <3>5, RequestFacts
  <2> QED BY <2>5, <2>6
<1> HIDE DEF after, good
<1>10. data \in Seq(Byte) /\ Len(data) = 1
  BY <1>7
<1> HIDE DEF code
<1>11. buf \in Buffer /\ Holds(buf, combuf[0], data)
  BY <1>3, <1>7, StatusReply
<1>12. Len(data) + 3 < M
  BY <1>10, Sizes
<1> HIDE DEF buf, data
<1>13. deice_registers' = deice_registers /\ deice_registers \in [1 .. REGS -> Byte]
  BY <1>1 DEF Ready, Types
<1> QED BY <1>1, <1>2, <1>6, <1>9, <1>10, <1>11, <1>12, <1>13, Answered

LEMMA WriteRegistersServed == ASSUME Ready, FnWriteRg PROVE Types' /\ Promise
<1> DEFINE buf == StatusFrame(combuf, 0)
           data == <<0>>
           regs == Take(combuf, 2, REGS)
<1>1. /\ combuf[0] = FN_WRITE_RG /\ Send(buf) /\ combuf[1] = REGS + 1
      /\ deice_registers' = regs /\ UNCHANGED <<mem, deice_host_status>>
  BY DEF FnWriteRg, Serve
<1>2. 0 \in Byte /\ REGS \in Nat /\ 2 \in Nat /\ 2 + REGS <= M + 2
  BY Sizes DEF Byte
<1>3. buf \in Buffer /\ data \in Seq(Byte) /\ Len(data) = 1 /\ Holds(buf, combuf[0], data)
  BY <1>2, StatusReply DEF Ready, Types
<1>4. Len(data) + 3 < M
  BY <1>3, Sizes
<1>5. /\ regs \in Seq(Byte) /\ Len(regs) = REGS /\ \A k \in 1 .. REGS : regs[k] = combuf[2 + k - 1]
  BY <1>2, TakeFacts DEF Ready, Types
<1>6. regs \in [1 .. REGS -> Byte]
  BY <1>5, LenProperties
<1> HIDE DEF buf, regs
<1>7. SubSeq(Request, 3, REGS + 2) = regs
  <2> DEFINE top == REGS + 2
  <2>1. top \in Int /\ 3 \in Int /\ \A i \in 3 .. top : Request[i] \in Byte
    BY <1>1, <1>2, RequestFacts
  <2> HIDE DEF top
  <2>2. /\ SubSeq(Request, 3, top) \in Seq(Byte)
        /\ Len(SubSeq(Request, 3, top)) = IF 3 <= top THEN top - 3 + 1 ELSE 0
        /\ \A i \in 1 .. (top - 3 + 1) : SubSeq(Request, 3, top)[i] = Request[3 + i - 1]
    BY <2>1, SubSeqProperties
  <2>3. Len(SubSeq(Request, 3, top)) = REGS
    BY <1>2, <2>2 DEF top
  <2>4. ASSUME NEW i \in 1 .. REGS PROVE SubSeq(Request, 3, top)[i] = regs[i]
    <3>1. i \in 1 .. (top - 3 + 1) /\ 3 + i - 1 \in 1 .. (combuf[1] + 2) /\ (3 + i - 1) - 1 = 2 + i - 1
      BY <1>1, <1>2 DEF top
    <3> QED BY <1>5, <2>2, <3>1, RequestFacts
  <2>5. SubSeq(Request, 3, top) = regs
    BY <1>5, <2>2, <2>3, <2>4, SeqEqual
  <2> QED BY <2>5 DEF top
<1>8. Want = Same(mem, regs, FrameOf(combuf[0], data))
  <2>1. Request[1] = FN_WRITE_RG
    BY <1>1, RequestFacts
  <2>2. Want = Same(mem, SubSeq(Request, 3, REGS + 2), FrameOf(Request[1], data))
    BY <2>1, PromisedCases DEF Want
  <2> QED BY <1>7, <2>2, RequestFacts
<1> HIDE DEF data
<1>9. mem' = mem /\ mem \in [Ram -> Byte]
  BY <1>1 DEF Ready, Types
<1> QED BY <1>1, <1>3, <1>4, <1>6, <1>8, <1>9, Answered

(* What a WRITE_RG of a wrong length does is not promised; it keeps the      *)
(* types.                                                                    *)
LEMMA WrongLengthServed == ASSUME Ready, FnWriteRgLength PROVE Types' /\ Promise
<1> DEFINE wrong == Summed(StatusFrame(combuf, 1))
           right == StatusFrame(wrong, 0)
<1>1. /\ combuf[0] = FN_WRITE_RG /\ combuf[1] # REGS + 1
      /\ deice_registers' = Take(wrong, 2, REGS) /\ combuf' = Summed(right)
      /\ UNCHANGED <<mem, deice_host_status>>
  BY DEF FnWriteRgLength, Serve
<1>2. 0 \in Byte /\ 1 \in Byte /\ REGS \in Nat /\ 2 \in Nat /\ 2 + REGS <= M + 2
  BY Sizes DEF Byte
<1>3. wrong \in Buffer
  <2>1. StatusFrame(combuf, 1) \in Buffer
    BY <1>2, StatusReply DEF Ready, Types
  <2> QED BY <2>1, SummedFacts
<1> HIDE DEF wrong
<1>4. Summed(right) \in Buffer
  <2>1. right \in Buffer
    BY <1>2, <1>3, StatusReply
  <2> QED BY <2>1, SummedFacts
<1>5. Take(wrong, 2, REGS) \in [1 .. REGS -> Byte]
  <2>1. Take(wrong, 2, REGS) \in Seq(Byte) /\ Len(Take(wrong, 2, REGS)) = REGS
    BY <1>2, <1>3, TakeFacts
  <2> QED BY <2>1, LenProperties
<1>6. ~WellFormed(Request, COMSZ)
  <2>1. Request[1] = FN_WRITE_RG /\ Len(Request) # REGS + 3
    BY <1>1, <1>2, RequestFacts
  <2> QED BY <2>1 DEF WellFormed
<1> QED BY <1>1, <1>4, <1>5, <1>6 DEF Ready, Types, Promise

LEMMA BytesServed == ASSUME Ready, FnSetBytes PROVE Types' /\ Promise
<1> DEFINE len == combuf[1] \div SB_LEN
           s == SetAfter(combuf, mem)[len]
           buf == StoredAt(s.buf, 1, s.ll)
           data == [j \in 1 .. Done(Request) |-> After(mem, Request, j - 1, AddrOf(Request, j))]
<1>1. /\ combuf[0] = FN_SET_BYTES /\ mem' = s.mem /\ Send(buf)
      /\ UNCHANGED <<deice_registers, deice_host_status>>
  BY DEF FnSetBytes, Serve, SetAfter, StoredAt
<1>2. combuf \in Buffer /\ mem \in [Ram -> Byte] /\ combuf[1] \in Nat /\ combuf[1] <= COMSZ
  BY RequestFacts DEF Ready, Types
<1>3. len \in Nat /\ 2 * len <= combuf[1] /\ ListDone(s, len, combuf, mem)
  BY <1>2, ListResult
<1>4. Pairs(Request) = len
  BY <1>2, RequestFacts DEF Pairs, SB_LEN
<1> HIDE DEF s, len
<1>5. /\ s \in Passes /\ s.buf \in Buffer /\ s.mem \in [Ram -> Byte] /\ s.ll \in Nat /\ s.out \in BOOLEAN
      /\ s.ll <= len /\ (~s.out => s.ll = len)
      /\ s.out => s.ll < len /\ ~Sticks(Request, s.ll + 1)
      /\ \A j \in 1 .. s.ll : Sticks(Request, j)
      /\ \A c \in Ram : s.mem[c] = After(mem, Request, s.ll, c)
      /\ s.buf[0] = combuf[0]
      /\ \A j \in 1 .. s.ll : s.buf[j + 1] = After(mem, Request, j - 1, AddrOf(Request, j))
  BY <1>3 DEF ListDone, Passes, Request
<1>6. Done(Request) = s.ll
  <2>1. s.ll \in 0 .. Pairs(Request) /\ Pairs(Request) \in Nat
    BY <1>3, <1>4, <1>5
  <2>2. s.ll < Pairs(Request) => ~Sticks(Request, s.ll + 1)
    BY <1>3, <1>4, <1>5
  <2> QED BY <1>5, <2>1, <2>2, DoneIs
<1>7. s.ll + 3 < M /\ s.ll \in Byte /\ s.ll + 1 <= M + 1
  BY <1>2, <1>3, <1>5, Sizes DEF Byte
<1>8. data \in Seq(Byte) /\ Len(data) = s.ll /\ \A j \in 1 .. s.ll : data[j] = s.buf[j + 1]
  <2> DEFINE d == s.ll
  <2>1. d \in Nat /\ d + 1 <= M + 1 /\ \A j \in 1 .. d : s.buf[j + 1] = After(mem, Request, j - 1, AddrOf(Request, j))
    BY <1>5, <1>7
  <2>2. data = [j \in 1 .. d |-> After(mem, Request, j - 1, AddrOf(Request, j))]
    BY <1>6
  <2> HIDE DEF d, data
  <2>3. \A j \in 1 .. d : After(mem, Request, j - 1, AddrOf(Request, j)) \in Byte
    <3>1. \A j \in 1 .. d : j + 1 \in 0 .. (M + 1)
      BY <2>1, Sizes
    <3>2. \A j \in 1 .. d : s.buf[j + 1] \in Byte
      BY <1>5, <3>1, BufferBytes
    <3> QED BY <2>1, <3>2
  <2>4. data \in Seq(Byte) /\ Len(data) = d /\ \A j \in 1 .. d : data[j] = s.buf[j + 1]
    BY <2>1, <2>2, <2>3
  <2> QED BY <2>4 DEF d
<1>9. Want = Same(s.mem, deice_registers, FrameOf(combuf[0], data))
  <2>1. Request[1] = FN_SET_BYTES
    BY <1>1, RequestFacts
  <2> DEFINE cells == [c \in Ram |-> After(mem, Request, Done(Request), c)]
  <2>2. Want = Same(cells, deice_registers, FrameOf(Request[1], data))
    BY <2>1, PromisedCases DEF Want
  <2>3. cells = s.mem
    BY <1>5, <1>6
  <2> HIDE DEF cells, data
  <2> QED BY <2>2, <2>3, RequestFacts
<1> HIDE DEF data
<1>10. buf \in Buffer /\ buf[1] = s.ll /\ \A k \in 0 .. (M + 1) : k # 1 => buf[k] = s.buf[k]
  <2>1. 1 \in 0 .. (M + 1)
    BY Sizes
  <2>2. buf \in Buffer
    BY <1>5, <1>7 DEF StoredAt, Buffer
  <2> QED BY <1>5, <2>1, <2>2, StoredFacts
<1> HIDE DEF buf
<1>11. Holds(buf, combuf[0], data)
  <2>1. buf[0] = combuf[0]
    <3>1. 0 \in 0 .. (M + 1)
      BY Sizes
    <3> QED BY <1>5, <1>10, <3>1
  <2>2. ASSUME NEW k \in 1 .. Len(data) PROVE buf[k + 1] = data[k]
    <3>1. k \in 1 .. s.ll /\ k + 1 \in 0 .. (M + 1) /\ k + 1 # 1
      BY <1>5, <1>7, <1>8, Sizes
    <3> QED BY <1>8, <1>10, <3>1
  <2> QED BY <1>8, <1>10, <2>1, <2>2 DEF Holds
<1>12. deice_registers' = deice_registers /\ deice_registers \in [1 .. REGS -> Byte]
  BY <1>1 DEF Ready, Types
<1>13. Len(data) + 3 < M
  BY <1>7, <1>8
<1> QED BY <1>1, <1>5, <1>8, <1>9, <1>10, <1>11, <1>12, <1>13, Answered

-----------------------------------------------------------------------------
(* The invariant.                                                            *)

(* Where a frame is read, and that the last answer is forgotten by then.     *)
Reading ==
  /\ pc \in {"fn", "len", "data", "check", "serve", "run"}
  /\ line \in Seq(Byte) /\ request \in {"whole", "garbled", "unsure"}
  /\ n \in 0 .. COMSZ /\ p \in 0 .. (COMSZ + 2)
  /\ pc \in {"fn", "serve", "run"} => p = 0
  /\ pc = "len" => p = 1
  /\ pc \in {"data", "check"} => p >= 2 /\ p + n = combuf[1] + 2 /\ combuf[1] <= COMSZ
  /\ pc = "data" => n > 0
  /\ pc = "check" => n = 0
  /\ pc = "serve" => combuf[1] <= COMSZ
  /\ pc \in {"len", "data", "check", "serve"} => replies = <<>>

(* A frame is as long as it says, and its sum tells whether it is as it was  *)
(* sent.                                                                     *)
Intact(w, r) ==
  /\ Len(w) >= 3 /\ w[1] >= FN_MIN /\ w[2] = Len(w) - 3 /\ w[2] <= COMSZ
  /\ r = "whole" <=> Sum(w) = 0

(* From the moment it is sent to a target that waits until it is acted upon  *)
(* or dropped, what has been read of the frame and what is still to come     *)
(* make it up.                                                               *)
InFlight ==
  /\ pc = "run" => request = "unsure"
  /\ pc = "serve" => request # "garbled"
  /\ request # "unsure" /\ pc # "serve" => Intact(Arriving(combuf, p, line), request)

Inv == Types /\ Reading /\ InFlight

LEMMA InitInv == Init => Inv
<1> SUFFICES ASSUME Init PROVE Inv
  OBVIOUS
<1>1. 0 \in Byte /\ COMSZ \in Nat
  BY Sizes DEF Byte
<1>2. Types
  BY <1>1, RegsAssumption DEF Init, Types, Buffer
<1>3. Reading
  BY <1>1 DEF Init, Reading
<1>4. InFlight
  BY DEF Init, InFlight
<1> QED BY <1>2, <1>3, <1>4 DEF Inv

(* A frame that is sent to a target that waits.                              *)
LEMMA StartFacts ==
  ASSUME NEW buf \in Buffer, NEW rest \in Seq(Byte)
  PROVE  Arriving(buf, 0, rest) = rest
<1>1. Take(buf, 0, 0) = <<>>
  BY DEF Take
<1> QED BY <1>1, ConcatEmptySeq DEF Arriving

LEMMA RequestsFacts ==
  ASSUME NEW req \in Requests
  PROVE  /\ req \in Seq(Byte) /\ Len(req) \in Nat /\ Len(req) >= 2 /\ req[2] = Len(req) - 2
         /\ req[1] >= FN_MIN /\ req[2] <= COMSZ
<1>1. req \in Seq(Byte) /\ Len(req) >= 2 /\ req[2] = Len(req) - 2 /\ req[1] >= FN_MIN /\ req[2] <= COMSZ
  BY HostAssumption
<1> QED BY <1>1, LenProperties

LEMMA RemovedFacts ==
  ASSUME NEW f \in Seq(Byte), NEW k \in 1 .. Len(f)
  PROVE  RemoveAt(f, k) \in Seq(Byte)
<1>1. Len(f) \in Nat /\ \A i \in 1 .. Len(f) : f[i] \in Byte
  BY LenOfRange
<1>2. SubSeq(f, 1, k - 1) \in Seq(Byte)
  <2> DEFINE b == k - 1
  <2>1. b \in Int /\ 1 \in Int /\ \A i \in 1 .. b : f[i] \in Byte
    BY <1>1
  <2> HIDE DEF b
  <2>2. SubSeq(f, 1, b) \in Seq(Byte)
    BY <2>1, SubSeqProperties
  <2> QED BY <2>2 DEF b
<1>3. SubSeq(f, k + 1, Len(f)) \in Seq(Byte)
  <2> DEFINE a == k + 1
             b == Len(f)
  <2>1. a \in Int /\ b \in Int /\ \A i \in a .. b : f[i] \in Byte
    BY <1>1
  <2> HIDE DEF a, b
  <2>2. SubSeq(f, a, b) \in Seq(Byte)
    BY <2>1, SubSeqProperties
  <2> QED BY <2>2 DEF a, b
<1> QED BY <1>2, <1>3, ConcatProperties DEF RemoveAt

LEMMA HostStep == ASSUME Inv, HostSends PROVE Inv'
<1>1. /\ UNCHANGED <<pc, combuf, p, n, mem, deice_registers, deice_host_status>> /\ replies' = <<>>
  BY DEF HostSends
<1>2. PICK req \in Requests :
        \/ line' = Framed(req) /\ request' = IF pc = "fn" THEN "whole" ELSE "unsure"
        \/ \E k \in DOMAIN Framed(req), d \in Noise :
              /\ line' = Disturbed(Framed(req), k, d)
              /\ request' = IF pc = "fn" /\ k > 2 THEN "garbled" ELSE "unsure"
        \/ \E k \in DOMAIN Framed(req) : line' = RemoveAt(Framed(req), k) /\ request' = "unsure"
  BY DEF HostSends, Disturbed
<1> DEFINE f == Framed(req)
<1>3. /\ f \in Seq(Byte) /\ Sum(f) = 0 /\ Len(f) >= 3 /\ f[1] >= FN_MIN /\ f[2] = Len(f) - 3 /\ f[2] <= COMSZ
      /\ DOMAIN f = 1 .. Len(f) /\ Len(f) \in Nat
  <2>1. req \in Seq(Byte) /\ Len(req) \in Nat /\ Len(req) >= 2 /\ req[2] = Len(req) - 2 /\ req[1] >= FN_MIN /\ req[2] <= COMSZ
    BY RequestsFacts
  <2>2. f \in Seq(Byte) /\ Len(f) = Len(req) + 1 /\ f[1] = req[1] /\ f[2] = req[2] /\ Sum(f) = 0
    BY <2>1, FramedFacts
  <2> HIDE DEF f
  <2> QED BY <2>1, <2>2, LenProperties
<1> HIDE DEF f
<1>4. line' \in Seq(Byte) /\ request' \in {"whole", "garbled", "unsure"}
      /\ (request' # "unsure" => pc = "fn" /\ Intact(line', request'))
  <2>1. CASE line' = f /\ request' = IF pc = "fn" THEN "whole" ELSE "unsure"
    BY <1>3, <2>1 DEF Intact
  <2>2. CASE \E k \in DOMAIN f, d \in Noise :
               /\ line' = Disturbed(f, k, d)
               /\ request' = IF pc = "fn" /\ k > 2 THEN "garbled" ELSE "unsure"
    <3>1. PICK k \in 1 .. Len(f), d \in Noise :
            /\ line' = Disturbed(f, k, d)
            /\ request' = IF pc = "fn" /\ k > 2 THEN "garbled" ELSE "unsure"
      BY <1>3, <2>2
    <3>2. d \in 1 .. (M - 1)
      BY HostAssumption
    <3> DEFINE g == Disturbed(f, k, d)
    <3>3. g \in Seq(Byte) /\ Len(g) = Len(f) /\ (\A i \in 1 .. Len(f) : i # k => g[i] = f[i]) /\ Sum(g) = d
      BY <1>3, <3>2, DisturbedFacts
    <3> HIDE DEF g
    <3>4. k > 2 => g[1] = f[1] /\ g[2] = f[2]
      <4>1. 1 \in 1 .. Len(f) /\ 2 \in 1 .. Len(f)
        BY <1>3
      <4> QED BY <3>3, <4>1
    <3>5. d # 0
      BY <3>2, Sizes
    <3>6. line' = g
      BY <3>1 DEF g
    <3>7. k > 2 => Intact(g, "garbled")
      BY <1>3, <3>3, <3>4, <3>5 DEF Intact
    <3> QED BY <3>1, <3>3, <3>6, <3>7
  <2>3. CASE \E k \in DOMAIN f : line' = RemoveAt(f, k) /\ request' = "unsure"
    BY <1>3, <2>3, RemovedFacts
  <2> QED BY <1>2, <2>1, <2>2, <2>3 DEF f
<1>5. Types' /\ Reading'
  BY <1>1, <1>4 DEF Inv, Types, Reading
<1>6. InFlight'
  <2>1. ASSUME request' # "unsure" PROVE Intact(Arriving(combuf, p, line'), request')
    <3>1. p = 0 /\ combuf \in Buffer
      BY <1>4, <2>1 DEF Inv, Reading, Types
    <3>2. Arriving(combuf, 0, line') = line'
      BY <1>4, <3>1, StartFacts
    <3> QED BY <1>4, <2>1, <3>1, <3>2
  <2>2. pc = "run" => request' = "unsure"
    BY <1>4
  <2>3. pc = "serve" => request' # "garbled"
    BY <1>4
  <2> QED BY <1>1, <2>1, <2>2, <2>3 DEF InFlight
<1> QED BY <1>5, <1>6 DEF Inv

(* A byte that is stored.                                                    *)
LEMMA StoreFacts ==
  ASSUME Inv, NEW b \in Byte, Get(b), Stored(b), p \in 0 .. (M + 1)
  PROVE  /\ combuf' \in Buffer /\ line' \in Seq(Byte) /\ p' = p + 1
         /\ combuf'[p] = b /\ \A k \in 0 .. (M + 1) : k # p => combuf'[k] = combuf[k]
         /\ Arriving(combuf', p', line') = Arriving(combuf, p, line)
<1>1. combuf \in Buffer /\ line \in Seq(Byte) /\ line # <<>> /\ b = Head(line) /\ line' = Tail(line)
  BY DEF Inv, Types, Reading, Get
<1>2. combuf' = StoredAt(combuf, p, Head(line)) /\ p' = p + 1
  BY <1>1 DEF Stored, StoredAt
<1>3. combuf'[p] = b /\ \A k \in 0 .. (M + 1) : k # p => combuf'[k] = combuf[k]
  BY <1>1 DEF Stored, Buffer
<1> QED BY <1>1, <1>2, <1>3, ReadKeeps

(* A frame in flight, and the byte of it that is read next.                  *)
LEMMA FlightFacts ==
  ASSUME Inv, request # "unsure", pc # "serve"
  PROVE  LET w == Arriving(combuf, p, line)
         IN  /\ Intact(w, request) /\ w \in Seq(Byte) /\ Len(w) = p + Len(line)
             /\ \A k \in 1 .. p : w[k] = combuf[k - 1]
             /\ line # <<>> => w[p + 1] = Head(line)
<1> DEFINE w == Arriving(combuf, p, line)
<1>1. combuf \in Buffer /\ p \in 0 .. (M + 2) /\ p \in Nat /\ line \in Seq(Byte)
  BY Sizes DEF Inv, Types, Reading
<1>2. /\ w \in Seq(Byte) /\ Len(w) = p + Len(line)
      /\ \A k \in 1 .. p : w[k] = combuf[k - 1]
      /\ \A k \in 1 .. Len(line) : w[p + k] = line[k]
  BY <1>1, ArrivingFacts
<1>3. Intact(w, request)
  BY DEF Inv, InFlight
<1> HIDE DEF w
<1>4. ASSUME line # <<>> PROVE w[p + 1] = Head(line)
  <2>1. Head(line) = line[1] /\ 1 \in 1 .. Len(line)
    BY <1>1, <1>4, HeadTailProperties, EmptySeq
  <2> QED BY <1>2, <2>1
<1> QED BY <1>2, <1>3, <1>4 DEF w

LEMMA FnRead == ASSUME Inv, GetFn PROVE Inv'
<1>1. PICK b \in Byte :
        /\ pc = "fn" /\ Get(b)
        /\ IF b < FN_MIN THEN UNCHANGED <<pc, combuf, p>> ELSE pc' = "len" /\ Stored(b)
        /\ replies' = <<>>
        /\ UNCHANGED <<n, mem, deice_registers, deice_host_status, request, sent>>
  BY DEF GetFn
<1>2. p = 0 /\ p \in 0 .. (M + 1) /\ line \in Seq(Byte) /\ line # <<>> /\ b = Head(line)
      /\ line' = Tail(line) /\ line' \in Seq(Byte)
  BY <1>1, HeadTailProperties, Sizes DEF Inv, Reading, Get
<1>3. FN_MIN \in Int /\ b \in Int /\ COMSZ \in Nat
  BY Sizes DEF FN_MIN, FN_OUT
<1>4. CASE b < FN_MIN
  <2>1. request = "unsure"
    <3> SUFFICES ASSUME request # "unsure" PROVE FALSE
      OBVIOUS
    <3> DEFINE w == Arriving(combuf, p, line)
    <3>1. Intact(w, request) /\ w[p + 1] = Head(line)
      BY <1>1, <1>2, FlightFacts
    <3> HIDE DEF w
    <3>2. w[1] >= FN_MIN /\ w[1] = b
      BY <1>2, <3>1 DEF Intact
    <3> QED BY <1>3, <1>4, <3>2
  <2>2. Types' /\ Reading'
    BY <1>1, <1>2, <1>4 DEF Inv, Types, Reading
  <2>3. InFlight'
    BY <1>1, <1>4, <2>1 DEF InFlight
  <2> QED BY <2>2, <2>3 DEF Inv
<1>5. CASE ~(b < FN_MIN)
  <2>1. pc' = "len" /\ Stored(b) /\ Get(b)
    BY <1>1, <1>5
  <2>2. /\ combuf' \in Buffer /\ line' \in Seq(Byte) /\ p' = 1
        /\ Arriving(combuf', p', line') = Arriving(combuf, p, line)
    BY <1>2, <2>1, StoreFacts
  <2>3. Types'
    BY <1>1, <2>2 DEF Inv, Types
  <2>4. Reading'
    BY <1>1, <1>3, <2>1, <2>2 DEF Inv, Reading
  <2>5. InFlight'
    BY <1>1, <2>1, <2>2 DEF Inv, InFlight
  <2> QED BY <2>3, <2>4, <2>5 DEF Inv
<1> QED BY <1>4, <1>5

LEMMA LenRead == ASSUME Inv, GetLen PROVE Inv'
<1>1. PICK b \in Byte :
        /\ pc = "len" /\ Get(b)
        /\ IF b > COMSZ
           THEN pc' = "fn" /\ p' = 0 /\ UNCHANGED <<combuf, n>>
           ELSE pc' = (IF b > 0 THEN "data" ELSE "check") /\ Stored(b) /\ n' = b
        /\ UNCHANGED <<mem, deice_registers, deice_host_status, request, sent, replies>>
  BY DEF GetLen
<1>2. p = 1 /\ p \in 0 .. (M + 1) /\ line \in Seq(Byte) /\ line # <<>> /\ b = Head(line)
      /\ line' = Tail(line) /\ line' \in Seq(Byte) /\ replies = <<>>
  BY <1>1, HeadTailProperties, Sizes DEF Inv, Reading, Get
<1>3. b \in Nat /\ COMSZ \in Nat
  BY Sizes
<1>4. CASE b > COMSZ
  <2>1. request = "unsure"
    <3> SUFFICES ASSUME request # "unsure" PROVE FALSE
      OBVIOUS
    <3> DEFINE w == Arriving(combuf, p, line)
    <3>1. Intact(w, request) /\ w[p + 1] = Head(line)
      BY <1>1, <1>2, FlightFacts
    <3> HIDE DEF w
    <3>2. w[2] <= COMSZ /\ w[2] = b
      BY <1>2, <3>1 DEF Intact
    <3> QED BY <1>3, <1>4, <3>2
  <2>2. Types' /\ Reading'
    BY <1>1, <1>2, <1>3, <1>4 DEF Inv, Types, Reading
  <2>3. InFlight'
    BY <1>1, <1>4, <2>1 DEF InFlight
  <2> QED BY <2>2, <2>3 DEF Inv
<1>5. CASE ~(b > COMSZ)
  <2>1. pc' = (IF b > 0 THEN "data" ELSE "check") /\ Stored(b) /\ Get(b) /\ n' = b
    BY <1>1, <1>5
  <2>2. /\ combuf' \in Buffer /\ line' \in Seq(Byte) /\ p' = 2 /\ combuf'[1] = b
        /\ Arriving(combuf', p', line') = Arriving(combuf, p, line)
    BY <1>2, <2>1, StoreFacts
  <2>3. Types'
    BY <1>1, <2>2 DEF Inv, Types
  <2>4. Reading'
    BY <1>1, <1>2, <1>3, <1>5, <2>1, <2>2 DEF Inv, Reading
  <2>5. InFlight'
    BY <1>1, <2>1, <2>2 DEF Inv, InFlight
  <2> QED BY <2>3, <2>4, <2>5 DEF Inv
<1> QED BY <1>4, <1>5

LEMMA DataRead == ASSUME Inv, GetData PROVE Inv'
<1>1. PICK b \in Byte :
        /\ pc = "data" /\ Get(b) /\ Stored(b) /\ n' = n - 1
        /\ pc' = IF n > 1 THEN "data" ELSE "check"
        /\ UNCHANGED <<mem, deice_registers, deice_host_status, request, sent, replies>>
  BY DEF GetData
<1>2. /\ combuf \in Buffer /\ p >= 2 /\ p + n = combuf[1] + 2 /\ combuf[1] <= COMSZ /\ n > 0
      /\ n \in 0 .. COMSZ /\ p \in 0 .. (COMSZ + 2) /\ replies = <<>>
  BY <1>1 DEF Inv, Types, Reading
<1>3. combuf[1] \in Nat /\ COMSZ \in Nat
  BY <1>2, BufferBytes, Sizes
<1>4. p \in 0 .. (M + 1) /\ 1 \in 0 .. (M + 1) /\ 1 # p /\ p + 1 \in 0 .. (COMSZ + 2)
  BY <1>2, <1>3, Sizes
<1>5. /\ combuf' \in Buffer /\ line' \in Seq(Byte) /\ p' = p + 1 /\ combuf'[1] = combuf[1]
      /\ Arriving(combuf', p', line') = Arriving(combuf, p, line)
  BY <1>1, <1>4, StoreFacts
<1>6. Types'
  BY <1>1, <1>5 DEF Inv, Types
<1>7. Reading'
  BY <1>1, <1>2, <1>3, <1>4, <1>5 DEF Inv, Reading
<1>8. InFlight'
  BY <1>1, <1>5 DEF Inv, InFlight
<1> QED BY <1>6, <1>7, <1>8 DEF Inv

(* The last byte of a frame in flight: it is accepted if and only if the     *)
(* frame is as it was sent.                                                  *)
LEMMA Verdict ==
  ASSUME Inv, pc = "check", request # "unsure", NEW b \in Byte, Get(b)
  PROVE  Accepts(b) <=> request = "whole"
<1> DEFINE w == Arriving(combuf, p, line)
           t == Take(combuf, 0, combuf[1] + 2)
<1>1. /\ combuf \in Buffer /\ combuf[1] <= COMSZ /\ p >= 2 /\ p = combuf[1] + 2 /\ p \in Nat
      /\ line \in Seq(Byte) /\ line # <<>> /\ b = Head(line)
  BY Sizes, BufferBytes DEF Inv, Types, Reading, Get
<1>2. combuf[1] \in Nat /\ combuf[1] + 2 < M /\ b \in Int
  BY <1>1, BufferBytes, Sizes
<1>3. /\ Intact(w, request) /\ Len(w) = p + Len(line) /\ \A k \in 1 .. p : w[k] = combuf[k - 1]
  BY FlightFacts
<1>4. w = t \o line
  BY <1>1 DEF Arriving
<1> HIDE DEF w
<1>5. Len(line) = 1
  <2>1. 2 \in 1 .. p /\ 2 - 1 = 1
    BY <1>1
  <2>2. w[2] = combuf[1]
    BY <1>3, <2>1
  <2>3. w[2] = Len(w) - 3
    BY <1>3 DEF Intact
  <2>4. Len(line) \in Nat
    BY <1>1, LenProperties
  <2>5. Len(w) = combuf[1] + 2 + Len(line)
    BY <1>1, <1>3
  <2> DEFINE c == combuf[1]
             l == Len(line)
  <2>6. c \in Nat /\ l \in Nat /\ c = c + 2 + l - 3
    BY <1>2, <2>2, <2>3, <2>4, <2>5
  <2> HIDE DEF c, l
  <2>7. l = 1
    BY <2>6
  <2> QED BY <2>7 DEF l
<1>6. line = <<b>>
  <2>1. Head(line) = line[1]
    BY <1>1, HeadTailProperties
  <2> QED BY <1>1, <1>5, <2>1
<1>7. t \in Seq(Byte)
  <2> DEFINE len == combuf[1] + 2
  <2>1. len \in Nat /\ len <= M + 2
    BY <1>2, Sizes
  <2> HIDE DEF len
  <2>2. Take(combuf, 0, len) \in Seq(Byte)
    BY <1>1, <2>1, FrontFacts
  <2> QED BY <2>2 DEF len
<1>8. Checksum(combuf) = Sum(t) /\ Checksum(combuf) \in Byte
  BY <1>1, <1>2, ChecksumIsSum
<1> HIDE DEF t
<1>9. w = Append(t, b)
  BY <1>4, <1>6, <1>7, AppendIsConcat
<1>10. Sum(w) = (Sum(t) + b) % M
  BY <1>2, <1>7, <1>9, BytesAreInts, SumAppend
<1>11. Sum(t) + b = b + Sum(t)
  <2>1. Sum(t) \in Int
    BY <1>8, Sizes
  <2> QED BY <1>2, <2>1
<1>12. Accepts(b) <=> Sum(w) = 0
  BY <1>8, <1>10, <1>11 DEF Accepts
<1>13. request = "whole" <=> Sum(w) = 0
  BY <1>3 DEF Intact
<1> QED BY <1>12, <1>13

LEMMA ChecksumRead == ASSUME Inv, GetChecksum PROVE Inv'
<1>1. PICK b \in Byte :
        /\ pc = "check" /\ Get(b)
        /\ IF Accepts(b) THEN pc' = "serve" /\ UNCHANGED request
           ELSE pc' = "fn" /\ request' = IF request = "garbled" THEN "unsure" ELSE request
        /\ p' = 0
        /\ UNCHANGED <<combuf, n, mem, deice_registers, deice_host_status, sent, replies>>
  BY DEF GetChecksum
<1>2. /\ line' \in Seq(Byte) /\ combuf[1] <= COMSZ /\ replies = <<>> /\ COMSZ \in Nat
      /\ request \in {"whole", "garbled", "unsure"}
  BY <1>1, HeadTailProperties, Sizes DEF Inv, Reading, Get
<1>3. request # "unsure" => (Accepts(b) <=> request = "whole")
  BY <1>1, Verdict
<1>4. Types'
  BY <1>1 DEF Inv, Types
<1>5. Reading'
  BY <1>1, <1>2 DEF Inv, Reading
<1>6. InFlight'
  BY <1>1, <1>2, <1>3 DEF InFlight
<1> QED BY <1>4, <1>5, <1>6 DEF Inv

LEMMA TimedOut == ASSUME Inv, Timeout PROVE Inv'
<1>1. /\ pc' = "fn" /\ p' = 0 /\ request' = "unsure"
      /\ UNCHANGED <<combuf, n, mem, deice_registers, deice_host_status, line, replies>>
  BY DEF Timeout
<1>2. COMSZ \in Nat
  BY Sizes
<1>3. Types' /\ Reading'
  BY <1>1, <1>2 DEF Inv, Types, Reading
<1>4. InFlight'
  BY <1>1 DEF InFlight
<1> QED BY <1>3, <1>4 DEF Inv

LEMMA Overran == ASSUME Inv, Overrun PROVE Inv'
<1>1. /\ line' = <<>> /\ request' = "unsure"
      /\ UNCHANGED <<pc, combuf, p, n, mem, deice_registers, deice_host_status, replies>>
  BY DEF Overrun
<1>2. Types' /\ Reading'
  BY <1>1, EmptySeq DEF Inv, Types, Reading
<1>3. InFlight'
  BY <1>1 DEF InFlight
<1> QED BY <1>2, <1>3 DEF Inv

LEMMA IsReady == ASSUME Inv, pc = "serve" PROVE Ready
BY DEF Inv, Reading, Ready

LEMMA Back ==
  ASSUME Inv, Types', NEW fns, Serve(fns)
  PROVE  Inv'
<1>1. /\ pc = "serve" /\ pc' = "fn" /\ request' = "unsure" /\ UNCHANGED <<p, n, line>>
  BY DEF Serve
<1>2. Reading'
  BY <1>1 DEF Inv, Reading
<1>3. InFlight'
  BY <1>1 DEF InFlight
<1> QED BY <1>2, <1>3 DEF Inv

(* The functions that answer.                                                *)
Answers ==
  \/ FnGetStat \/ FnReadMem \/ FnWriteM \/ FnReadRg \/ FnWriteRg \/ FnWriteRgLength
  \/ FnSetBytes \/ FnError

LEMMA FunctionServed == ASSUME Inv, Answers PROVE Inv' /\ Promise
<1>1. PICK fns : Serve(fns)
  BY DEF Answers, FnGetStat, FnReadMem, FnWriteM, FnReadRg, FnWriteRg, FnWriteRgLength, FnSetBytes, FnError
<1>2. Ready
  BY <1>1, IsReady DEF Serve
<1>3. Types' /\ Promise
  <2>1. CASE FnGetStat
    BY <1>2, <2>1, StatServed
  <2>2. CASE FnReadMem
    BY <1>2, <2>2, ReadServed
  <2>3. CASE FnWriteM
    BY <1>2, <2>3, WriteServed
  <2>4. CASE FnReadRg
    BY <1>2, <2>4, RegistersServed
  <2>5. CASE FnWriteRg
    BY <1>2, <2>5, WriteRegistersServed
  <2>6. CASE FnWriteRgLength
    BY <1>2, <2>6, WrongLengthServed
  <2>7. CASE FnSetBytes
    BY <1>2, <2>7, BytesServed
  <2>8. CASE FnError
    BY <1>2, <2>8, ErrorServed
  <2> QED BY <2>1, <2>2, <2>3, <2>4, <2>5, <2>6, <2>7, <2>8 DEF Answers
<1>4. Inv'
  BY <1>1, <1>3, Back
<1> QED BY <1>3, <1>4

LEMMA Leaves == ASSUME Inv, FnRunTarg PROVE Inv'
<1>1. /\ pc = "serve" /\ pc' = "run" /\ request' = "unsure"
      /\ UNCHANGED <<combuf, p, n, mem, deice_registers, deice_host_status, line, replies>>
  BY DEF FnRunTarg
<1>2. Types' /\ Reading'
  BY <1>1 DEF Inv, Types, Reading
<1>3. InFlight'
  BY <1>1 DEF InFlight
<1> QED BY <1>2, <1>3 DEF Inv

LEMMA Enters == ASSUME Inv, Enter PROVE Inv'
<1>1. /\ pc = "run" /\ pc' = "fn" /\ UNCHANGED <<p, n, mem, line, request>>
  BY DEF Enter
<1>2. PICK regs \in Registers, status \in Statuses :
        /\ deice_registers' = regs /\ deice_host_status' = status
        /\ combuf' = Summed(FrameIn(combuf, FN_RUN_TARG, regs, status))
  BY DEF Enter, RegisterFrame, FrameIn
<1>3. regs \in [1 .. REGS -> Byte] /\ status \in Byte
  BY RegsAssumption
<1>4. FN_RUN_TARG \in Byte /\ combuf \in Buffer
  BY Sizes DEF FN_RUN_TARG, Byte, Inv, Types
<1>5. combuf' \in Buffer
  BY <1>2, <1>3, <1>4, RegisterReply, SummedFacts
<1>6. Types'
  BY <1>1, <1>2, <1>3, <1>5 DEF Inv, Types
<1>7. Reading'
  BY <1>1 DEF Inv, Reading
<1>8. InFlight'
  BY <1>1 DEF Inv, InFlight
<1> QED BY <1>6, <1>7, <1>8 DEF Inv

LEMMA NextCases ==
  Next <=> \/ GetFn \/ GetLen \/ GetData \/ GetChecksum \/ Timeout
           \/ Answers \/ FnRunTarg \/ HostSends \/ Overrun \/ Enter
BY DEF Next, Target, Answers

LEMMA InvStep == Inv /\ [Next]_vars => Inv'
<1> SUFFICES ASSUME Inv, [Next]_vars PROVE Inv'
  OBVIOUS
<1>1. CASE GetFn
  BY <1>1, FnRead
<1>2. CASE GetLen
  BY <1>2, LenRead
<1>3. CASE GetData
  BY <1>3, DataRead
<1>4. CASE GetChecksum
  BY <1>4, ChecksumRead
<1>5. CASE Timeout
  BY <1>5, TimedOut
<1>6. CASE Answers
  BY <1>6, FunctionServed
<1>7. CASE FnRunTarg
  BY <1>7, Leaves
<1>8. CASE HostSends
  BY <1>8, HostStep
<1>9. CASE Overrun
  BY <1>9, Overran
<1>10. CASE Enter
  BY <1>10, Enters
<1>11. CASE UNCHANGED vars
  BY <1>11 DEF vars, Inv, Types, Reading, InFlight
<1> QED BY <1>1, <1>2, <1>3, <1>4, <1>5, <1>6, <1>7, <1>8, <1>9, <1>10, <1>11, NextCases

LEMMA Invariance == Spec => []Inv
<1>1. Inv /\ [Next]_vars => Inv'
  BY InvStep
<1> QED BY <1>1, InitInv, PTL DEF Spec

-----------------------------------------------------------------------------
(* Only a function that answers goes from "serve" to "fn".                   *)
LEMMA PromiseStep == Inv /\ [Next]_vars => Promise
<1> SUFFICES ASSUME Inv, [Next]_vars PROVE Promise
  OBVIOUS
<1>1. CASE Answers
  BY <1>1, FunctionServed
<1>2. CASE ~Answers
  <2>1. \/ GetFn \/ GetLen \/ GetData \/ GetChecksum \/ Timeout \/ FnRunTarg
        \/ HostSends \/ Overrun \/ Enter \/ UNCHANGED vars
    BY <1>2, NextCases
  <2>2. ~(pc = "serve" /\ pc' = "fn")
    BY <2>1 DEF GetFn, GetLen, GetData, GetChecksum, Timeout, FnRunTarg, HostSends, Overrun, Enter, vars
  <2> QED BY <2>2 DEF Promise
<1> QED BY <1>1, <1>2

(* deice_main: the variables keep their types, and a frame that is read      *)
(* fills combuf from its start, inside it if with its function and its       *)
(* length it is not longer than combuf. The index goes two further for one   *)
(* that is.                                                                  *)
THEOREM TypesCorrect == Spec => []TypeOK
<1>1. Inv => TypeOK
  <2> SUFFICES ASSUME Inv PROVE TypeOK
    OBVIOUS
  <2>1. pc = "data" /\ combuf[1] + 2 <= COMSZ => p < COMSZ
    <3>1. combuf[1] \in Nat /\ COMSZ \in Nat
      BY BufferBytes, Sizes DEF Inv, Types
    <3> QED BY <3>1 DEF Inv, Reading
  <2> QED BY <2>1 DEF Inv, Types, Reading, TypeOK, Buffer
<1> QED BY <1>1, Invariance, PTL

(* The checksum of deice_main: a frame whose function and length came        *)
(* through is not acted upon if one of its other bytes was changed, for      *)
(* every request, buffer size and disturbance.                               *)
THEOREM GarbledCorrect == Spec => []GarbledRefused
<1>1. Inv => GarbledRefused
  BY DEF Inv, InFlight, GarbledRefused
<1> QED BY <1>1, Invariance, PTL

(* A frame that reaches a waiting target whole is acted upon: when its last  *)
(* byte is read, deice_main does not wait for another one.                   *)
THEOREM WholeCorrect == Spec => []WholeServed
<1>1. Inv => WholeServed
  <2> SUFFICES ASSUME Inv, request = "whole", line = <<>>, pc # "serve" PROVE FALSE
    BY DEF WholeServed
  <2> DEFINE w == Arriving(combuf, p, line)
  <2>1. Intact(w, request) /\ Len(w) = p + Len(line) /\ \A k \in 1 .. p : w[k] = combuf[k - 1]
    BY FlightFacts
  <2>2. p \in Nat /\ Len(line) = 0
    BY Sizes, EmptySeq DEF Inv, Reading
  <2> HIDE DEF w
  <2>3. Len(w) = p /\ p >= 3 /\ w[2] = p - 3
    BY <2>1, <2>2 DEF Intact
  <2>4. 2 \in 1 .. p /\ 2 - 1 = 1
    BY <2>2, <2>3
  <2>5. combuf[1] = p - 3
    BY <2>1, <2>3, <2>4
  <2>6. pc \in {"data", "check"} /\ p + n = combuf[1] + 2 /\ n \in Nat
    BY <2>2, <2>3, Sizes DEF Inv, Reading, InFlight
  <2> QED BY <2>2, <2>5, <2>6
<1> QED BY <1>1, Invariance, PTL

(* deice_main and the functions it calls: every well-formed request that is  *)
(* accepted does and answers what deice.h says, whatever combuf, the memory  *)
(* and the registers hold and however long the request is.                   *)
THEOREM PromiseCorrect == Spec => PromiseKept
<1>1. Inv /\ [Next]_vars => Promise
  BY PromiseStep
<1>2. Spec => [][Promise]_vars
  BY <1>1, Invariance, PTL DEF Spec
<1>3. Promise =>
        LET req == Take(combuf, 0, combuf[1] + 2)
            want == Promised(req, mem, deice_registers, deice_host_status)
        IN  pc = "serve" /\ pc' = "fn" /\ WellFormed(req, COMSZ) =>
              /\ mem' = want.mem /\ deice_registers' = want.regs
              /\ \E w \in CutOff(Framed(want.reply)) : replies' = <<w>>
  BY DEF Promise, Request, Want
<1> QED BY <1>2, <1>3, PTL DEF PromiseKept
=============================================================================
