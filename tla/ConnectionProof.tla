--------------------------- MODULE ConnectionProof ---------------------------
(***************************************************************************)
(* Proofs about Connection for any texts, bytes, lengths and buffers.      *)
(***************************************************************************)
EXTENDS Connection, FiniteSetTheorems, SequenceTheorems, TLAPS

(* Induction, as a statement about sets: what holds of 0, and of n + 1 if  *)
(* of n, holds of all numbers. If it did not hold of x, the numbers below  *)
(* x of which it holds would map into themselves by successor, without 0:  *)
(* more pigeons than holes.                                                *)
LEMMA Inductive ==
    ASSUME NEW S, 0 \in S, \A n \in Nat : n \in S => n + 1 \in S
    PROVE  Nat \subseteq S
<1> SUFFICES ASSUME NEW x \in Nat, x \notin S PROVE FALSE
  OBVIOUS
<1> DEFINE U == {k \in 0 .. x : k \in S}
           f == [k \in U |-> k + 1]
<1>1. IsFiniteSet(U) /\ Cardinality(U) \in Nat
  <2>1. IsFiniteSet(0 .. x)
    BY FS_Interval
  <2>2. U \in SUBSET (0 .. x)
    OBVIOUS
  <2> HIDE DEF U
  <2>3. QED
    BY <2>1, <2>2, FS_Subset, FS_CardinalityType
<1>2. 0 \in U
  OBVIOUS
<1>3. IsFiniteSet(U \ {0}) /\ Cardinality(U \ {0}) = Cardinality(U) - 1
  BY <1>1, <1>2, FS_RemoveElement
<1>4. f \in [U -> U \ {0}]
  OBVIOUS
<1> HIDE DEF U, f
<1>5. \E j, k \in U : j # k /\ f[j] = f[k]
  <2> DEFINE V == U \ {0}
  <2>1. Cardinality(V) < Cardinality(U) /\ IsFiniteSet(V) /\ f \in [U -> V]
    BY <1>1, <1>3, <1>4
  <2> HIDE DEF V
  <2>2. QED
    BY <1>1, <2>1, FS_PigeonHole
<1>6. QED
  BY <1>5 DEF U, f

-----------------------------------------------------------------------------
(* The powers of Base: Power is the function its definition asks for.      *)
IsPower(g, n) ==
    /\ g \in [0 .. n -> Nat]
    /\ g[0] = 1
    /\ \A i \in 1 .. n : g[i] = Base * g[i - 1]

LEMMA PowerExists == \A n \in Nat : \E g : IsPower(g, n)
<1> DEFINE S == {n \in Nat : \E g : IsPower(g, n)}
<1>1. 0 \in S
  <2>1. IsPower([i \in 0 .. 0 |-> 1], 0)
    BY DEF IsPower
  <2>2. QED
    BY <2>1
<1>2. ASSUME NEW n \in Nat, n \in S PROVE n + 1 \in S
  <2>1. PICK g : IsPower(g, n)
    BY <1>2
  <2> DEFINE h == [i \in 0 .. n + 1 |-> IF i <= n THEN g[i] ELSE Base * g[n]]
  <2>2. g[n] \in Nat /\ Base * g[n] \in Nat
    BY <2>1, BaseAssumption DEF IsPower
  <2>3. h \in [0 .. n + 1 -> Nat] /\ h[0] = 1
    BY <2>1, <2>2 DEF IsPower
  <2>4. ASSUME NEW i \in 1 .. n + 1 PROVE h[i] = Base * h[i - 1]
    <3>1. CASE i <= n
      BY <2>1, <3>1 DEF IsPower
    <3>2. CASE i = n + 1
      BY <2>1, <3>2 DEF IsPower
    <3>3. QED
      BY <3>1, <3>2
  <2>5. IsPower(h, n + 1)
    BY <2>3, <2>4 DEF IsPower
  <2>6. QED
    BY <2>5
<1>3. Nat \subseteq S
  BY <1>1, <1>2, Inductive
<1>4. QED
  BY <1>3

LEMMA PowerUnique ==
    ASSUME NEW m \in Nat, NEW n \in Nat, NEW g, NEW h, IsPower(g, m), IsPower(h, n)
    PROVE  \A k \in Nat : k <= m /\ k <= n => g[k] = h[k]
<1> DEFINE S == {k \in Nat : k <= m /\ k <= n => g[k] = h[k]}
<1>1. 0 \in S
  BY DEF IsPower
<1>2. ASSUME NEW k \in Nat, k \in S PROVE k + 1 \in S
  <2>1. SUFFICES ASSUME k + 1 <= m, k + 1 <= n PROVE g[k + 1] = h[k + 1]
    OBVIOUS
  <2>2. g[k] = h[k]
    BY <1>2, <2>1
  <2>3. g[k + 1] = Base * g[k] /\ h[k + 1] = Base * h[k]
    BY <2>1 DEF IsPower
  <2>4. QED
    BY <2>2, <2>3
<1>3. QED
  BY <1>1, <1>2, Inductive

LEMMA PowerValues ==
    /\ Power[0] = 1
    /\ \A k \in Nat : Power[k] \in Nat \ {0} /\ Power[k + 1] = Base * Power[k]
<1> DEFINE Partial(n) == CHOOSE g : IsPower(g, n)
           F == [k \in Nat |-> Partial(k)[k]]
<1>1. \A n \in Nat : IsPower(Partial(n), n)
  BY PowerExists
<1> HIDE DEF Partial
<1>2. F[0] = 1
  BY <1>1 DEF IsPower
<1>3. ASSUME NEW k \in Nat PROVE F[k + 1] = Base * F[k]
  <2>1. Partial(k + 1)[k + 1] = Base * Partial(k + 1)[k]
    BY <1>1 DEF IsPower
  <2>2. Partial(k + 1)[k] = Partial(k)[k]
    BY <1>1, PowerUnique
  <2>3. QED
    BY <2>1, <2>2
<1> DEFINE Solves(f) == f = [k \in Nat |-> IF k = 0 THEN 1 ELSE Base * f[k - 1]]
<1>4. Solves(F)
  <2>1. ASSUME NEW k \in Nat PROVE F[k] = IF k = 0 THEN 1 ELSE Base * F[k - 1]
    BY <1>2, <1>3
  <2> HIDE DEF Partial
  <2>2. F = [k \in Nat |-> F[k]]
    OBVIOUS
  <2>3. QED
    BY <2>1, <2>2
<1>5. Power = CHOOSE f : Solves(f)
  BY DEF Power
<1>6. Solves(Power)
  BY <1>4, <1>5
<1>7. Power[0] = 1 /\ \A k \in Nat : Power[k + 1] = Base * Power[k]
  BY <1>6
<1> DEFINE S == {k \in Nat : Power[k] \in Nat \ {0}}
<1>8. ASSUME NEW k \in Nat, k \in S PROVE k + 1 \in S
  <2>1. Base * Power[k] \in Nat \ {0}
    BY <1>8, BaseAssumption
  <2>2. QED
    BY <1>7, <2>1
<1>9. Nat \subseteq S
  <2>1. 0 \in S
    BY <1>7
  <2> HIDE DEF S
  <2>2. QED
    BY <1>8, <2>1, Inductive
<1>10. QED
  BY <1>7, <1>9

-----------------------------------------------------------------------------
(* A length is the only one with its bytes: what le32toh() makes of them   *)
(* is what htole32() was given.                                            *)
LEMMA Division ==
    ASSUME NEW n \in Nat, NEW d \in Nat \ {0}
    PROVE  /\ n \div d \in Nat
           /\ n % d \in 0 .. d - 1
           /\ n = d * (n \div d) + (n % d)
  OBVIOUS

LEMMA Multiples ==
    ASSUME NEW d \in Nat \ {0}, NEW p \in Nat, NEW q \in Nat, p < q
    PROVE  d * p + d <= d * q
<1>1. PICK k \in Nat : q = p + 1 + k
  <2>1. q - p - 1 \in Nat /\ q = p + 1 + (q - p - 1)
    OBVIOUS
  <2>2. QED
    BY <2>1
<1>2. d * q = d * p + d + d * k
  BY <1>1
<1>3. d * k \in Nat
  OBVIOUS
<1>4. QED
  BY <1>2, <1>3

LEMMA Quotient ==
    ASSUME NEW d \in Nat \ {0}, NEW p \in Nat, NEW q \in Nat,
           NEW r \in 0 .. d - 1, NEW s \in 0 .. d - 1, d * p + r = d * q + s
    PROVE  p = q
<1>1. d * p \in Nat /\ d * q \in Nat
  OBVIOUS
<1>2. ~ p < q
  <2> SUFFICES ASSUME p < q PROVE FALSE
    OBVIOUS
  <2>1. d * p + d <= d * q
    BY Multiples
  <2>2. QED
    BY <1>1, <2>1
<1>3. ~ q < p
  <2> SUFFICES ASSUME q < p PROVE FALSE
    OBVIOUS
  <2>1. d * q + d <= d * p
    BY Multiples
  <2>2. QED
    BY <1>1, <2>1
<1>4. QED
  BY <1>2, <1>3

LEMMA DivideTwice ==
    ASSUME NEW n \in Nat, NEW d \in Nat \ {0}, NEW b \in Nat \ {0}
    PROVE  (n \div d) \div b = n \div (b * d)
<1> DEFINE q == n \div d
           r == n % d
           u == q \div b
           v == q % b
<1>1. q \in Nat /\ r \in 0 .. d - 1 /\ n = d * q + r
  BY Division
<1>2. u \in Nat /\ v \in 0 .. b - 1 /\ q = b * u + v
  BY <1>1, Division
<1>3. b * d \in Nat \ {0}
  OBVIOUS
<1> HIDE DEF q, r, u, v
<1>4. d * v \in Nat /\ d * v + r \in 0 .. b * d - 1
  <2>1. d * v + d <= d * b
    <3>1. v < b /\ v \in Nat /\ b \in Nat
      BY <1>2
    <3>2. QED
      BY <3>1, Multiples
  <2>2. d * v \in Nat /\ d * b = b * d
    BY <1>2
  <2>3. QED
    BY <1>1, <1>3, <2>1, <2>2
<1>5. n = (b * d) * u + (d * v + r)
  <2>1. d * (b * u + v) = d * (b * u) + d * v
    BY <1>2
  <2>2. d * (b * u) = (b * d) * u
    BY <1>2
  <2>3. d * (b * u) \in Nat /\ d * v \in Nat /\ r \in Nat
    BY <1>1, <1>2
  <2>4. QED
    BY <1>1, <1>2, <2>1, <2>2, <2>3
<1> DEFINE D == b * d
           w == d * v + r
<1>6. D \in Nat \ {0} /\ n \div D \in Nat /\ n % D \in 0 .. D - 1 /\ n = D * (n \div D) + (n % D)
  BY <1>3, Division
<1>7. w \in 0 .. D - 1 /\ n = D * u + w
  BY <1>4, <1>5
<1> HIDE DEF D, w
<1>8. u = n \div D
  BY <1>2, <1>6, <1>7, Quotient
<1>9. QED
  BY <1>8 DEF u, q, D

LEMMA DigitsDecide ==
    ASSUME NEW m \in Lengths, NEW n \in Lengths, Encoded(m) = Encoded(n)
    PROVE  m = n
<1>1. m \in Nat /\ n \in Nat /\ Power[Header] \in Nat \ {0}
  BY PowerValues, HeaderAssumption DEF Lengths
<1>2. Base \in Nat \ {0} /\ Header \in Nat /\ Header # 0
  BY BaseAssumption, HeaderAssumption
<1> DEFINE Same(k) == m \div Power[k] = n \div Power[k]
           S == {j \in Nat : j <= Header => Same(Header - j)}
<1>3. \A x \in Lengths : x \div Power[Header] = 0
  <2> SUFFICES ASSUME NEW x \in Lengths PROVE x \div Power[Header] = 0
    OBVIOUS
  <2> DEFINE d == Power[Header]
             q == x \div d
             r == x % d
  <2>1. x \in Nat /\ x \in 0 .. d - 1 /\ d \in Nat \ {0}
    BY <1>1 DEF Lengths
  <2> HIDE DEF d
  <2>2. q \in Nat /\ r \in 0 .. d - 1 /\ x = d * q + r
    BY <2>1, Division
  <2>3. d * 0 + x = d * q + r
    BY <2>1, <2>2
  <2> HIDE DEF q, r
  <2>4. q = 0
    BY <2>1, <2>2, <2>3, Quotient
  <2>5. QED
    BY <2>4 DEF q, d
<1>4. 0 \in S
  BY <1>2, <1>3
<1>5. ASSUME NEW j \in Nat, j \in S PROVE j + 1 \in S
  <2> SUFFICES ASSUME j + 1 <= Header PROVE Same(Header - (j + 1))
    OBVIOUS
  <2> DEFINE k == Header - (j + 1)
  <2>1. k \in Nat /\ k + 1 = Header - j /\ k + 1 \in 1 .. Header /\ (k + 1) - 1 = k
    BY <1>2
  <2>2. Same(k + 1)
    <3>1. j <= Header
      BY <1>2, <2>1
    <3>2. Same(Header - j)
      BY <1>5, <3>1
    <3> HIDE DEF k, Same
    <3>3. QED
      BY <2>1, <3>2
  <2>3. Power[k] \in Nat \ {0} /\ Power[k + 1] = Base * Power[k]
    BY <2>1, PowerValues
  <2>4. (m \div Power[k]) % Base = (n \div Power[k]) % Base
    <3>1. Encoded(m)[k + 1] = Encoded(n)[k + 1]
      OBVIOUS
    <3>2. QED
      BY <2>1, <3>1 DEF Encoded
  <2> DEFINE p == m \div Power[k]
             q == n \div Power[k]
  <2>5. p \div Base = m \div Power[k + 1] /\ q \div Base = n \div Power[k + 1]
    BY <1>1, <1>2, <2>3, DivideTwice
  <2>6. p \in Nat /\ q \in Nat
    BY <1>1, <2>3, Division
  <2> HIDE DEF k, p, q
  <2>7. p \div Base = q \div Base /\ p % Base = q % Base
    BY <2>2, <2>4, <2>5 DEF p, q
  <2>8. p = q
    <3>1. p = Base * (p \div Base) + (p % Base)
      BY <1>2, <2>6, Division
    <3>2. q = Base * (q \div Base) + (q % Base)
      BY <1>2, <2>6, Division
    <3>3. QED
      BY <2>7, <3>1, <3>2
  <2>9. QED
    BY <2>8 DEF p, q, k
<1> HIDE DEF S
<1>6. Nat \subseteq S
  BY <1>4, <1>5, Inductive
<1>7. Same(0)
  BY <1>2, <1>6 DEF S
<1>8. \A x \in Nat : x \div 1 = x
  OBVIOUS
<1>9. QED
  BY <1>1, <1>7, <1>8, PowerValues

LEMMA EncodedBytes ==
    ASSUME NEW n \in Lengths
    PROVE  /\ Encoded(n) \in Seq(Bytes)
           /\ Len(Encoded(n)) = Header
           /\ Decoded(Encoded(n)) = n
<1>1. n \in Nat /\ Base \in Nat \ {0} /\ Header \in Nat
  BY PowerValues, HeaderAssumption, BaseAssumption DEF Lengths
<1>2. ASSUME NEW k \in 1 .. Header PROVE (n \div Power[k - 1]) % Base \in Bytes
  <2>1. Power[k - 1] \in Nat \ {0}
    BY <1>1, PowerValues
  <2>2. n \div Power[k - 1] \in Nat
    BY <1>1, <2>1, Division
  <2>3. QED
    BY <1>1, <2>2, Division DEF Bytes
<1>3. Encoded(n) \in [1 .. Header -> Bytes]
  BY <1>2 DEF Encoded
<1>4. Encoded(n) \in Seq(Bytes) /\ Len(Encoded(n)) = Header
  BY <1>1, <1>3
<1>5. Padded(Encoded(n)) = Encoded(n)
  BY <1>1, <1>3, <1>4 DEF Padded
<1>6. \E m \in Lengths : Encoded(m) = Padded(Encoded(n))
  BY <1>5
<1> DEFINE m == CHOOSE x \in Lengths : Encoded(x) = Padded(Encoded(n))
<1>7. m \in Lengths /\ Encoded(m) = Encoded(n)
  BY <1>5, <1>6
<1> HIDE DEF m
<1>8. m = n
  BY <1>7, DigitsDecide
<1>9. Decoded(Encoded(n)) = n
  BY <1>8 DEF Decoded, m
<1>10. QED
  BY <1>4, <1>9

-----------------------------------------------------------------------------
(* Places in the frames that are sent: each byte on the way has one, and   *)
(* the sender and the receiver are at one.                                 *)
Place == [frame : Nat \ {0}, part : {"length", "text"}, at : Nat]

PartAt(p) == IF p.part = "length" THEN Encoded(Len(Texts[p.frame])) ELSE Texts[p.frame]

NextPart(p) ==
    IF p.part = "length"
      THEN [frame |-> p.frame, part |-> "text", at |-> 0]
      ELSE [frame |-> p.frame + 1, part |-> "length", at |-> 0]

(* n bytes further, but not beyond the end of the part.                    *)
After(p, n) ==
    IF p.at + n < Len(PartAt(p))
      THEN [frame |-> p.frame, part |-> p.part, at |-> p.at + n]
      ELSE NextPart(p)

Inside(p) == p.frame \in 1 .. Len(Texts) /\ p.at < Len(PartAt(p))

(* The bytes w are those between the places p and q.                       *)
Trail(L, w, p, q) ==
    /\ L \in [1 .. Len(w) + 1 -> Place]
    /\ L[1] = p
    /\ L[Len(w) + 1] = q
    /\ \A k \in 1 .. Len(w) : /\ Inside(L[k])
                              /\ w[k] = PartAt(L[k])[L[k].at + 1]
                              /\ L[k + 1] = After(L[k], 1)

Way(w, p, q) == \E L : Trail(L, w, p, q)

LEMMA TextsFacts ==
    ASSUME NEW p \in Place, p.frame \in 1 .. Len(Texts)
    PROVE  /\ Texts[p.frame] \in Seq(Bytes)
           /\ Len(Texts[p.frame]) \in Lengths \ {0}
           /\ PartAt(p) \in Seq(Bytes)
           /\ Len(PartAt(p)) \in Nat \ {0}
           /\ p.part = "length" => Len(PartAt(p)) = Header
           /\ p.part = "text" => PartAt(p) = Texts[p.frame]
<1>1. Texts[p.frame] \in Seq(Bytes) /\ Len(Texts[p.frame]) \in Lengths \ {0}
  BY TextsAssumption
<1>2. p.part \in {"length", "text"}
  BY DEF Place
<1>3. Len(Texts[p.frame]) \in Nat \ {0}
  BY <1>1
<1>4. QED
  BY <1>1, <1>2, <1>3, EncodedBytes, HeaderAssumption DEF PartAt

LEMMA AfterPlace ==
    ASSUME NEW p \in Place, NEW n \in Nat
    PROVE  After(p, n) \in Place /\ p.frame <= After(p, n).frame
  BY DEF Place, After, NextPart

LEMMA Extend ==
    ASSUME NEW w \in Seq(Bytes), NEW u \in Seq(Bytes), NEW p \in Place, NEW q \in Place,
           Way(w, p, q), q.frame \in 1 .. Len(Texts),
           Len(u) # 0, q.at + Len(u) <= Len(PartAt(q)),
           \A i \in 1 .. Len(u) : u[i] = PartAt(q)[q.at + i]
    PROVE  Way(w \o u, p, After(q, Len(u)))
<1> DEFINE N == Len(w)
           n == Len(u)
<1>1. PICK L : Trail(L, w, p, q)
  BY DEF Way
<1>2. N \in Nat /\ n \in Nat \ {0} /\ q.at \in Nat /\ Len(PartAt(q)) \in Nat
  BY TextsFacts DEF Place
<1>3. /\ w \o u \in Seq(Bytes) /\ Len(w \o u) = N + n
      /\ \A k \in 1 .. N : (w \o u)[k] = w[k]
      /\ \A i \in 1 .. n : (w \o u)[N + i] = u[i]
  BY ConcatProperties
<1> DEFINE M == [k \in 1 .. N + n + 1 |-> IF k <= N + 1 THEN L[k] ELSE After(q, k - (N + 1))]
<1>4. /\ \A k \in 1 .. N + 1 : M[k] = L[k] /\ L[k] \in Place
      /\ \A i \in 1 .. n : M[N + i + 1] = After(q, i)
      /\ M \in [1 .. N + n + 1 -> Place]
  <2>1. \A k \in 1 .. N + 1 : M[k] = L[k] /\ L[k] \in Place
    BY <1>1, <1>2 DEF Trail
  <2>2. \A i \in 1 .. n : M[N + i + 1] = After(q, i)
    BY <1>2
  <2>3. \A i \in 1 .. n : After(q, i) \in Place
    BY <1>2, AfterPlace
  <2>4. ASSUME NEW k \in 1 .. N + n + 1 PROVE M[k] \in Place
    <3>1. CASE k \in 1 .. N + 1
      BY <2>1, <3>1
    <3>2. CASE k \notin 1 .. N + 1
      <4>1. k - (N + 1) \in 1 .. n /\ k = N + (k - (N + 1)) + 1
        BY <1>2, <3>2
      <4>2. QED
        BY <2>2, <2>3, <4>1
    <3>3. QED
      BY <3>1, <3>2
  <2>5. QED
    BY <2>1, <2>2, <2>4
<1> HIDE DEF M
<1>5. ASSUME NEW i \in 1 .. n
      PROVE  M[N + i] = [frame |-> q.frame, part |-> q.part, at |-> q.at + (i - 1)]
  <2>2. CASE i = 1
    <3>1. M[N + i] = q
      BY <1>1, <1>2, <1>4, <2>2 DEF Trail
    <3>2. q = [frame |-> q.frame, part |-> q.part, at |-> q.at + 0]
      BY <1>2 DEF Place
    <3>3. QED
      BY <2>2, <3>1, <3>2
  <2>3. CASE i # 1
    <3>1. i - 1 \in 1 .. n /\ N + i = N + (i - 1) + 1
      BY <1>2, <2>3
    <3>2. M[N + i] = After(q, i - 1)
      BY <1>4, <3>1
    <3>3. q.at + (i - 1) < Len(PartAt(q))
      BY <1>2
    <3>4. QED
      BY <3>2, <3>3 DEF After
  <2>4. QED
    BY <2>2, <2>3
<1>6. ASSUME NEW k \in 1 .. N + n
      PROVE  /\ Inside(M[k])
             /\ (w \o u)[k] = PartAt(M[k])[M[k].at + 1]
             /\ M[k + 1] = After(M[k], 1)
  <2>1. CASE k <= N
    <3>1. M[k] = L[k] /\ M[k + 1] = L[k + 1] /\ k \in 1 .. N
      BY <1>2, <1>4, <2>1
    <3>2. QED
      BY <1>1, <1>3, <3>1 DEF Trail
  <2>2. CASE k > N
    <3>1. PICK i \in 1 .. n : k = N + i
      <4>1. k - N \in 1 .. n /\ k = N + (k - N)
        BY <1>2, <2>2
      <4>2. QED
        BY <4>1
    <3> DEFINE r == [frame |-> q.frame, part |-> q.part, at |-> q.at + (i - 1)]
    <3>2. M[k] = r /\ M[k + 1] = After(q, i) /\ (w \o u)[k] = PartAt(q)[q.at + i]
      BY <1>3, <1>4, <1>5, <3>1
    <3>3. PartAt(r) = PartAt(q) /\ NextPart(r) = NextPart(q)
      BY DEF PartAt, NextPart
    <3>4. r.at + 1 = q.at + i /\ r.at < Len(PartAt(q)) /\ r.frame = q.frame /\ r.part = q.part
      BY <1>2, <3>1
    <3> HIDE DEF r
    <3>5. After(r, 1) = After(q, i)
      BY <3>3, <3>4 DEF After
    <3>6. Inside(r)
      BY <3>3, <3>4 DEF Inside
    <3>7. QED
      BY <3>2, <3>3, <3>4, <3>5, <3>6
  <2>3. QED
    BY <1>2, <2>1, <2>2
<1>7. M[1] = p /\ M[N + n + 1] = After(q, n)
  BY <1>1, <1>2, <1>4 DEF Trail
<1>8. Trail(M, w \o u, p, After(q, n))
  BY <1>2, <1>3, <1>4, <1>6, <1>7 DEF Trail
<1>9. QED
  BY <1>8 DEF Way

LEMMA Along ==
    ASSUME NEW w \in Seq(Bytes), NEW p \in Place, NEW q, NEW L, Trail(L, w, p, q),
           NEW n \in Nat, n <= Len(w), p.at + n < Len(PartAt(p))
    PROVE  L[n + 1] = [frame |-> p.frame, part |-> p.part, at |-> p.at + n]
<1> DEFINE B(m) == [frame |-> p.frame, part |-> p.part, at |-> p.at + m]
           S == {m \in Nat : m <= n => L[m + 1] = B(m)}
<1>1. Len(w) \in Nat /\ p.at \in Nat
  BY DEF Place
<1>2. 0 \in S
  <2>1. L[1] = p
    BY DEF Trail
  <2>2. p = B(0)
    BY <1>1 DEF Place
  <2>3. QED
    BY <2>1, <2>2
<1>3. ASSUME NEW m \in Nat, m \in S PROVE m + 1 \in S
  <2> SUFFICES ASSUME m + 1 <= n PROVE L[m + 1 + 1] = B(m + 1)
    OBVIOUS
  <2>1. L[m + 1] = B(m)
    BY <1>3
  <2>2. L[m + 1 + 1] = After(B(m), 1)
    BY <1>1, <2>1 DEF Trail
  <2>3. PartAt(B(m)) = PartAt(p)
    BY DEF PartAt
  <2>4. Len(PartAt(p)) \in Nat
    <3>1. Inside(L[1]) /\ L[1] = p
      BY <1>1 DEF Trail
    <3>2. QED
      BY <3>1, TextsFacts DEF Inside
  <2>5. B(m).at + 1 = p.at + (m + 1) /\ B(m).at + 1 < Len(PartAt(p))
    BY <1>1, <2>4
  <2>6. QED
    BY <2>2, <2>3, <2>5 DEF After
<1> HIDE DEF S
<1>4. Nat \subseteq S
  BY <1>2, <1>3, Inductive
<1>5. QED
  BY <1>4 DEF S

LEMMA Advance ==
    ASSUME NEW w \in Seq(Bytes), NEW p \in Place, NEW q, Way(w, p, q),
           NEW n \in 1 .. Len(w), p.at + n <= Len(PartAt(p))
    PROVE  /\ p.frame \in 1 .. Len(Texts)
           /\ \A i \in 1 .. n : w[i] = PartAt(p)[p.at + i]
           /\ Way(SubSeq(w, n + 1, Len(w)), After(p, n), q)
<1> DEFINE N == Len(w)
           v == SubSeq(w, n + 1, N)
           B(m) == [frame |-> p.frame, part |-> p.part, at |-> p.at + m]
<1>1. PICK L : Trail(L, w, p, q)
  BY DEF Way
<1>2. N \in Nat /\ n \in Nat \ {0} /\ n <= N /\ p.at \in Nat
  BY DEF Place
<1>3. p.frame \in 1 .. Len(Texts) /\ Len(PartAt(p)) \in Nat
  <2>1. Inside(L[1]) /\ L[1] = p
    BY <1>1, <1>2 DEF Trail
  <2>2. QED
    BY <2>1, TextsFacts DEF Inside
<1>4. ASSUME NEW i \in 1 .. n PROVE w[i] = PartAt(p)[p.at + i] /\ L[i + 1] = After(p, i)
  <2>1. i - 1 \in Nat /\ i - 1 <= N /\ p.at + (i - 1) < Len(PartAt(p)) /\ i \in 1 .. N
    BY <1>2, <1>3
  <2>2. L[(i - 1) + 1] = B(i - 1)
    BY <1>1, <2>1, Along
  <2>3. L[i] = B(i - 1)
    BY <1>2, <2>2
  <2>4. w[i] = PartAt(L[i])[L[i].at + 1] /\ L[i + 1] = After(L[i], 1)
    BY <1>1, <2>1 DEF Trail
  <2> DEFINE r == B(i - 1)
  <2>5. PartAt(r) = PartAt(p) /\ NextPart(r) = NextPart(p)
    BY DEF PartAt, NextPart
  <2>6. r.at + 1 = p.at + i /\ r.frame = p.frame /\ r.part = p.part
    BY <1>2, <2>1
  <2>7. L[i] = r
    BY <2>3
  <2> HIDE DEF r
  <2>8. After(r, 1) = After(p, i)
    BY <2>5, <2>6 DEF After
  <2>9. QED
    BY <2>4, <2>5, <2>6, <2>7, <2>8
<1>5. /\ v \in Seq(Bytes) /\ Len(v) = N - n
      /\ \A k \in 1 .. N - n : v[k] = w[n + k]
  BY <1>2, SubSeqProperties
<1> DEFINE M == [k \in 1 .. N - n + 1 |-> L[n + k]]
<1>6. /\ M \in [1 .. N - n + 1 -> Place]
      /\ \A k \in 1 .. N - n + 1 : M[k] = L[n + k]
  BY <1>1, <1>2 DEF Trail
<1> HIDE DEF M, v
<1>7. M[1] = After(p, n) /\ M[N - n + 1] = q
  <2>1. 1 \in 1 .. N - n + 1 /\ N - n + 1 \in 1 .. N - n + 1 /\ n + (N - n + 1) = N + 1
    BY <1>2
  <2>2. L[n + 1] = After(p, n) /\ L[N + 1] = q
    BY <1>1, <1>2, <1>4 DEF Trail
  <2>3. QED
    BY <1>6, <2>1, <2>2
<1>8. ASSUME NEW k \in 1 .. N - n
      PROVE  /\ Inside(M[k])
             /\ v[k] = PartAt(M[k])[M[k].at + 1]
             /\ M[k + 1] = After(M[k], 1)
  <2>1. n + k \in 1 .. N /\ n + (k + 1) = (n + k) + 1 /\ k + 1 \in 1 .. N - n + 1
        /\ k \in 1 .. N - n + 1
    BY <1>2
  <2>2. M[k] = L[n + k] /\ M[k + 1] = L[(n + k) + 1]
    BY <1>6, <2>1
  <2>3. QED
    BY <1>1, <1>5, <2>1, <2>2 DEF Trail
<1>9. Trail(M, v, After(p, n), q)
  BY <1>2, <1>5, <1>6, <1>7, <1>8 DEF Trail
<1>10. QED
  BY <1>3, <1>4, <1>9 DEF Way, v

LEMMA Forward ==
    ASSUME NEW w \in Seq(Bytes), NEW p \in Place, NEW q \in Place, Way(w, p, q)
    PROVE  p.frame <= q.frame
<1>1. PICK L : Trail(L, w, p, q)
  BY DEF Way
<1> DEFINE S == {m \in Nat : m <= Len(w) => p.frame <= L[m + 1].frame}
<1>2. 0 \in S
  BY <1>1 DEF Trail, Place
<1>3. ASSUME NEW m \in Nat, m \in S PROVE m + 1 \in S
  <2> SUFFICES ASSUME m + 1 <= Len(w) PROVE p.frame <= L[m + 1 + 1].frame
    OBVIOUS
  <2>1. L[m + 1] \in Place /\ L[m + 1 + 1] = After(L[m + 1], 1) /\ p.frame <= L[m + 1].frame
    BY <1>1, <1>3 DEF Trail
  <2>2. L[m + 1].frame <= After(L[m + 1], 1).frame /\ After(L[m + 1], 1) \in Place
    BY <2>1, AfterPlace
  <2>3. QED
    BY <2>1, <2>2 DEF Place
<1> HIDE DEF S
<1>4. Nat \subseteq S
  BY <1>2, <1>3, Inductive
<1>5. QED
  BY <1>1, <1>4 DEF S, Trail

-----------------------------------------------------------------------------
(* The inductive invariant, if no poll meets a part of a length: sender    *)
(* and receiver are at places of the frames, and the bytes on the way are  *)
(* those between them.                                                     *)
SenderPlace == [frame |-> frame, part |-> part, at |-> T]

ReceiverPlace ==
    [frame |-> Len(received) + 1, part |-> IF len = 0 THEN "length" ELSE "text", at |-> Len(buf)]

OnWay == arrived \o outgoing

Sends ==
    /\ frame \in 1 .. (Len(Texts) + 1)
    /\ part \in {"length", "text"}
    /\ T \in Nat
    /\ frame <= Len(Texts) => T < Len(Part)
    /\ outgoing \in Seq(Bytes) /\ Len(outgoing) <= Buffer

Receives ==
    /\ arrived \in Seq(Bytes)
    /\ received \in Seq(Seq(Bytes)) /\ Len(received) <= Len(Texts)
    /\ \A k \in 1 .. Len(received) : received[k] = Texts[k]
    /\ buf \in Seq(Bytes)
    /\ len = 0 => buf = <<>>
    /\ len # 0 => /\ Len(received) < Len(Texts)
                  /\ len = Len(Texts[Len(received) + 1])
                  /\ Len(buf) < len
                  /\ \A k \in 1 .. Len(buf) : buf[k] = Texts[Len(received) + 1][k]

FrameInv ==
    /\ Sends
    /\ Receives
    /\ Way(OnWay, ReceiverPlace, SenderPlace)

USE DEF vars, senderVars, receiverVars

LEMMA Smaller ==
    ASSUME NEW a \in Nat, NEW b \in Nat
    PROVE  Min({a, b}) \in Nat /\ Min({a, b}) <= a /\ Min({a, b}) <= b /\ Min({a, b}) \in {a, b}
<1>1. \E m \in {a, b} : \A x \in {a, b} : m <= x
  BY DEF Min
<1>2. Min({a, b}) = CHOOSE m \in {a, b} : \A x \in {a, b} : m <= x
  BY DEF Min
<1>3. Min({a, b}) \in {a, b} /\ \A x \in {a, b} : Min({a, b}) <= x
  BY <1>1, <1>2
<1>4. QED
  BY <1>3

LEMMA Places ==
    ASSUME FrameInv
    PROVE  /\ SenderPlace \in Place
           /\ ReceiverPlace \in Place
           /\ OnWay \in Seq(Bytes)
           /\ Len(OnWay) = Len(arrived) + Len(outgoing)
           /\ \A k \in 1 .. Len(arrived) : OnWay[k] = arrived[k]
           /\ PartAt(SenderPlace) = Part
<1>1. SenderPlace \in Place /\ PartAt(SenderPlace) = Part
  BY TextsAssumption DEF FrameInv, Sends, SenderPlace, Place, PartAt, Part
<1>2. ReceiverPlace \in Place
  BY DEF FrameInv, Receives, ReceiverPlace, Place
<1>3. QED
  BY <1>1, <1>2, ConcatProperties DEF FrameInv, Sends, Receives, OnWay

LEMMA FrameInit == Init => FrameInv
<1> SUFFICES ASSUME Init PROVE FrameInv
  OBVIOUS
<1> DEFINE p == [frame |-> 1, part |-> "length", at |-> 0]
<1>1. SenderPlace = p /\ ReceiverPlace = p /\ p \in Place
  BY DEF Init, SenderPlace, ReceiverPlace, Place
<1>2. OnWay = <<>>
  BY DEF Init, OnWay
<1>3. Trail([k \in 1 .. 1 |-> p], <<>>, p, p)
  BY <1>1 DEF Trail
<1>4. Way(OnWay, ReceiverPlace, SenderPlace)
  BY <1>1, <1>2, <1>3 DEF Way
<1>5. Sends
  <2>1. frame <= Len(Texts) => T < Len(Part)
    <3>1. CASE Len(Texts) = 0
      BY <3>1 DEF Init
    <3>2. CASE 1 \in 1 .. Len(Texts)
      <4>1. Len(PartAt(p)) \in Nat \ {0} /\ PartAt(p) = Part
        BY <1>1, <3>2, TextsFacts DEF Init, PartAt, Part
      <4>2. QED
        BY <4>1 DEF Init
    <3>3. QED
      BY <3>1, <3>2, TextsAssumption
  <2>2. QED
    BY <2>1, TextsAssumption, BufferAssumption DEF Init, Sends
<1>6. Receives
  BY TextsAssumption DEF Init, Receives
<1>7. QED
  BY <1>4, <1>5, <1>6 DEF FrameInv

LEMMA Joined ==
    ASSUME NEW s \in Seq(Bytes), NEW t \in Seq(Bytes)
    PROVE  /\ s \o t \in Seq(Bytes)
           /\ Len(s \o t) = Len(s) + Len(t)
           /\ \A i \in 1 .. Len(s) : (s \o t)[i] = s[i]
           /\ \A i \in 1 .. Len(t) : (s \o t)[Len(s) + i] = t[i]
  BY ConcatProperties

(* A byte of two texts one after the other is a byte of one of them.       *)
LEMMA JoinedAt ==
    ASSUME NEW s \in Seq(Bytes), NEW t \in Seq(Bytes), NEW i \in 1 .. Len(s) + Len(t)
    PROVE  /\ i <= Len(s) => (i \in 1 .. Len(s) /\ (s \o t)[i] = s[i])
           /\ ~ (i <= Len(s)) => (i - Len(s) \in 1 .. Len(t) /\ (s \o t)[i] = t[i - Len(s)])
<1> DEFINE w == s \o t
<1>1. Len(s) \in Nat /\ Len(t) \in Nat /\ i \in Nat \ {0} /\ i <= Len(s) + Len(t)
  OBVIOUS
<1>2. /\ \A k \in 1 .. Len(s) : w[k] = s[k]
      /\ \A k \in 1 .. Len(t) : w[Len(s) + k] = t[k]
  BY Joined
<1> HIDE DEF w
<1>3. i <= Len(s) => (i \in 1 .. Len(s) /\ w[i] = s[i])
  BY <1>1, <1>2
<1>4. ASSUME ~ (i <= Len(s)) PROVE i - Len(s) \in 1 .. Len(t) /\ w[i] = t[i - Len(s)]
  <2>1. i - Len(s) \in 1 .. Len(t) /\ Len(s) + (i - Len(s)) = i
    BY <1>1, <1>4
  <2>2. w[Len(s) + (i - Len(s))] = t[i - Len(s)]
    BY <1>2, <2>1
  <2>3. QED
    BY <2>1, <2>2
<1>5. QED
  BY <1>3, <1>4 DEF w

LEMMA Associative ==
    ASSUME NEW s \in Seq(Bytes), NEW t \in Seq(Bytes), NEW u \in Seq(Bytes)
    PROVE  (s \o t) \o u = s \o (t \o u)
  BY ConcatAssociative

LEMMA WriteStep == ASSUME FrameInv, Write PROVE FrameInv'
<1>1. PICK n \in 1 .. Min({Len(Rest), Room}) :
         /\ outgoing' = outgoing \o SubSeq(Rest, 1, n)
         /\ IF T + n < Len(Part)
              THEN T' = T + n /\ UNCHANGED <<frame, part>>
              ELSE /\ T' = 0
                   /\ part' = IF part = "length" THEN "text" ELSE "length"
                   /\ frame' = IF part = "length" THEN frame ELSE frame + 1
  BY DEF Write
<1> DEFINE q == SenderPlace
           u == SubSeq(Rest, 1, n)
<1>2. /\ frame \in 1 .. Len(Texts) /\ T \in Nat /\ Len(Texts) \in Nat
      /\ outgoing \in Seq(Bytes) /\ arrived \in Seq(Bytes) /\ Len(outgoing) <= Buffer
      /\ Buffer \in Nat
      /\ arrived' = arrived /\ len' = len /\ buf' = buf /\ received' = received
  BY TextsAssumption, BufferAssumption DEF FrameInv, Sends, Receives, Write
<1>3. /\ q \in Place /\ q.frame = frame /\ q.part = part /\ q.at = T /\ PartAt(q) = Part
      /\ Part \in Seq(Bytes) /\ Len(Part) \in Nat /\ T < Len(Part)
  <2>1. q \in Place /\ PartAt(q) = Part /\ q.frame = frame /\ q.part = part /\ q.at = T
    BY Places DEF SenderPlace
  <2>2. q.frame \in 1 .. Len(Texts)
    BY <1>2, <2>1
  <2> HIDE DEF q
  <2>3. QED
    BY <1>2, <2>1, <2>2, TextsFacts DEF FrameInv, Sends
<1>4. /\ Rest \in Seq(Bytes) /\ Len(Rest) = Len(Part) - T
      /\ \A i \in 1 .. Len(Rest) : Rest[i] = Part[T + i]
  <2>1. T + 1 \in 1 .. Len(Part) + 1
    BY <1>2, <1>3
  <2>2. QED
    BY <1>2, <1>3, <2>1, SubSeqProperties DEF Rest
<1>5. n \in Nat \ {0} /\ T + n <= Len(Part) /\ Len(outgoing) + n <= Buffer
  <2>1. Len(Rest) \in Nat /\ Room \in Nat /\ Room = Buffer - Len(outgoing)
    BY <1>2, <1>4 DEF Room
  <2>2. n <= Len(Rest) /\ n <= Room
    BY <2>1, Smaller
  <2>3. QED
    BY <1>2, <1>3, <1>4, <2>1, <2>2
<1>6. /\ u \in Seq(Bytes) /\ Len(u) = n
      /\ \A i \in 1 .. n : u[i] = Part[T + i]
  <2>1. n <= Len(Rest)
    BY <1>2, <1>3, <1>4, <1>5
  <2>2. u \in Seq(Bytes) /\ Len(u) = n /\ \A i \in 1 .. n : u[i] = Rest[i]
    BY <1>4, <1>5, <2>1, SubSeqProperties
  <2>3. QED
    BY <1>4, <1>5, <2>1, <2>2
<1> HIDE DEF q, u
<1>7. Way(OnWay \o u, ReceiverPlace, After(q, n))
  <2>1. ReceiverPlace \in Place /\ OnWay \in Seq(Bytes) /\ Way(OnWay, ReceiverPlace, q)
    BY Places DEF FrameInv, q
  <2>2. q.frame \in 1 .. Len(Texts) /\ Len(u) # 0 /\ q.at + Len(u) <= Len(PartAt(q))
        /\ \A i \in 1 .. Len(u) : u[i] = PartAt(q)[q.at + i]
    BY <1>2, <1>3, <1>5, <1>6
  <2>3. QED
    BY <1>3, <1>6, <2>1, <2>2, Extend
<1>8. OnWay' = OnWay \o u
  <2>1. outgoing' = outgoing \o u
    BY <1>1 DEF u
  <2>2. OnWay' = arrived \o (outgoing \o u)
    BY <1>2, <2>1 DEF OnWay
  <2>3. (arrived \o outgoing) \o u = arrived \o (outgoing \o u)
    BY <1>2, <1>6, Associative
  <2>4. QED
    BY <2>2, <2>3 DEF OnWay
<1>9. ReceiverPlace' = ReceiverPlace
  BY <1>2 DEF ReceiverPlace
<1>10. SenderPlace' = After(q, n)
  BY <1>1, <1>3 DEF SenderPlace, After, NextPart
<1>11. Way(OnWay, ReceiverPlace, SenderPlace)'
  BY <1>7, <1>8, <1>9, <1>10 DEF Way, Trail
<1>12. outgoing' \in Seq(Bytes) /\ Len(outgoing') <= Buffer
  BY <1>1, <1>2, <1>5, <1>6, ConcatProperties DEF u
<1>13. /\ frame' \in 1 .. Len(Texts) + 1 /\ part' \in {"length", "text"} /\ T' \in Nat
       /\ frame' <= Len(Texts) => T' < Len(Part)'
  <2>1. CASE T + n < Len(Part)
    BY <1>1, <1>2, <1>3, <1>5, <2>1 DEF Part, FrameInv, Sends
  <2>2. CASE ~ (T + n < Len(Part))
    <3>1. /\ frame' \in 1 .. Len(Texts) + 1 /\ part' \in {"length", "text"} /\ T' = 0
      BY <1>1, <1>2, <2>2
    <3>2. ASSUME frame' <= Len(Texts) PROVE 0 < Len(Part)'
      <4> DEFINE r == [frame |-> frame', part |-> part', at |-> 0]
      <4>1. r \in Place /\ r.frame \in 1 .. Len(Texts) /\ PartAt(r) = Part'
        BY <1>2, <3>1, <3>2 DEF Place, PartAt, Part
      <4> HIDE DEF r
      <4>2. Len(PartAt(r)) \in Nat \ {0}
        BY <4>1, TextsFacts
      <4>3. QED
        BY <4>1, <4>2
    <3>3. QED
      BY <3>1, <3>2
  <2>3. QED
    BY <2>1, <2>2
<1>14. Receives'
  BY <1>2 DEF FrameInv, Receives
<1>15. QED
  BY <1>11, <1>12, <1>13, <1>14 DEF FrameInv, Sends

LEMMA ArriveStep == ASSUME FrameInv, Arrive PROVE FrameInv'
<1>1. PICK n \in 1 .. Len(outgoing) :
         /\ arrived' = arrived \o SubSeq(outgoing, 1, n)
         /\ outgoing' = SubSeq(outgoing, n + 1, Len(outgoing))
  BY DEF Arrive
<1> DEFINE u == SubSeq(outgoing, 1, n)
           v == SubSeq(outgoing, n + 1, Len(outgoing))
<1>2. outgoing \in Seq(Bytes) /\ arrived \in Seq(Bytes) /\ Len(outgoing) \in Nat
      /\ Len(outgoing) <= Buffer
  BY DEF FrameInv, Sends, Receives
<1>3. /\ u \in Seq(Bytes) /\ Len(u) = n /\ \A i \in 1 .. n : u[i] = outgoing[i]
  BY <1>2, SubSeqProperties
<1>4. /\ v \in Seq(Bytes) /\ Len(v) = Len(outgoing) - n
      /\ \A i \in 1 .. Len(outgoing) - n : v[i] = outgoing[n + i]
  BY <1>2, SubSeqProperties
<1> HIDE DEF u, v
<1>5. u \o v = outgoing
  <2>1. n \in Nat /\ n <= Len(outgoing) /\ Len(u) + Len(v) = Len(outgoing)
    BY <1>2, <1>3, <1>4
  <2>2. u \o v \in Seq(Bytes) /\ Len(u \o v) = Len(u) + Len(v)
    BY <1>3, <1>4, Joined
  <2>3. ASSUME NEW i \in 1 .. Len(outgoing) PROVE (u \o v)[i] = outgoing[i]
    <3>1. /\ i <= Len(u) => (i \in 1 .. Len(u) /\ (u \o v)[i] = u[i])
          /\ ~ (i <= Len(u)) => (i - Len(u) \in 1 .. Len(v) /\ (u \o v)[i] = v[i - Len(u)])
      BY <1>3, <1>4, <2>1, JoinedAt
    <3>2. i <= Len(u) => u[i] = outgoing[i]
      BY <1>3, <3>1
    <3>3. ~ (i <= Len(u)) => v[i - Len(u)] = outgoing[i]
      <4>1. n + (i - n) = i
        BY <2>1
      <4>2. QED
        BY <1>3, <1>4, <3>1, <4>1
    <3>4. QED
      BY <3>1, <3>2, <3>3
  <2>4. QED
    BY <1>2, <2>1, <2>2, <2>3, SeqEqual
<1>6. OnWay' = OnWay
  <2>1. OnWay' = (arrived \o u) \o v
    BY <1>1 DEF OnWay, u, v
  <2>2. (arrived \o u) \o v = arrived \o (u \o v)
    BY <1>2, <1>3, <1>4, Associative
  <2>3. QED
    BY <1>5, <2>1, <2>2 DEF OnWay
<1>7. SenderPlace' = SenderPlace /\ ReceiverPlace' = ReceiverPlace
  BY DEF Arrive, SenderPlace, ReceiverPlace
<1>8. Way(OnWay, ReceiverPlace, SenderPlace)'
  BY <1>6, <1>7 DEF FrameInv, Way, Trail
<1>9. arrived' \in Seq(Bytes) /\ outgoing' \in Seq(Bytes) /\ Len(outgoing') <= Buffer
  <2>1. arrived \o u \in Seq(Bytes)
    BY <1>2, <1>3, ConcatProperties
  <2>2. Len(v) <= Buffer
    BY <1>2, <1>4, BufferAssumption
  <2>3. QED
    BY <1>1, <1>4, <2>1, <2>2 DEF u, v
<1>10. Sends'
  BY <1>9 DEF FrameInv, Sends, Arrive, Part
<1>11. Receives'
  BY <1>9 DEF FrameInv, Receives, Arrive
<1>12. QED
  BY <1>8, <1>10, <1>11 DEF FrameInv

LEMMA Dropped ==
    ASSUME NEW s \in Seq(Bytes), NEW t \in Seq(Bytes), NEW n \in Nat \ {0}, n <= Len(s)
    PROVE  /\ SubSeq(s, n + 1, Len(s)) \in Seq(Bytes)
           /\ SubSeq(s \o t, n + 1, Len(s \o t)) = SubSeq(s, n + 1, Len(s)) \o t
<1> DEFINE w == s \o t
           v == SubSeq(s, n + 1, Len(s))
           x == SubSeq(w, n + 1, Len(w))
<1>1. Len(s) \in Nat /\ Len(t) \in Nat
  OBVIOUS
<1>2. /\ w \in Seq(Bytes) /\ Len(w) = Len(s) + Len(t)
      /\ \A i \in 1 .. Len(s) : w[i] = s[i]
      /\ \A i \in 1 .. Len(t) : w[Len(s) + i] = t[i]
  BY Joined
<1>3. /\ v \in Seq(Bytes) /\ Len(v) = Len(s) - n
      /\ \A i \in 1 .. Len(s) - n : v[i] = s[n + i]
  BY <1>1, SubSeqProperties
<1> HIDE DEF w, v
<1>4. /\ x \in Seq(Bytes) /\ Len(x) = Len(w) - n
      /\ \A i \in 1 .. Len(w) - n : x[i] = w[n + i]
  BY <1>1, <1>2, SubSeqProperties
<1>5. v \o t \in Seq(Bytes) /\ Len(v \o t) = Len(v) + Len(t) /\ Len(v) + Len(t) = Len(w) - n
  <2>1. v \o t \in Seq(Bytes) /\ Len(v \o t) = Len(v) + Len(t)
    BY <1>3, Joined
  <2>2. QED
    BY <1>1, <1>2, <1>3, <2>1
<1> HIDE DEF x
<1>6. ASSUME NEW i \in 1 .. Len(w) - n PROVE x[i] = (v \o t)[i]
  <2>1. /\ i <= Len(v) => (i \in 1 .. Len(v) /\ (v \o t)[i] = v[i])
        /\ ~ (i <= Len(v)) => (i - Len(v) \in 1 .. Len(t) /\ (v \o t)[i] = t[i - Len(v)])
    BY <1>3, <1>5, JoinedAt
  <2>2. x[i] = w[n + i]
    BY <1>4
  <2>3. i <= Len(v) => w[n + i] = v[i]
    <3> SUFFICES ASSUME i <= Len(v) PROVE w[n + i] = v[i]
      OBVIOUS
    <3>1. n + i \in 1 .. Len(s) /\ i \in 1 .. Len(s) - n
      BY <1>1, <1>3
    <3>2. QED
      BY <1>2, <1>3, <3>1
  <2>4. ~ (i <= Len(v)) => w[n + i] = t[i - Len(v)]
    <3> SUFFICES ASSUME ~ (i <= Len(v)) PROVE w[n + i] = t[i - Len(v)]
      OBVIOUS
    <3>1. n + i = Len(s) + (i - Len(v)) /\ i - Len(v) \in 1 .. Len(t)
      BY <1>1, <1>3, <2>1
    <3>2. w[Len(s) + (i - Len(v))] = t[i - Len(v)]
      BY <1>2, <3>1
    <3>3. QED
      BY <3>1, <3>2
  <2>5. QED
    BY <2>1, <2>2, <2>3, <2>4
<1>7. x = v \o t
  BY <1>4, <1>5, <1>6, SeqEqual
<1>8. QED
  BY <1>3, <1>7 DEF x, v, w

LEMMA ReceiveLengthStep ==
    ASSUME ~ EarlyPolls, FrameInv, ReceiveLength
    PROVE  FrameInv' /\ received' = received /\ frame' = frame
<1> DEFINE p == ReceiverPlace
           f == Len(received) + 1
           v == SubSeq(arrived, Header + 1, Len(arrived))
<1>1. /\ arrived \in Seq(Bytes) /\ outgoing \in Seq(Bytes) /\ buf = <<>> /\ len = 0
      /\ Header \in Nat \ {0} /\ Len(arrived) \in Nat /\ Header <= Len(arrived)
      /\ received \in Seq(Seq(Bytes)) /\ Len(received) \in Nat
  BY HeaderAssumption DEF FrameInv, Sends, Receives, ReceiveLength
<1>2. Min({Header, Len(arrived)}) = Header
  BY <1>1, Smaller
<1>3. /\ len' = Decoded(SubSeq(arrived, 1, Header))
      /\ arrived' = v
      /\ UNCHANGED <<frame, part, T, outgoing, buf, received>>
  BY <1>2 DEF ReceiveLength
<1>4. /\ p \in Place /\ p.frame = f /\ p.part = "length" /\ p.at = 0
      /\ OnWay \in Seq(Bytes) /\ Len(OnWay) = Len(arrived) + Len(outgoing)
      /\ \A k \in 1 .. Len(arrived) : OnWay[k] = arrived[k]
      /\ Way(OnWay, p, SenderPlace)
  BY <1>1, Places DEF ReceiverPlace, FrameInv
<1> HIDE DEF p
<1>5. Header \in 1 .. Len(OnWay)
  BY <1>1, <1>4
<1>6. f \in 1 .. Len(Texts)
  <2>1. p.at + 1 <= Len(PartAt(p)) /\ 1 \in 1 .. Len(OnWay)
    <3>1. \E L : Trail(L, OnWay, p, SenderPlace)
      BY <1>4 DEF Way
    <3>2. Inside(p)
      BY <1>5, <3>1 DEF Trail
    <3>3. Len(PartAt(p)) \in Nat
      BY <1>4, <3>2, TextsFacts DEF Inside
    <3>4. QED
      BY <1>4, <1>5, <3>2, <3>3 DEF Inside
  <2>2. QED
    BY <1>4, <2>1, Advance
<1>7. Len(Texts[f]) \in Lengths \ {0} /\ PartAt(p) = Encoded(Len(Texts[f])) /\ Len(PartAt(p)) = Header
  BY <1>4, <1>6, TextsFacts DEF PartAt
<1>8. /\ \A i \in 1 .. Header : OnWay[i] = PartAt(p)[i]
      /\ Way(SubSeq(OnWay, Header + 1, Len(OnWay)), After(p, Header), SenderPlace)
  <2>1. p.at + Header <= Len(PartAt(p))
    BY <1>1, <1>4, <1>7
  <2>2. /\ \A i \in 1 .. Header : OnWay[i] = PartAt(p)[p.at + i]
        /\ Way(SubSeq(OnWay, Header + 1, Len(OnWay)), After(p, Header), SenderPlace)
    BY <1>4, <1>5, <2>1, Advance
  <2>3. \A i \in 1 .. Header : p.at + i = i
    BY <1>1, <1>4
  <2>4. QED
    BY <2>2, <2>3
<1>9. len' = Len(Texts[f])
  <2>1. /\ SubSeq(arrived, 1, Header) \in Seq(Bytes) /\ Len(SubSeq(arrived, 1, Header)) = Header
        /\ \A i \in 1 .. Header : SubSeq(arrived, 1, Header)[i] = arrived[i]
    BY <1>1, SubSeqProperties
  <2>2. \A i \in 1 .. Header : SubSeq(arrived, 1, Header)[i] = Encoded(Len(Texts[f]))[i]
    BY <1>1, <1>4, <1>7, <1>8, <2>1
  <2>3. Encoded(Len(Texts[f])) \in Seq(Bytes) /\ Len(Encoded(Len(Texts[f]))) = Header
    BY <1>7, EncodedBytes
  <2>4. SubSeq(arrived, 1, Header) = Encoded(Len(Texts[f]))
    BY <2>1, <2>2, <2>3, SeqEqual
  <2>5. QED
    BY <1>3, <1>7, <2>4, EncodedBytes
<1>10. OnWay' = SubSeq(OnWay, Header + 1, Len(OnWay)) /\ arrived' \in Seq(Bytes)
  <2>1. OnWay' = v \o outgoing /\ arrived' = v
    BY <1>3 DEF OnWay
  <2>2. QED
    BY <1>1, <2>1, Dropped DEF OnWay
<1>11. After(p, Header) = ReceiverPlace'
  <2>1. len' # 0 /\ buf' = <<>> /\ received' = received
    BY <1>1, <1>3, <1>7, <1>9
  <2>2. ReceiverPlace' = [frame |-> f, part |-> "text", at |-> 0]
    BY <2>1 DEF ReceiverPlace
  <2>3. QED
    BY <1>1, <1>4, <1>7, <2>2 DEF After, NextPart
<1>12. Way(OnWay, ReceiverPlace, SenderPlace)'
  <2>1. SenderPlace' = SenderPlace
    BY <1>3 DEF SenderPlace
  <2>2. QED
    BY <1>8, <1>10, <1>11, <2>1 DEF Way, Trail
<1>13. Sends'
  BY <1>3 DEF FrameInv, Sends, Part
<1>14. Receives'
  BY <1>1, <1>3, <1>6, <1>7, <1>9, <1>10 DEF FrameInv, Receives
<1>15. QED
  BY <1>3, <1>12, <1>13, <1>14 DEF FrameInv

LEMMA ReceiveTextStep ==
    ASSUME FrameInv, ReceiveText
    PROVE  /\ FrameInv' /\ frame' = frame
           /\ \/ received' = received
              \/ /\ received' = Append(received, Texts[Len(received) + 1])
                 /\ Len(received) < Len(Texts)
<1> DEFINE p == ReceiverPlace
           f == Len(received) + 1
<1>1. PICK n \in 1 .. Min({len - Len(buf), Len(arrived)}) :
         LET taken == buf \o SubSeq(arrived, 1, n)
         IN /\ arrived' = SubSeq(arrived, n + 1, Len(arrived))
            /\ IF Len(taken) = len
                 THEN /\ received' = Append(received, taken)
                      /\ buf' = <<>>
                      /\ len' = 0
                 ELSE buf' = taken /\ UNCHANGED <<len, received>>
  BY DEF ReceiveText, Asked
<1> DEFINE u == SubSeq(arrived, 1, n)
           v == SubSeq(arrived, n + 1, Len(arrived))
           t == Texts[f]
           b == buf \o u
<1>2. /\ arrived \in Seq(Bytes) /\ outgoing \in Seq(Bytes) /\ buf \in Seq(Bytes)
      /\ len # 0 /\ len = Len(t) /\ Len(buf) < len
      /\ received \in Seq(Seq(Bytes)) /\ Len(received) \in Nat /\ Len(received) < Len(Texts)
      /\ Len(arrived) \in Nat /\ Len(buf) \in Nat /\ f \in 1 .. Len(Texts)
      /\ \A k \in 1 .. Len(buf) : buf[k] = t[k]
      /\ UNCHANGED <<frame, part, T, outgoing>>
  BY DEF FrameInv, Sends, Receives, ReceiveText, Asked
<1>3. /\ p \in Place /\ p.frame = f /\ p.part = "text" /\ p.at = Len(buf)
      /\ OnWay \in Seq(Bytes) /\ Len(OnWay) = Len(arrived) + Len(outgoing)
      /\ \A k \in 1 .. Len(arrived) : OnWay[k] = arrived[k]
      /\ Way(OnWay, p, SenderPlace)
  BY <1>2, Places DEF ReceiverPlace, FrameInv
<1> HIDE DEF p
<1>4. t \in Seq(Bytes) /\ Len(t) \in Nat /\ PartAt(p) = t
  BY <1>2, <1>3, TextsFacts
<1>5. n \in Nat \ {0} /\ Len(buf) + n <= Len(t) /\ n <= Len(arrived)
  <2>1. len - Len(buf) \in Nat
    BY <1>2, <1>4
  <2> DEFINE m == Min({len - Len(buf), Len(arrived)})
  <2>2. m \in Nat /\ m <= len - Len(buf) /\ m <= Len(arrived)
    BY <1>2, <2>1, Smaller
  <2>3. n \in 1 .. m
    OBVIOUS
  <2> HIDE DEF m
  <2>4. QED
    BY <1>2, <1>4, <2>1, <2>2, <2>3
<1>6. /\ \A i \in 1 .. n : OnWay[i] = t[Len(buf) + i]
      /\ Way(SubSeq(OnWay, n + 1, Len(OnWay)), After(p, n), SenderPlace)
  <2>1. n \in 1 .. Len(OnWay) /\ p.at + n <= Len(PartAt(p))
    BY <1>2, <1>3, <1>4, <1>5
  <2>2. /\ \A i \in 1 .. n : OnWay[i] = PartAt(p)[p.at + i]
        /\ Way(SubSeq(OnWay, n + 1, Len(OnWay)), After(p, n), SenderPlace)
    BY <1>3, <2>1, Advance
  <2>3. QED
    BY <1>3, <1>4, <2>2
<1>7. u \in Seq(Bytes) /\ Len(u) = n /\ \A i \in 1 .. n : u[i] = t[Len(buf) + i]
  <2>1. u \in Seq(Bytes) /\ Len(u) = n /\ \A i \in 1 .. n : u[i] = arrived[i]
    BY <1>2, <1>5, SubSeqProperties
  <2>2. QED
    BY <1>3, <1>5, <1>6, <2>1
<1>8. /\ b \in Seq(Bytes) /\ Len(b) = Len(buf) + n
      /\ \A k \in 1 .. Len(b) : b[k] = t[k]
  <2> HIDE DEF u
  <2>1. /\ b \in Seq(Bytes) /\ Len(b) = Len(buf) + n
        /\ \A i \in 1 .. Len(buf) : b[i] = buf[i]
        /\ \A i \in 1 .. n : b[Len(buf) + i] = u[i]
    BY <1>2, <1>7, Joined
  <2> HIDE DEF b
  <2>2. ASSUME NEW k \in 1 .. Len(b) PROVE b[k] = t[k]
    <3>1. CASE k <= Len(buf)
      BY <1>2, <2>1, <3>1
    <3>2. CASE k > Len(buf)
      <4>1. k - Len(buf) \in 1 .. n /\ Len(buf) + (k - Len(buf)) = k
        BY <1>2, <1>5, <2>1, <3>2
      <4>2. b[Len(buf) + (k - Len(buf))] = u[k - Len(buf)]
        BY <2>1, <4>1
      <4>3. u[k - Len(buf)] = t[Len(buf) + (k - Len(buf))]
        BY <1>7, <4>1
      <4>4. QED
        BY <4>1, <4>2, <4>3
    <3>3. QED
      BY <1>2, <2>1, <3>1, <3>2
  <2>3. QED
    BY <2>1, <2>2
<1>9. OnWay' = SubSeq(OnWay, n + 1, Len(OnWay)) /\ arrived' \in Seq(Bytes)
  <2>1. arrived' = v
    BY <1>1
  <2>2. OnWay' = v \o outgoing
    BY <1>2, <2>1 DEF OnWay
  <2>3. QED
    BY <1>2, <1>5, <2>1, <2>2, Dropped DEF OnWay
<1>10. SenderPlace' = SenderPlace /\ Sends'
  BY <1>2 DEF SenderPlace, FrameInv, Sends, Part
<1>11. IF Len(b) = len
         THEN received' = Append(received, b) /\ buf' = <<>> /\ len' = 0
         ELSE buf' = b /\ UNCHANGED <<len, received>>
  BY <1>1
<1> HIDE DEF u, b, v
<1>12. Len(b) \in Nat /\ Len(b) = p.at + n /\ len = Len(PartAt(p)) /\ Len(b) <= len
  BY <1>2, <1>3, <1>4, <1>5, <1>8
<1>13. CASE Len(b) = len
  <2>1. b = t
    BY <1>2, <1>4, <1>8, <1>13, SeqEqual
  <2>2. /\ received' \in Seq(Seq(Bytes)) /\ Len(received') = f
        /\ received'[f] = t /\ \A k \in 1 .. Len(received) : received'[k] = received[k]
    <3>1. received' = Append(received, t)
      BY <1>11, <1>13, <2>1
    <3>2. QED
      BY <1>2, <1>4, <3>1, AppendProperties
  <2>3. After(p, n) = ReceiverPlace'
    <3>1. ReceiverPlace' = [frame |-> f + 1, part |-> "length", at |-> 0]
      BY <1>11, <1>13, <2>2 DEF ReceiverPlace
    <3>2. ~ (p.at + n < Len(PartAt(p)))
      <4>1. p.at + n = Len(PartAt(p)) /\ Len(PartAt(p)) \in Nat
        BY <1>4, <1>13, <1>12
      <4>2. QED
        BY <4>1
    <3>3. QED
      BY <1>3, <3>1, <3>2 DEF After, NextPart
  <2>4. Way(OnWay, ReceiverPlace, SenderPlace)'
    BY <1>6, <1>9, <1>10, <2>3 DEF Way, Trail
  <2>5. \A k \in 1 .. f : received'[k] = Texts[k]
    <3>1. \A k \in 1 .. Len(received) : received[k] = Texts[k]
      BY DEF FrameInv, Receives
    <3>2. \A k \in 1 .. f : k \in 1 .. Len(received) \/ k = f
      BY <1>2
    <3>3. QED
      BY <2>2, <3>1, <3>2
  <2>6. Receives'
    BY <1>2, <1>9, <1>11, <1>13, <2>2, <2>5 DEF Receives
  <2>7. QED
    BY <1>2, <1>10, <1>11, <1>13, <2>1, <2>4, <2>6 DEF FrameInv
<1>14. CASE Len(b) # len
  <2>1. buf' = b /\ len' = len /\ received' = received
    BY <1>11, <1>14
  <2>2. After(p, n) = ReceiverPlace'
    <3>1. ReceiverPlace' = [frame |-> f, part |-> "text", at |-> Len(buf) + n]
      BY <1>2, <1>8, <2>1 DEF ReceiverPlace
    <3>2. p.at + n < Len(PartAt(p))
      BY <1>4, <1>14, <1>12
    <3>3. QED
      BY <1>3, <3>1, <3>2 DEF After
  <2>3. Way(OnWay, ReceiverPlace, SenderPlace)'
    BY <1>6, <1>9, <1>10, <2>2 DEF Way, Trail
  <2>4. Len(b) < len
    BY <1>2, <1>4, <1>14, <1>12
  <2>5. Receives'
    BY <1>2, <1>8, <1>9, <2>1, <2>4 DEF FrameInv, Receives
  <2>6. QED
    BY <1>2, <1>10, <2>1, <2>3, <2>5 DEF FrameInv
<1>15. QED
  BY <1>13, <1>14

(* A step of either end or of the network leaves the bytes on the way      *)
(* those between the two places; none but the sender moves on to the next  *)
(* frame, and the receiver takes the text whose turn it is.                *)
LEMMA FrameStep ==
    ASSUME ~ EarlyPolls, FrameInv, [Next]_vars
    PROVE  /\ FrameInv'
           /\ \/ frame' = frame
              \/ frame <= Len(Texts) /\ frame' = frame + 1 /\ received' = received
           /\ \/ received' = received
              \/ /\ received' = Append(received, Texts[Len(received) + 1])
                 /\ Len(received) < Len(Texts) /\ frame' = frame
<1>1. CASE Write
  <2>1. FrameInv'
    BY <1>1, WriteStep
  <2>2. received' = received /\ frame <= Len(Texts) /\ (frame' = frame \/ frame' = frame + 1)
    BY <1>1 DEF Write
  <2>3. QED
    BY <2>1, <2>2
<1>2. CASE Arrive
  <2>1. FrameInv'
    BY <1>2, ArriveStep
  <2>2. received' = received /\ frame' = frame
    BY <1>2 DEF Arrive
  <2>3. QED
    BY <2>1, <2>2
<1>3. CASE ReceiveLength
  BY <1>3, ReceiveLengthStep
<1>4. CASE ReceiveText
  BY <1>4, ReceiveTextStep
<1>5. CASE UNCHANGED vars
  <2>1. frame' = frame /\ received' = received
    BY <1>5
  <2>2. Sends' /\ Receives'
    BY <1>5 DEF FrameInv, Sends, Receives, Part
  <2>3. OnWay' = OnWay /\ ReceiverPlace' = ReceiverPlace /\ SenderPlace' = SenderPlace
    BY <1>5 DEF OnWay, ReceiverPlace, SenderPlace
  <2>4. QED
    BY <2>1, <2>2, <2>3 DEF FrameInv, Way, Trail
<1>6. QED
  BY <1>1, <1>2, <1>3, <1>4, <1>5 DEF Next, Receive, Done

LEMMA FrameInvariant ==
    ASSUME ~ EarlyPolls
    PROVE  Spec => []FrameInv
<1>1. Init => FrameInv
  BY FrameInit
<1>2. FrameInv /\ [Next]_vars => FrameInv'
  BY FrameStep
<1>3. QED
  BY <1>1, <1>2, PTL DEF Spec

(* The receiver is not ahead of the sender.                                *)
Behind == Len(received) < frame

LEMMA FrameBehind == FrameInv => Behind
<1> SUFFICES ASSUME FrameInv PROVE Behind
  OBVIOUS
<1>1. /\ OnWay \in Seq(Bytes) /\ ReceiverPlace \in Place /\ SenderPlace \in Place
      /\ Way(OnWay, ReceiverPlace, SenderPlace)
  BY Places DEF FrameInv
<1>2. ReceiverPlace.frame <= SenderPlace.frame
  BY <1>1, Forward
<1>3. QED
  BY <1>2 DEF FrameInv, Sends, Receives, ReceiverPlace, SenderPlace, Behind

LEMMA Prefix ==
    ASSUME NEW S, NEW s \in Seq(S), NEW t \in Seq(S), Len(s) <= Len(t),
           \A k \in 1 .. Len(s) : s[k] = t[k]
    PROVE  IsPrefix(s, t)
<1> DEFINE a == SubSeq(s, 1, Len(s))
           b == SubSeq(t, 1, Len(s))
<1>1. Len(s) \in Nat /\ Len(t) \in Nat
  OBVIOUS
<1>2. a \in Seq(S) /\ Len(a) = Len(s) /\ \A k \in 1 .. Len(s) : a[k] = s[k]
  BY <1>1, SubSeqProperties
<1>3. b \in Seq(S) /\ Len(b) = Len(s) /\ \A k \in 1 .. Len(s) : b[k] = t[k]
  BY <1>1, SubSeqProperties
<1> HIDE DEF a, b
<1>4. a = b
  BY <1>2, <1>3, SeqEqual
<1>5. QED
  BY <1>1, <1>4 DEF IsPrefix, a, b

(* send_string and recv_string keep to their types, whatever the texts,    *)
(* the bytes of a length and the size of the buffer are.                   *)
THEOREM TypeCorrect ==
    ASSUME ~ EarlyPolls
    PROVE  Spec => []TypeOK
<1>1. FrameInv => TypeOK
  <2> SUFFICES ASSUME FrameInv PROVE TypeOK
    OBVIOUS
  <2>1. len \in Lengths
    <3>1. CASE len = 0
      <4>1. Power[Header] \in Nat \ {0}
        BY PowerValues, HeaderAssumption
      <4>2. QED
        BY <3>1, <4>1 DEF Lengths
    <3>2. CASE len # 0
      <4>1. Len(received) + 1 \in DOMAIN Texts /\ len = Len(Texts[Len(received) + 1])
        BY <3>2, TextsAssumption DEF FrameInv, Receives
      <4>2. QED
        BY <4>1, TextsAssumption
    <3>3. QED
      BY <3>1, <3>2
  <2>2. QED
    BY <2>1 DEF FrameInv, Sends, Receives, TypeOK
<1>2. QED
  BY <1>1, FrameInvariant, PTL

(* The receiver is in step with the frames, however send() and the network *)
(* cut the bytes in pieces.                                                *)
THEOREM InStepCorrect ==
    ASSUME ~ EarlyPolls
    PROVE  Spec => []InStep
<1>1. FrameInv => InStep
  <2> SUFFICES ASSUME FrameInv, len # 0 PROVE InStep
    BY DEF InStep
  <2> DEFINE t == Texts[Len(received) + 1]
  <2>1. /\ Len(received) < Len(Texts) /\ len = Len(t)
        /\ Len(buf) < len /\ buf \in Seq(Bytes)
        /\ \A k \in 1 .. Len(buf) : buf[k] = t[k]
    BY DEF FrameInv, Receives
  <2>2. t \in Seq(Bytes)
    BY <2>1, TextsAssumption DEF FrameInv, Receives
  <2> HIDE DEF t
  <2>3. Len(buf) <= Len(t)
    BY <2>1, <2>2
  <2>4. IsPrefix(buf, t)
    BY <2>1, <2>2, <2>3, Prefix
  <2>5. QED
    BY <2>1, <2>4 DEF InStep, t
<1>2. QED
  BY <1>1, FrameInvariant, PTL

(* What recv_string returned is what send_string was given.                *)
THEOREM IntactCorrect ==
    ASSUME ~ EarlyPolls
    PROVE  Spec => []Intact
<1>1. FrameInv => Intact
  <2> SUFFICES ASSUME FrameInv PROVE Intact
    OBVIOUS
  <2>1. /\ received \in Seq(Seq(Bytes)) /\ Len(received) <= Len(Texts)
        /\ \A k \in 1 .. Len(received) : received[k] = Texts[k]
    BY DEF FrameInv, Receives
  <2>2. QED
    BY <2>1, TextsAssumption, Prefix DEF Intact
<1>2. QED
  BY <1>1, FrameInvariant, PTL

(* The safety part of ImplementsChannel: what the connection does is what  *)
(* the channel of whole messages may do.                                   *)
THEOREM ChannelCorrect ==
    ASSUME ~ EarlyPolls
    PROVE  Spec => Wire!Init /\ [][Wire!Next]_(Wire!vars)
<1>1. Init => Wire!Init
  BY DEF Init, Wire!Init
<1>2. ASSUME FrameInv, Behind', [Next]_vars
      PROVE  [Wire!Next]_(Wire!vars)
  <2>1. Len(received') < frame'
    BY <1>2 DEF Behind
  <2>2. frame \in Nat \ {0} /\ received \in Seq(Seq(Bytes)) /\ Len(received) \in Nat
        /\ Texts \in Seq(Seq(Bytes)) /\ Len(Texts) \in Nat
    BY <1>2, TextsAssumption DEF FrameInv, Sends, Receives
  <2>3. CASE frame' = frame /\ received' = received
    BY <2>3 DEF Wire!vars
  <2>4. CASE frame <= Len(Texts) /\ frame' = frame + 1 /\ received' = received
    BY <2>2, <2>4 DEF Wire!Next, Wire!Send
  <2>5. CASE /\ received' = Append(received, Texts[Len(received) + 1])
             /\ Len(received) < Len(Texts) /\ frame' = frame
    <3>1. Len(received') = Len(received) + 1
      <4>1. Texts[Len(received) + 1] \in Seq(Bytes)
        BY <2>2, <2>5
      <4>2. QED
        BY <2>2, <2>5, <4>1, AppendProperties
    <3>2. Len(received) < frame - 1
      BY <2>1, <2>2, <2>5, <3>1
    <3>3. QED
      BY <2>2, <2>5, <3>2 DEF Wire!Next, Wire!Deliver
  <2>6. QED
    BY <1>2, <2>3, <2>4, <2>5, FrameStep
<1>3. QED
  BY <1>1, <1>2, FrameInvariant, FrameBehind, PTL DEF Spec
=============================================================================
