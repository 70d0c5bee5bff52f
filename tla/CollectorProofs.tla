--------------------------- MODULE CollectorProofs ---------------------------
(***************************************************************************)
(* The round trip of a report, for paths of any length: what the switches  *)
(* of a path wrote into a packet as bytes is what the collector reads from *)
(* it, and which points are made of it.                                    *)
(***************************************************************************)
EXTENDS Collector, FiniteSetTheorems, SequenceTheorems, WellFoundedInduction, TLAPS

-----------------------------------------------------------------------------
(* Induction and recursion over the natural numbers. *)

LEMMA LeastNatural ==
  ASSUME NEW S \in SUBSET Nat, S # {}
  PROVE  \E m \in S : \A k \in S : m <= k
<1> DEFINE L == OpToRel(<, Nat)
<1>1. \A y, m \in Nat : y < m => <<y, m>> \in L
  BY SMT DEF OpToRel
<1>2. IsWellFoundedOn(L, Nat)
  BY NatLessThanWellFounded
<1> HIDE DEF L
<1>3. PICK m \in S : \A y \in S : ~ (<<y, m>> \in L)
  BY <1>2, WFMin
<1>4. ASSUME NEW k \in S PROVE m <= k
  <2>1. k \in Nat /\ m \in Nat
    OBVIOUS
  <2>2. ~ (k < m)
    BY <1>3, <1>1, <2>1, Zenon
  <2> QED BY <2>1, <2>2
<1> QED BY <1>4

(* A set that holds 0 and the successor of each of its members up to n.    *)
LEMMA Reaches ==
  ASSUME NEW n \in Nat, NEW S, 0 \in S, \A k \in 1 .. n : k - 1 \in S => k \in S
  PROVE  0 .. n \subseteq S
<1> DEFINE Missing == {k \in 0 .. n : k \notin S}
<1>1. SUFFICES ASSUME Missing # {} PROVE FALSE
  OBVIOUS
<1>2. Missing \subseteq Nat
  OBVIOUS
<1>3. PICK m \in Missing : \A k \in Missing : m <= k
  BY <1>1, <1>2, LeastNatural
<1>4. m \in 1 .. n /\ m - 1 \in 0 .. n /\ m - 1 \notin Missing
  BY <1>3
<1> QED BY <1>4

(* Functions given by a first value and a step: there is one. *)
Recursion(T, n, a, step, g) ==
  /\ g \in [0 .. n -> T] /\ g[0] = a
  /\ \A i \in 1 .. n : g[i] = step[i][g[i-1]]
LEMMA RecursionExists ==
  ASSUME NEW n \in Nat, NEW T, NEW a \in T, NEW step \in [1 .. n -> [T -> T]]
  PROVE  \E g : Recursion(T, n, a, step, g)
<1> DEFINE Upto(m) == \E g : Recursion(T, m, a, step, g)
           S == {m \in 0 .. n : Upto(m)}
<1>1. Upto(0)
  <2> DEFINE g == [i \in 0 .. 0 |-> a]
  <2>1. g \in [0 .. 0 -> T] /\ g[0] = a
    OBVIOUS
  <2> HIDE DEF g
  <2>2. Recursion(T, 0, a, step, g)
    BY <2>1 DEF Recursion
  <2> QED BY <2>2
<1>2. ASSUME NEW m \in 1 .. n, Upto(m - 1) PROVE Upto(m)
  <2>0. PICK g : Recursion(T, m - 1, a, step, g)
    BY <1>2
  <2>1. /\ g \in [0 .. m - 1 -> T] /\ g[0] = a
        /\ \A i \in 1 .. m - 1 : g[i] = step[i][g[i-1]]
    BY <2>0 DEF Recursion
  <2> DEFINE h == [i \in 0 .. m |-> IF i = m THEN step[m][g[m-1]] ELSE g[i]]
  <2>2. g[m-1] \in T
    BY <2>1
  <2>3. step[m][g[m-1]] \in T
    BY <2>2
  <2>4. \A i \in 0 .. m : i # m => i \in 0 .. m - 1
    OBVIOUS
  <2>5. h \in [0 .. m -> T]
    BY <2>1, <2>3, <2>4
  <2>6. h[0] = a
    BY <2>1
  <2>7. ASSUME NEW i \in 1 .. m PROVE h[i] = step[i][h[i-1]]
    <3>1. i - 1 \in 0 .. m - 1 /\ i - 1 # m /\ i \in 0 .. m /\ i - 1 \in 0 .. m
      OBVIOUS
    <3>2. h[i-1] = g[i-1]
      BY <3>1
    <3>3. CASE i = m
      BY <3>1, <3>2, <3>3
    <3>4. CASE i # m
      BY <2>1, <3>1, <3>2, <3>4
    <3> QED BY <3>3, <3>4
  <2> HIDE DEF h
  <2>8. Recursion(T, m, a, step, h)
    BY <2>5, <2>6, <2>7 DEF Recursion
  <2> QED BY <2>8
<1> HIDE DEF Upto
<1>3. 0 \in S /\ \A m \in 1 .. n : m - 1 \in S => m \in S
  BY <1>1, <1>2
<1> HIDE DEF S
<1>4. 0 .. n \subseteq S
  BY <1>3, Reaches
<1>5. n \in S
  BY <1>4
<1> QED BY <1>5 DEF S, Upto

Iterates(T, n, a, step) == CHOOSE g : Recursion(T, n, a, step, g)

LEMMA IteratesAre ==
  ASSUME NEW n \in Nat, NEW T, NEW a \in T, NEW step \in [1 .. n -> [T -> T]]
  PROVE  Recursion(T, n, a, step, Iterates(T, n, a, step))
<1>1. \E g : Recursion(T, n, a, step, g)
  BY RecursionExists
<1> QED BY <1>1, Zenon DEF Iterates

-----------------------------------------------------------------------------
(* Bytes and values. *)

LEMMA QuotientsDef ==
  ASSUME NEW v \in Nat, NEW w \in Nat
  PROVE  Quotients(v, w) = [i \in 0 .. w |-> IF i = 0 THEN v ELSE Quotients(v, w)[i-1] \div 256]
<1> DEFINE step == [i \in 1 .. w |-> [y \in Nat |-> y \div 256]]
           g == Iterates(Nat, w, v, step)
           q == Quotients(v, w)
<1>1. step \in [1 .. w -> [Nat -> Nat]]
  OBVIOUS
<1>2. \A i \in 1 .. w : \A y \in Nat : step[i][y] = y \div 256
  OBVIOUS
<1> HIDE DEF step
<1>3. Recursion(Nat, w, v, step, g)
  BY <1>1, IteratesAre
<1> HIDE DEF g
<1>4. g \in [0 .. w -> Nat] /\ g[0] = v
  BY <1>3 DEF Recursion
<1>5. \A i \in 1 .. w : g[i] = step[i][g[i-1]]
  BY <1>3 DEF Recursion
<1>6. \A i \in 1 .. w : g[i] = g[i-1] \div 256
  <2> TAKE i \in 1 .. w
  <2>1. g[i-1] \in Nat
    BY <1>4
  <2>2. step[i][g[i-1]] = g[i-1] \div 256
    BY <1>2, <2>1
  <2> QED BY <1>5, <2>2
<1>7. g = [i \in 0 .. w |-> IF i = 0 THEN v ELSE g[i-1] \div 256]
  BY <1>4, <1>6
<1>8. q = CHOOSE h : h = [i \in 0 .. w |-> IF i = 0 THEN v ELSE h[i-1] \div 256]
  BY DEF Quotients
<1> HIDE DEF q
<1>9. q = [i \in 0 .. w |-> IF i = 0 THEN v ELSE q[i-1] \div 256]
  BY <1>7, <1>8
<1> QED BY <1>9 DEF q

LEMMA QuotientsFirst ==
  ASSUME NEW v \in Nat, NEW w \in Nat
  PROVE  Quotients(v, w)[0] = v
BY QuotientsDef
LEMMA QuotientsNext ==
  ASSUME NEW v \in Nat, NEW w \in Nat, NEW i \in 1 .. w
  PROVE  Quotients(v, w)[i] = Quotients(v, w)[i-1] \div 256
<1> DEFINE q == Quotients(v, w)
<1>1. q = [j \in 0 .. w |-> IF j = 0 THEN v ELSE q[j-1] \div 256]
  BY QuotientsDef
<1> HIDE DEF q
<1>2. q[i] = q[i-1] \div 256
  BY <1>1
<1> QED BY <1>2 DEF q
LEMMA QuotientsType ==
  ASSUME NEW v \in Nat, NEW w \in Nat
  PROVE  Quotients(v, w) \in [0 .. w -> Nat]
<1> DEFINE q == Quotients(v, w)
           S == {i \in 0 .. w : q[i] \in Nat}
<1>1. q = [j \in 0 .. w |-> IF j = 0 THEN v ELSE q[j-1] \div 256]
  BY QuotientsDef
<1>2. q[0] = v /\ \A i \in 1 .. w : q[i] = q[i-1] \div 256
  BY QuotientsFirst, QuotientsNext
<1> HIDE DEF q
<1>3. 0 \in S /\ \A i \in 1 .. w : i - 1 \in S => i \in S
  BY <1>2
<1> HIDE DEF S
<1>4. 0 .. w \subseteq S
  BY <1>3, Reaches
<1>5. q \in [0 .. w -> Nat]
  BY <1>1, <1>4 DEF S
<1> QED BY <1>5 DEF q

LEMMA BytesType ==
  ASSUME NEW v \in Nat, NEW w \in Nat
  PROVE  Bytes(v, w) \in Seq(Nat) /\ Len(Bytes(v, w)) = w
<1> DEFINE q == Quotients(v, w)
<1>1. q \in [0 .. w -> Nat]
  BY QuotientsType
<1>2. Bytes(v, w) = [i \in 1 .. w |-> q[w - i] % 256]
  BY DEF Bytes
<1> HIDE DEF q
<1>3. \A i \in 1 .. w : q[w - i] % 256 \in Nat
  BY <1>1
<1> QED BY <1>2, <1>3

LEMMA SmallFits ==
  ASSUME NEW v \in 0 .. 255, NEW w \in Nat \ {0}
  PROVE  Fits(v, w)
<1> DEFINE q == Quotients(v, w)
<1>1. q[0] = v /\ \A i \in 1 .. w : q[i] = q[i-1] \div 256
  <2>1. w \in Nat /\ v \in Nat
    OBVIOUS
  <2>2. q[0] = v
    BY <2>1, QuotientsFirst
  <2>3. \A i \in 1 .. w : q[i] = q[i-1] \div 256
    BY <2>1, QuotientsNext
  <2> QED BY <2>2, <2>3
<1> HIDE DEF q
<1> DEFINE S == {i \in 0 .. w : i = 0 \/ q[i] = 0}
<1>2. \A i \in 1 .. w : i - 1 \in S => i \in S
  <2> TAKE i \in 1 .. w
  <2>1. CASE i = 1
    <3>1. q[1] = v \div 256
      BY <1>1
    <3> QED BY <2>1, <3>1
  <2>2. CASE i # 1
    <3>1. i - 1 \in 1 .. w /\ i \in 0 .. w /\ q[i] = q[i-1] \div 256
      BY <1>1, <2>2
    <3> QED BY <2>2, <3>1
  <2> QED BY <2>1, <2>2
<1>3. 0 \in S
  OBVIOUS
<1> HIDE DEF S
<1>4. 0 .. w \subseteq S
  BY <1>2, <1>3, Reaches
<1> QED BY <1>4 DEF S, Fits, q

LEMMA ValueIs ==
  ASSUME NEW b \in Seq(Nat)
  PROVE  \E u \in [0 .. Len(b) -> Nat] :
           /\ u[0] = 0 /\ \A i \in 1 .. Len(b) : u[i] = 256 * u[i-1] + b[i]
           /\ Value(b) = u[Len(b)]
<1> DEFINE n == Len(b)
           step == [i \in 1 .. n |-> [y \in Nat |-> 256 * y + b[i]]]
           g == Iterates(Nat, n, 0, step)
           u == CHOOSE h : h = [i \in 0 .. n |-> IF i = 0 THEN 0 ELSE 256 * h[i-1] + b[i]]
<1>1. n \in Nat /\ \A i \in 1 .. n : b[i] \in Nat
  OBVIOUS
<1>2. Value(b) = u[n]
  BY DEF Value
<1> HIDE DEF n
<1>3. step \in [1 .. n -> [Nat -> Nat]]
  BY <1>1
<1>4. \A i \in 1 .. n : \A y \in Nat : step[i][y] = 256 * y + b[i]
  OBVIOUS
<1> HIDE DEF step, u
<1>5. Recursion(Nat, n, 0, step, g)
  BY <1>1, <1>3, IteratesAre
<1> HIDE DEF g
<1>6. g \in [0 .. n -> Nat] /\ g[0] = 0
  BY <1>5 DEF Recursion
<1>7. \A i \in 1 .. n : g[i] = step[i][g[i-1]]
  BY <1>5 DEF Recursion
<1>8. \A i \in 1 .. n : g[i] = 256 * g[i-1] + b[i]
  <2> TAKE i \in 1 .. n
  <2>1. g[i-1] \in Nat
    BY <1>1, <1>6
  <2>2. step[i][g[i-1]] = 256 * g[i-1] + b[i]
    BY <1>4, <2>1
  <2> QED BY <1>7, <2>2
<1>9. g = [i \in 0 .. n |-> IF i = 0 THEN 0 ELSE 256 * g[i-1] + b[i]]
  BY <1>1, <1>6, <1>8
<1>10. u = [i \in 0 .. n |-> IF i = 0 THEN 0 ELSE 256 * u[i-1] + b[i]]
  BY <1>9 DEF u
<1>11. u[0] = 0 /\ \A i \in 1 .. n : u[i] = 256 * u[i-1] + b[i]
  BY <1>1, <1>10
<1>12. u \in [0 .. n -> Nat]
  <2> DEFINE S == {i \in 0 .. n : u[i] \in Nat}
  <2>1. 0 \in S
    BY <1>1, <1>11
  <2>2. ASSUME NEW i \in 1 .. n, i - 1 \in S PROVE i \in S
    <3>1. u[i-1] \in Nat /\ b[i] \in Nat /\ i \in 0 .. n
      BY <1>1, <2>2
    <3>2. 256 * u[i-1] + b[i] \in Nat
      BY <3>1
    <3> QED BY <1>11, <3>1, <3>2
  <2> HIDE DEF S
  <2>3. 0 .. n \subseteq S
    BY <1>1, <2>1, <2>2, Reaches
  <2> QED BY <1>10, <2>3 DEF S
<1> QED BY <1>2, <1>11, <1>12 DEF n

(* What fits in w bytes comes back from them. *)
LEMMA ValueOfBytes ==
  ASSUME NEW v \in Nat, NEW w \in Nat, Fits(v, w)
  PROVE  Value(Bytes(v, w)) = v
<1> DEFINE q == Quotients(v, w)
           b == Bytes(v, w)
<1>1. /\ q \in [0 .. w -> Nat] /\ q[0] = v /\ q[w] = 0
      /\ \A i \in 1 .. w : q[i] = q[i-1] \div 256
  <2>1. q \in [0 .. w -> Nat]
    BY QuotientsType
  <2>2. q[0] = v /\ \A i \in 1 .. w : q[i] = q[i-1] \div 256
    BY QuotientsFirst, QuotientsNext
  <2> QED BY <2>1, <2>2 DEF Fits
<1>2. /\ b \in Seq(Nat) /\ Len(b) = w
      /\ \A i \in 1 .. w : b[i] = q[w - i] % 256
  BY BytesType DEF Bytes
<1> HIDE DEF q, b
<1>3. PICK u \in [0 .. w -> Nat] :
        /\ u[0] = 0 /\ \A i \in 1 .. w : u[i] = 256 * u[i-1] + b[i]
        /\ Value(b) = u[w]
  BY <1>2, ValueIs
<1> DEFINE S == {i \in 0 .. w : u[i] = q[w - i]}
<1>4. 0 \in S
  BY <1>1, <1>3
<1>5. ASSUME NEW i \in 1 .. w, i - 1 \in S PROVE i \in S
  <2>1. w - i \in 0 .. w /\ w - (i - 1) \in 1 .. w /\ (w - (i - 1)) - 1 = w - i
    OBVIOUS
  <2>2. q[w - (i - 1)] = q[w - i] \div 256 /\ q[w - i] \in Nat
    BY <1>1, <2>1
  <2>3. u[i-1] = q[w - i] \div 256
    BY <1>5, <2>2
  <2>4. u[i] = 256 * (q[w - i] \div 256) + (q[w - i] % 256)
    BY <1>2, <1>3, <2>3
  <2>5. u[i] = q[w - i]
    BY <2>2, <2>4
  <2> QED BY <2>5
<1> HIDE DEF S
<1>6. 0 .. w \subseteq S
  BY <1>4, <1>5, Reaches
<1>7. u[w] = q[w - w]
  BY <1>6 DEF S
<1> QED BY <1>1, <1>3, <1>7 DEF b

-----------------------------------------------------------------------------
(* Sequences put one after the other: off[k] is what comes before part k. *)

Offsets(parts, n, off) ==
  /\ off \in [1 .. n + 1 -> Nat] /\ off[1] = 0
  /\ \A k \in 1 .. n : off[k+1] = off[k] + Len(parts[k])
Laid(b, parts, n, off) ==
  /\ b \in Seq(Nat) /\ Len(b) = off[n+1]
  /\ \A k \in 1 .. n : /\ off[k] + Len(parts[k]) <= Len(b)
                       /\ \A j \in 1 .. Len(parts[k]) : b[off[k] + j] = parts[k][j]

LEMMA LaidOneMore ==
  ASSUME NEW n \in Nat \ {0}, NEW parts \in [1 .. n -> Seq(Nat)], NEW off, Offsets(parts, n, off),
         NEW m \in 1 .. n - 1, NEW b, Laid(b, parts, m, off)
  PROVE  Laid(b \o parts[m+1], parts, m + 1, off)
<1> DEFINE p == parts[m+1]
           c == b \o p
<1>1. /\ b \in Seq(Nat) /\ Len(b) = off[m+1] /\ p \in Seq(Nat)
      /\ m \in Nat /\ m + 1 \in 1 .. n
      /\ off[m+1] \in Nat /\ off[m+2] = off[m+1] + Len(p) /\ (m + 1) + 1 = m + 2
  BY DEF Laid, Offsets
<1>2. /\ c \in Seq(Nat) /\ Len(c) = Len(b) + Len(p)
      /\ \A i \in 1 .. Len(b) : c[i] = b[i]
      /\ \A i \in 1 .. Len(p) : c[Len(b) + i] = p[i]
  <2>1. b \in Seq(Nat) /\ p \in Seq(Nat)
    BY <1>1
  <2> HIDE DEF p
  <2> QED BY <2>1
<1>0. n \in Nat /\ \A k \in 1 .. m : /\ k \in 1 .. n + 1 /\ Len(parts[k]) \in Nat
  <2>1. \A k \in 1 .. n : parts[k] \in Seq(Nat)
    OBVIOUS
  <2> QED BY <2>1
<1> HIDE DEF c
<1>3. ASSUME NEW k \in 1 .. m
      PROVE  /\ off[k] + Len(parts[k]) <= Len(c)
             /\ \A j \in 1 .. Len(parts[k]) : c[off[k] + j] = parts[k][j]
  <2>0. off[k] + Len(parts[k]) <= Len(b)
    BY DEF Laid
  <2>1. \A j \in 1 .. Len(parts[k]) : b[off[k] + j] = parts[k][j]
    BY DEF Laid
  <2>2. off[k] \in Nat /\ Len(parts[k]) \in Nat /\ Len(b) \in Nat /\ Len(p) \in Nat
    <3>1. off \in [1 .. n + 1 -> Nat]
      BY DEF Offsets
    <3>2. Len(b) \in Nat /\ Len(p) \in Nat
      BY <1>1
    <3> QED BY <1>0, <3>1, <3>2
  <2>3. off[k] + Len(parts[k]) <= Len(c)
    BY <1>2, <2>0, <2>2
  <2>4. ASSUME NEW j \in 1 .. Len(parts[k]) PROVE c[off[k] + j] = parts[k][j]
    <3>1. off[k] + j \in 1 .. Len(b)
      <4> DEFINE before == off[k]
                 own == Len(parts[k])
                 all == Len(b)
      <4>1. before \in Nat /\ own \in Nat /\ all \in Nat /\ j \in 1 .. own /\ before + own <= all
        BY <2>0, <2>2
      <4> HIDE DEF before, own, all
      <4>2. before + j \in 1 .. all
        BY <4>1
      <4> QED BY <4>2 DEF before, all
    <3> QED BY <1>2, <2>1, <3>1
  <2> QED BY <2>3, <2>4
<1>4. \A k \in 1 .. m + 1 : k \in 1 .. m \/ k = m + 1
  BY <1>1
<1>5. /\ off[m+1] + Len(p) <= Len(c) /\ Len(c) = off[m+2]
      /\ \A j \in 1 .. Len(p) : c[off[m+1] + j] = p[j]
  BY <1>1, <1>2
<1>6. ASSUME NEW k \in 1 .. m + 1
      PROVE  /\ off[k] + Len(parts[k]) <= Len(c)
             /\ \A j \in 1 .. Len(parts[k]) : c[off[k] + j] = parts[k][j]
  BY <1>3, <1>4, <1>5
<1> HIDE DEF p
<1>7. Len(c) = off[(m + 1) + 1]
  BY <1>1, <1>5
<1>8. Laid(c, parts, m + 1, off)
  BY <1>2, <1>6, <1>7 DEF Laid
<1> QED BY <1>8 DEF c, p

LEMMA FlattenedAre ==
  ASSUME NEW n \in Nat \ {0}, NEW parts \in [1 .. n -> Seq(Nat)], NEW off, Offsets(parts, n, off)
  PROVE  Laid(FlattenSeq(parts), parts, n, off)
<1> DEFINE step == [i \in 1 .. n |-> [y \in Seq(Nat) |-> y \o parts[i]]]
           g == Iterates(Seq(Nat), n, << >>, step)
           f == CHOOSE h : h = [i \in 1 .. n |-> IF i = 1 THEN parts[i] ELSE h[i-1] \o parts[i]]
<1>1. Len(parts) = n /\ n # 0
  OBVIOUS
<1>2. FlattenSeq(parts) = f[n]
  BY <1>1 DEF FlattenSeq
<1>3. step \in [1 .. n -> [Seq(Nat) -> Seq(Nat)]]
  OBVIOUS
<1>4. \A i \in 1 .. n : \A y \in Seq(Nat) : step[i][y] = y \o parts[i]
  OBVIOUS
<1> HIDE DEF step, f
<1>5. n \in Nat /\ << >> \in Seq(Nat)
  OBVIOUS
<1>6. Recursion(Seq(Nat), n, << >>, step, g)
  BY <1>3, <1>5, IteratesAre
<1> HIDE DEF g
<1>7. g \in [0 .. n -> Seq(Nat)] /\ g[0] = << >>
  BY <1>6 DEF Recursion
<1>8. \A i \in 1 .. n : g[i] = step[i][g[i-1]]
  BY <1>6 DEF Recursion
<1>9. \A i \in 1 .. n : g[i] = g[i-1] \o parts[i]
  <2> TAKE i \in 1 .. n
  <2>1. g[i-1] \in Seq(Nat)
    BY <1>7
  <2>2. step[i][g[i-1]] = g[i-1] \o parts[i]
    BY <1>4, <2>1
  <2> QED BY <1>8, <2>2
<1>10. g[1] = parts[1]
  <2>1. g[1] = << >> \o parts[1]
    <3>1. 1 \in 1 .. n /\ 1 - 1 = 0
      OBVIOUS
    <3>2. g[1] = g[0] \o parts[1]
      BY <1>9, <3>1
    <3> QED BY <1>7, <3>2
  <2>2. parts[1] \in Seq(Nat)
    OBVIOUS
  <2> QED BY <2>1, <2>2
<1> DEFINE e == [i \in 1 .. n |-> g[i]]
<1>11. e = [i \in 1 .. n |-> IF i = 1 THEN parts[i] ELSE e[i-1] \o parts[i]]
  <2>1. \A i \in 1 .. n : i # 1 => i - 1 \in 1 .. n
    OBVIOUS
  <2>2. \A i \in 1 .. n : i # 1 => e[i-1] = g[i-1]
    BY <2>1
  <2> QED BY <1>9, <1>10, <2>2
<1> HIDE DEF e
<1>12. f = [i \in 1 .. n |-> IF i = 1 THEN parts[i] ELSE f[i-1] \o parts[i]]
  BY <1>11 DEF f
<1> DEFINE S == {i \in 0 .. n : i = 0 \/ Laid(f[i], parts, i, off)}
<1>13. 0 \in S
  OBVIOUS
<1>14. ASSUME NEW i \in 1 .. n, i - 1 \in S PROVE i \in S
  <2>1. CASE i = 1
    <3>1. f[1] = parts[1] /\ parts[1] \in Seq(Nat)
      BY <1>12
    <3>2. off[1] = 0 /\ off[1+1] = Len(parts[1])
      BY DEF Offsets
    <3>3. Laid(f[1], parts, 1, off)
      BY <3>1, <3>2 DEF Laid
    <3> QED BY <2>1, <3>3
  <2>2. CASE i # 1
    <3>1. i - 1 \in 1 .. n - 1 /\ (i - 1) + 1 = i /\ i - 1 # 0 /\ i \in 0 .. n
      BY <2>2
    <3>2. Laid(f[i-1], parts, i - 1, off)
      BY <1>14, <3>1
    <3>3. f[i] = f[i-1] \o parts[i]
      BY <1>12, <2>2
    <3>4. Laid(f[i-1] \o parts[(i-1)+1], parts, (i - 1) + 1, off)
      BY <3>1, <3>2, LaidOneMore
    <3> QED BY <3>1, <3>3, <3>4
  <2> QED BY <2>1, <2>2
<1> HIDE DEF S
<1>15. 0 .. n \subseteq S
  BY <1>5, <1>13, <1>14, Reaches
<1>16. n \in S
  BY <1>15
<1> QED BY <1>1, <1>2, <1>16 DEF S

-----------------------------------------------------------------------------
(* One hop: eight headers of 44 bytes, read with the offsets of            *)
(* parse_int_metadata.                                                     *)

(* What a switch may stamp. *)
IsStamp(h) ==
  /\ h \in [switch : 0 .. 255, in : 0 .. 255, out : 0 .. 255, queue : 0 .. 255,
            latency : Nat, occupancy : Nat, ingress : Nat, egress : Nat]
  /\ Fits(h.latency, 4) /\ Fits(h.occupancy, 3) /\ Fits(h.ingress, 8) /\ Fits(h.egress, 8)

(* A hop as it is read tells what was stamped. *)
Tells(hop, h) ==
  /\ hop.switch = h.switch /\ hop.l1_in = h.in /\ hop.l1_out = h.out
  /\ hop.latency = h.latency /\ hop.queue = h.queue /\ hop.occupancy = h.occupancy
  /\ hop.ingress = h.ingress /\ hop.egress = h.egress

(* Two values, one after the other. *)
Beside(v, w, u, z) == Bytes(v, w) \o Bytes(u, z)

LEMMA BesideType ==
  \A v, w, u, z, n \in Nat :
    n = w + z => Beside(v, w, u, z) \in Seq(Nat) /\ Len(Beside(v, w, u, z)) = n
<1> TAKE v, w, u, z, n \in Nat
<1> DEFINE x == Bytes(v, w)
           y == Bytes(u, z)
           both == Beside(v, w, u, z)
<1>1. x \in Seq(Nat) /\ Len(x) = w /\ y \in Seq(Nat) /\ Len(y) = z
  BY BytesType
<1>2. both = x \o y
  BY DEF Beside
<1> HIDE DEF x, y, both
<1>3. both \in Seq(Nat) /\ Len(both) = w + z
  BY <1>1, <1>2
<1>4. n = w + z => both \in Seq(Nat) /\ Len(both) = n
  BY <1>3, Zenon
<1> QED BY <1>4 DEF both

FirstBytes(v, w, u, z) == \A j \in 1 .. w : Beside(v, w, u, z)[j] = Bytes(v, w)[j]
LEMMA BesideBefore ==
  \A v, w, u, z \in Nat : FirstBytes(v, w, u, z)
<1> TAKE v, w, u, z \in Nat
<1> DEFINE x == Bytes(v, w)
           y == Bytes(u, z)
<1>1. x \in Seq(Nat) /\ Len(x) = w /\ y \in Seq(Nat) /\ Len(y) = z
  BY BytesType
<1>2. Beside(v, w, u, z) = x \o y
  BY DEF Beside
<1> HIDE DEF x, y
<1>3. \A j \in 1 .. w : (x \o y)[j] = x[j]
  BY <1>1
<1>4. \A j \in 1 .. w : Beside(v, w, u, z)[j] = x[j]
  BY <1>2, <1>3, Zenon
<1> QED BY <1>4, Zenon DEF FirstBytes, x

After(v, w, u, z) == \A j \in 1 .. z : Beside(v, w, u, z)[w + j] = Bytes(u, z)[j]
LEMMA BesideAfter ==
  \A v, w, u, z \in Nat : After(v, w, u, z)
<1> TAKE v, w, u, z \in Nat
<1> DEFINE x == Bytes(v, w)
           y == Bytes(u, z)
<1>1. x \in Seq(Nat) /\ Len(x) = w /\ y \in Seq(Nat) /\ Len(y) = z
  BY BytesType
<1>2. Beside(v, w, u, z) = x \o y
  BY DEF Beside
<1> HIDE DEF x, y
<1>3. \A j \in 1 .. z : (x \o y)[w + j] = y[j]
  BY <1>1
<1>4. \A j \in 1 .. z : Beside(v, w, u, z)[w + j] = y[j]
  BY <1>2, <1>3, Zenon
<1> QED BY <1>4, Zenon DEF After, y

LEMMA BesidesFit ==
  \A i, o, q, c \in Nat :
    /\ Beside(i, 2, o, 2) \in Seq(Nat) /\ Len(Beside(i, 2, o, 2)) = 4
    /\ Beside(q, 1, c, 3) \in Seq(Nat) /\ Len(Beside(q, 1, c, 3)) = 4
    /\ Beside(i, 4, o, 4) \in Seq(Nat) /\ Len(Beside(i, 4, o, 4)) = 8
<1> TAKE i, o, q, c \in Nat
<1>1. Beside(i, 2, o, 2) \in Seq(Nat) /\ Len(Beside(i, 2, o, 2)) = 4
  <2>1. PICK w \in Nat, z \in Nat, n \in Nat : w = 2 /\ z = 2 /\ n = 4
    OBVIOUS
  <2>2. n = w + z
    BY <2>1
  <2>3. Beside(i, w, o, z) \in Seq(Nat) /\ Len(Beside(i, w, o, z)) = n
    BY <2>2, BesideType
  <2> QED BY <2>1, <2>3, Zenon
<1>2. Beside(q, 1, c, 3) \in Seq(Nat) /\ Len(Beside(q, 1, c, 3)) = 4
  <2>1. PICK w \in Nat, z \in Nat, n \in Nat : w = 1 /\ z = 3 /\ n = 4
    OBVIOUS
  <2>2. n = w + z
    BY <2>1
  <2>3. Beside(q, w, c, z) \in Seq(Nat) /\ Len(Beside(q, w, c, z)) = n
    BY <2>2, BesideType
  <2> QED BY <2>1, <2>3, Zenon
<1>3. Beside(i, 4, o, 4) \in Seq(Nat) /\ Len(Beside(i, 4, o, 4)) = 8
  <2>1. PICK w \in Nat, z \in Nat, n \in Nat : w = 4 /\ z = 4 /\ n = 8
    OBVIOUS
  <2>2. n = w + z
    BY <2>1
  <2>3. Beside(i, w, o, z) \in Seq(Nat) /\ Len(Beside(i, w, o, z)) = n
    BY <2>2, BesideType
  <2> QED BY <2>1, <2>3, Zenon
<1> QED BY <1>1, <1>2, <1>3

Headers(h) ==
  << Bytes(h.switch, 4), Beside(h.in, 2, h.out, 2), Bytes(h.latency, 4),
     Beside(h.queue, 1, h.occupancy, 3), Bytes(h.ingress, 8), Bytes(h.egress, 8),
     Beside(h.in, 4, h.out, 4), Bytes(0, 4) >>
HeaderOffsets == <<0, 4, 8, 12, 16, 24, 32, 40, 44>>

(* Where the values of the first six headers are. *)
HopLayout(b, a, i, o, l, q, c, g, e) ==
  /\ b \in Seq(Nat) /\ Len(b) = 44
  /\ \A j \in 1 .. 4 : b[0 + j] = Bytes(a, 4)[j]
  /\ \A j \in 1 .. 4 : b[4 + j] = Beside(i, 2, o, 2)[j]
  /\ \A j \in 1 .. 4 : b[8 + j] = Bytes(l, 4)[j]
  /\ \A j \in 1 .. 4 : b[12 + j] = Beside(q, 1, c, 3)[j]
  /\ \A j \in 1 .. 8 : b[16 + j] = Bytes(g, 8)[j]
  /\ \A j \in 1 .. 8 : b[24 + j] = Bytes(e, 8)[j]

LEMMA HopIsLaid ==
  ASSUME NEW h, NEW a \in Nat, NEW i \in Nat, NEW o \in Nat, NEW l \in Nat, NEW q \in Nat,
         NEW c \in Nat, NEW g \in Nat, NEW e \in Nat,
         a = h.switch, i = h.in, o = h.out, l = h.latency, q = h.queue, c = h.occupancy,
         g = h.ingress, e = h.egress
  PROVE  HopLayout(HopBytes(h), a, i, o, l, q, c, g, e)
<1> DEFINE H == Headers(h)
           p == [k \in 1 .. 8 |-> IF k - 1 \in Instructions THEN H[k] ELSE << >>]
<1>2. HopBytes(h) = FlattenSeq(p)
  BY Zenon DEF HopBytes, Headers, Beside
<1>3. H = << Bytes(a, 4), Beside(i, 2, o, 2), Bytes(l, 4), Beside(q, 1, c, 3),
             Bytes(g, 8), Bytes(e, 8), Beside(i, 4, o, 4), Bytes(0, 4) >>
  BY DEF Headers
<1>4. /\ Bytes(a, 4) \in Seq(Nat) /\ Len(Bytes(a, 4)) = 4
      /\ Bytes(l, 4) \in Seq(Nat) /\ Len(Bytes(l, 4)) = 4
      /\ Bytes(0, 4) \in Seq(Nat) /\ Len(Bytes(0, 4)) = 4
  BY BytesType
<1>5. /\ Bytes(g, 8) \in Seq(Nat) /\ Len(Bytes(g, 8)) = 8
      /\ Bytes(e, 8) \in Seq(Nat) /\ Len(Bytes(e, 8)) = 8
  BY BytesType
<1>6. /\ Beside(i, 2, o, 2) \in Seq(Nat) /\ Len(Beside(i, 2, o, 2)) = 4
      /\ Beside(q, 1, c, 3) \in Seq(Nat) /\ Len(Beside(q, 1, c, 3)) = 4
      /\ Beside(i, 4, o, 4) \in Seq(Nat) /\ Len(Beside(i, 4, o, 4)) = 8
  <2>1. i \in Nat /\ o \in Nat /\ q \in Nat /\ c \in Nat
    OBVIOUS
  <2> QED BY <2>1, BesidesFit, Zenon
<1>8. H = [k \in 1 .. 8 |-> H[k]]
  BY <1>3
<1>9. /\ H[1] \in Seq(Nat) /\ H[2] \in Seq(Nat) /\ H[3] \in Seq(Nat) /\ H[4] \in Seq(Nat)
      /\ H[5] \in Seq(Nat) /\ H[6] \in Seq(Nat) /\ H[7] \in Seq(Nat) /\ H[8] \in Seq(Nat)
  BY <1>3, <1>4, <1>5, <1>6
<1>10. /\ Len(H[1]) = 4 /\ Len(H[2]) = 4 /\ Len(H[3]) = 4 /\ Len(H[4]) = 4
       /\ Len(H[5]) = 8 /\ Len(H[6]) = 8 /\ Len(H[7]) = 8 /\ Len(H[8]) = 4
  BY <1>3, <1>4, <1>5, <1>6
<1> HIDE DEF H
<1>11. p = H
  <2>1. \A k \in 1 .. 8 : k - 1 \in Instructions
    BY AllAsked
  <2> QED BY <1>8, <2>1
<1>12. H \in [1 .. 8 -> Seq(Nat)]
  <2>1. ASSUME NEW k \in 1 .. 8 PROVE H[k] \in Seq(Nat)
    <3>1. k = 1 \/ k = 2 \/ k = 3 \/ k = 4 \/ k = 5 \/ k = 6 \/ k = 7 \/ k = 8
      OBVIOUS
    <3> QED BY <1>9, <3>1, Zenon
  <2> QED BY <1>8, <2>1
<1>13. Offsets(H, 8, HeaderOffsets)
  <2>1. HeaderOffsets \in [1 .. 8 + 1 -> Nat] /\ HeaderOffsets[1] = 0
    BY DEF HeaderOffsets
  <2>0. /\ HeaderOffsets[1] = 0 /\ HeaderOffsets[2] = 4 /\ HeaderOffsets[3] = 8
        /\ HeaderOffsets[4] = 12 /\ HeaderOffsets[5] = 16 /\ HeaderOffsets[6] = 24
        /\ HeaderOffsets[7] = 32 /\ HeaderOffsets[8] = 40 /\ HeaderOffsets[9] = 44
    BY DEF HeaderOffsets
  <2>2. /\ HeaderOffsets[2] = HeaderOffsets[1] + Len(H[1])
        /\ HeaderOffsets[3] = HeaderOffsets[2] + Len(H[2])
        /\ HeaderOffsets[4] = HeaderOffsets[3] + Len(H[3])
        /\ HeaderOffsets[5] = HeaderOffsets[4] + Len(H[4])
        /\ HeaderOffsets[6] = HeaderOffsets[5] + Len(H[5])
        /\ HeaderOffsets[7] = HeaderOffsets[6] + Len(H[6])
        /\ HeaderOffsets[8] = HeaderOffsets[7] + Len(H[7])
        /\ HeaderOffsets[9] = HeaderOffsets[8] + Len(H[8])
    BY <1>10, <2>0
  <2>3. ASSUME NEW k \in 1 .. 8 PROVE HeaderOffsets[k+1] = HeaderOffsets[k] + Len(H[k])
    <3>1. k = 1 \/ k = 2 \/ k = 3 \/ k = 4 \/ k = 5 \/ k = 6 \/ k = 7 \/ k = 8
      OBVIOUS
    <3>2. 1 + 1 = 2 /\ 2 + 1 = 3 /\ 3 + 1 = 4 /\ 4 + 1 = 5 /\ 5 + 1 = 6 /\ 6 + 1 = 7 /\ 7 + 1 = 8 /\ 8 + 1 = 9
      OBVIOUS
    <3> QED BY <2>2, <3>1, <3>2, Zenon
  <2> QED BY <2>1, <2>3 DEF Offsets
<1>14. Laid(FlattenSeq(H), H, 8, HeaderOffsets)
  <2>1. 8 \in Nat \ {0}
    OBVIOUS
  <2> QED BY <1>12, <1>13, <2>1, FlattenedAre, Zenon
<1> DEFINE b == HopBytes(h)
<1>15. Laid(b, H, 8, HeaderOffsets)
  BY <1>2, <1>11, <1>14
<1> HIDE DEF b
<1>16. b \in Seq(Nat) /\ Len(b) = 44
  BY <1>15 DEF Laid, HeaderOffsets
<1>17. \A k \in 1 .. 8 : \A j \in 1 .. Len(H[k]) : b[HeaderOffsets[k] + j] = H[k][j]
  BY <1>15 DEF Laid
<1>18. /\ HeaderOffsets[1] = 0 /\ HeaderOffsets[2] = 4 /\ HeaderOffsets[3] = 8
       /\ HeaderOffsets[4] = 12 /\ HeaderOffsets[5] = 16 /\ HeaderOffsets[6] = 24
  BY DEF HeaderOffsets
<1>19. /\ 1 \in 1 .. 8 /\ 2 \in 1 .. 8 /\ 3 \in 1 .. 8
       /\ 4 \in 1 .. 8 /\ 5 \in 1 .. 8 /\ 6 \in 1 .. 8
  OBVIOUS
<1>28. HeaderOffsets = [k \in 1 .. 9 |-> HeaderOffsets[k]]
  BY DEF HeaderOffsets
<1>20. \A j \in 1 .. 4 : b[0 + j] = H[1][j]
  <2>1. PICK k \in 1 .. 8 : k = 1
    OBVIOUS
  <2>2. \A j \in 1 .. Len(H[k]) : b[HeaderOffsets[k] + j] = H[k][j]
    BY <1>17
  <2> QED BY <1>8, <1>10, <1>18, <1>28, <2>1, <2>2
<1>21. \A j \in 1 .. 4 : b[4 + j] = H[2][j]
  <2>1. PICK k \in 1 .. 8 : k = 2
    OBVIOUS
  <2>2. \A j \in 1 .. Len(H[k]) : b[HeaderOffsets[k] + j] = H[k][j]
    BY <1>17
  <2> QED BY <1>8, <1>10, <1>18, <1>28, <2>1, <2>2
<1>22. \A j \in 1 .. 4 : b[8 + j] = H[3][j]
  <2>1. PICK k \in 1 .. 8 : k = 3
    OBVIOUS
  <2>2. \A j \in 1 .. Len(H[k]) : b[HeaderOffsets[k] + j] = H[k][j]
    BY <1>17
  <2> QED BY <1>8, <1>10, <1>18, <1>28, <2>1, <2>2
<1>23. \A j \in 1 .. 4 : b[12 + j] = H[4][j]
  <2>1. PICK k \in 1 .. 8 : k = 4
    OBVIOUS
  <2>2. \A j \in 1 .. Len(H[k]) : b[HeaderOffsets[k] + j] = H[k][j]
    BY <1>17
  <2> QED BY <1>8, <1>10, <1>18, <1>28, <2>1, <2>2
<1>24. \A j \in 1 .. 8 : b[16 + j] = H[5][j]
  <2>1. PICK k \in 1 .. 8 : k = 5
    OBVIOUS
  <2>2. \A j \in 1 .. Len(H[k]) : b[HeaderOffsets[k] + j] = H[k][j]
    BY <1>17
  <2> QED BY <1>8, <1>10, <1>18, <1>28, <2>1, <2>2
<1>25. \A j \in 1 .. 8 : b[24 + j] = H[6][j]
  <2>1. PICK k \in 1 .. 8 : k = 6
    OBVIOUS
  <2>2. \A j \in 1 .. Len(H[k]) : b[HeaderOffsets[k] + j] = H[k][j]
    BY <1>17
  <2> QED BY <1>8, <1>10, <1>18, <1>28, <2>1, <2>2
<1>26. /\ H[1] = Bytes(a, 4) /\ H[2] = Beside(i, 2, o, 2) /\ H[3] = Bytes(l, 4)
       /\ H[4] = Beside(q, 1, c, 3) /\ H[5] = Bytes(g, 8) /\ H[6] = Bytes(e, 8)
  BY <1>3
<1> HIDE DEF p
<1>27. HopLayout(b, a, i, o, l, q, c, g, e)
  BY <1>16, <1>20, <1>21, <1>22, <1>23, <1>24, <1>25, <1>26, Zenon DEF HopLayout
<1> QED BY <1>27 DEF b

(* A part of a sequence that equals another sequence. *)
LEMMA PieceIs ==
  ASSUME NEW b \in Seq(Nat), NEW s \in Nat, NEW d \in Seq(Nat), NEW w \in Nat, w = Len(d),
         s + w <= Len(b), \A j \in 1 .. w : b[s + j] = d[j]
  PROVE  SubSeq(b, s + 1, s + w) = d
<1> DEFINE c == SubSeq(b, s + 1, s + w)
<1>2. /\ c \in Seq(Nat) /\ Len(c) = w
      /\ \A j \in 1 .. w : c[j] = b[s + j]
  <2>1. s + 1 \in Int /\ s + w \in Int /\ \A i \in s + 1 .. s + w : b[i] \in Nat
    <3>1. \A i \in 1 .. Len(b) : b[i] \in Nat
      OBVIOUS
    <3>2. \A i \in s + 1 .. s + w : i \in 1 .. Len(b)
      OBVIOUS
    <3> QED BY <3>1, <3>2
  <2>2. /\ c \in Seq(Nat)
        /\ Len(c) = IF s + 1 <= s + w THEN (s + w) - (s + 1) + 1 ELSE 0
        /\ \A i \in 1 .. (s + w) - (s + 1) + 1 : c[i] = b[(s + 1) + i - 1]
    BY <2>1, SubSeqProperties
  <2> HIDE DEF c
  <2>3. Len(c) = w
    BY <2>2
  <2>4. \A j \in 1 .. w : j \in 1 .. (s + w) - (s + 1) + 1 /\ (s + 1) + j - 1 = s + j
    OBVIOUS
  <2> QED BY <2>2, <2>3, <2>4
<1>3. \A j \in 1 .. w : c[j] = d[j]
  BY <1>2
<1> HIDE DEF c
<1>4. c = d
  BY <1>2, <1>3, SeqEqual
<1> QED BY <1>4 DEF c

LEMMA FieldRead ==
  ASSUME NEW b \in Seq(Nat), NEW s \in Nat, NEW w \in Nat, NEW v \in Nat, Fits(v, w),
         s + w <= Len(b), \A j \in 1 .. w : b[s + j] = Bytes(v, w)[j]
  PROVE  Value(SubSeq(b, s + 1, s + w)) = v
<1> DEFINE d == Bytes(v, w)
<1>1. d \in Seq(Nat) /\ w = Len(d)
  BY BytesType
<1>2. Value(d) = v
  BY ValueOfBytes
<1>3. \A j \in 1 .. w : b[s + j] = d[j]
  OBVIOUS
<1> HIDE DEF d
<1>4. SubSeq(b, s + 1, s + w) = d
  BY <1>1, <1>3, PieceIs
<1> QED BY <1>2, <1>4

(* Where the fields of a hop are read. *)
ReadOffsets == <<1, 5, 7, 9, 13, 14, 17, 25, 33, 37, 41>>

LEMMA ReadsAre ==
  ASSUME NEW b
  PROVE  /\ ReadHop(b).switch    = Value(SubSeq(b, 1, 4))
         /\ ReadHop(b).l1_in     = Value(SubSeq(b, 5, 6))
         /\ ReadHop(b).l1_out    = Value(SubSeq(b, 7, 8))
         /\ ReadHop(b).latency   = Value(SubSeq(b, 9, 12))
         /\ ReadHop(b).queue     = Value(SubSeq(b, 13, 13))
         /\ ReadHop(b).occupancy = Value(SubSeq(b, 14, 16))
         /\ ReadHop(b).ingress   = Value(SubSeq(b, 17, 24))
         /\ ReadHop(b).egress    = Value(SubSeq(b, 25, 32))
<1> DEFINE Eq(h) == h = [i \in DOMAIN Reads |->
                           IF i = 1 THEN 1
                           ELSE h[i-1] + (IF i - 1 \in Asked THEN Reads[i-1][3] ELSE 0)]
           from == CHOOSE h : Eq(h)
           read(name) == CHOOSE i \in Asked : Reads[i][1] = name
           names == {Reads[i][1] : i \in Asked}
           field(name) == LET i == read(name)
                          IN  Value(SubSeq(b, from[i], from[i] + Reads[i][3] - 1))
<1>1. ReadHop(b) = [name \in names |-> field(name)]
  BY Zenon DEF ReadHop
<1>2. DOMAIN Reads = 1 .. 11
  BY DEF Reads
<1>3. \A i \in 1 .. 11 : i \in {1, 2, 3, 4, 5, 6, 7, 8, 9, 10, 11}
  OBVIOUS
<1>4. Asked = 1 .. 11
  <2>1. \A i \in {1, 2, 3, 4, 5, 6, 7, 8, 9, 10, 11} : Reads[i][2] \in 0 .. 7
    BY DEF Reads
  <2> QED BY <1>2, <1>3, <2>1, AllAsked DEF Asked
<1>5. Eq(ReadOffsets)
  <2>1. ReadOffsets = [i \in 1 .. 11 |-> ReadOffsets[i]]
    BY DEF ReadOffsets
  <2>2. \A i \in {2, 3, 4, 5, 6, 7, 8, 9, 10, 11} :
          ReadOffsets[i] = ReadOffsets[i-1] + Reads[i-1][3]
    BY DEF ReadOffsets, Reads
  <2>3. ReadOffsets[1] = 1
    BY DEF ReadOffsets
  <2>4. \A i \in 1 .. 11 : i # 1 => i \in {2, 3, 4, 5, 6, 7, 8, 9, 10, 11} /\ i - 1 \in 1 .. 11
    OBVIOUS
  <2> QED BY <1>2, <1>4, <2>1, <2>2, <2>3, <2>4
<1>6. Eq(from)
  BY <1>5, Zenon
<1> HIDE DEF from
<1>7. from[1] = 1 /\ \A i \in 2 .. 11 : from[i] = from[i-1] + Reads[i-1][3]
  BY <1>2, <1>4, <1>6
<1>8. /\ from[2] = 5 /\ from[3] = 7 /\ from[4] = 9 /\ from[5] = 13
      /\ from[6] = 14 /\ from[7] = 17 /\ from[8] = 25
  BY <1>7 DEF Reads
<1>9. \A i, j \in {1, 2, 3, 4, 5, 6, 7, 8, 9, 10, 11} : Reads[i][1] = Reads[j][1] => i = j
  BY DEF Reads
<1>10. \A i \in 1 .. 11 : read(Reads[i][1]) = i
  BY <1>3, <1>4, <1>9
<1>11. ASSUME NEW i \in 1 .. 11
       PROVE  ReadHop(b)[Reads[i][1]] = Value(SubSeq(b, from[i], from[i] + Reads[i][3] - 1))
  <2>1. Reads[i][1] \in names
    BY <1>4
  <2>2. ReadHop(b)[Reads[i][1]] = field(Reads[i][1])
    BY <1>1, <2>1
  <2> QED BY <1>10, <2>2
<1>12. /\ Reads[1] = <<"switch", 0, 4>> /\ Reads[2] = <<"l1_in", 1, 2>>
       /\ Reads[3] = <<"l1_out", 1, 2>> /\ Reads[4] = <<"latency", 2, 4>>
       /\ Reads[5] = <<"queue", 3, 1>> /\ Reads[6] = <<"occupancy", 3, 3>>
       /\ Reads[7] = <<"ingress", 4, 8>> /\ Reads[8] = <<"egress", 5, 8>>
  BY DEF Reads
<1> HIDE DEF read, names, field
<1> QED BY <1>7, <1>8, <1>11, <1>12

(* What comes out of the packet is what the switch put in. *)
LEMMA HopRoundTrip ==
  ASSUME NEW h, IsStamp(h)
  PROVE  /\ HopBytes(h) \in Seq(Nat) /\ Len(HopBytes(h)) = 44
         /\ Tells(ReadHop(HopBytes(h)), h)
<1> DEFINE b == HopBytes(h)
<1>1. /\ h.switch \in 0 .. 255 /\ h.in \in 0 .. 255 /\ h.out \in 0 .. 255 /\ h.queue \in 0 .. 255
      /\ h.latency \in Nat /\ h.occupancy \in Nat /\ h.ingress \in Nat /\ h.egress \in Nat
      /\ Fits(h.latency, 4) /\ Fits(h.occupancy, 3) /\ Fits(h.ingress, 8) /\ Fits(h.egress, 8)
  BY DEF IsStamp
<1>2. PICK a \in 0 .. 255, i \in 0 .. 255, o \in 0 .. 255, q \in 0 .. 255 :
        a = h.switch /\ i = h.in /\ o = h.out /\ q = h.queue
  BY <1>1
<1>3. PICK l \in Nat, c \in Nat, g \in Nat, e \in Nat :
        l = h.latency /\ c = h.occupancy /\ g = h.ingress /\ e = h.egress
  BY <1>1
<1>4. Fits(l, 4) /\ Fits(c, 3) /\ Fits(g, 8) /\ Fits(e, 8)
  BY <1>1, <1>3
<1>5. Fits(a, 4) /\ Fits(i, 2) /\ Fits(o, 2) /\ Fits(q, 1)
  <2>1. a \in 0 .. 255 /\ i \in 0 .. 255 /\ o \in 0 .. 255 /\ q \in 0 .. 255
    BY <1>1, <1>2
  <2> QED BY <2>1, SmallFits
<1>6. a \in Nat /\ i \in Nat /\ o \in Nat /\ q \in Nat /\ c \in Nat
  OBVIOUS
<1>7. HopLayout(b, a, i, o, l, q, c, g, e)
  BY <1>2, <1>3, <1>6, HopIsLaid, Zenon
<1> HIDE DEF b
<1>8. b \in Seq(Nat) /\ Len(b) = 44
  BY <1>7 DEF HopLayout
<1>9. Value(SubSeq(b, 1, 4)) = a
  <2>1. PICK s \in Nat, w \in Nat : s = 0 /\ w = 4
    OBVIOUS
  <2>2. Fits(a, w) /\ s + w <= Len(b)
    BY <1>4, <1>5, <1>8, <2>1
  <2>3. \A j \in 1 .. w : b[s + j] = Bytes(a, w)[j]
    BY <1>7, <2>1, Zenon DEF HopLayout
  <2>4. Value(SubSeq(b, s + 1, s + w)) = a
    BY <1>6, <1>8, <2>2, <2>3, FieldRead
  <2> QED BY <2>1, <2>4
<1>10. Value(SubSeq(b, 9, 12)) = l
  <2>1. PICK s \in Nat, w \in Nat : s = 8 /\ w = 4
    OBVIOUS
  <2>2. Fits(l, w) /\ s + w <= Len(b)
    BY <1>4, <1>5, <1>8, <2>1
  <2>3. \A j \in 1 .. w : b[s + j] = Bytes(l, w)[j]
    BY <1>7, <2>1, Zenon DEF HopLayout
  <2>4. Value(SubSeq(b, s + 1, s + w)) = l
    BY <1>6, <1>8, <2>2, <2>3, FieldRead
  <2> QED BY <2>1, <2>4
<1>11. Value(SubSeq(b, 17, 24)) = g
  <2>1. PICK s \in Nat, w \in Nat : s = 16 /\ w = 8
    OBVIOUS
  <2>2. Fits(g, w) /\ s + w <= Len(b)
    BY <1>4, <1>5, <1>8, <2>1
  <2>3. \A j \in 1 .. w : b[s + j] = Bytes(g, w)[j]
    BY <1>7, <2>1, Zenon DEF HopLayout
  <2>4. Value(SubSeq(b, s + 1, s + w)) = g
    BY <1>6, <1>8, <2>2, <2>3, FieldRead
  <2> QED BY <2>1, <2>4
<1>12. Value(SubSeq(b, 25, 32)) = e
  <2>1. PICK s \in Nat, w \in Nat : s = 24 /\ w = 8
    OBVIOUS
  <2>2. Fits(e, w) /\ s + w <= Len(b)
    BY <1>4, <1>5, <1>8, <2>1
  <2>3. \A j \in 1 .. w : b[s + j] = Bytes(e, w)[j]
    BY <1>7, <2>1, Zenon DEF HopLayout
  <2>4. Value(SubSeq(b, s + 1, s + w)) = e
    BY <1>6, <1>8, <2>2, <2>3, FieldRead
  <2> QED BY <2>1, <2>4
<1>13. Value(SubSeq(b, 5, 6)) = i /\ Value(SubSeq(b, 7, 8)) = o
  <2>1. PICK s \in Nat, t \in Nat, w \in Nat, z \in Nat : s = 4 /\ t = 6 /\ w = 2 /\ z = 2
    OBVIOUS
  <2>0. w \in Nat /\ z \in Nat
    OBVIOUS
  <2>2. Fits(i, w) /\ Fits(o, z) /\ s + w <= Len(b) /\ t + z <= Len(b)
    BY <1>4, <1>5, <1>8, <2>1
  <2>3. \A j \in 1 .. 4 : b[s + j] = Beside(i, w, o, z)[j]
    BY <1>7, <2>1, Zenon DEF HopLayout
  <2>4. \A j \in 1 .. w : j \in 1 .. 4
    BY <2>1
  <2>5. \A j \in 1 .. z : w + j \in 1 .. 4 /\ t + j = s + (w + j)
    BY <2>1
  <2>6. \A j \in 1 .. w : b[s + j] = Bytes(i, w)[j]
    <3>1. \A j \in 1 .. w : Beside(i, w, o, z)[j] = Bytes(i, w)[j]
      <4>1. FirstBytes(i, w, o, z)
        BY <1>6, <2>0, BesideBefore
      <4> QED BY <4>1, Zenon DEF FirstBytes
    <3> QED BY <2>3, <2>4, <3>1, Zenon
  <2>7. \A j \in 1 .. z : b[t + j] = Bytes(o, z)[j]
    <3>1. \A j \in 1 .. z : Beside(i, w, o, z)[w + j] = Bytes(o, z)[j]
      <4>1. After(i, w, o, z)
        BY <1>6, <2>0, BesideAfter
      <4> QED BY <4>1, Zenon DEF After
    <3> QED BY <2>3, <2>5, <3>1, Zenon
  <2>8. Value(SubSeq(b, s + 1, s + w)) = i
    BY <1>6, <1>8, <2>2, <2>6, FieldRead
  <2>9. Value(SubSeq(b, t + 1, t + z)) = o
    BY <1>6, <1>8, <2>2, <2>7, FieldRead
  <2> QED BY <2>1, <2>8, <2>9
<1>14. Value(SubSeq(b, 13, 13)) = q /\ Value(SubSeq(b, 14, 16)) = c
  <2>1. PICK s \in Nat, t \in Nat, w \in Nat, z \in Nat : s = 12 /\ t = 13 /\ w = 1 /\ z = 3
    OBVIOUS
  <2>0. w \in Nat /\ z \in Nat
    OBVIOUS
  <2>2. Fits(q, w) /\ Fits(c, z) /\ s + w <= Len(b) /\ t + z <= Len(b)
    BY <1>4, <1>5, <1>8, <2>1
  <2>3. \A j \in 1 .. 4 : b[s + j] = Beside(q, w, c, z)[j]
    BY <1>7, <2>1, Zenon DEF HopLayout
  <2>4. \A j \in 1 .. w : j \in 1 .. 4
    BY <2>1
  <2>5. \A j \in 1 .. z : w + j \in 1 .. 4 /\ t + j = s + (w + j)
    BY <2>1
  <2>6. \A j \in 1 .. w : b[s + j] = Bytes(q, w)[j]
    <3>1. \A j \in 1 .. w : Beside(q, w, c, z)[j] = Bytes(q, w)[j]
      <4>1. FirstBytes(q, w, c, z)
        BY <1>6, <2>0, BesideBefore
      <4> QED BY <4>1, Zenon DEF FirstBytes
    <3> QED BY <2>3, <2>4, <3>1, Zenon
  <2>7. \A j \in 1 .. z : b[t + j] = Bytes(c, z)[j]
    <3>1. \A j \in 1 .. z : Beside(q, w, c, z)[w + j] = Bytes(c, z)[j]
      <4>1. After(q, w, c, z)
        BY <1>6, <2>0, BesideAfter
      <4> QED BY <4>1, Zenon DEF After
    <3> QED BY <2>3, <2>5, <3>1, Zenon
  <2>8. Value(SubSeq(b, s + 1, s + w)) = q
    BY <1>6, <1>8, <2>2, <2>6, FieldRead
  <2>9. Value(SubSeq(b, t + 1, t + z)) = c
    BY <1>6, <1>8, <2>2, <2>7, FieldRead
  <2> QED BY <2>1, <2>8, <2>9
<1>15. Tells(ReadHop(b), h)
  BY <1>2, <1>3, <1>9, <1>10, <1>11, <1>12, <1>13, <1>14, ReadsAre DEF Tells
<1> QED BY <1>8, <1>15 DEF b

-----------------------------------------------------------------------------
(* A packet: the hops of a path, the last first. *)

(* A report that a sink may send. *)
Reported(r) ==
  /\ r.flow \in DOMAIN Flow /\ r.path \in Flow[r.flow].paths
  /\ r.n \in 1 .. MaxPackets /\ r.n \in Nat \ {0}
Stamped(r, i) == Stamp(r.flow, r.path, i, r.n)
Place(r, i) == Len(r.path) + 1 - i          \* where the hop i of a report is on its path

LEMMA PathIs ==
  ASSUME NEW r, Reported(r)
  PROVE  /\ r.path \in Seq(D!Switches) /\ Len(r.path) \in Nat \ {0}
         /\ DOMAIN r.path = 1 .. Len(r.path)
         /\ \A i \in 1 .. Len(r.path) : r.path[i] \in D!Switches
         /\ r.path[Len(r.path)] \in D!Edge
         /\ \A i \in 1 .. Len(r.path) - 1 : r.path[i] # r.path[i+1]
         /\ Flow[r.flow].src \in D!Hosts
<1>1. /\ Flow[r.flow].src \in D!Hosts /\ r.path \in Seq(D!Switches) /\ r.path # << >>
      /\ Reporter(r.path) \in Iface
      /\ \A i \in 1 .. Len(r.path) - 1 : r.path[i] # r.path[i+1]
  BY PathsTravelled DEF Reported
<1>2. Reporter(r.path) = r.path[Len(r.path)]
  BY <1>1 DEF Reporter, Last
<1>3. r.path[Len(r.path)] \in D!Edge
  BY <1>1, <1>2 DEF Iface
<1> DEFINE path == r.path
<1>4. path \in Seq(D!Switches) /\ path # << >>
  BY <1>1
<1> HIDE DEF path
<1>5. /\ Len(path) \in Nat \ {0} /\ DOMAIN path = 1 .. Len(path)
      /\ \A i \in 1 .. Len(path) : path[i] \in D!Switches
  BY <1>4
<1> QED BY <1>1, <1>3, <1>5, Zenon DEF path

LEMMA PortsFit ==
  /\ \A s, t \in D!Switches : D!PortTo[s][t] \in 0 .. 255
  /\ \A h \in D!Hosts : D!HomePort[h] \in 0 .. 255
  /\ \A s \in D!Edge : \E o \in D!EdgePorts(s) : TRUE
  /\ \A s : \A o \in D!EdgePorts(s) : o \in 0 .. 255
<1>1. \A h \in D!Hosts : D!HomePort[h] \in {1, 20}
  BY DEF D!Hosts, D!HomePort
<1>2. \A s, t \in {1, 2, 3, 4, 5} : D!PortTo[s][t] \in {0, 1, 2, 3, 4, 5}
  BY DEF D!PortTo
<1>3. \A s \in D!Switches : s \in {1, 2, 3, 4, 5}
  BY DEF D!Switches
<1>4. {0, 1, 2, 3, 4, 5} \subseteq 0 .. 255 /\ {1, 20} \subseteq 0 .. 255
  OBVIOUS
<1>5. \A s \in D!Edge : \E o \in D!EdgePorts(s) : TRUE
  BY DEF D!Edge, D!EdgePorts
<1>6. \A s : \A o \in D!EdgePorts(s) : o \in 0 .. 255
  BY <1>1, <1>4 DEF D!EdgePorts
<1> QED BY <1>1, <1>2, <1>3, <1>4, <1>5, <1>6

LEMMA StampIs ==
  ASSUME NEW r, Reported(r), NEW i \in 1 .. Len(r.path)
  PROVE  IsStamp(Stamped(r, i))
<1> DEFINE h == Stamped(r, i)
           n == Len(r.path)
<1>1. /\ n \in Nat \ {0} /\ i \in 1 .. n /\ r.n \in Nat \ {0} /\ DOMAIN r.path = 1 .. n
      /\ \A j \in 1 .. n : r.path[j] \in D!Switches
      /\ r.path[n] \in D!Edge /\ Flow[r.flow].src \in D!Hosts
  BY PathIs DEF Reported
<1>2. /\ Fits(h.latency, 4) /\ Fits(h.occupancy, 3) /\ Fits(h.ingress, 8) /\ Fits(h.egress, 8)
  BY <1>1, StampsFit DEF Reported, Stamped
<1>3. ClockStart[r.path[i]] \in Nat
  BY <1>1, StampsFit
<1>4. PortIn(r.flow, r.path, i) \in 0 .. 255
  <2>1. CASE i = 1
    BY <1>1, <2>1, PortsFit DEF PortIn
  <2>2. CASE i # 1
    <3>1. i - 1 \in 1 .. n
      BY <1>1, <2>2
    <3> QED BY <1>1, <2>2, <3>1, PortsFit DEF PortIn
  <2> QED BY <2>1, <2>2
<1>5. PortOut(r.path, i) \in 0 .. 255
  <2>1. CASE i = n
    BY <1>1, <2>1, PortsFit DEF PortOut
  <2>2. CASE i # n
    <3>1. i + 1 \in 1 .. n
      BY <1>1, <2>2
    <3> QED BY <1>1, <2>2, <3>1, PortsFit DEF PortOut
  <2> QED BY <2>1, <2>2
<1>6. r.path[i] \in 0 .. 255
  BY <1>1 DEF D!Switches
<1>7. r.n + i \in Nat /\ i \in Nat /\ ClockStart[r.path[i]] + 300 * i \in Nat
      /\ ClockStart[r.path[i]] + 300 * i + r.n + i \in Nat
  <2>1. PICK c \in Nat : c = ClockStart[r.path[i]]
    BY <1>3
  <2>2. PICK m \in Nat : m = r.n
    BY <1>1
  <2>3. i \in Nat /\ m + i \in Nat /\ c + 300 * i \in Nat /\ c + 300 * i + m + i \in Nat
    BY <1>1
  <2> QED BY <2>1, <2>2, <2>3, Zenon
<1>8. h \in [switch : 0 .. 255, in : 0 .. 255, out : 0 .. 255, queue : 0 .. 255,
             latency : Nat, occupancy : Nat, ingress : Nat, egress : Nat]
  BY <1>4, <1>5, <1>6, <1>7 DEF Stamped, Stamp
<1> QED BY <1>2, <1>8 DEF IsStamp

(* Hops of 44 bytes, one after the other. *)
HopOffsets(n) == [k \in 1 .. n + 1 |-> 44 * (k - 1)]
HopsOf(r) == [i \in 1 .. Len(r.path) |-> HopBytes(Stamped(r, Place(r, i)))]

LEMMA HopOf ==
  ASSUME NEW r, Reported(r), NEW i \in 1 .. Len(r.path)
  PROVE  /\ Place(r, i) \in 1 .. Len(r.path) /\ IsStamp(Stamped(r, Place(r, i)))
         /\ HopsOf(r)[i] \in Seq(Nat) /\ Len(HopsOf(r)[i]) = 44
         /\ Tells(ReadHop(HopsOf(r)[i]), Stamped(r, Place(r, i)))
<1>1. Place(r, i) \in 1 .. Len(r.path)
  BY PathIs DEF Place
<1>2. IsStamp(Stamped(r, Place(r, i)))
  BY <1>1, StampIs
<1>3. HopsOf(r)[i] = HopBytes(Stamped(r, Place(r, i)))
  BY DEF HopsOf
<1> QED BY <1>1, <1>2, <1>3, HopRoundTrip

LEMMA IntBytesLaid ==
  ASSUME NEW r, Reported(r)
  PROVE  Laid(IntBytes(r), HopsOf(r), Len(r.path), HopOffsets(Len(r.path)))
<1> DEFINE n == Len(r.path)
           parts == HopsOf(r)
           off == HopOffsets(n)
<1>1. n \in Nat \ {0} /\ DOMAIN r.path = 1 .. n
  BY PathIs
<1>2. IntBytes(r) = FlattenSeq(parts)
  BY <1>1 DEF IntBytes, HopsOf, Place, Stamped
<1>3. parts = [i \in 1 .. n |-> parts[i]]
  BY DEF HopsOf
<1>4. \A i \in 1 .. n : parts[i] \in Seq(Nat) /\ Len(parts[i]) = 44
  BY HopOf
<1> HIDE DEF parts
<1>5. parts \in [1 .. n -> Seq(Nat)]
  BY <1>3, <1>4
<1>6. off \in [1 .. n + 1 -> Nat] /\ off[1] = 0 /\ \A k \in 1 .. n : off[k+1] = off[k] + 44
  BY <1>1 DEF HopOffsets
<1> HIDE DEF off, n
<1>7. Offsets(parts, n, off)
  BY <1>4, <1>6 DEF Offsets
<1>8. Laid(FlattenSeq(parts), parts, n, off)
  BY <1>1, <1>5, <1>7, FlattenedAre
<1> QED BY <1>2, <1>8 DEF parts, n, off

(* Which part of the packet parse_int_metadata takes for the hop i. *)
LEMMA HopIsPart ==
  ASSUME NEW r, Reported(r), NEW i \in 1 .. Len(r.path)
  PROVE  /\ IntBytes(r) \in Seq(Nat) /\ Len(IntBytes(r)) = 44 * Len(r.path)
         /\ SubSeq(IntBytes(r), 44 * (i - 1) + 1, 44 * i) = HopsOf(r)[i]
<1> DEFINE n == Len(r.path)
           b == IntBytes(r)
           d == HopsOf(r)[i]
<1>1. n \in Nat \ {0} /\ i \in 1 .. n
  BY PathIs
<1>2. d \in Seq(Nat) /\ Len(d) = 44
  BY HopOf
<1>3. Laid(b, HopsOf(r), n, HopOffsets(n))
  BY IntBytesLaid
<1>4. b \in Seq(Nat) /\ Len(b) = HopOffsets(n)[n+1]
  BY <1>3 DEF Laid
<1>5. HopOffsets(n)[n+1] = 44 * n
  BY <1>1 DEF HopOffsets
<1>6. \A j \in 1 .. Len(d) : b[HopOffsets(n)[i] + j] = d[j]
  BY <1>1, <1>3 DEF Laid
<1> HIDE DEF b, d, n
<1>7. PICK s \in Nat, w \in Nat : s = 44 * (i - 1) /\ w = 44
  BY <1>1
<1>8. HopOffsets(n)[i] = s /\ s + w <= 44 * n /\ s + w = 44 * i
  BY <1>1, <1>7 DEF HopOffsets
<1>9. w = Len(d) /\ s + w <= Len(b) /\ \A j \in 1 .. w : b[s + j] = d[j]
  BY <1>2, <1>4, <1>5, <1>6, <1>7, <1>8
<1>10. SubSeq(b, s + 1, s + w) = d
  BY <1>2, <1>4, <1>9, PieceIs
<1> QED BY <1>4, <1>5, <1>7, <1>8, <1>10 DEF b, d, n

(* All hops of a packet are read, the last switch of the path first. *)
LEMMA PacketRead ==
  ASSUME NEW r, Reported(r)
  PROVE  parse_int_metadata(Packet(r)) = [i \in 1 .. Len(r.path) |-> ReadHop(HopsOf(r)[i])]
<1> DEFINE n == Len(r.path)
           b == IntBytes(r)
           p == Packet(r)
<1>1. n \in Nat \ {0}
  BY PathIs
<1>2. b \in Seq(Nat) /\ Len(b) = 44 * n
  <2>1. 1 \in 1 .. n
    BY <1>1
  <2> QED BY <2>1, HopIsPart
<1>3. \A i \in 1 .. n : SubSeq(b, 44 * (i - 1) + 1, 44 * i) = HopsOf(r)[i]
  BY HopIsPart
<1>4. p.length = 3 + Len(b) \div 4 /\ p.load = b \o PAYLOAD
  BY DEF Packet
<1>5. PAYLOAD \in Seq(Nat) /\ Len(PAYLOAD) = 4
  BY DEF PAYLOAD
<1> HIDE DEF b, p, n
<1> DEFINE words == p.length - 3
           load == SubSeq(p.load, 1, 4 * words)
<1>6. words = 11 * n
  <2>1. (44 * n) \div 4 = 11 * n
    BY <1>1
  <2>2. p.length = 3 + 11 * n
    BY <1>2, <1>4, <2>1
  <2> QED BY <1>1, <2>2
<1>7. load = b
  <2>1. PICK s \in Nat, w \in Nat : s = 0 /\ w = 44 * n
    BY <1>1
  <2>2. b \o PAYLOAD \in Seq(Nat) /\ s + w <= Len(b \o PAYLOAD) /\ w = Len(b)
        /\ \A j \in 1 .. w : (b \o PAYLOAD)[s + j] = b[j]
    BY <1>2, <1>5, <2>1
  <2>3. SubSeq(b \o PAYLOAD, s + 1, s + w) = b
    BY <1>2, <2>2, PieceIs
  <2>4. s + 1 = 1 /\ s + w = 4 * words
    BY <1>1, <1>6, <2>1
  <2> QED BY <1>4, <2>3, <2>4
<1> HIDE DEF load
<1>8. words \div HopMetaLength = n
  <2>1. (11 * n) \div 11 = n
    BY <1>1
  <2> QED BY <1>6, <2>1, AllAsked
<1>9. parse_int_metadata(p) =
        [i \in 1 .. words \div HopMetaLength |->
           ReadHop(SubSeq(load, 4 * HopMetaLength * (i - 1) + 1, 4 * HopMetaLength * i))]
  BY DEF parse_int_metadata, load
<1>10. 4 * HopMetaLength = 44
  BY AllAsked
<1> HIDE DEF words
<1>11. parse_int_metadata(p) = [i \in 1 .. n |-> ReadHop(SubSeq(b, 44 * (i - 1) + 1, 44 * i))]
  BY <1>7, <1>8, <1>9, <1>10
<1>12. \A i \in 1 .. n : ReadHop(SubSeq(b, 44 * (i - 1) + 1, 44 * i)) = ReadHop(HopsOf(r)[i])
  BY <1>3
<1> QED BY <1>11, <1>12 DEF p, n

-----------------------------------------------------------------------------
(* What InfluxDB keeps of a batch: the last point of each series. *)

Kept(batch, k) == \A j \in k + 1 .. Len(batch) : Series(batch[j]) # Series(batch[k])

LEMMA WrittenNew ==
  ASSUME NEW batch, NEW y
  PROVE  y \in Written({}, batch) <=> \E k \in DOMAIN batch : Kept(batch, k) /\ y = batch[k]
BY DEF Written, Kept

LEMMA KeptExists ==
  ASSUME NEW batch, NEW n \in Nat, DOMAIN batch = 1 .. n, Len(batch) = n, NEW i \in 1 .. n
  PROVE  \E k \in 1 .. n : Kept(batch, k) /\ Series(batch[k]) = Series(batch[i])
<1> DEFINE Same == {k \in 1 .. n : Series(batch[k]) = Series(batch[i])}
           Left == {m \in 0 .. n : n - m \in Same}
<1>1. n - i \in Left
  <2>1. n - (n - i) = i /\ n - i \in 0 .. n
    OBVIOUS
  <2> QED BY <2>1
<1>2. Left \in SUBSET Nat /\ Left # {}
  <2> HIDE DEF Same
  <2>1. Left \in SUBSET Nat
    OBVIOUS
  <2> HIDE DEF Left
  <2> QED BY <1>1, <2>1
<1>3. PICK m \in Left : \A l \in Left : m <= l
  BY <1>2, LeastNatural
<1>4. m \in 0 .. n /\ n - m \in Same
  BY <1>3
<1>5. PICK k \in 1 .. n : k = n - m
  BY <1>4
<1>6. k \in Same
  BY <1>4, <1>5
<1>7. ASSUME NEW j \in k + 1 .. n PROVE j \notin Same
  <2>1. n - j \in 0 .. n /\ n - (n - j) = j /\ ~ (m <= n - j)
    BY <1>4, <1>5
  <2> QED BY <1>3, <2>1
<1>8. \A j \in k + 1 .. n : j \in 1 .. n
  OBVIOUS
<1>9. Kept(batch, k)
  BY <1>6, <1>7, <1>8 DEF Kept
<1> QED BY <1>6, <1>9

(* No two points of a series. *)
LEMMA WrittenOnce ==
  ASSUME NEW batch, NEW n \in Nat, DOMAIN batch = 1 .. n, Len(batch) = n,
         NEW y \in Written({}, batch), NEW z \in Written({}, batch), Series(y) = Series(z)
  PROVE  y = z
<1>1. PICK k \in 1 .. n : Kept(batch, k) /\ y = batch[k]
  BY WrittenNew
<1>2. PICK l \in 1 .. n : Kept(batch, l) /\ z = batch[l]
  BY WrittenNew
<1>3. ~ (k < l)
  BY <1>1, <1>2 DEF Kept
<1>4. ~ (l < k)
  BY <1>1, <1>2 DEF Kept
<1>5. k = l
  BY <1>3, <1>4
<1> QED BY <1>1, <1>2, <1>5

(* Points of another time are not touched. *)
LEMMA WrittenApart ==
  ASSUME NEW points, NEW batch, NEW at,
         \A y \in points : y.time # at, \A i \in DOMAIN batch : batch[i].time = at
  PROVE  Written(points, batch) = points \cup Written({}, batch)
<1>1. \A y \in points : \A i \in DOMAIN batch : Series(batch[i]) # Series(y)
  BY DEF Series
<1> QED BY <1>1 DEF Written

-----------------------------------------------------------------------------
(* The points of a report. *)

(* The path comes to a switch for the first time. *)
Firstly(path, i) == \A j \in 1 .. i - 1 : path[j] # path[i]

HopsTell(r, hops) ==
  /\ hops = [i \in 1 .. Len(r.path) |-> hops[i]]
  /\ \A i \in 1 .. Len(r.path) : Tells(hops[i], Stamped(r, Place(r, i)))

LEMMA HopsAre ==
  ASSUME NEW r, Reported(r)
  PROVE  HopsTell(r, FlowInfo(Packet(r)).hops)
<1> DEFINE hops == parse_int_metadata(Packet(r))
<1>1. hops = [i \in 1 .. Len(r.path) |-> ReadHop(HopsOf(r)[i])]
  BY PacketRead
<1>2. FlowInfo(Packet(r)).hops = hops
  BY DEF FlowInfo
<1> HIDE DEF hops
<1>3. hops = [i \in 1 .. Len(r.path) |-> hops[i]]
  BY <1>1
<1>4. \A i \in 1 .. Len(r.path) : Tells(hops[i], Stamped(r, Place(r, i)))
  BY <1>1, HopOf
<1> QED BY <1>2, <1>3, <1>4 DEF HopsTell

(* Places count from the other end. *)
LEMMA Places ==
  ASSUME NEW r, Reported(r)
  PROVE  /\ \A i \in 1 .. Len(r.path) :
              /\ Place(r, i) \in 1 .. Len(r.path) /\ Place(r, Place(r, i)) = i
              /\ Stamped(r, i).switch = r.path[i] /\ Stamped(r, i).queue = 0
         /\ \A i, j \in 1 .. Len(r.path) : j < i => Place(r, i) < Place(r, j)
<1> DEFINE n == Len(r.path)
<1>1. n \in Nat
  BY PathIs
<1>2. \A i : Place(r, i) = n + 1 - i
  BY DEF Place
<1> HIDE DEF n
<1>3. \A i \in 1 .. n : n + 1 - i \in 1 .. n /\ n + 1 - (n + 1 - i) = i
  BY <1>1
<1>4. \A i, j \in 1 .. n : j < i => n + 1 - i < n + 1 - j
  BY <1>1
<1>5. \A i : Stamped(r, i).switch = r.path[i] /\ Stamped(r, i).queue = 0
  BY DEF Stamped, Stamp
<1> QED BY <1>2, <1>3, <1>4, <1>5 DEF n

(* A batch with one point per hop, whose series is that of the switch: it  *)
(* leaves one point per switch, that of the first visit.                   *)
OnePerHop(r, batch) ==
  /\ DOMAIN batch = 1 .. Len(r.path) /\ Len(batch) = Len(r.path)
  /\ \A i, j \in 1 .. Len(r.path) : Series(batch[i]) = Series(batch[j]) <=>
                                      r.path[Place(r, i)] = r.path[Place(r, j)]

LEMMA FirstVisitsKept ==
  ASSUME NEW r, Reported(r), NEW batch, OnePerHop(r, batch)
  PROVE  /\ \A y \in Written({}, batch) : \E k \in 1 .. Len(r.path) :
              y = batch[k] /\ Firstly(r.path, Place(r, k))
         /\ \A i \in 1 .. Len(r.path) : \E k \in 1 .. Len(r.path) :
              batch[k] \in Written({}, batch) /\ r.path[Place(r, k)] = r.path[i]
<1> DEFINE n == Len(r.path)
<1>1. n \in Nat /\ DOMAIN batch = 1 .. n /\ Len(batch) = n
  BY PathIs DEF OnePerHop
<1>2. ASSUME NEW k \in 1 .. n, Kept(batch, k) PROVE Firstly(r.path, Place(r, k))
  <2> SUFFICES ASSUME NEW j \in 1 .. Place(r, k) - 1 PROVE r.path[j] # r.path[Place(r, k)]
    BY Zenon DEF Firstly
  <2>1. Place(r, k) \in 1 .. n /\ Place(r, Place(r, k)) = k
    BY Places
  <2>2. j \in 1 .. n /\ j < Place(r, k)
    BY <1>1, <2>1
  <2>3. Place(r, j) \in 1 .. n /\ Place(r, Place(r, j)) = j /\ k < Place(r, j)
    BY <2>1, <2>2, Places
  <2>4. Series(batch[Place(r, j)]) # Series(batch[k])
    BY <1>1, <1>2, <2>3 DEF Kept
  <2> QED BY <2>3, <2>4 DEF OnePerHop
<1>3. ASSUME NEW y \in Written({}, batch)
      PROVE  \E k \in 1 .. n : y = batch[k] /\ Firstly(r.path, Place(r, k))
  <2>1. PICK k \in 1 .. n : Kept(batch, k) /\ y = batch[k]
    BY <1>1, WrittenNew
  <2> QED BY <1>2, <2>1
<1>4. ASSUME NEW i \in 1 .. n
      PROVE  \E k \in 1 .. n : batch[k] \in Written({}, batch) /\ r.path[Place(r, k)] = r.path[i]
  <2>1. Place(r, i) \in 1 .. n /\ Place(r, Place(r, i)) = i
    BY Places
  <2>2. PICK k \in 1 .. n : Kept(batch, k) /\ Series(batch[k]) = Series(batch[Place(r, i)])
    BY <1>1, <2>1, KeptExists
  <2>3. batch[k] \in Written({}, batch)
    BY <1>1, <2>2, WrittenNew
  <2>4. r.path[Place(r, k)] = r.path[i]
    BY <2>1, <2>2 DEF OnePerHop
  <2> QED BY <2>3, <2>4
<1> QED BY <1>3, <1>4

LEMMA HopsRead ==
  ASSUME NEW r, Reported(r), NEW hops, HopsTell(r, hops), NEW i \in 1 .. Len(r.path)
  PROVE  /\ hops[i].switch = r.path[Place(r, i)] /\ hops[i].queue = 0
         /\ hops[i].l1_in = Stamped(r, Place(r, i)).in /\ hops[i].l1_out = Stamped(r, Place(r, i)).out
         /\ hops[i].latency = Stamped(r, Place(r, i)).latency
         /\ hops[i].occupancy = Stamped(r, Place(r, i)).occupancy
         /\ hops[i].ingress = Stamped(r, Place(r, i)).ingress
         /\ hops[i].egress = Stamped(r, Place(r, i)).egress
<1>1. Place(r, i) \in 1 .. Len(r.path)
  BY Places
<1>2. Stamped(r, Place(r, i)).switch = r.path[Place(r, i)] /\ Stamped(r, Place(r, i)).queue = 0
  BY <1>1, Places
<1>3. Tells(hops[i], Stamped(r, Place(r, i)))
  BY DEF HopsTell
<1> QED BY <1>2, <1>3 DEF Tells

(* One point for each switch of the path, with what it stamped first. *)
OnePerSwitch(r, p, at, W) ==
  /\ \A y \in W : \E i \in 1 .. Len(r.path) :
       /\ Firstly(r.path, i) /\ y.time = at /\ y.tags = <<r.path[i], p.tuple, p.dscp>>
       /\ y.fields.latency = Stamped(r, i).latency
  /\ \A i \in 1 .. Len(r.path) : \E y \in W : y.tags[1] = r.path[i]
  /\ \A y, z \in W : y.tags[1] = z.tags[1] => y = z

LEMMA SwitchPointsAre ==
  ASSUME NEW r, Reported(r), NEW p, NEW at, NEW hops, HopsTell(r, hops)
  PROVE  OnePerSwitch(r, p, at, Written({}, SwitchPoints(p, hops, at)))
<1> DEFINE n == Len(r.path)
           batch == SwitchPoints(p, hops, at)
           W == Written({}, batch)
<1>1. n \in Nat /\ DOMAIN hops = 1 .. n
  BY PathIs DEF HopsTell
<1>2. DOMAIN batch = 1 .. n /\ Len(batch) = n
  BY <1>1 DEF SwitchPoints
<1>3. \A i \in 1 .. n : batch[i] = Point(at, <<hops[i].switch, p.tuple, p.dscp>>,
                               [latency |-> hops[i].latency, size |-> PacketSize(p.dscp)])
  BY <1>1 DEF SwitchPoints
<1> HIDE DEF batch
<1>4. ASSUME NEW i \in 1 .. n
      PROVE  /\ batch[i].time = at /\ batch[i].tags = <<r.path[Place(r, i)], p.tuple, p.dscp>>
             /\ batch[i].fields.latency = Stamped(r, Place(r, i)).latency
             /\ Series(batch[i]) = << <<r.path[Place(r, i)], p.tuple, p.dscp>>, at>>
  <2>1. /\ batch[i].tags = <<hops[i].switch, p.tuple, p.dscp>> /\ batch[i].time = at
        /\ batch[i].fields = [latency |-> hops[i].latency, size |-> PacketSize(p.dscp)]
        /\ Series(batch[i]) = << <<hops[i].switch, p.tuple, p.dscp>>, at>>
    <3>1. PICK tags, fields :
            /\ tags = <<hops[i].switch, p.tuple, p.dscp>>
            /\ fields = [latency |-> hops[i].latency, size |-> PacketSize(p.dscp)]
            /\ batch[i] = Point(at, tags, fields)
      BY <1>3, Zenon
    <3>2. /\ batch[i].time = at /\ batch[i].tags = tags /\ batch[i].fields = fields
          /\ Series(batch[i]) = <<tags, at>>
      BY <3>1 DEF Point, Series
    <3> QED BY <3>1, <3>2
  <2> QED BY <2>1, HopsRead
<1>5. OnePerHop(r, batch)
  BY <1>2, <1>4 DEF OnePerHop
<1>6. ASSUME NEW y \in W
      PROVE  \E i \in 1 .. n :
              /\ Firstly(r.path, i) /\ y.time = at /\ y.tags = <<r.path[i], p.tuple, p.dscp>>
              /\ y.fields.latency = Stamped(r, i).latency
  <2>1. PICK k \in 1 .. n : y = batch[k] /\ Firstly(r.path, Place(r, k))
    BY <1>5, FirstVisitsKept
  <2>2. Place(r, k) \in 1 .. n
    BY Places
  <2> QED BY <1>4, <2>1, <2>2
<1>7. ASSUME NEW i \in 1 .. n PROVE \E y \in W : y.tags[1] = r.path[i]
  <2>1. PICK k \in 1 .. n : batch[k] \in W /\ r.path[Place(r, k)] = r.path[i]
    BY <1>5, FirstVisitsKept
  <2> QED BY <1>4, <2>1
<1>8. ASSUME NEW y \in W, NEW z \in W, y.tags[1] = z.tags[1] PROVE y = z
  <2>1. Series(y) = Series(z)
    BY <1>6, <1>8 DEF Series
  <2> QED BY <1>1, <1>2, <2>1, WrittenOnce
<1>9. OnePerSwitch(r, p, at, W)
  BY <1>6, <1>7, <1>8, Zenon DEF OnePerSwitch
<1> QED BY <1>9 DEF batch

LEMMA QueuePointsAre ==
  ASSUME NEW r, Reported(r), NEW at, NEW hops, HopsTell(r, hops)
  PROVE  \A y \in Written({}, QueuePoints(hops, at)) : \E i \in 1 .. Len(r.path) :
           /\ Firstly(r.path, i) /\ y.time = at /\ y.tags[1] = r.path[i]
           /\ y.fields.queue = Stamped(r, i).occupancy
<1> DEFINE n == Len(r.path)
           batch == QueuePoints(hops, at)
<1>1. n \in Nat /\ DOMAIN hops = 1 .. n
  BY PathIs DEF HopsTell
<1>2. DOMAIN batch = 1 .. n /\ Len(batch) = n
  BY <1>1 DEF QueuePoints
<1>3. \A i \in 1 .. n : batch[i] = Point(at, <<hops[i].switch, hops[i].queue>>,
                                         [queue |-> hops[i].occupancy])
  BY <1>1 DEF QueuePoints
<1> HIDE DEF batch
<1>4. ASSUME NEW i \in 1 .. n
      PROVE  /\ batch[i].time = at /\ batch[i].tags = <<r.path[Place(r, i)], 0>>
             /\ batch[i].fields.queue = Stamped(r, Place(r, i)).occupancy
             /\ Series(batch[i]) = << <<r.path[Place(r, i)], 0>>, at>>
  <2>1. /\ batch[i].tags = <<hops[i].switch, hops[i].queue>> /\ batch[i].time = at
        /\ batch[i].fields = [queue |-> hops[i].occupancy]
        /\ Series(batch[i]) = << <<hops[i].switch, hops[i].queue>>, at>>
    <3>1. PICK tags, fields :
            /\ tags = <<hops[i].switch, hops[i].queue>> /\ fields = [queue |-> hops[i].occupancy]
            /\ batch[i] = Point(at, tags, fields)
      BY <1>3, Zenon
    <3>2. /\ batch[i].time = at /\ batch[i].tags = tags /\ batch[i].fields = fields
          /\ Series(batch[i]) = <<tags, at>>
      BY <3>1 DEF Point, Series
    <3> QED BY <3>1, <3>2
  <2> QED BY <2>1, HopsRead
<1>5. OnePerHop(r, batch)
  BY <1>2, <1>4 DEF OnePerHop
<1>6. ASSUME NEW y \in Written({}, batch)
      PROVE  \E i \in 1 .. n : /\ Firstly(r.path, i) /\ y.time = at /\ y.tags[1] = r.path[i]
                               /\ y.fields.queue = Stamped(r, i).occupancy
  <2>1. PICK k \in 1 .. n : y = batch[k] /\ Firstly(r.path, Place(r, k))
    BY <1>5, FirstVisitsKept
  <2>2. Place(r, k) \in 1 .. n
    BY Places
  <2> QED BY <1>4, <2>1, <2>2
<1> QED BY <1>6 DEF batch

(* A link as its two ends see it: hop i + 1 is the earlier one. *)
Ends(path, i) == <<path[i], D!PortTo[path[i]][path[i+1]], path[i+1], D!PortTo[path[i+1]][path[i]]>>

LEMMA LinkPointsAre ==
  ASSUME NEW r, Reported(r), NEW at, NEW hops, HopsTell(r, hops)
  PROVE  LET W == Written({}, LinkPoints(hops, at)) IN
         /\ \A y \in W : \E i \in 1 .. Len(r.path) - 1 : y.time = at /\ y.tags = Ends(r.path, i)
         /\ \A i \in 1 .. Len(r.path) - 1 : \E y \in W : y.tags = Ends(r.path, i)
<1> DEFINE n == Len(r.path)
           batch == LinkPoints(hops, at)
           W == Written({}, batch)
<1>1. n \in Nat \ {0} /\ Len(hops) = n
  BY PathIs DEF HopsTell
<1>2. DOMAIN batch = 1 .. n - 1 /\ Len(batch) = n - 1 /\ n - 1 \in Nat
  BY <1>1 DEF LinkPoints
<1>3. \A i \in 1 .. n - 1 : \E fields :
        batch[i] = Point(at, <<hops[i+1].switch, hops[i+1].l1_out,
                               hops[i].switch, hops[i].l1_in>>, fields)
  BY <1>1 DEF LinkPoints
<1> HIDE DEF batch
<1>4. ASSUME NEW i \in 1 .. n - 1
      PROVE  /\ n - i \in 1 .. n - 1 /\ batch[i].time = at
             /\ batch[i].tags = Ends(r.path, n - i)
             /\ Series(batch[i]) = <<Ends(r.path, n - i), at>>
  <2>1. /\ i \in 1 .. n /\ i + 1 \in 1 .. n /\ n - i \in 1 .. n /\ n - i # n /\ n - i + 1 # 1
        /\ n - i \in 1 .. n - 1 /\ n - i + 1 - 1 = n - i
    BY <1>1
  <2>2. Place(r, i) = n - i + 1 /\ Place(r, i + 1) = n - i
    <3>1. Place(r, i) = n + 1 - i /\ Place(r, i + 1) = n + 1 - (i + 1)
      BY Zenon DEF Place
    <3> HIDE DEF n
    <3>2. n + 1 - i = n - i + 1 /\ n + 1 - (i + 1) = n - i
      BY <1>1
    <3> QED BY <3>1, <3>2, Zenon
  <2>3. Stamped(r, n - i).out = D!PortTo[r.path[n - i]][r.path[n - i + 1]]
    BY <2>1 DEF Stamped, Stamp, PortOut
  <2>4. Stamped(r, n - i + 1).in = D!PortTo[r.path[n - i + 1]][r.path[n - i]]
    BY <2>1 DEF Stamped, Stamp, PortIn
  <2>5. /\ batch[i].tags = <<hops[i+1].switch, hops[i+1].l1_out, hops[i].switch, hops[i].l1_in>>
        /\ batch[i].time = at /\ Series(batch[i]) = <<batch[i].tags, at>>
    <3>1. PICK tags, fields :
            /\ tags = <<hops[i+1].switch, hops[i+1].l1_out, hops[i].switch, hops[i].l1_in>>
            /\ batch[i] = Point(at, tags, fields)
      BY <1>3, Zenon
    <3>2. /\ batch[i].time = at /\ batch[i].tags = tags /\ Series(batch[i]) = <<tags, at>>
      BY <3>1 DEF Point, Series
    <3> QED BY <3>1, <3>2
  <2>6. /\ hops[i].switch = r.path[n - i + 1] /\ hops[i].l1_in = Stamped(r, n - i + 1).in
    BY <2>1, <2>2, HopsRead
  <2>7. /\ hops[i+1].switch = r.path[n - i] /\ hops[i+1].l1_out = Stamped(r, n - i).out
    BY <2>1, <2>2, HopsRead
  <2>8. batch[i].tags = Ends(r.path, n - i)
    BY <2>3, <2>4, <2>5, <2>6, <2>7 DEF Ends
  <2> QED BY <2>1, <2>5, <2>8
<1>5. ASSUME NEW y \in W
      PROVE  \E i \in 1 .. n - 1 : y.time = at /\ y.tags = Ends(r.path, i)
  <2>1. PICK k \in 1 .. n - 1 : y = batch[k]
    BY <1>2, WrittenNew
  <2> QED BY <1>4, <2>1
<1>6. ASSUME NEW i \in 1 .. n - 1 PROVE \E y \in W : y.tags = Ends(r.path, i)
  <2>1. PICK j \in 1 .. n - 1 : n - j = i
    <3>1. n - i \in 1 .. n - 1 /\ n - (n - i) = i
      BY <1>1
    <3> QED BY <3>1
  <2>2. PICK k \in 1 .. n - 1 : Kept(batch, k) /\ Series(batch[k]) = Series(batch[j])
    BY <1>2, KeptExists
  <2>3. batch[k] \in W
    BY <1>2, <2>2, WrittenNew
  <2>4. batch[k].tags = Ends(r.path, i)
    <3>1. <<Ends(r.path, n - k), at>> = <<Ends(r.path, n - j), at>>
      BY <1>4, <2>2
    <3>2. Ends(r.path, n - k) = Ends(r.path, n - j)
      BY <3>1
    <3> QED BY <1>4, <2>1, <3>2
  <2> QED BY <2>3, <2>4
<1> QED BY <1>5, <1>6 DEF batch

-----------------------------------------------------------------------------
(* The point of the flow is always written: the latency is not 0. *)

LEMMA GreatestValue ==
  ASSUME NEW n \in Nat \ {0}, NEW v \in [1 .. n -> Nat]
  PROVE  \E m \in 1 .. n : \A j \in 1 .. n : v[j] <= v[m]
<1> DEFINE Upto(k) == \E m \in 1 .. k : \A j \in 1 .. k : v[j] <= v[m]
           S == {k \in 0 .. n : k = 0 \/ Upto(k)}
<1>1. 0 \in S
  OBVIOUS
<1>2. ASSUME NEW k \in 1 .. n, k - 1 \in S PROVE k \in S
  <2>1. v[k] \in Nat
    OBVIOUS
  <2>2. CASE k = 1
    <3>1. \A j \in 1 .. k : v[j] <= v[k]
      BY <2>1, <2>2
    <3> QED BY <3>1
  <2>3. CASE k # 1
    <3>1. PICK m \in 1 .. k - 1 : \A j \in 1 .. k - 1 : v[j] <= v[m]
      BY <1>2, <2>3
    <3>2. v[m] \in Nat /\ m \in 1 .. k /\ k \in 1 .. k
      OBVIOUS
    <3>3. \A j \in 1 .. k : j = k \/ j \in 1 .. k - 1
      OBVIOUS
    <3>4. CASE v[k] <= v[m]
      <4>1. \A j \in 1 .. k : v[j] <= v[m]
        BY <3>1, <3>3, <3>4
      <4> QED BY <3>2, <4>1
    <3>5. CASE ~ (v[k] <= v[m])
      <4>1. \A j \in 1 .. k : v[j] \in Nat
        OBVIOUS
      <4>2. \A j \in 1 .. k : v[j] <= v[k]
        BY <2>1, <3>1, <3>2, <3>3, <3>5, <4>1
      <4>3. \E x \in 1 .. k : \A j \in 1 .. k : v[j] <= v[x]
        <5> WITNESS k \in 1 .. k
        <5> QED BY <4>2
      <4> QED BY <4>3
    <3> QED BY <3>4, <3>5
  <2> QED BY <2>2, <2>3
<1> HIDE DEF S
<1>3. 0 .. n \subseteq S
  BY <1>1, <1>2, Reaches
<1>4. n \in S
  BY <1>3
<1> QED BY <1>4 DEF S

LEMMA LatencyNotZero ==
  ASSUME NEW r, Reported(r), NEW hops, HopsTell(r, hops)
  PROVE  flow_latency(hops) # 0
<1> DEFINE n == Len(r.path)
           E == {hops[i].egress : i \in DOMAIN hops}
           I == {hops[i].ingress : i \in DOMAIN hops}
<1>1. n \in Nat \ {0} /\ DOMAIN hops = 1 .. n
  BY PathIs DEF HopsTell
<1>2. \A i \in 1 .. n :
        hops[i].ingress \in Nat /\ hops[i].egress \in Nat /\ hops[i].ingress < hops[i].egress
  <2> TAKE i \in 1 .. n
  <2>1. PICK j \in 1 .. n : j = Place(r, i)
    BY HopOf
  <2>2. IsStamp(Stamped(r, j))
    BY StampIs
  <2>3. Stamped(r, j).ingress \in Nat /\ Stamped(r, j).egress \in Nat
    BY <2>2 DEF IsStamp
  <2>4. Stamped(r, j).egress = Stamped(r, j).ingress + r.n + j
    BY DEF Stamped, Stamp
  <2>5. r.n \in Nat \ {0}
    BY DEF Reported
  <2>6. Stamped(r, j).ingress < Stamped(r, j).egress
    BY <2>3, <2>4, <2>5
  <2> QED BY <2>1, <2>3, <2>6, HopsRead
<1>3. Max(E) \in E /\ \A y \in E : Max(E) >= y
  <2> DEFINE v == [i \in 1 .. n |-> hops[i].egress]
  <2>1. v \in [1 .. n -> Nat]
    BY <1>2
  <2> HIDE DEF v
  <2>2. PICK m \in 1 .. n : \A j \in 1 .. n : v[j] <= v[m]
    BY <1>1, <2>1, GreatestValue
  <2>3. hops[m].egress \in E /\ \A y \in E : hops[m].egress >= y
    BY <1>1, <1>2, <2>2 DEF v
  <2> HIDE DEF E
  <2> QED BY <2>3 DEF Max
<1>4. Min(I) \in I /\ \A y \in I : Min(I) <= y
  <2>1. I \in SUBSET Nat /\ I # {}
    BY <1>1, <1>2
  <2> HIDE DEF I
  <2>2. \E m \in I : \A k \in I : m <= k
    BY <2>1, LeastNatural
  <2> QED BY <2>2 DEF Min
<1>5. hops[1].egress \in E /\ hops[1].ingress \in I /\ E \subseteq Nat /\ I \subseteq Nat
      /\ hops[1].ingress < hops[1].egress
  BY <1>1, <1>2
<1>6. flow_latency(hops) = Max(E) - Min(I)
  BY DEF flow_latency
<1> HIDE DEF E, I
<1>7. Max(E) >= hops[1].egress /\ Min(I) <= hops[1].ingress
  BY <1>3, <1>4, <1>5
<1>8. PICK a \in Nat, b \in Nat : a = Max(E) /\ b = Min(I)
  BY <1>3, <1>4, <1>5
<1>9. PICK g \in Nat, e \in Nat : g = hops[1].ingress /\ e = hops[1].egress /\ g < e
  BY <1>5
<1>10. a >= e /\ b <= g
  BY <1>7, <1>8, <1>9
<1>11. a - b # 0
  BY <1>9, <1>10
<1> QED BY <1>6, <1>8, <1>11

(* One point, with the path as it was travelled: reversed twice. *)
LEMMA FlowPointIs ==
  ASSUME NEW r, Reported(r), NEW p, NEW at, NEW hops, HopsTell(r, hops)
  PROVE  \E y : /\ Written({}, FlowPoints(p, hops, at)) = {y} /\ y.time = at
                /\ y.tags = <<p.tuple, p.dscp>> /\ y.fields.path = r.path
                /\ y.fields.size = PacketSize(p.dscp)
<1> DEFINE n == Len(r.path)
           path == Reverse([i \in DOMAIN hops |-> hops[i].switch])
           y == Point(at, <<p.tuple, p.dscp>>, [size |-> PacketSize(p.dscp),
                        latency |-> flow_latency(hops), path |-> path])
<1>1. n \in Nat \ {0} /\ DOMAIN hops = 1 .. n /\ Len(hops) = n
  BY PathIs DEF HopsTell
<1>2. FlowPoints(p, hops, at) = <<y>>
  <2>1. hops # << >>
    BY <1>1
  <2> QED BY <2>1, LatencyNotZero DEF FlowPoints
<1>3. path = r.path
  <2> DEFINE switches == [i \in DOMAIN hops |-> hops[i].switch]
  <2>1. switches = [i \in 1 .. n |-> r.path[Place(r, i)]]
    BY <1>1, HopsRead
  <2>2. Len(switches) = n
    BY <1>1
  <2> HIDE DEF switches
  <2>3. path = [i \in 1 .. n |-> switches[(n - i) + 1]]
    BY <2>2 DEF Reverse, switches
  <2>4. \A i \in 1 .. n : (n - i) + 1 \in 1 .. n /\ (n - i) + 1 = Place(r, i)
    BY <1>1 DEF Place
  <2>5. \A i \in 1 .. n : Place(r, i) \in 1 .. n /\ Place(r, Place(r, i)) = i
    BY Places
  <2>6. \A i \in 1 .. n : switches[(n - i) + 1] = r.path[i]
    BY <2>1, <2>4, <2>5
  <2>7. r.path = [i \in 1 .. n |-> r.path[i]]
    BY PathIs
  <2> QED BY <2>3, <2>6, <2>7
<1>4. /\ y.time = at /\ y.tags = <<p.tuple, p.dscp>> /\ y.fields.path = path
      /\ y.fields.size = PacketSize(p.dscp)
  BY DEF Point
<1> HIDE DEF y, path
<1>5. Written({}, <<y>>) = {y}
  BY DEF Written
<1> QED BY <1>2, <1>3, <1>4, <1>5

(* The ports of a hop are the two ends of a link of the topology. *)
LEMMA LinkEnds ==
  ASSUME NEW s \in D!Switches, NEW t \in D!Switches, s # t
  PROVE  /\ <<s, D!PortTo[s][t]>> \in DOMAIN D!DeployedLink
         /\ D!DeployedLink[<<s, D!PortTo[s][t]>>] = <<t, D!PortTo[t][s]>>
<1> DEFINE x == <<s, D!PortTo[s][t]>>
           u == CHOOSE v \in D!Others(s) : D!PortTo[s][v] = D!PortTo[s][t]
<1>1. t \in D!Others(s)
  BY DEF D!Others
<1>2. \A v \in D!Others(s) : D!PortTo[s][v] = D!PortTo[s][t] => v = t
  BY DEF D!Others, D!Switches, D!PortTo
<1>3. u = t
  BY <1>1, <1>2
<1>4. D!PortTo[s][t] \in D!LinkPorts(s)
  BY <1>1 DEF D!LinkPorts
<1>5. x \in UNION {{<<v, o>> : o \in D!LinkPorts(v)} : v \in D!Switches}
  BY <1>4
<1>6. D!DeployedLink[x] = LET v == CHOOSE v \in D!Others(x[1]) : D!PortTo[x[1]][v] = x[2]
                          IN  <<v, D!PortTo[v][x[1]]>>
  BY <1>5 DEF D!DeployedLink
<1>7. x \in DOMAIN D!DeployedLink
  BY <1>5 DEF D!DeployedLink
<1>8. x[1] = s /\ x[2] = D!PortTo[s][t]
  OBVIOUS
<1> HIDE DEF x
<1>9. D!DeployedLink[x] = <<t, D!PortTo[t][s]>>
  BY <1>3, <1>6, <1>8
<1> QED BY <1>7, <1>9 DEF x

(* All points of a report have its time. *)
LEMMA BatchTimes ==
  ASSUME NEW info, NEW at, NEW m \in Measurements
  PROVE  LET batch == PointsOf(info, at)[m]
         IN  /\ \A k \in DOMAIN batch : batch[k].time = at
             /\ \A y \in Written({}, batch) : y.time = at
<1> DEFINE batch == PointsOf(info, at)[m]
<1>1. \A k \in DOMAIN batch : batch[k].time = at
  <2>1. CASE m = "flow_stats"
    <3>1. batch = FlowPoints(info, info.hops, at)
      BY <2>1 DEF PointsOf
    <3> QED BY <3>1 DEF FlowPoints, Point
  <2>2. CASE m = "switch_stats"
    <3>1. batch = SwitchPoints(info, info.hops, at)
      BY <2>2 DEF PointsOf
    <3> QED BY <3>1 DEF SwitchPoints, Point
  <2>3. CASE m = "queue_occupancy"
    <3>1. batch = QueuePoints(info.hops, at)
      BY <2>3 DEF PointsOf
    <3> QED BY <3>1 DEF QueuePoints, Point
  <2>4. CASE m = "link_latency"
    <3>1. batch = LinkPoints(info.hops, at)
      BY <2>4 DEF PointsOf
    <3> QED BY <3>1 DEF LinkPoints, Point
  <2> QED BY <2>1, <2>2, <2>3, <2>4 DEF Measurements
<1> HIDE DEF batch
<1>2. \A y \in Written({}, batch) : y.time = at
  BY <1>1, WrittenNew
<1> QED BY <1>1, <1>2 DEF batch
=============================================================================
