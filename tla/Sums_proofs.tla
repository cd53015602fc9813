---------------------------- MODULE Sums_proofs ----------------------------
(***************************************************************************)
(* What a sum is, and how it changes with the sequence.  Induction over    *)
(* the naturals is used in the form of a set that contains 0 and, with     *)
(* every number, the next.                                                 *)
(***************************************************************************)
EXTENDS Sums, Sifting, SequencesExt, SequenceTheorems, FiniteSetTheorems, NaturalsInduction,
        WellFoundedInduction, TLAPS

LEMMA AllNumbers ==
  ASSUME NEW S \in SUBSET Nat, 0 \in S, \A n \in S : n + 1 \in S
  PROVE  S = Nat
<1> SUFFICES ASSUME Nat \ S # {} PROVE FALSE
  OBVIOUS
<1>1. PICK x \in Nat \ S : \A y \in Nat \ S : ~ (<<y, x>> \in OpToRel(<, Nat))
  BY NatLessThanWellFounded, WFMin
<1>2. ASSUME NEW y \in Nat, y < x
      PROVE  <<y, x>> \in OpToRel(<, Nat)
  BY <1>2, Zenon DEF OpToRel
<1>3. x # 0 /\ x - 1 \in Nat /\ x - 1 < x
  OBVIOUS
<1>4. x - 1 \in S
  BY <1>1, <1>2, <1>3, Zenon
<1> QED
  BY <1>3, <1>4

(* The partial sums of s. *)
IsSums(p, s) ==
  /\ p \in [0..Len(s) -> Int]
  /\ p[0] = 0
  /\ \A n \in 1..Len(s) : p[n] = p[n - 1] + s[n]

LEMMA SumsExist ==
  ASSUME NEW s \in Seq(Int)
  PROVE  \E p : IsSums(p, s)
<1> DEFINE Upto(n) == \E p \in [0..n -> Int] : p[0] = 0 /\ \A i \in 1..n : p[i] = p[i - 1] + s[i]
           S == {n \in Nat : n <= Len(s) => Upto(n)}
<1>1. Upto(0)
  <2> DEFINE z == [i \in 0..0 |-> 0]
  <2>1. z \in [0..0 -> Int] /\ z[0] = 0 /\ \A i \in 1..0 : z[i] = z[i - 1] + s[i]
    OBVIOUS
  <2> HIDE DEF z
  <2> QED BY <2>1
<1>2. ASSUME NEW n \in S
      PROVE  n + 1 \in S
  <2>0. n \in Nat /\ n + 1 \in Nat /\ (n <= Len(s) => Upto(n))
    OBVIOUS
  <2>1. ASSUME n + 1 <= Len(s)
        PROVE  Upto(n + 1)
    <3>0. n <= Len(s) /\ Len(s) \in Nat
      BY <2>0, <2>1
    <3>1. PICK p \in [0..n -> Int] : p[0] = 0 /\ \A i \in 1..n : p[i] = p[i - 1] + s[i]
      BY <2>0, <3>0
    <3> DEFINE q == [i \in 0..(n + 1) |-> IF i = n + 1 THEN p[n] + s[n + 1] ELSE p[i]]
    <3>2. s[n + 1] \in Int /\ p[n] \in Int
      BY <2>0, <2>1, <3>1
    <3>3. q \in [0..(n + 1) -> Int]
      BY <2>0, <3>1, <3>2
    <3>4. q[0] = 0
      BY <2>0, <3>1
    <3>5. ASSUME NEW i \in 1..(n + 1)
          PROVE  q[i] = q[i - 1] + s[i]
      <4>1. i - 1 \in 0..n /\ q[i - 1] = p[i - 1]
        BY <2>0
      <4>2. CASE i = n + 1 BY <4>1, <4>2, <2>0
      <4>3. CASE i # n + 1
        <5>1. i \in 1..n /\ q[i] = p[i] BY <4>3, <2>0
        <5> QED BY <5>1, <4>1, <3>1
      <4> QED BY <4>2, <4>3
    <3> HIDE DEF q
    <3> QED BY <3>3, <3>4, <3>5
  <2> HIDE DEF Upto
  <2> QED BY <2>0, <2>1
<1> HIDE DEF Upto
<1>3. S = Nat
  <2>1. S \in SUBSET Nat /\ 0 \in S
    BY <1>1
  <2> HIDE DEF S
  <2> QED BY <2>1, <1>2, AllNumbers
<1>4. Upto(Len(s))
  BY <1>3
<1> QED
  BY <1>4 DEF IsSums, Upto

LEMMA SumsAgree ==
  ASSUME NEW s \in Seq(Int), NEW p, IsSums(p, s), NEW q, IsSums(q, s)
  PROVE  p = q
<1> DEFINE S == {n \in Nat : n <= Len(s) => p[n] = q[n]}
<1>1. S \in SUBSET Nat /\ 0 \in S
  BY DEF IsSums
<1>2. ASSUME NEW n \in S PROVE n + 1 \in S
  <2> SUFFICES ASSUME n + 1 <= Len(s) PROVE p[n + 1] = q[n + 1]
    OBVIOUS
  <2>1. n + 1 \in 1..Len(s) /\ (n + 1) - 1 = n /\ p[n] = q[n]
    OBVIOUS
  <2> QED BY <2>1 DEF IsSums
<1> HIDE DEF S
<1>3. S = Nat
  BY <1>1, <1>2, AllNumbers
<1>4. \A n \in 0..Len(s) : p[n] = q[n]
  BY <1>3 DEF S
<1> QED
  BY <1>4 DEF IsSums

LEMMA SumsAre ==
  ASSUME NEW s \in Seq(Int)
  PROVE  IsSums(Sums(s), s)
<1> DEFINE Solves(f) == f = [n \in 0..Len(s) |-> IF n = 0 THEN 0 ELSE f[n - 1] + s[n]]
<1>1. PICK p : IsSums(p, s)
  BY SumsExist
<1>2. Solves(p)
  BY <1>1 DEF IsSums
<1>3. Sums(s) = CHOOSE f : Solves(f)
  BY DEF Sums
<1>4. Solves(Sums(s))
  <2> HIDE DEF Solves
  <2> QED BY <1>2, <1>3
<1> DEFINE q == Sums(s)
<1>5. q = [n \in 0..Len(s) |-> IF n = 0 THEN 0 ELSE q[n - 1] + s[n]]
  BY <1>4
<1> HIDE DEF q
<1> DEFINE S == {n \in Nat : n <= Len(s) => q[n] = p[n]}
<1>6. S \in SUBSET Nat /\ 0 \in S
  BY <1>1, <1>5 DEF IsSums
<1>7. ASSUME NEW n \in S PROVE n + 1 \in S
  <2> SUFFICES ASSUME n + 1 <= Len(s) PROVE q[n + 1] = p[n + 1]
    OBVIOUS
  <2>1. n + 1 \in 1..Len(s) /\ (n + 1) - 1 = n /\ q[n] = p[n] /\ n + 1 \in 0..Len(s) /\ n + 1 # 0
    OBVIOUS
  <2>2. q[n + 1] = q[n] + s[n + 1]
    BY <1>5, <2>1
  <2> QED BY <2>1, <2>2, <1>1 DEF IsSums
<1> HIDE DEF S
<1>8. S = Nat
  BY <1>6, <1>7, AllNumbers
<1>9. \A n \in 0..Len(s) : q[n] = p[n]
  BY <1>8 DEF S
<1>10. q = p
  BY <1>1, <1>5, <1>9 DEF IsSums
<1> QED
  BY <1>1, <1>10 DEF q

(* So the sum can be told from any function that adds up. *)
LEMMA SumIs ==
  ASSUME NEW s \in Seq(Int), NEW p, IsSums(p, s)
  PROVE  SumOf(s) = p[Len(s)] /\ SumOf(s) \in Int
<1>1. Sums(s) = p
  BY SumsAre, SumsAgree
<1> QED
  BY <1>1 DEF SumOf, IsSums

LEMMA SumInt ==
  ASSUME NEW s \in Seq(Int)
  PROVE  SumOf(s) \in Int
BY SumsExist, SumIs

LEMMA SumEmpty == SumOf(<< >>) = 0
<1>1. << >> \in Seq(Int) /\ Len(<< >>) = 0
  OBVIOUS
<1>2. PICK p : IsSums(p, << >>)
  BY <1>1, SumsExist
<1> QED
  BY <1>1, <1>2, SumIs DEF IsSums

LEMMA SumAppend ==
  ASSUME NEW s \in Seq(Int), NEW x \in Int
  PROVE  SumOf(Append(s, x)) = SumOf(s) + x
<1> DEFINE t == Append(s, x)
           n == Len(s) + 1
<1>1. t \in Seq(Int) /\ Len(t) = n /\ n \in Nat /\ t[n] = x /\ \A i \in 1..Len(s) : t[i] = s[i]
  OBVIOUS
<1>2. PICK p : IsSums(p, s)
  BY SumsExist
<1>3. PICK q : IsSums(q, t)
  BY <1>1, SumsExist
<1> HIDE DEF t
<1> DEFINE r == [i \in 0..Len(s) |-> q[i]]
<1>4. IsSums(r, s)
  <2>1. r \in [0..Len(s) -> Int] /\ r[0] = 0
    BY <1>1, <1>3 DEF IsSums
  <2>2. ASSUME NEW i \in 1..Len(s) PROVE r[i] = r[i - 1] + s[i]
    <3>1. i - 1 \in 0..Len(s) /\ i \in 0..Len(s) /\ i \in 1..n
      OBVIOUS
    <3>2. q[i] = q[i - 1] + t[i] /\ t[i] = s[i]
      BY <1>1, <1>3, <3>1 DEF IsSums
    <3> QED BY <3>1, <3>2
  <2> HIDE DEF r
  <2> QED BY <2>1, <2>2 DEF IsSums
<1>5. SumOf(s) = q[Len(s)]
  BY <1>4, SumIs
<1>6. q[n] = q[Len(s)] + x
  BY <1>1, <1>3 DEF IsSums
<1>7. SumOf(t) = q[n]
  BY <1>1, <1>3, SumIs
<1> QED
  BY <1>5, <1>6, <1>7 DEF t

(* One more number leaves the sums before it as they are. *)
LEMMA SumsAppend ==
  ASSUME NEW s \in Seq(Int), NEW x \in Int
  PROVE  /\ \A i \in 0..Len(s) : Sums(Append(s, x))[i] = Sums(s)[i] /\ Sums(s)[i] \in Int
         /\ Sums(Append(s, x))[Len(s) + 1] = Sums(s)[Len(s)] + x
<1> DEFINE t == Append(s, x)
           q == Sums(t)
           r == [i \in 0..Len(s) |-> q[i]]
<1>1. t \in Seq(Int) /\ Len(t) = Len(s) + 1 /\ Len(s) \in Nat /\ t[Len(s) + 1] = x
      /\ \A i \in 1..Len(s) : t[i] = s[i]
  OBVIOUS
<1> HIDE DEF t
<1>2. IsSums(q, t)
  BY <1>1, SumsAre
<1> HIDE DEF q
<1>3. IsSums(r, s)
  <2>1. r \in [0..Len(s) -> Int] /\ r[0] = 0
    BY <1>1, <1>2 DEF IsSums
  <2>2. ASSUME NEW i \in 1..Len(s) PROVE r[i] = r[i - 1] + s[i]
    <3>1. i - 1 \in 0..Len(s) /\ i \in 0..Len(s) /\ i \in 1..Len(t)
      BY <1>1
    <3>2. q[i] = q[i - 1] + t[i] /\ t[i] = s[i]
      BY <1>1, <1>2, <3>1 DEF IsSums
    <3> QED BY <3>1, <3>2
  <2> HIDE DEF r
  <2> QED BY <2>1, <2>2 DEF IsSums
<1>4. Sums(s) = r
  <2> HIDE DEF r
  <2> QED BY <1>3, SumsAre, SumsAgree
<1>5. \A i \in 0..Len(s) : q[i] = Sums(s)[i] /\ q[i] \in Int
  BY <1>1, <1>2, <1>4 DEF IsSums
<1>6. q[Len(s) + 1] = q[Len(s)] + x
  BY <1>1, <1>2 DEF IsSums
<1> QED
  BY <1>1, <1>5, <1>6 DEF q, t

LEMMA SumTail ==
  ASSUME NEW s \in Seq(Int), s # << >>
  PROVE  SumOf(s) = s[1] + SumOf(Tail(s))
<1> DEFINE t == Tail(s)
           n == Len(t)
<1>1. /\ t \in Seq(Int) /\ Len(s) = n + 1 /\ n \in Nat /\ s[1] \in Int
      /\ \A i \in 1..n : t[i] = s[i + 1]
  OBVIOUS
<1>3. PICK q : IsSums(q, s)
  BY SumsExist
<1> HIDE DEF t
<1> DEFINE r == [i \in 0..n |-> q[i + 1] - s[1]]
<1>4. IsSums(r, t)
  <2>1. q[1] = q[0] + s[1] /\ q[0] = 0
    BY <1>1, <1>3 DEF IsSums
  <2>2. ASSUME NEW i \in 0..n PROVE q[i + 1] - s[1] \in Int
    <3>1. i + 1 \in 0..Len(s) BY <1>1
    <3>2. q[i + 1] \in Int BY <3>1, <1>3 DEF IsSums
    <3> QED BY <3>2, <1>1
  <2>3. r \in [0..n -> Int] /\ r[0] = 0
    BY <1>1, <2>1, <2>2
  <2>4. ASSUME NEW i \in 1..n PROVE r[i] = r[i - 1] + t[i]
    <3>1. i - 1 \in 0..n /\ i \in 0..n /\ i + 1 \in 1..Len(s) /\ (i - 1) + 1 = i /\ (i + 1) - 1 = i
      BY <1>1
    <3>2. q[i + 1] = q[i] + s[i + 1] /\ t[i] = s[i + 1]
      BY <1>1, <1>3, <3>1 DEF IsSums
    <3>3. q[i] \in Int /\ s[i + 1] \in Int
      <4>1. i \in 0..Len(s)
        BY <1>1
      <4> QED BY <1>3, <3>1, <4>1 DEF IsSums
    <3>4. r[i] = q[i + 1] - s[1] /\ r[i - 1] = q[i] - s[1]
      BY <3>1
    <3> HIDE DEF r
    <3> QED BY <3>2, <3>3, <3>4, <1>1
  <2> HIDE DEF r
  <2> QED BY <2>3, <2>4 DEF IsSums
<1>5. SumOf(t) = q[n + 1] - s[1]
  BY <1>1, <1>4, SumIs
<1>6. SumOf(s) = q[n + 1] /\ q[n + 1] \in Int
  BY <1>1, <1>3, SumIs, ZenonT(40) DEF IsSums
<1> QED
  BY <1>1, <1>5, <1>6 DEF t

LEMMA SumExcept ==
  ASSUME NEW s \in Seq(Int), NEW k \in 1..Len(s), NEW x \in Int
  PROVE  SumOf([s EXCEPT ![k] = x]) = SumOf(s) + x - s[k]
<1> DEFINE t == [s EXCEPT ![k] = x]
           n == Len(s)
<1>1. /\ t \in Seq(Int) /\ Len(t) = n /\ n \in Nat /\ s[k] \in Int /\ t[k] = x
      /\ \A i \in 1..n : i # k => t[i] = s[i]
  OBVIOUS
<1>3. PICK q : IsSums(q, s)
  BY SumsExist
<1> HIDE DEF t
<1> DEFINE r == [i \in 0..n |-> IF i < k THEN q[i] ELSE q[i] + x - s[k]]
<1>4. IsSums(r, t)
  <2>1. \A i \in 0..n : q[i] \in Int
    BY <1>3 DEF IsSums
  <2>2. r \in [0..n -> Int] /\ r[0] = 0
    BY <1>1, <1>3, <2>1 DEF IsSums
  <2>3. ASSUME NEW i \in 1..n PROVE r[i] = r[i - 1] + t[i]
    <3>1. i - 1 \in 0..n /\ i \in 0..n /\ k \in Nat
      OBVIOUS
    <3>2. q[i] = q[i - 1] + s[i] /\ s[i] \in Int /\ q[i - 1] \in Int
      BY <1>3, <2>1, <3>1 DEF IsSums
    <3>3. /\ r[i] = IF i < k THEN q[i] ELSE q[i] + x - s[k]
          /\ r[i - 1] = IF i - 1 < k THEN q[i - 1] ELSE q[i - 1] + x - s[k]
      BY <3>1
    <3> HIDE DEF r
    <3>4. CASE i < k BY <3>4, <3>1, <3>2, <3>3, <1>1
    <3>5. CASE i = k
      <4>1. r[i] = q[i] + x - s[k] /\ r[i - 1] = q[i - 1]
        BY <3>5, <3>1, <3>3
      <4> QED
        BY <3>5, <3>2, <4>1, <1>1
    <3>6. CASE i > k
      <4>1. r[i] = q[i] + x - s[k] /\ r[i - 1] = q[i - 1] + x - s[k]
        BY <3>6, <3>1, <3>3
      <4> QED
        BY <3>6, <3>2, <4>1, <1>1, SMTT(30)
    <3> QED BY <3>1, <3>4, <3>5, <3>6
  <2> HIDE DEF r
  <2> QED BY <1>1, <2>2, <2>3 DEF IsSums
<1>5. SumOf(t) = q[n] + x - s[k]
  <2>1. r[n] = q[n] + x - s[k] /\ Len(t) = n
    BY <1>1
  <2> HIDE DEF r
  <2> QED BY <1>1, <1>4, <2>1, SumIs
<1>6. SumOf(s) = q[n]
  BY <1>1, <1>3, SumIs
<1> QED
  BY <1>5, <1>6 DEF t

(* A sum of nothing but zeros, and of nothing below zero. *)
LEMMA SumAtLeast ==
  ASSUME NEW s \in Seq(Int), \A i \in 1..Len(s) : s[i] >= 0
  PROVE  SumOf(s) >= 0
<1>1. PICK q : IsSums(q, s)
  BY SumsExist
<1> DEFINE S == {n \in Nat : n <= Len(s) => q[n] >= 0}
<1>2. S \in SUBSET Nat /\ 0 \in S
  BY <1>1 DEF IsSums
<1>3. ASSUME NEW n \in S PROVE n + 1 \in S
  <2> SUFFICES ASSUME n + 1 <= Len(s) PROVE q[n + 1] >= 0
    OBVIOUS
  <2>1. n + 1 \in 1..Len(s) /\ (n + 1) - 1 = n /\ q[n] >= 0 /\ n \in 0..Len(s)
    OBVIOUS
  <2>2. q[n + 1] = q[n] + s[n + 1] /\ q[n] \in Int /\ s[n + 1] \in Int
    BY <1>1, <2>1 DEF IsSums
  <2> QED BY <2>1, <2>2
<1> HIDE DEF S
<1>4. S = Nat
  BY <1>2, <1>3, AllNumbers
<1>5. q[Len(s)] >= 0
  BY <1>4 DEF S
<1> QED
  BY <1>1, <1>5, SumIs

LEMMA SumZero ==
  ASSUME NEW s \in Seq(Int), \A i \in 1..Len(s) : s[i] = 0
  PROVE  SumOf(s) = 0
<1> DEFINE z == [i \in 0..Len(s) |-> 0]
<1>1. IsSums(z, s)
  BY DEF IsSums
<1>2. z[Len(s)] = 0
  OBVIOUS
<1> QED
  BY <1>1, <1>2, SumIs

----------------------------------------------------------------------------
(* Queues *)

(* What a queue holds after one more, or one less. *)
LEMMA Queued ==
  ASSUME NEW S, NEW q \in Seq(S), NEW r \in S, NEW Q, Q = Append(q, r)
  PROVE  /\ Q \in Seq(S)
         /\ \A n \in DOMAIN Q : (n = Len(q) + 1 /\ Q[n] = r) \/ (n \in DOMAIN q /\ Q[n] = q[n])
<1>1. /\ Len(q) \in Nat /\ DOMAIN q = 1..Len(q)
      /\ Q \in Seq(S) /\ Len(Q) = Len(q) + 1
      /\ \A n \in 1..Len(q) : Q[n] = q[n]
      /\ Q[Len(q) + 1] = r
  BY AppendProperties, LenProperties
<1>2. DOMAIN Q = 1..(Len(q) + 1)
  BY <1>1, LenProperties
<1> QED
  BY <1>1, <1>2

LEMMA Dequeued ==
  ASSUME NEW S, NEW q \in Seq(S), q # << >>, NEW r, r = Head(q), NEW Q, Q = Tail(q)
  PROVE  /\ r \in S /\ Q \in Seq(S)
         /\ 1 \in DOMAIN q /\ r = q[1]
         /\ \A n \in DOMAIN Q : n \in Nat /\ n >= 1 /\ n + 1 \in DOMAIN q /\ Q[n] = q[n + 1]
<1>1. /\ Len(q) \in Nat \ {0} /\ DOMAIN q = 1..Len(q)
  BY EmptySeq, LenProperties
<1>2. /\ r \in S /\ Q \in Seq(S) /\ Len(Q) = Len(q) - 1 /\ r = q[1]
      /\ \A n \in 1..Len(Q) : Q[n] = q[n + 1]
  BY <1>1, HeadTailProperties
<1>3. DOMAIN Q = 1..(Len(q) - 1)
  BY <1>2, LenProperties
<1> QED
  BY <1>1, <1>2, <1>3

(* What a set of messages grows by, a queue of them may hold. *)
LEMMA QueueGrows ==
  ASSUME NEW S, NEW T, S \subseteq T, NEW q \in Seq(S)
  PROVE  q \in Seq(T)
<1>1. q \in [1..Len(q) -> S] /\ Len(q) \in Nat
  BY LenProperties
<1>2. q \in [1..Len(q) -> T]
  BY <1>1
<1> QED
  BY <1>1, <1>2, SeqDef

----------------------------------------------------------------------------
(* Sums along a queue: each entry counts for what f makes of it.           *)


LEMMA AlongTyped ==
  ASSUME NEW S, NEW f \in [S -> Int], NEW q \in Seq(S)
  PROVE  /\ Along(f, q) \in Seq(Int) /\ Len(Along(f, q)) = Len(q)
         /\ Len(q) \in Nat /\ DOMAIN q = 1..Len(q)
         /\ \A n \in 1..Len(q) : q[n] \in S /\ Along(f, q)[n] = f[q[n]]
<1>1. Len(q) \in Nat /\ DOMAIN q = 1..Len(q) /\ \A n \in 1..Len(q) : q[n] \in S
  BY LenProperties, ElementOfSeq
<1>2. Along(f, q) \in [1..Len(q) -> Int]
  BY <1>1 DEF Along
<1>3. Along(f, q) \in Seq(Int) /\ Len(Along(f, q)) = Len(q)
  BY <1>1, <1>2, SeqDef, LenProperties
<1> QED
  BY <1>1, <1>3 DEF Along

(* One more entry counts for what it is, *)
LEMMA AlongAppend ==
  ASSUME NEW S, NEW f \in [S -> Int], NEW q \in Seq(S), NEW e \in S
  PROVE  SumOf(Along(f, Append(q, e))) = SumOf(Along(f, q)) + f[e]
<1> DEFINE a == Along(f, q)
           r == Append(q, e)
           b == Along(f, r)
<1>1. a \in Seq(Int) /\ Len(a) = Len(q) /\ Len(q) \in Nat /\ f[e] \in Int
      /\ \A n \in 1..Len(q) : a[n] = f[q[n]]
  BY AlongTyped
<1>2. r \in Seq(S) /\ Len(r) = Len(q) + 1
      /\ (\A n \in 1..Len(q) : r[n] = q[n]) /\ r[Len(q) + 1] = e
  BY AppendProperties
<1>3. b \in Seq(Int) /\ Len(b) = Len(q) + 1 /\ \A n \in 1..(Len(q) + 1) : b[n] = f[r[n]]
  <2>1. \A t \in Seq(S) : /\ Along(f, t) \in Seq(Int) /\ Len(Along(f, t)) = Len(t)
                          /\ \A n \in 1..Len(t) : Along(f, t)[n] = f[t[n]]
    BY AlongTyped
  <2> HIDE DEF r
  <2> QED
    BY <1>2, <2>1
<1>4. /\ Append(a, f[e]) \in Seq(Int) /\ Len(Append(a, f[e])) = Len(q) + 1
      /\ \A n \in 1..Len(q) : Append(a, f[e])[n] = a[n]
      /\ Append(a, f[e])[Len(q) + 1] = f[e]
  BY <1>1, AppendProperties
<1>5. \A n \in 1..(Len(q) + 1) : b[n] = Append(a, f[e])[n]
  BY <1>1, <1>2, <1>3, <1>4
<1>6. b = Append(a, f[e])
  BY <1>3, <1>4, <1>5, SeqEqual
<1> QED
  BY <1>1, <1>6, SumAppend

(* and so does the first. *)
LEMMA AlongTail ==
  ASSUME NEW S, NEW f \in [S -> Int], NEW q \in Seq(S), q # << >>
  PROVE  SumOf(Along(f, q)) = f[Head(q)] + SumOf(Along(f, Tail(q)))
<1> DEFINE a == Along(f, q)
           r == Tail(q)
           b == Along(f, r)
<1>1. a \in Seq(Int) /\ Len(a) = Len(q) /\ Len(q) \in Nat \ {0}
      /\ \A n \in 1..Len(q) : a[n] = f[q[n]]
  BY AlongTyped, EmptySeq
<1>2. r \in Seq(S) /\ Len(r) = Len(q) - 1
      /\ (\A n \in 1..(Len(q) - 1) : r[n] = q[n + 1]) /\ Head(q) = q[1]
  BY <1>1, HeadTailProperties
<1>3. b \in Seq(Int) /\ Len(b) = Len(q) - 1 /\ \A n \in 1..(Len(q) - 1) : b[n] = f[r[n]]
  <2>1. \A t \in Seq(S) : /\ Along(f, t) \in Seq(Int) /\ Len(Along(f, t)) = Len(t)
                          /\ \A n \in 1..Len(t) : Along(f, t)[n] = f[t[n]]
    BY AlongTyped
  <2> HIDE DEF r
  <2> QED
    BY <1>2, <2>1
<1>4. a # << >> /\ Tail(a) \in Seq(Int) /\ Len(Tail(a)) = Len(q) - 1
      /\ \A n \in 1..(Len(q) - 1) : Tail(a)[n] = a[n + 1]
  BY <1>1, HeadTailProperties, LenProperties
<1>5. \A n \in 1..(Len(q) - 1) : b[n] = Tail(a)[n]
  BY <1>1, <1>2, <1>3, <1>4
<1>6. b = Tail(a)
  BY <1>1, <1>3, <1>4, <1>5, SeqEqual
<1>7. a[1] = f[Head(q)]
  BY <1>1, <1>2
<1> QED
  BY <1>1, <1>4, <1>6, <1>7, SumTail

(* Entries that count for nothing. *)
LEMMA AlongZero ==
  ASSUME NEW S, NEW f \in [S -> Int], NEW q \in Seq(S), \A n \in DOMAIN q : f[q[n]] = 0
  PROVE  SumOf(Along(f, q)) = 0
BY AlongTyped, SumZero

(* The sum is a number. *)
LEMMA AlongInt ==
  ASSUME NEW S, NEW f \in [S -> Int], NEW q \in Seq(S)
  PROVE  SumOf(Along(f, q)) \in Int
BY AlongTyped, SumInt

(* What counts for nothing less than zero adds up to nothing less. *)
LEMMA AlongAtLeast ==
  ASSUME NEW S, NEW f \in [S -> Nat], NEW q \in Seq(S)
  PROVE  SumOf(Along(f, q)) \in Nat
<1>1. f \in [S -> Int]
  OBVIOUS
<1>2. /\ Along(f, q) \in Seq(Int) /\ Len(Along(f, q)) = Len(q)
      /\ \A n \in 1..Len(q) : q[n] \in S /\ Along(f, q)[n] = f[q[n]]
  BY <1>1, AlongTyped
<1>3. \A n \in 1..Len(Along(f, q)) : Along(f, q)[n] >= 0
  BY <1>2
<1>4. SumOf(Along(f, q)) >= 0
  BY <1>2, <1>3, SumAtLeast
<1>5. SumOf(Along(f, q)) \in Int
  BY <1>1, AlongInt
<1> QED
  BY <1>4, <1>5

----------------------------------------------------------------------------
(* Sets in some order, and sequences put behind one another *)

(* A set in some order: each element once. *)
LEMMA SetInOrder ==
  ASSUME NEW S, IsFiniteSet(S)
  PROVE  /\ SetToSeq(S) \in Seq(S)
         /\ \A j, k \in DOMAIN SetToSeq(S) : SetToSeq(S)[j] = SetToSeq(S)[k] => j = k
         /\ \A x \in S : \E k \in DOMAIN SetToSeq(S) : SetToSeq(S)[k] = x
<1> DEFINE n == Cardinality(S)
           Orders(f) == f \in [1..n -> S] /\ IsInjective(f)
           f == SetToSeq(S)
<1>1. n \in Nat /\ ExistsBijection(1..n, S)
  BY FS_CardinalityType
<1>2. \E g : Orders(g)
  BY <1>1 DEF ExistsBijection, Bijection, Injection
<1>3. f = CHOOSE g \in [1..n -> S] : IsInjective(g)
  BY DEF SetToSeq
<1>4. Orders(f)
  BY <1>2, <1>3
<1>5. f \in Seq(S) /\ DOMAIN f = 1..n
  BY <1>1, <1>4, SeqDef
<1>6. IsFiniteSet(1..n) /\ Cardinality(1..n) = n
  BY <1>1, FS_Interval
<1>7. f \in Injection(1..n, S)
  BY <1>4 DEF Injection
<1>8. f \in Surjection(1..n, S)
  BY <1>6, <1>7, FS_Injection
<1> HIDE DEF f
<1> QED
  BY <1>4, <1>5, <1>8 DEF f, IsInjective, Surjection

LEMMA FiniteImage ==
  ASSUME NEW S, IsFiniteSet(S), NEW f, f = [x \in S |-> f[x]]
  PROVE  IsFiniteSet({f[x] : x \in S})
<1> DEFINE T == {f[x] : x \in S}
<1>1. f \in Surjection(S, T)
  BY DEF Surjection
<1> HIDE DEF T
<1> QED
  BY <1>1, FS_Surjection DEF T

(* Every set of numbers has a least one. *)
LEMMA LeastNumber ==
  ASSUME NEW S \in SUBSET Nat, S # {}
  PROVE  \E n \in S : \A m \in S : n <= m
<1>1. PICK n \in S : \A m \in S : ~ (<<m, n>> \in OpToRel(<, Nat))
  BY NatLessThanWellFounded, WFMin
<1>2. ASSUME NEW m \in S, m < n PROVE <<m, n>> \in OpToRel(<, Nat)
  BY <1>2, Zenon DEF OpToRel
<1>3. \A m \in S : ~(m < n)
  BY <1>1, <1>2, Zenon
<1> QED
  BY <1>3

(* The sequences of ss, one behind the other, have the elements they had. *)
LEMMA FlattenTyped ==
  ASSUME NEW S, NEW ss \in Seq(Seq(S))
  PROVE  FlattenSeq(ss) \in Seq(S)
<1> DEFINE N == Len(ss)
           Step(f, i) == IF i = 1 THEN ss[i] ELSE f[i - 1] \o ss[i]
           Solves(f) == f = [i \in 1..N |-> Step(f, i)]
           Upto(n) == \E p \in [1..n -> Seq(S)] : \A i \in 1..n : p[i] = Step(p, i)
           U == {n \in Nat : n <= N => Upto(n)}
<1>0. N \in Nat /\ \A i \in 1..N : ss[i] \in Seq(S)
  BY LenProperties, ElementOfSeq
<1>1. Upto(0)
  <2> DEFINE z == [i \in 1..0 |-> << >>]
  <2>1. z \in [1..0 -> Seq(S)] /\ \A i \in 1..0 : z[i] = Step(z, i)
    OBVIOUS
  <2> HIDE DEF z
  <2> QED BY <2>1
<1>2. ASSUME NEW n \in U PROVE n + 1 \in U
  <2>0. n \in Nat /\ n + 1 \in Nat /\ (n <= N => Upto(n))
    OBVIOUS
  <2>1. ASSUME n + 1 <= N PROVE Upto(n + 1)
    <3>1. PICK p \in [1..n -> Seq(S)] : \A i \in 1..n : p[i] = Step(p, i)
      BY <2>0, <2>1, <1>0
    <3> DEFINE last == Step(p, n + 1)
               q == [i \in 1..(n + 1) |-> IF i = n + 1 THEN last ELSE p[i]]
    <3>2. last \in Seq(S)
      <4>1. ss[n + 1] \in Seq(S)
        BY <1>0, <2>0, <2>1
      <4>2. CASE n + 1 = 1 BY <4>1, <4>2
      <4>3. CASE n + 1 # 1
        <5>1. p[(n + 1) - 1] \in Seq(S)
          BY <4>3, <2>0
        <5> QED BY <4>1, <4>3, <5>1, ConcatProperties
      <4> QED BY <4>2, <4>3
    <3> HIDE DEF last
    <3>3. q \in [1..(n + 1) -> Seq(S)]
      BY <3>2, <2>0
    <3>4. ASSUME NEW i \in 1..(n + 1) PROVE q[i] = Step(q, i)
      <4>1. CASE i = n + 1
        <5>1. i # 1 => q[i - 1] = p[i - 1]
          BY <4>1, <2>0
        <5> QED BY <4>1, <5>1 DEF last
      <4>2. CASE i # n + 1
        <5>1. i \in 1..n /\ q[i] = p[i] /\ (i # 1 => q[i - 1] = p[i - 1])
          BY <4>2, <2>0
        <5> QED BY <5>1, <3>1
      <4> QED BY <4>1, <4>2
    <3> HIDE DEF q
    <3> QED BY <3>3, <3>4
  <2> HIDE DEF Upto
  <2> QED BY <2>0, <2>1
<1> HIDE DEF Upto
<1>3. U = Nat
  <2>1. U \in SUBSET Nat /\ 0 \in U
    BY <1>1
  <2> HIDE DEF U
  <2> QED BY <2>1, <1>2, AllNumbers
<1>4. PICK p \in [1..N -> Seq(S)] : \A i \in 1..N : p[i] = Step(p, i)
  <2>1. Upto(N)
    BY <1>0, <1>3
  <2> QED BY <2>1 DEF Upto
<1>5. Solves(p)
  BY <1>4
<1> DEFINE r == CHOOSE f : Solves(f)
<1>6. Solves(r)
  <2> HIDE DEF Solves
  <2> QED BY <1>5
<1>7. FlattenSeq(ss) = IF N = 0 THEN ss ELSE r[N]
  BY DEF FlattenSeq
<1>8. r = [i \in 1..N |-> Step(r, i)]
  BY <1>6
<1> HIDE DEF r
<1> DEFINE V == {n \in Nat : n \in 1..N => r[n] \in Seq(S)}
<1>9. ASSUME NEW n \in V PROVE n + 1 \in V
  <2> SUFFICES ASSUME n + 1 \in 1..N PROVE r[n + 1] \in Seq(S)
    OBVIOUS
  <2>1. ss[n + 1] \in Seq(S) /\ r[n + 1] = Step(r, n + 1)
    BY <1>0, <1>8
  <2>2. CASE n = 0 BY <2>1, <2>2
  <2>3. CASE n # 0
    <3>1. r[n] \in Seq(S) /\ (n + 1) - 1 = n /\ n + 1 # 1
      BY <2>3, <1>0
    <3> QED BY <2>1, <3>1, ConcatProperties
  <2> QED BY <2>2, <2>3
<1>10. V = Nat
  <2>1. V \in SUBSET Nat /\ 0 \in V
    OBVIOUS
  <2> HIDE DEF V
  <2> QED BY <2>1, <1>9, AllNumbers
<1>11. N # 0 => r[N] \in Seq(S)
  <2>1. N \in V
    BY <1>0, <1>10
  <2> QED BY <1>0, <2>1
<1>12. N = 0 => ss \in Seq(S)
  <2>1. N = 0 => ss = << >>
    BY EmptySeq
  <2> QED BY <2>1
<1> QED
  BY <1>7, <1>11, <1>12

----------------------------------------------------------------------------
(* Steps taken one after another, and partial sums *)

(* A step taken for each number up to N, from a start: there is such a sequence. *)
CanStep(N, B, base, g) ==
  \E p \in [0..N -> B] : p[0] = base /\ \A n \in 1..N : p[n] = g[<<n, p[n - 1]>>]

LEMMA FoldExists ==
  ASSUME NEW N \in Nat, NEW B, NEW base \in B, NEW g \in [Nat \X B -> B]
  PROVE  CanStep(N, B, base, g)
<1> DEFINE Upto(n) == \E p \in [0..n -> B] : p[0] = base /\ \A i \in 1..n : p[i] = g[<<i, p[i - 1]>>]
           S == {n \in Nat : Upto(n)}
<1>1. Upto(0)
  <2> DEFINE z == [i \in 0..0 |-> base]
  <2>1. z \in [0..0 -> B] /\ z[0] = base /\ \A i \in 1..0 : z[i] = g[<<i, z[i - 1]>>]
    OBVIOUS
  <2> HIDE DEF z
  <2> QED BY <2>1
<1>2. ASSUME NEW n \in S PROVE n + 1 \in S
  <2>0. n \in Nat /\ n + 1 \in Nat /\ Upto(n)
    OBVIOUS
  <2>1. PICK p \in [0..n -> B] : p[0] = base /\ \A i \in 1..n : p[i] = g[<<i, p[i - 1]>>]
    BY <2>0
  <2> DEFINE last == g[<<n + 1, p[n]>>]
             q == [i \in 0..(n + 1) |-> IF i = n + 1 THEN last ELSE p[i]]
  <2>2. last \in B
    BY <2>0, <2>1
  <2>3. q \in [0..(n + 1) -> B]
    <3> HIDE DEF last
    <3> QED BY <2>0, <2>2
  <2>4. q[0] = base
    BY <2>0, <2>1
  <2>5. ASSUME NEW i \in 1..(n + 1) PROVE q[i] = g[<<i, q[i - 1]>>]
    <3>1. i - 1 \in 0..n /\ q[i - 1] = p[i - 1]
      BY <2>0
    <3>2. CASE i = n + 1
      <4>1. q[i] = last /\ p[i - 1] = p[n]
        BY <3>2, <2>0
      <4> QED BY <3>1, <3>2, <4>1
    <3>3. CASE i # n + 1
      <4>1. i \in 1..n /\ q[i] = p[i]
        BY <3>3, <2>0
      <4> QED BY <4>1, <3>1, <2>1
    <3> QED BY <3>2, <3>3
  <2> HIDE DEF q
  <2>6. Upto(n + 1)
    BY <2>3, <2>4, <2>5
  <2> HIDE DEF Upto
  <2> QED BY <2>0, <2>6
<1> HIDE DEF Upto
<1>3. S = Nat
  <2>1. S \in SUBSET Nat /\ 0 \in S
    BY <1>1
  <2> HIDE DEF S
  <2> QED BY <2>1, <1>2, AllNumbers
<1>4. Upto(N)
  BY <1>3
<1> QED
  BY <1>4 DEF Upto, CanStep

(* Every set of numbers up to n has a greatest one. *)
LEMMA GreatestNumber ==
  ASSUME NEW n \in Nat, NEW S \in SUBSET (0..n), S # {}
  PROVE  \E x \in S : \A y \in S : x >= y
<1> DEFINE T == {n - x : x \in S}
<1>1. T \in SUBSET Nat /\ T # {}
  <2>1. \A x \in S : n - x \in Nat
    OBVIOUS
  <2> QED BY <2>1
<1>2. PICK m \in T : \A k \in T : m <= k
  <2> HIDE DEF T
  <2> QED BY <1>1, LeastNumber
<1>3. PICK x \in S : m = n - x
  OBVIOUS
<1>4. ASSUME NEW y \in S PROVE x >= y
  <2>1. n - y \in T /\ n - x <= n - y
    BY <1>2, <1>3
  <2> QED BY <2>1
<1> QED
  BY <1>4

(* The partial sums, one by one. *)
LEMMA SumsStep ==
  ASSUME NEW s \in Seq(Int)
  PROVE  /\ Len(s) \in Nat /\ Sums(s)[0] = 0 /\ SumOf(s) = Sums(s)[Len(s)]
         /\ \A n \in 0..Len(s) : Sums(s)[n] \in Int
         /\ \A n \in 1..Len(s) : Sums(s)[n] = Sums(s)[n - 1] + s[n] /\ s[n] \in Int
BY SumsAre, LenProperties, ElementOfSeq DEF IsSums, SumOf

(* The first n decide about the first n sums. *)
LEMMA SumsPrefix ==
  ASSUME NEW s \in Seq(Int), NEW t \in Seq(Int), NEW m \in Nat, m <= Len(s), m <= Len(t),
         \A n \in 1..m : s[n] = t[n]
  PROVE  Sums(s)[m] = Sums(t)[m]
<1> DEFINE p == Sums(s)
           q == Sums(t)
<1>1. /\ p[0] = 0 /\ q[0] = 0 /\ Len(s) \in Nat /\ Len(t) \in Nat
      /\ \A n \in 1..m : p[n] = p[n - 1] + s[n] /\ q[n] = q[n - 1] + t[n]
  BY SumsStep
<1> HIDE DEF p, q
<1> DEFINE S == {n \in Nat : n <= m => p[n] = q[n]}
<1>2. S \in SUBSET Nat /\ 0 \in S
  BY <1>1
<1>3. ASSUME NEW n \in S PROVE n + 1 \in S
  <2> SUFFICES ASSUME n + 1 <= m PROVE p[n + 1] = q[n + 1]
    OBVIOUS
  <2>1. n + 1 \in 1..m /\ (n + 1) - 1 = n /\ p[n] = q[n]
    BY SMTT(30)
  <2> QED BY <2>1, <1>1
<1>4. S = Nat
  <2> HIDE DEF S
  <2> QED BY <1>2, <1>3, AllNumbers
<1> QED
  BY <1>4 DEF p, q

(* Sums of what is never negative do not fall; they stay over zeros. *)
LEMMA SumsGrow ==
  ASSUME NEW s \in Seq(Nat), NEW i \in 0..Len(s), NEW j \in 0..Len(s), i <= j
  PROVE  /\ Sums(s)[i] <= Sums(s)[j] /\ Sums(s)[i] \in Nat
         /\ (\A n \in (i + 1)..j : s[n] = 0) => Sums(s)[i] = Sums(s)[j]
<1> DEFINE p == Sums(s)
<1>1. /\ p[0] = 0 /\ Len(s) \in Nat
      /\ \A n \in 0..Len(s) : p[n] \in Int
      /\ \A n \in 1..Len(s) : p[n] = p[n - 1] + s[n] /\ s[n] \in Nat
  <2>1. s \in Seq(Int)
    BY QueueGrows
  <2>2. \A n \in 1..Len(s) : s[n] \in Nat
    BY ElementOfSeq
  <2> QED BY <2>1, <2>2, SumsStep
<1> HIDE DEF p
<1>0. i \in Nat /\ j \in Nat /\ i <= Len(s) /\ j <= Len(s)
  BY <1>1
<1> DEFINE S == {n \in Nat : n <= Len(s) => p[n] \in Nat}
<1>2. S = Nat
  <2>1. S \in SUBSET Nat /\ 0 \in S
    BY <1>1
  <2>2. ASSUME NEW n \in S PROVE n + 1 \in S
    <3> SUFFICES ASSUME n + 1 <= Len(s) PROVE p[n + 1] \in Nat
      OBVIOUS
    <3>1. n + 1 \in 1..Len(s) /\ (n + 1) - 1 = n /\ p[n] \in Nat
      BY <1>1
    <3> QED BY <3>1, <1>1, SMTT(30)
  <2> HIDE DEF S
  <2> QED BY <2>1, <2>2, AllNumbers
<1> DEFINE T == {n \in Nat : n \in i..Len(s) => p[i] <= p[n]}
<1>3. T = Nat
  <2>1. T \in SUBSET Nat /\ 0 \in T
    BY <1>1
  <2>2. ASSUME NEW n \in T PROVE n + 1 \in T
    <3> SUFFICES ASSUME n + 1 \in i..Len(s) PROVE p[i] <= p[n + 1]
      OBVIOUS
    <3>1. CASE n + 1 = i BY <3>1, <1>1
    <3>2. CASE n + 1 # i
      <4>1. n \in i..Len(s) /\ n + 1 \in 1..Len(s) /\ (n + 1) - 1 = n /\ p[i] <= p[n]
        BY <3>2, <1>0, <1>1
      <4>2. p[n + 1] = p[n] + s[n + 1] /\ s[n + 1] \in Nat /\ p[n] \in Int /\ p[i] \in Int
        BY <4>1, <1>0, <1>1
      <4> QED BY <4>1, <4>2
    <3> QED BY <3>1, <3>2
  <2> HIDE DEF T
  <2> QED BY <2>1, <2>2, AllNumbers
<1> DEFINE U == {n \in Nat : n \in i..j /\ (\A k \in (i + 1)..j : s[k] = 0) => p[i] = p[n]}
<1>4. U = Nat
  <2>1. U \in SUBSET Nat /\ 0 \in U
    BY <1>1
  <2>2. ASSUME NEW n \in U PROVE n + 1 \in U
    <3> SUFFICES ASSUME n + 1 \in i..j, \A k \in (i + 1)..j : s[k] = 0 PROVE p[i] = p[n + 1]
      OBVIOUS
    <3>1. CASE n + 1 = i BY <3>1, <1>1
    <3>2. CASE n + 1 # i
      <4>1. n \in i..j /\ n + 1 \in 1..Len(s) /\ (n + 1) - 1 = n /\ p[i] = p[n] /\ s[n + 1] = 0
        BY <3>2, <1>1
      <4> QED BY <4>1, <1>1
    <3> QED BY <3>1, <3>2
  <2> HIDE DEF U
  <2> QED BY <2>1, <2>2, AllNumbers
<1>5. p[i] \in Nat
  <2>1. i \in S
    BY <1>0, <1>2
  <2> QED BY <2>1, <1>0
<1>6. p[i] <= p[j]
  <2>1. j \in T
    BY <1>0, <1>3
  <2> QED BY <2>1, <1>0
<1>7. (\A n \in (i + 1)..j : s[n] = 0) => p[i] = p[j]
  <2>1. j \in U
    BY <1>0, <1>4
  <2> QED BY <2>1, <1>0
<1> QED
  BY <1>5, <1>6, <1>7 DEF p

(* A function on the first n numbers is a sequence. *)
LEMMA FunctionSeq ==
  ASSUME NEW S, NEW n \in Nat, NEW f \in [1..n -> S]
  PROVE  f \in Seq(S) /\ Len(f) = n /\ DOMAIN f = 1..n
<1>1. f \in Seq(S)
  BY SeqDef
<1>2. DOMAIN f = 1..n /\ DOMAIN f = 1..Len(f) /\ Len(f) \in Nat
  BY <1>1, LenProperties
<1> QED
  BY <1>1, <1>2

----------------------------------------------------------------------------
(* Sequences sifted by a test *)

(* What is taken step by step as p is, is p. *)
LEMMA StepsAgree ==
  ASSUME NEW N \in Nat, NEW p, NEW r, r[0] = p[0],
         \A n \in 1..N : r[n - 1] = p[n - 1] => r[n] = p[n]
  PROVE  r[N] = p[N]
<1> DEFINE S == {n \in Nat : n <= N => r[n] = p[n]}
<1>1. S \in SUBSET Nat /\ 0 \in S
  OBVIOUS
<1>2. ASSUME NEW n \in S PROVE n + 1 \in S
  <2> SUFFICES ASSUME n + 1 <= N PROVE r[n + 1] = p[n + 1]
    OBVIOUS
  <2>1. n + 1 \in 1..N /\ (n + 1) - 1 = n /\ r[n] = p[n]
    OBVIOUS
  <2> QED BY <2>1
<1> HIDE DEF S
<1>3. S = Nat
  BY <1>1, <1>2, AllNumbers
<1> QED
  BY <1>3 DEF S

(* Sifting goes through the sequence one by one. *)
Sifts(s, S, T) ==
  \E p \in [0..Len(s) -> Seq(T)] :
    /\ p[0] = << >> /\ p[Len(s)] = Sifted(s, S)
    /\ \A n \in 1..Len(s) : p[n] = IF s[n] \in S THEN Append(p[n - 1], s[n]) ELSE p[n - 1]

LEMMA SiftedIs ==
  ASSUME NEW A, NEW s \in Seq(A), NEW S, NEW T, T = {x \in A : x \in S}
  PROVE  Sifts(s, S, T)
<1> DEFINE N == Len(s)
           To(n, q) == IF s[n] \in S THEN Append(q, s[n]) ELSE q
           Solves(f) == f = [n \in 0..N |-> IF n = 0 THEN << >> ELSE To(n, f[n - 1])]
           g == [z \in Nat \X Seq(T) |-> IF z[1] \in 1..N THEN To(z[1], z[2]) ELSE z[2]]
           r == CHOOSE f : Solves(f)
<1>1. N \in Nat /\ \A n \in 1..N : s[n] \in A
  BY LenProperties, ElementOfSeq
<1>2. \A n \in 1..N, q \in Seq(T) : To(n, q) \in Seq(T)
  <2> SUFFICES ASSUME NEW n \in 1..N, NEW q \in Seq(T) PROVE To(n, q) \in Seq(T)
    OBVIOUS
  <2>1. CASE s[n] \in S
    <3>1. s[n] \in T
      BY <1>1, <2>1
    <3>2. Append(q, s[n]) \in Seq(T)
      BY <3>1, AppendProperties
    <3> QED BY <2>1, <3>2
  <2>2. CASE s[n] \notin S
    BY <2>2
  <2> QED BY <2>1, <2>2
<1> HIDE DEF To
<1>3. g \in [Nat \X Seq(T) -> Seq(T)]
  <2>1. ASSUME NEW z \in Nat \X Seq(T) PROVE (IF z[1] \in 1..N THEN To(z[1], z[2]) ELSE z[2]) \in Seq(T)
    <3>1. z[2] \in Seq(T)
      OBVIOUS
    <3> QED BY <3>1, <1>2
  <2> QED BY <2>1
<1>4. << >> \in Seq(T)
  BY EmptySeq
<1> HIDE DEF g
<1>5. PICK p \in [0..N -> Seq(T)] : p[0] = << >> /\ \A n \in 1..N : p[n] = g[<<n, p[n - 1]>>]
  <2>1. CanStep(N, Seq(T), << >>, g)
    BY <1>1, <1>3, <1>4, FoldExists
  <2> QED BY <2>1, Zenon DEF CanStep
<1>6. \A n \in 1..N : p[n] = To(n, p[n - 1])
  <2> SUFFICES ASSUME NEW n \in 1..N PROVE p[n] = To(n, p[n - 1])
    OBVIOUS
  <2>1. n - 1 \in 0..N /\ n \in Nat
    BY <1>1
  <2>2. p[n - 1] \in Seq(T) /\ <<n, p[n - 1]>> \in Nat \X Seq(T)
    BY <1>5, <2>1
  <2>3. g[<<n, p[n - 1]>>] = To(n, p[n - 1])
    BY <2>2 DEF g
  <2> QED BY <1>5, <2>3
<1>7. Solves(p)
  <2>1. \A n \in 0..N : p[n] = IF n = 0 THEN << >> ELSE To(n, p[n - 1])
    BY <1>1, <1>5, <1>6
  <2> QED BY <1>5, <2>1
<1>8. Solves(r)
  <2> HIDE DEF Solves
  <2> QED BY <1>7
<1>9. Sifted(s, S) = r[N]
  BY DEF Sifted, To
<1> HIDE DEF r
<1>10. r[N] = p[N]
  <2>1. r[0] = p[0]
    BY <1>1, <1>5, <1>8
  <2>2. ASSUME NEW n \in 1..N, r[n - 1] = p[n - 1] PROVE r[n] = p[n]
    <3>1. n \in 0..N /\ n # 0
      BY <1>1
    <3>2. r[n] = To(n, r[n - 1])
      BY <1>8, <3>1
    <3> QED BY <1>6, <2>2, <3>2
  <2> QED BY <1>1, <2>1, <2>2, StepsAgree
<1>11. \A n \in 1..N : p[n] = IF s[n] \in S THEN Append(p[n - 1], s[n]) ELSE p[n - 1]
  BY <1>6 DEF To
<1> QED
  BY <1>5, <1>9, <1>10, <1>11 DEF Sifts

LEMMA SiftedTyped ==
  ASSUME NEW A, NEW s \in Seq(A), NEW S
  PROVE  Sifted(s, S) \in Seq({x \in A : x \in S})
<1>1. PICK T : T = {x \in A : x \in S}
  OBVIOUS
<1>2. Sifts(s, S, T)
  BY <1>1, SiftedIs
<1>3. Len(s) \in Nat
  BY LenProperties
<1>4. PICK p \in [0..Len(s) -> Seq(T)] : p[Len(s)] = Sifted(s, S)
  BY <1>2 DEF Sifts
<1> QED BY <1>1, <1>3, <1>4

----------------------------------------------------------------------------
(* Sums of what was sifted, reversed, added up entry by entry *)

(* What counts for nothing may be sifted out. *)
LEMMA SumSifted ==
  ASSUME NEW A, NEW s \in Seq(A), NEW f \in [A -> Int], NEW S,
         \A n \in 1..Len(s) : s[n] \notin S => f[s[n]] = 0
  PROVE  SumOf(Along(f, Sifted(s, S))) = SumOf(Along(f, s))
<1> DEFINE N == Len(s)
<1>1. PICK T : T = {x \in A : x \in S}
  OBVIOUS
<1>2. Sifts(s, S, T)
  BY <1>1, SiftedIs
<1>3. N \in Nat /\ Len(Along(f, s)) = N /\ Along(f, s) \in Seq(Int)
      /\ \A n \in 1..N : s[n] \in A /\ Along(f, s)[n] = f[s[n]]
  BY AlongTyped
<1>4. PICK p \in [0..N -> Seq(T)] :
        /\ p[0] = << >> /\ p[N] = Sifted(s, S)
        /\ \A n \in 1..N : p[n] = IF s[n] \in S THEN Append(p[n - 1], s[n]) ELSE p[n - 1]
  BY <1>2 DEF Sifts
<1> DEFINE c == Sums(Along(f, s))
           r == [n \in 0..N |-> SumOf(Along(f, p[n]))]
<1>5. /\ c[0] = 0 /\ SumOf(Along(f, s)) = c[N]
      /\ \A n \in 0..N : c[n] \in Int
      /\ \A n \in 1..N : c[n] = c[n - 1] + f[s[n]] /\ f[s[n]] \in Int
  BY <1>3, SumsStep
<1>6. r[0] = c[0]
  <2>1. r[0] = SumOf(Along(f, << >>))
    BY <1>3, <1>4
  <2>2. Along(f, << >>) = << >>
    BY DEF Along
  <2> QED BY <2>1, <2>2, <1>5, SumEmpty
<1> HIDE DEF c
<1>7. ASSUME NEW n \in 1..N, r[n - 1] = c[n - 1] PROVE r[n] = c[n]
  <2>1. n \in 0..N /\ n - 1 \in 0..N
    BY <1>3
  <2>2. r[n] = SumOf(Along(f, p[n])) /\ r[n - 1] = SumOf(Along(f, p[n - 1]))
    BY <2>1
  <2> HIDE DEF r
  <2>3. CASE s[n] \in S
    <3>1. s[n] \in T /\ p[n - 1] \in Seq(T)
      BY <1>1, <1>3, <1>4, <2>1, <2>3
    <3>2. p[n - 1] \in Seq(A)
      <4>1. T \subseteq A
        BY <1>1
      <4> QED BY <3>1, <4>1, QueueGrows
    <3>3. SumOf(Along(f, Append(p[n - 1], s[n]))) = SumOf(Along(f, p[n - 1])) + f[s[n]]
      <4>1. s[n] \in A
        BY <1>3
      <4> QED BY <3>2, <4>1, AlongAppend
    <3>4. p[n] = Append(p[n - 1], s[n])
      BY <1>4, <2>3
    <3> QED BY <3>3, <3>4, <2>2, <1>5, <1>7
  <2>4. CASE s[n] \notin S
    <3>1. f[s[n]] = 0 /\ p[n] = p[n - 1]
      <4>1. f[s[n]] = 0
        BY <2>4
      <4> QED BY <1>4, <2>4, <4>1
    <3>2. /\ SumOf(Along(f, p[n])) = SumOf(Along(f, p[n - 1]))
          /\ c[n] = c[n - 1] + 0 /\ c[n - 1] \in Int
      BY <3>1, <1>5, <2>1
    <3>3. r[n] = r[n - 1] /\ c[n] = c[n - 1]
      BY <2>2, <3>2
    <3> QED BY <3>3, <1>7
  <2> QED BY <2>3, <2>4
<1>8. r[N] = c[N]
  <2> HIDE DEF r
  <2> QED BY <1>3, <1>6, <1>7, StepsAgree
<1>9. r[N] = SumOf(Along(f, Sifted(s, S)))
  BY <1>3, <1>4
<1> QED
  BY <1>5, <1>8, <1>9

(* As many ones add up to the length. *)
LEMMA SumOnes ==
  ASSUME NEW s \in Seq(Int), \A i \in 1..Len(s) : s[i] = 1
  PROVE  SumOf(s) = Len(s)
<1> DEFINE c == Sums(s)
           p == [n \in 0..Len(s) |-> n]
<1>1. /\ Len(s) \in Nat /\ c[0] = 0 /\ SumOf(s) = c[Len(s)]
      /\ \A n \in 1..Len(s) : c[n] = c[n - 1] + 1
  BY SumsStep
<1> HIDE DEF c
<1>2. p[0] = c[0]
  BY <1>1
<1>3. ASSUME NEW n \in 1..Len(s), c[n - 1] = p[n - 1] PROVE c[n] = p[n]
  <2>1. p[n - 1] = n - 1 /\ p[n] = n
    BY <1>1
  <2> QED BY <1>1, <1>3, <2>1
<1>4. p[Len(s)] = Len(s)
  BY <1>1
<1> HIDE DEF p
<1>5. c[Len(s)] = p[Len(s)]
  BY <1>1, <1>2, <1>3, StepsAgree
<1> QED BY <1>1, <1>4, <1>5

LEMMA MinIs ==
  ASSUME NEW S \in SUBSET Nat, S # {}
  PROVE  Min(S) \in S /\ \A n \in S : Min(S) <= n
<1>1. \E n \in S : \A m \in S : n <= m
  BY LeastNumber
<1> QED
  BY <1>1 DEF Min

(* What passes the test as a whole is left as it is. *)
LEMMA SiftedAll ==
  ASSUME NEW A, NEW s \in Seq(A), NEW S, \A n \in 1..Len(s) : s[n] \in S
  PROVE  Sifted(s, S) = s
<1> DEFINE N == Len(s)
           r == [n \in 0..N |-> SubSeq(s, 1, n)]
<1>1. PICK T : T = {x \in A : x \in S}
  OBVIOUS
<1>2. Sifts(s, S, T)
  BY <1>1, SiftedIs
<1>3. PICK p \in [0..N -> Seq(T)] :
        /\ p[0] = << >> /\ p[N] = Sifted(s, S)
        /\ \A n \in 1..N : p[n] = IF s[n] \in S THEN Append(p[n - 1], s[n]) ELSE p[n - 1]
  BY <1>2 DEF Sifts
<1>4. N \in Nat /\ \A n \in 1..N : s[n] \in A
  BY LenProperties, ElementOfSeq
<1>5. r[0] = p[0]
  BY <1>3, <1>4
<1>6. ASSUME NEW n \in 1..N, r[n - 1] = p[n - 1] PROVE r[n] = p[n]
  <2>1. p[n] = Append(SubSeq(s, 1, n - 1), s[n])
    <3>1. n - 1 \in 0..N
      BY <1>4
    <3> QED BY <1>3, <1>6, <3>1
  <2>2. SubSeq(s, 1, n) = Append(SubSeq(s, 1, n - 1), s[n])
    BY <1>4
  <2>3. n \in 0..N
    BY <1>4
  <2> QED BY <2>1, <2>2, <2>3
<1>7. r[N] = s
  <2>1. SubSeq(s, 1, N) = s
    BY <1>4
  <2> QED BY <1>4, <2>1
<1> HIDE DEF r
<1>8. r[N] = p[N]
  BY <1>4, <1>5, <1>6, StepsAgree
<1> QED BY <1>3, <1>7, <1>8

(* Term by term: what is no more, adds up to no more. *)
LEMMA SumAtMost ==
  ASSUME NEW s \in Seq(Int), NEW t \in Seq(Int), Len(s) = Len(t),
         \A i \in 1..Len(s) : s[i] <= t[i]
  PROVE  SumOf(s) <= SumOf(t)
<1> DEFINE N == Len(s)
           S == {n \in Nat : n <= N => Sums(s)[n] <= Sums(t)[n]}
<1>1. /\ N \in Nat /\ SumOf(s) = Sums(s)[N] /\ SumOf(t) = Sums(t)[N]
      /\ Sums(s)[0] = 0 /\ Sums(t)[0] = 0
      /\ \A n \in 0..N : Sums(s)[n] \in Int /\ Sums(t)[n] \in Int
      /\ \A n \in 1..N : /\ Sums(s)[n] = Sums(s)[n - 1] + s[n] /\ s[n] \in Int
                         /\ Sums(t)[n] = Sums(t)[n - 1] + t[n] /\ t[n] \in Int
  BY SumsStep
<1> HIDE DEF N
<1>2. S \in SUBSET Nat /\ 0 \in S
  BY <1>1
<1>3. ASSUME NEW n \in S PROVE n + 1 \in S
  <2> SUFFICES ASSUME n + 1 <= N PROVE Sums(s)[n + 1] <= Sums(t)[n + 1]
    OBVIOUS
  <2>1. n + 1 \in 1..N /\ n \in 0..N /\ (n + 1) - 1 = n /\ Sums(s)[n] <= Sums(t)[n]
    BY <1>1
  <2>2. s[n + 1] <= t[n + 1]
    BY <2>1 DEF N
  <2> QED BY <1>1, <2>1, <2>2, SMTT(30)
<1> HIDE DEF S
<1>4. S = Nat
  BY <1>2, <1>3, AllNumbers
<1> QED BY <1>1, <1>4 DEF S

(* Backwards it is the same sum. *)
LEMMA ReverseIs ==
  ASSUME NEW A, NEW s \in Seq(A)
  PROVE  /\ Reverse(s) \in Seq(A) /\ Len(Reverse(s)) = Len(s) /\ Len(s) \in Nat
         /\ \A n \in 1..Len(s) : Reverse(s)[n] = s[Len(s) - n + 1] /\ Len(s) - n + 1 \in 1..Len(s)
<1>1. Len(s) \in Nat /\ \A n \in 1..Len(s) : s[n] \in A
  BY LenProperties, ElementOfSeq
<1>2. \A n \in 1..Len(s) : Len(s) - n + 1 \in 1..Len(s)
  BY <1>1
<1>3. Reverse(s) \in [1..Len(s) -> A] /\ \A n \in 1..Len(s) : Reverse(s)[n] = s[Len(s) - n + 1]
  BY <1>1, <1>2 DEF Reverse
<1>4. Reverse(s) \in Seq(A) /\ Len(Reverse(s)) = Len(s)
  BY <1>1, <1>3, FunctionSeq
<1> QED BY <1>1, <1>2, <1>3, <1>4

LEMMA SumReverse ==
  ASSUME NEW s \in Seq(Int)
  PROVE  SumOf(Reverse(s)) = SumOf(s)
<1> DEFINE N == Len(s)
           r == Reverse(s)
           c == Sums(s)
           p == [n \in 0..N |-> c[N] - c[N - n]]
           d == Sums(r)
<1>1. /\ N \in Nat /\ r \in Seq(Int) /\ Len(r) = N
      /\ \A n \in 1..N : r[n] = s[N - n + 1] /\ N - n + 1 \in 1..N
  BY ReverseIs
<1>2. /\ c[0] = 0 /\ SumOf(s) = c[N]
      /\ \A n \in 0..N : c[n] \in Int
      /\ \A n \in 1..N : c[n] = c[n - 1] + s[n] /\ s[n] \in Int
  BY SumsStep
<1> HIDE DEF r
<1>3. /\ d[0] = 0 /\ SumOf(r) = d[N]
      /\ \A n \in 0..N : d[n] \in Int
      /\ \A n \in 1..N : d[n] = d[n - 1] + r[n] /\ r[n] \in Int
  BY <1>1, SumsStep
<1> HIDE DEF N, c, d
<1>4. p[0] = 0 /\ p[N] = c[N]
  <2>1. 0 \in 0..N /\ N \in 0..N /\ N - 0 = N /\ N - N = 0
    BY <1>1
  <2>2. p[0] = c[N] - c[N] /\ p[N] = c[N] - c[0]
    BY <2>1
  <2> QED BY <1>2, <2>1, <2>2
<1>5. ASSUME NEW n \in 1..N, p[n - 1] = d[n - 1] PROVE p[n] = d[n]
  <2>1. n \in 0..N /\ n - 1 \in 0..N /\ N - n \in 0..N /\ N - (n - 1) = N - n + 1 /\ N - n + 1 \in 1..N
        /\ (N - n + 1) - 1 = N - n /\ N \in 0..N
    BY <1>1
  <2>2. p[n] = c[N] - c[N - n] /\ p[n - 1] = c[N] - c[N - n + 1]
    BY <2>1
  <2>3. c[N - n + 1] = c[N - n] + s[N - n + 1] /\ s[N - n + 1] \in Int
    BY <1>2, <2>1
  <2>4. d[n] = d[n - 1] + s[N - n + 1]
    BY <1>1, <1>3
  <2> HIDE DEF p
  <2>5. c[N] \in Int /\ c[N - n] \in Int
    BY <1>2, <2>1
  <2>6. d[n] = (c[N] - c[N - n + 1]) + s[N - n + 1]
    BY <1>5, <2>2, <2>4
  <2>7. \A a, b, x \in Int : (a - (b + x)) + x = a - b
    OBVIOUS
  <2>8. (c[N] - (c[N - n] + s[N - n + 1])) + s[N - n + 1] = c[N] - c[N - n]
    BY <2>3, <2>5, <2>7
  <2> QED BY <2>2, <2>3, <2>6, <2>8
<1> HIDE DEF p
<1>6. p[N] = d[N]
  <2>1. p[0] = d[0]
    BY <1>3, <1>4
  <2>2. d[0] = p[0] /\ \A n \in 1..N : d[n - 1] = p[n - 1] => d[n] = p[n]
    BY <1>5, <2>1
  <2> QED BY <1>1, <2>2, StepsAgree
<1> QED BY <1>2, <1>3, <1>4, <1>6 DEF r

(* Entry by entry, so in all. *)
LEMMA SumPlus ==
  ASSUME NEW s \in Seq(Int), NEW t \in Seq(Int), NEW u \in Seq(Int),
         Len(s) = Len(t), Len(u) = Len(t), \A n \in 1..Len(t) : u[n] = s[n] + t[n]
  PROVE  SumOf(u) = SumOf(s) + SumOf(t)
<1> DEFINE N == Len(t)
           p == [n \in 0..N |-> Sums(s)[n] + Sums(t)[n]]
           d == Sums(u)
<1>1. /\ N \in Nat /\ SumOf(s) = Sums(s)[N] /\ SumOf(t) = Sums(t)[N] /\ SumOf(u) = d[N]
      /\ Sums(s)[0] = 0 /\ Sums(t)[0] = 0 /\ d[0] = 0
      /\ \A n \in 0..N : Sums(s)[n] \in Int /\ Sums(t)[n] \in Int /\ d[n] \in Int
      /\ \A n \in 1..N : /\ Sums(s)[n] = Sums(s)[n - 1] + s[n] /\ s[n] \in Int
                         /\ Sums(t)[n] = Sums(t)[n - 1] + t[n] /\ t[n] \in Int
                         /\ d[n] = d[n - 1] + u[n] /\ u[n] = s[n] + t[n]
  BY SumsStep
<1> HIDE DEF N, d
<1>2. p[0] = 0
  BY <1>1
<1>3. ASSUME NEW n \in 1..N, d[n - 1] = p[n - 1] PROVE d[n] = p[n]
  <2>1. n \in 0..N /\ n - 1 \in 0..N
    BY <1>1
  <2>2. p[n] = Sums(s)[n] + Sums(t)[n] /\ p[n - 1] = Sums(s)[n - 1] + Sums(t)[n - 1]
    BY <2>1
  <2> HIDE DEF p
  <2>3. /\ d[n] = d[n - 1] + (s[n] + t[n]) /\ s[n] \in Int /\ t[n] \in Int
        /\ Sums(s)[n] = Sums(s)[n - 1] + s[n] /\ Sums(t)[n] = Sums(t)[n - 1] + t[n]
        /\ Sums(s)[n - 1] \in Int /\ Sums(t)[n - 1] \in Int
    BY <1>1, <2>1
  <2>4. \A a, b, x, y \in Int : (a + b) + (x + y) = (a + x) + (b + y)
    OBVIOUS
  <2>5. d[n] = (Sums(s)[n - 1] + Sums(t)[n - 1]) + (s[n] + t[n])
    BY <1>3, <2>2, <2>3
  <2>6. (Sums(s)[n - 1] + Sums(t)[n - 1]) + (s[n] + t[n]) = (Sums(s)[n - 1] + s[n]) + (Sums(t)[n - 1] + t[n])
    BY <2>3, <2>4, SMTT(30)
  <2> QED BY <2>2, <2>3, <2>5, <2>6
<1>4. p[N] = Sums(s)[N] + Sums(t)[N]
  BY <1>1
<1> HIDE DEF p
<1>5. d[N] = p[N]
  BY <1>1, <1>2, <1>3, StepsAgree
<1> QED BY <1>1, <1>4, <1>5

(* What is positive entry by entry is nothing only when there is no entry. *)
LEMMA SumPositive ==
  ASSUME NEW s \in Seq(Int), \A n \in 1..Len(s) : s[n] > 0, s # << >>
  PROVE  SumOf(s) > 0
<1>1. /\ Len(s) \in Nat \ {0} /\ Tail(s) \in Seq(Int) /\ Len(Tail(s)) = Len(s) - 1
      /\ \A n \in 1..(Len(s) - 1) : Tail(s)[n] = s[n + 1]
  BY EmptySeq, LenProperties, HeadTailProperties
<1>2. \A n \in 1..Len(Tail(s)) : Tail(s)[n] >= 0
  <2> SUFFICES ASSUME NEW n \in 1..Len(Tail(s)) PROVE Tail(s)[n] >= 0
    OBVIOUS
  <2>1. n + 1 \in 1..Len(s) /\ Tail(s)[n] = s[n + 1] /\ s[n + 1] \in Int
    BY <1>1, ElementOfSeq
  <2> QED BY <2>1
<1>3. SumOf(Tail(s)) >= 0 /\ SumOf(Tail(s)) \in Int
  BY <1>1, <1>2, SumAtLeast, SumInt
<1>4. SumOf(s) = s[1] + SumOf(Tail(s))
  BY SumTail
<1>5. s[1] > 0 /\ s[1] \in Int
  BY <1>1, ElementOfSeq
<1> QED BY <1>3, <1>4, <1>5

LEMMA SumSingle ==
  ASSUME NEW x \in Int
  PROVE  SumOf(<<x>>) = x
<1>1. PICK e \in Seq(Int) : e = << >>
  BY EmptySeq
<1>2. SumOf(Append(e, x)) = SumOf(e) + x
  BY SumAppend
<1>3. Append(e, x) = <<x>>
  BY <1>1
<1> QED BY <1>1, <1>2, <1>3, SumEmpty

LEMMA AlongAll ==
  \A S : \A f \in [S -> Int] : \A q \in Seq(S) :
    /\ Along(f, q) \in Seq(Int) /\ Len(Along(f, q)) = Len(q)
    /\ \A n \in 1..Len(q) : Along(f, q)[n] = f[q[n]]
BY AlongTyped
=============================================================================
