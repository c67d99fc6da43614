------------------------------ MODULE C9Proofs ------------------------------
(***************************************************************************)
(* The two halves of c9.c understand each other, for any sizes of messages,*)
(* strings, paths, directories and counts.                                 *)
(***************************************************************************)
EXTENDS C9, SequenceTheorems, WellFoundedInduction, TLAPS

(* What is true of 0 and of every successor is true of all numbers.        *)
LEMMA Induction ==
  ASSUME NEW T, 0 \in T, \A n \in Nat : n \in T => n + 1 \in T
  PROVE  Nat \subseteq T
<1> SUFFICES ASSUME Nat \ T # {}
             PROVE  FALSE
  OBVIOUS
<1>1. PICK n \in Nat \ T : \A m \in Nat \ T : <<m, n>> \notin OpToRel(<, Nat)
  BY NatLessThanWellFounded, WFMin
<1>2. n \in Nat /\ n \notin T
  BY <1>1
<1>3. n # 0 /\ n - 1 \in Nat /\ n - 1 < n /\ (n - 1) + 1 = n
  BY <1>2
<1>4. n - 1 \in T
  BY <1>1, <1>3 DEF OpToRel
<1> QED
  BY <1>2, <1>3, <1>4

(* A set of numbers has a least one.                                       *)
LEMMA LeastNumber ==
  ASSUME NEW T \in SUBSET Nat, T # {}
  PROVE  \E n \in T : \A m \in T : n <= m
<1>1. PICK n \in T : \A m \in T : <<m, n>> \notin OpToRel(<, Nat)
  BY NatLessThanWellFounded, WFMin
<1>2. ASSUME NEW m \in T
      PROVE  n <= m
  <2>1. m \in Nat /\ n \in Nat
    OBVIOUS
  <2>2. ~ (m < n)
    BY <1>1, <2>1 DEF OpToRel
  <2> QED
    BY <2>1, <2>2
<1> QED
  BY <1>2

-----------------------------------------------------------------------------
(* Sums.                                                                   *)

(* The sums of the first i members.                                        *)
Summed(s, g) ==
  /\ g[0] = 0
  /\ \A i \in 1 .. Len(s) : g[i] = g[i - 1] + s[i]

(* Added is the last of the sums it is built from.                         *)
LEMMA AddedIs ==
  ASSUME NEW s \in Seq(Int)
  PROVE  \E g : Summed(s, g) /\ Added(s) = g[Len(s)]
<1> DEFINE Body(f, i) == IF i = 0 THEN 0 ELSE f[i - 1] + s[i]
           Is(f, n) == f = [i \in 0 .. n |-> Body(f, i)]
           g == CHOOSE f : Is(f, Len(s))
<1>0. Len(s) \in Nat
  OBVIOUS
<1>1. ASSUME NEW n \in Nat, NEW f, Is(f, n)
      PROVE  \E h : Is(h, n + 1)
  <2> DEFINE h == [i \in 0 .. n + 1 |-> IF i <= n THEN f[i] ELSE Body(f, n + 1)]
  <2>1. ASSUME NEW i \in 0 .. n + 1
        PROVE  h[i] = Body(h, i)
    <3>1. CASE i = 0
      BY <1>1, <3>1
    <3>2. CASE i # 0
      <4>1. h[i - 1] = f[i - 1]
        BY <3>2
      <4>2. h[i] = Body(f, i)
        <5>1. CASE i <= n
          <6>1. i \in 0 .. n /\ h[i] = f[i]
            BY <5>1
          <6> QED
            BY <1>1, <6>1
        <5>2. CASE i = n + 1
          BY <5>2
        <5> QED
          BY <5>1, <5>2
      <4> QED
        BY <3>2, <4>1, <4>2
    <3> QED
      BY <3>1, <3>2
  <2>2. h = [i \in 0 .. n + 1 |-> h[i]]
    OBVIOUS
  <2> HIDE DEF h
  <2>3. Is(h, n + 1)
    BY <2>1, <2>2
  <2> QED
    BY <2>3
<1>2. \E f : Is(f, 0)
  <2>1. Is([i \in 0 .. 0 |-> 0], 0)
    OBVIOUS
  <2> QED
    BY <2>1
<1> HIDE DEF Is
<1>3. \E f : Is(f, Len(s))
  <2> DEFINE T == {n \in Nat : \E f : Is(f, n)}
  <2>1. 0 \in T /\ \A n \in Nat : n \in T => n + 1 \in T
    BY <1>1, <1>2
  <2> HIDE DEF T
  <2>2. Nat \subseteq T
    BY <2>1, Induction
  <2> QED
    BY <1>0, <2>2 DEF T
<1>4. Is(g, Len(s))
  BY <1>3
<1>5. Added(s) = g[Len(s)]
  BY DEF Added, Is
<1> HIDE DEF g
<1>6. g[0] = 0
  BY <1>0, <1>4 DEF Is
<1>7. ASSUME NEW i \in 1 .. Len(s)
      PROVE  g[i] = g[i - 1] + s[i]
  <2>1. i \in 0 .. Len(s) /\ i # 0
    BY <1>0
  <2>2. g[i] = Body(g, i)
    BY <1>4, <2>1 DEF Is
  <2> QED
    BY <2>1, <2>2
<1> QED
  BY <1>5, <1>6, <1>7 DEF Summed

(* Sums of sequences that begin with the same members.                     *)
LEMMA SummedAgree ==
  ASSUME NEW s \in Seq(Int), NEW u \in Seq(Int), NEW g, NEW h,
         Summed(s, g), Summed(u, h), NEW n \in Nat, n <= Len(s), n <= Len(u),
         \A i \in 1 .. n : s[i] = u[i]
  PROVE  g[n] = h[n] /\ g[n] \in Int
<1> DEFINE T == {i \in Nat : i <= n => g[i] = h[i] /\ g[i] \in Int}
<1>0. Len(s) \in Nat /\ Len(u) \in Nat
  OBVIOUS
<1>1. 0 \in T
  BY DEF Summed
<1>2. ASSUME NEW i \in Nat, i \in T
      PROVE  i + 1 \in T
  <2> SUFFICES ASSUME i + 1 <= n
               PROVE  g[i + 1] = h[i + 1] /\ g[i + 1] \in Int
    OBVIOUS
  <2>1. i + 1 \in 1 .. n /\ i + 1 \in 1 .. Len(s) /\ i + 1 \in 1 .. Len(u) /\ (i + 1) - 1 = i
    BY <1>0
  <2>2. g[i] = h[i] /\ g[i] \in Int
    BY <1>2
  <2>3. s[i + 1] = u[i + 1] /\ s[i + 1] \in Int
    BY <2>1
  <2>4. g[i + 1] = g[i] + s[i + 1] /\ h[i + 1] = h[i] + u[i + 1]
    BY <2>1 DEF Summed
  <2> QED
    BY <2>2, <2>3, <2>4
<1> HIDE DEF T
<1>3. Nat \subseteq T
  BY <1>1, <1>2, Induction
<1> QED
  BY <1>3 DEF T

(* What Added gives: a sum grows by the members that come at the end.      *)
LEMMA AddedPrefix ==
  ASSUME NEW s \in Seq(Int)
  PROVE  /\ Added(s) \in Int
         /\ Added(SubSeq(s, 1, 0)) = 0
         /\ SubSeq(s, 1, Len(s)) = s
         /\ \A i \in 1 .. Len(s) :
              Added(SubSeq(s, 1, i)) = Added(SubSeq(s, 1, i - 1)) + s[i]
         /\ \A i \in 0 .. Len(s) : Added(SubSeq(s, 1, i)) \in Int
<1>0. Len(s) \in Nat
  OBVIOUS
<1>1. PICK g : Summed(s, g) /\ Added(s) = g[Len(s)]
  BY AddedIs
<1>2. ASSUME NEW i \in 0 .. Len(s)
      PROVE  Added(SubSeq(s, 1, i)) = g[i] /\ g[i] \in Int
  <2> DEFINE u == SubSeq(s, 1, i)
  <2>1. u \in Seq(Int) /\ Len(u) = i /\ \A j \in 1 .. i : u[j] = s[j]
    BY <1>0
  <2> HIDE DEF u
  <2>2. PICK h : Summed(u, h) /\ Added(u) = h[Len(u)]
    BY <2>1, AddedIs
  <2>3. i \in Nat /\ i <= Len(s) /\ i <= Len(u) /\ \A j \in 1 .. i : s[j] = u[j]
    BY <1>0, <2>1
  <2>4. g[i] = h[i] /\ g[i] \in Int
    BY <1>1, <2>1, <2>2, <2>3, SummedAgree
  <2> QED
    BY <2>1, <2>2, <2>4 DEF u
<1>3. SubSeq(s, 1, Len(s)) = s
  OBVIOUS
<1>4. Added(SubSeq(s, 1, 0)) = 0
  BY <1>0, <1>1, <1>2 DEF Summed
<1>5. ASSUME NEW i \in 1 .. Len(s)
      PROVE  Added(SubSeq(s, 1, i)) = Added(SubSeq(s, 1, i - 1)) + s[i]
  <2>1. i \in 0 .. Len(s) /\ i - 1 \in 0 .. Len(s)
    BY <1>0
  <2> QED
    BY <1>1, <1>2, <2>1 DEF Summed
<1>6. Added(s) \in Int
  BY <1>0, <1>1, <1>2
<1> QED
  BY <1>2, <1>3, <1>4, <1>5, <1>6

(* The sum of two sequences, one after the other.                          *)
LEMMA AddedConcat ==
  ASSUME NEW s \in Seq(Int), NEW u \in Seq(Int)
  PROVE  Added(s \o u) = Added(s) + Added(u)
<1> DEFINE w == s \o u
           T == {n \in Nat : n <= Len(u) =>
                   Added(SubSeq(w, 1, Len(s) + n)) = Added(s) + Added(SubSeq(u, 1, n))}
<1>1. /\ w \in Seq(Int) /\ Len(w) = Len(s) + Len(u)
      /\ Len(s) \in Nat /\ Len(u) \in Nat
      /\ \A i \in 1 .. Len(u) : w[Len(s) + i] = u[i]
      /\ SubSeq(w, 1, Len(s)) = s
  OBVIOUS
<1> HIDE DEF w
<1>2. 0 \in T
  <2>1. Added(SubSeq(u, 1, 0)) = 0 /\ Added(s) \in Int
    BY AddedPrefix
  <2>2. Len(s) + 0 = Len(s)
    BY <1>1
  <2>3. Added(SubSeq(w, 1, Len(s) + 0)) = Added(s)
    BY <1>1, <2>2
  <2>4. Added(s) + 0 = Added(s)
    BY <2>1
  <2>5. Added(SubSeq(w, 1, Len(s) + 0)) = Added(s) + Added(SubSeq(u, 1, 0))
    BY <2>1, <2>3, <2>4
  <2> QED
    BY <2>5
<1>3. ASSUME NEW n \in Nat, n \in T
      PROVE  n + 1 \in T
  <2> SUFFICES ASSUME n + 1 <= Len(u)
               PROVE  Added(SubSeq(w, 1, Len(s) + (n + 1)))
                        = Added(s) + Added(SubSeq(u, 1, n + 1))
    OBVIOUS
  <2> DEFINE i == Len(s) + (n + 1)
  <2>1. /\ i \in 1 .. Len(w) /\ i - 1 = Len(s) + n /\ n + 1 \in 1 .. Len(u)
        /\ (n + 1) - 1 = n /\ n <= Len(u)
    BY <1>1
  <2>2. Added(SubSeq(w, 1, i)) = Added(SubSeq(w, 1, i - 1)) + w[i]
    BY <1>1, <2>1, AddedPrefix
  <2>3. Added(SubSeq(u, 1, n + 1)) = Added(SubSeq(u, 1, (n + 1) - 1)) + u[n + 1]
    BY <2>1, AddedPrefix
  <2>4. Added(SubSeq(w, 1, Len(s) + n)) = Added(s) + Added(SubSeq(u, 1, n))
    BY <1>3, <2>1
  <2>5. w[i] = u[n + 1] /\ u[n + 1] \in Int
    BY <1>1, <2>1
  <2>6. Added(s) \in Int /\ Added(SubSeq(u, 1, n)) \in Int
    <3>1. n \in 0 .. Len(u)
      BY <2>1
    <3> QED
      BY <3>1, AddedPrefix
  <2> HIDE DEF i
  <2>7. Added(SubSeq(w, 1, i)) = Added(s) + Added(SubSeq(u, 1, n + 1))
    BY <2>1, <2>2, <2>3, <2>4, <2>5, <2>6
  <2> QED
    BY <2>7 DEF i
<1> HIDE DEF T
<1>4. Nat \subseteq T
  BY <1>2, <1>3, Induction
<1>5. Added(SubSeq(w, 1, Len(s) + Len(u))) = Added(s) + Added(SubSeq(u, 1, Len(u)))
  BY <1>1, <1>4 DEF T
<1>6. SubSeq(w, 1, Len(w)) = w /\ SubSeq(u, 1, Len(u)) = u
  BY <1>1, AddedPrefix
<1> QED
  BY <1>1, <1>5, <1>6 DEF w

(* Sums of lengths grow.                                                   *)
LEMMA AddedGrows ==
  ASSUME NEW s \in Seq(Nat)
  PROVE  /\ Added(s) \in Nat
         /\ \A i \in 0 .. Len(s) : /\ Added(SubSeq(s, 1, i)) \in Nat
                                   /\ Added(SubSeq(s, 1, i)) <= Added(s)
<1> DEFINE P(i) == Added(SubSeq(s, 1, i))
           T == {n \in Nat : n <= Len(s) =>
                   P(n) \in Nat /\ \A i \in 0 .. n : P(i) <= P(n)}
<1>0. s \in Seq(Int) /\ Len(s) \in Nat
  OBVIOUS
<1>1. /\ P(0) = 0 /\ P(Len(s)) = Added(s)
      /\ \A i \in 1 .. Len(s) : P(i) = P(i - 1) + s[i]
  BY <1>0, AddedPrefix
<1> HIDE DEF P
<1>2. 0 \in T
  BY <1>1
<1>3. ASSUME NEW n \in Nat, n \in T
      PROVE  n + 1 \in T
  <2> SUFFICES ASSUME n + 1 <= Len(s)
               PROVE  P(n + 1) \in Nat /\ \A i \in 0 .. n + 1 : P(i) <= P(n + 1)
    OBVIOUS
  <2>1. n + 1 \in 1 .. Len(s) /\ (n + 1) - 1 = n /\ n <= Len(s) /\ s[n + 1] \in Nat
    BY <1>0
  <2>2. P(n + 1) = P(n) + s[n + 1]
    BY <1>1, <2>1
  <2>3. P(n) \in Nat /\ \A i \in 0 .. n : P(i) <= P(n)
    BY <1>3, <2>1
  <2>4. P(n + 1) \in Nat /\ P(n) <= P(n + 1)
    BY <2>1, <2>2, <2>3
  <2>5. ASSUME NEW i \in 0 .. n + 1
        PROVE  P(i) <= P(n + 1)
    <3>1. CASE i = n + 1
      BY <2>4, <3>1
    <3>2. CASE i \in 0 .. n
      <4>1. P(i) <= P(n) /\ P(i) \in Int
        <5>1. i \in 0 .. Len(s)
          BY <2>1, <3>2
        <5>2. P(i) \in Int
          BY <1>0, <5>1, AddedPrefix DEF P
        <5> QED
          BY <2>3, <3>2, <5>2
      <4> QED
        BY <2>3, <2>4, <4>1
    <3> QED
      BY <3>1, <3>2
  <2> QED
    BY <2>4, <2>5
<1> HIDE DEF T
<1>4. Nat \subseteq T
  BY <1>2, <1>3, Induction
<1>5. Len(s) \in T
  BY <1>0, <1>4
<1>6. ASSUME NEW i \in 0 .. Len(s)
      PROVE  P(i) \in Nat /\ P(i) <= Added(s)
  <2>1. i \in T /\ i <= Len(s) /\ i \in Nat
    BY <1>0, <1>4
  <2> QED
    BY <1>0, <1>1, <1>5, <2>1 DEF T
<1>7. Added(s) \in Nat
  BY <1>0, <1>1, <1>5 DEF T
<1> QED
  BY <1>6, <1>7 DEF P

(* The sum of a few numbers.                                               *)
LEMMA AddedFew ==
  ASSUME NEW s \in Seq(Int)
  PROVE  /\ Len(s) = 0 => Added(s) = 0
         /\ Len(s) = 1 => Added(s) = s[1]
         /\ Len(s) = 2 => Added(s) = s[1] + s[2]
         /\ Len(s) = 3 => Added(s) = s[1] + s[2] + s[3]
         /\ Len(s) = 4 => Added(s) = s[1] + s[2] + s[3] + s[4]
         /\ Len(s) = 5 => Added(s) = s[1] + s[2] + s[3] + s[4] + s[5]
         /\ Len(s) = 6 => Added(s) = s[1] + s[2] + s[3] + s[4] + s[5] + s[6]
<1> DEFINE P(i) == Added(SubSeq(s, 1, i))
<1>1. /\ P(0) = 0 /\ P(Len(s)) = Added(s)
      /\ \A i \in 1 .. Len(s) : P(i) = P(i - 1) + s[i]
  BY AddedPrefix
<1>2. Len(s) \in Nat /\ \A i \in 1 .. Len(s) : s[i] \in Int
  OBVIOUS
<1> HIDE DEF P
<1>3. /\ Len(s) >= 1 => P(1) = s[1] /\ s[1] \in Int
      /\ Len(s) >= 2 => P(2) = P(1) + s[2] /\ s[2] \in Int
      /\ Len(s) >= 3 => P(3) = P(2) + s[3] /\ s[3] \in Int
  BY <1>1, <1>2
<1>4. /\ Len(s) >= 4 => P(4) = P(3) + s[4] /\ s[4] \in Int
      /\ Len(s) >= 5 => P(5) = P(4) + s[5] /\ s[5] \in Int
      /\ Len(s) >= 6 => P(6) = P(5) + s[6] /\ s[6] \in Int
  BY <1>1, <1>2
<1>5. ASSUME Len(s) = 4
      PROVE  Added(s) = s[1] + s[2] + s[3] + s[4]
  <2>1. /\ P(1) = s[1] /\ s[1] \in Int /\ P(2) = P(1) + s[2] /\ s[2] \in Int
        /\ P(3) = P(2) + s[3] /\ s[3] \in Int /\ P(4) = P(3) + s[4] /\ s[4] \in Int
        /\ Added(s) = P(4)
    BY <1>1, <1>3, <1>4, <1>5
  <2> QED
    BY <2>1
<1>6. ASSUME Len(s) = 5
      PROVE  Added(s) = s[1] + s[2] + s[3] + s[4] + s[5]
  <2>1. /\ P(1) = s[1] /\ s[1] \in Int /\ P(2) = P(1) + s[2] /\ s[2] \in Int
        /\ P(3) = P(2) + s[3] /\ s[3] \in Int /\ P(4) = P(3) + s[4] /\ s[4] \in Int
        /\ P(5) = P(4) + s[5] /\ s[5] \in Int /\ Added(s) = P(5)
    BY <1>1, <1>3, <1>4, <1>6
  <2> QED
    BY <2>1
<1>7. ASSUME Len(s) = 6
      PROVE  Added(s) = s[1] + s[2] + s[3] + s[4] + s[5] + s[6]
  <2>1. /\ P(1) = s[1] /\ s[1] \in Int /\ P(2) = P(1) + s[2] /\ s[2] \in Int
        /\ P(3) = P(2) + s[3] /\ s[3] \in Int /\ P(4) = P(3) + s[4] /\ s[4] \in Int
        /\ P(5) = P(4) + s[5] /\ s[5] \in Int /\ P(6) = P(5) + s[6] /\ s[6] \in Int
        /\ Added(s) = P(6)
    BY <1>1, <1>3, <1>4, <1>7
  <2> QED
    BY <2>1
<1>8. /\ Len(s) = 0 => Added(s) = 0
      /\ Len(s) = 1 => Added(s) = s[1]
  BY <1>1, <1>3
<1>9. ASSUME Len(s) = 2
      PROVE  Added(s) = s[1] + s[2]
  BY <1>1, <1>3, <1>9
<1>10. ASSUME Len(s) = 3
       PROVE  Added(s) = s[1] + s[2] + s[3]
  <2>1. /\ P(1) = s[1] /\ s[1] \in Int /\ P(2) = P(1) + s[2] /\ s[2] \in Int
        /\ P(3) = P(2) + s[3] /\ s[3] \in Int /\ Added(s) = P(3)
    BY <1>1, <1>3, <1>10
  <2> QED
    BY <2>1
<1> QED
  BY <1>5, <1>6, <1>7, <1>8, <1>9, <1>10

-----------------------------------------------------------------------------
(* Strings.                                                                *)

LEMMA TotalIs ==
  ASSUME NEW lens \in Seq(Nat)
  PROVE  /\ Total(lens) \in Nat
         /\ Total(SubSeq(lens, 1, 0)) = 0
         /\ \A k \in 1 .. Len(lens) :
              /\ Total(SubSeq(lens, 1, k)) = Total(SubSeq(lens, 1, k - 1)) + (2 + lens[k])
              /\ Total(SubSeq(lens, 1, k - 1)) \in Nat
              /\ Total(SubSeq(lens, 1, k)) <= Total(lens)
<1> DEFINE plus == [k \in DOMAIN lens |-> 2 + lens[k]]
<1>1. /\ Len(lens) \in Nat /\ DOMAIN lens = 1 .. Len(lens)
      /\ \A k \in 1 .. Len(lens) : lens[k] \in Nat
  OBVIOUS
<1>2. plus \in Seq(Nat) /\ Len(plus) = Len(lens)
  BY <1>1
<1>3. \A k \in 1 .. Len(lens) : plus[k] = 2 + lens[k]
  BY <1>1
<1>4. ASSUME NEW k \in 0 .. Len(lens)
      PROVE  Total(SubSeq(lens, 1, k)) = Added(SubSeq(plus, 1, k))
  <2> DEFINE u == SubSeq(lens, 1, k)
             v == SubSeq(plus, 1, k)
  <2>1. Len(u) = k /\ DOMAIN u = 1 .. k /\ \A j \in 1 .. k : u[j] = lens[j]
    BY <1>1
  <2>2. v = [j \in 1 .. k |-> plus[j]]
    BY <1>1, <1>2
  <2> HIDE DEF u, v
  <2>3. [j \in DOMAIN u |-> 2 + u[j]] = v
    BY <1>1, <1>3, <2>1, <2>2
  <2> QED
    BY <2>3 DEF Total, u, v
<1>5. Total(lens) = Added(plus)
  BY DEF Total
<1> HIDE DEF plus
<1>6. plus \in Seq(Int)
  BY <1>2
<1>7. Total(lens) \in Nat
  BY <1>2, <1>5, AddedGrows
<1>8. Total(SubSeq(lens, 1, 0)) = 0
  BY <1>1, <1>4, <1>6, AddedPrefix
<1>9. ASSUME NEW k \in 1 .. Len(lens)
      PROVE  /\ Total(SubSeq(lens, 1, k)) = Total(SubSeq(lens, 1, k - 1)) + (2 + lens[k])
             /\ Total(SubSeq(lens, 1, k - 1)) \in Nat
             /\ Total(SubSeq(lens, 1, k)) <= Total(lens)
  <2>1. k \in 0 .. Len(lens) /\ k - 1 \in 0 .. Len(lens) /\ lens[k] \in Nat
    BY <1>1
  <2>2. Added(SubSeq(plus, 1, k)) = Added(SubSeq(plus, 1, k - 1)) + plus[k]
    BY <1>2, <1>6, AddedPrefix
  <2>3. Added(SubSeq(plus, 1, k - 1)) \in Nat /\ Added(SubSeq(plus, 1, k)) <= Added(plus)
    BY <1>2, <2>1, AddedGrows
  <2>4. plus[k] = 2 + lens[k] /\ Added(SubSeq(plus, 1, k - 1)) \in Nat
    BY <1>3, <2>3
  <2>5. /\ Total(SubSeq(lens, 1, k)) = Added(SubSeq(plus, 1, k))
        /\ Total(SubSeq(lens, 1, k - 1)) = Added(SubSeq(plus, 1, k - 1))
    BY <1>4, <2>1
  <2> QED
    BY <1>5, <2>2, <2>3, <2>4, <2>5
<1> QED
  BY <1>7, <1>8, <1>9

(* The check of each string in turn is one of their total.                 *)
LEMMA FitIs ==
  ASSUME NEW lens \in Seq(Nat), NEW sz \in Int
  PROVE  /\ Total(lens) <= sz => Fit(lens, sz)
         /\ lens # <<>> /\ Fit(lens, sz) => Total(lens) <= sz
<1>1. /\ Len(lens) \in Nat /\ DOMAIN lens = 1 .. Len(lens)
      /\ \A k \in 1 .. Len(lens) : lens[k] \in Nat
      /\ Total(lens) \in Nat
  BY TotalIs
<1>2. ASSUME Total(lens) <= sz, NEW k \in DOMAIN lens
      PROVE  lens[k] + 2 <= sz - Total(SubSeq(lens, 1, k - 1))
  <2>1. /\ Total(SubSeq(lens, 1, k)) = Total(SubSeq(lens, 1, k - 1)) + (2 + lens[k])
        /\ Total(SubSeq(lens, 1, k - 1)) \in Nat
        /\ Total(SubSeq(lens, 1, k)) <= Total(lens)
    BY <1>1, TotalIs
  <2> QED
    BY <1>1, <1>2, <2>1
<1>3. ASSUME lens # <<>>, Fit(lens, sz)
      PROVE  Total(lens) <= sz
  <2> DEFINE n == Len(lens)
  <2>1. n \in 1 .. Len(lens) /\ SubSeq(lens, 1, n) = lens
    BY <1>1, <1>3
  <2>2. /\ Total(SubSeq(lens, 1, n)) = Total(SubSeq(lens, 1, n - 1)) + (2 + lens[n])
        /\ Total(SubSeq(lens, 1, n - 1)) \in Nat
    BY <2>1, TotalIs
  <2>3. lens[n] + 2 <= sz - Total(SubSeq(lens, 1, n - 1))
    BY <1>1, <1>3, <2>1 DEF Fit
  <2>4. lens[n] \in Nat /\ Total(lens) = Total(SubSeq(lens, 1, n - 1)) + (2 + lens[n])
    BY <1>1, <2>1, <2>2
  <2> QED
    BY <2>2, <2>3, <2>4
<1> QED
  BY <1>2, <1>3 DEF Fit
-----------------------------------------------------------------------------
(* Fields of messages.                                                     *)

Fields == Seq(Int \X Int)

(* f lies in g from the i-th place on.                                     *)
At(g, i, f) == \A j \in 1 .. Len(f) : i + j - 1 \in DOMAIN g /\ g[i + j - 1] = f[j]

(* The bytes of the fields of two pieces of a message.                     *)
LEMMA WireIs ==
  ASSUME NEW f \in Fields, NEW g \in Fields
  PROVE  /\ WireSize(f) \in Int
         /\ f \o g \in Fields
         /\ WireSize(f \o g) = WireSize(f) + WireSize(g)
<1> DEFINE w(h) == [i \in DOMAIN h |-> h[i][1]]
<1>1. ASSUME NEW h \in Fields
      PROVE  w(h) \in Seq(Int) /\ WireSize(h) = Added(w(h))
  <2>1. DOMAIN h = 1 .. Len(h) /\ Len(h) \in Nat /\ \A i \in 1 .. Len(h) : h[i][1] \in Int
    BY DEF Fields
  <2> QED
    BY <2>1 DEF WireSize
<1>2. f \o g \in Fields
  BY DEF Fields
<1>3. w(f \o g) = w(f) \o w(g)
  <2>1. /\ Len(f) \in Nat /\ Len(g) \in Nat /\ DOMAIN f = 1 .. Len(f)
        /\ DOMAIN g = 1 .. Len(g) /\ DOMAIN (f \o g) = 1 .. Len(f) + Len(g)
        /\ \A i \in 1 .. Len(f) + Len(g) :
             (f \o g)[i] = IF i <= Len(f) THEN f[i] ELSE g[i - Len(f)]
    BY DEF Fields
  <2>2. Len(w(f)) = Len(f) /\ Len(w(g)) = Len(g)
    BY <2>1
  <2>3. w(f) \in Seq(Int) /\ w(g) \in Seq(Int) /\ w(f \o g) \in Seq(Int)
    BY <1>1, <1>2
  <2>4. Len(w(f \o g)) = Len(f) + Len(g)
    BY <2>1
  <2>5. ASSUME NEW i \in 1 .. Len(f) + Len(g)
        PROVE  w(f \o g)[i] = IF i <= Len(f) THEN w(f)[i] ELSE w(g)[i - Len(f)]
    BY <2>1
  <2> HIDE DEF w
  <2>6. /\ w(f) \o w(g) \in Seq(Int)
        /\ Len(w(f) \o w(g)) = Len(f) + Len(g)
        /\ \A i \in 1 .. Len(f) + Len(g) :
             (w(f) \o w(g))[i] = IF i <= Len(f) THEN w(f)[i] ELSE w(g)[i - Len(f)]
    <3>1. /\ w(f) \o w(g) \in Seq(Int)
          /\ Len(w(f) \o w(g)) = Len(w(f)) + Len(w(g))
          /\ \A i \in 1 .. Len(w(f)) + Len(w(g)) :
               (w(f) \o w(g))[i]
                  = IF i <= Len(w(f)) THEN w(f)[i] ELSE w(g)[i - Len(w(f))]
      BY <2>3, ConcatProperties
    <3> QED
      BY <2>2, <3>1
  <2>7. \A i \in 1 .. Len(w(f \o g)) : w(f \o g)[i] = (w(f) \o w(g))[i]
    BY <2>4, <2>5, <2>6
  <2> QED
    BY <2>3, <2>4, <2>6, <2>7, SeqEqual
<1> HIDE DEF w
<1> QED
  BY <1>1, <1>2, <1>3, AddedConcat, AddedPrefix

(* The bytes of a few fields.                                              *)
LEMMA WireFew ==
  ASSUME NEW f \in Fields
  PROVE  /\ Len(f) = 0 => WireSize(f) = 0
         /\ Len(f) = 1 => WireSize(f) = f[1][1]
         /\ Len(f) = 2 => WireSize(f) = f[1][1] + f[2][1]
         /\ Len(f) = 3 => WireSize(f) = f[1][1] + f[2][1] + f[3][1]
         /\ Len(f) = 4 => WireSize(f) = f[1][1] + f[2][1] + f[3][1] + f[4][1]
         /\ Len(f) = 5 => WireSize(f) = f[1][1] + f[2][1] + f[3][1] + f[4][1] + f[5][1]
         /\ Len(f) = 6 => WireSize(f) = f[1][1] + f[2][1] + f[3][1] + f[4][1] + f[5][1] + f[6][1]
<1> DEFINE w == [i \in DOMAIN f |-> f[i][1]]
<1>1. DOMAIN f = 1 .. Len(f) /\ Len(f) \in Nat /\ \A i \in 1 .. Len(f) : f[i][1] \in Int
  BY DEF Fields
<1>2. w \in Seq(Int) /\ Len(w) = Len(f) /\ \A i \in 1 .. Len(f) : w[i] = f[i][1]
  BY <1>1
<1>3. WireSize(f) = Added(w)
  BY DEF WireSize
<1> HIDE DEF w
<1>4. /\ Len(f) >= 1 => w[1] = f[1][1]
      /\ Len(f) >= 2 => w[2] = f[2][1]
      /\ Len(f) >= 3 => w[3] = f[3][1]
      /\ Len(f) >= 4 => w[4] = f[4][1]
      /\ Len(f) >= 5 => w[5] = f[5][1]
      /\ Len(f) >= 6 => w[6] = f[6][1]
  BY <1>1, <1>2
<1>5. /\ Len(f) = 0 => Added(w) = 0
      /\ Len(f) = 1 => Added(w) = w[1]
      /\ Len(f) = 2 => Added(w) = w[1] + w[2]
      /\ Len(f) = 3 => Added(w) = w[1] + w[2] + w[3]
      /\ Len(f) = 4 => Added(w) = w[1] + w[2] + w[3] + w[4]
      /\ Len(f) = 5 => Added(w) = w[1] + w[2] + w[3] + w[4] + w[5]
      /\ Len(f) = 6 => Added(w) = w[1] + w[2] + w[3] + w[4] + w[5] + w[6]
  BY <1>2, AddedFew
<1>7. ASSUME Len(f) = 0
      PROVE  WireSize(f) = 0
  BY <1>3, <1>4, <1>5, <1>7
<1>8. ASSUME Len(f) = 1
      PROVE  WireSize(f) = f[1][1]
  BY <1>3, <1>4, <1>5, <1>8
<1>9. ASSUME Len(f) = 2
      PROVE  WireSize(f) = f[1][1] + f[2][1]
  BY <1>3, <1>4, <1>5, <1>9
<1>10. ASSUME Len(f) = 3
      PROVE  WireSize(f) = f[1][1] + f[2][1] + f[3][1]
  BY <1>3, <1>4, <1>5, <1>10
<1>11. ASSUME Len(f) = 4
      PROVE  WireSize(f) = f[1][1] + f[2][1] + f[3][1] + f[4][1]
  BY <1>3, <1>4, <1>5, <1>11
<1>12. ASSUME Len(f) = 5
      PROVE  WireSize(f) = f[1][1] + f[2][1] + f[3][1] + f[4][1] + f[5][1]
  BY <1>3, <1>4, <1>5, <1>12
<1>13. ASSUME Len(f) = 6
      PROVE  WireSize(f) = f[1][1] + f[2][1] + f[3][1] + f[4][1] + f[5][1] + f[6][1]
  BY <1>3, <1>4, <1>5, <1>13
<1> QED
  BY <1>7, <1>8, <1>9, <1>10, <1>11, <1>12, <1>13

(* The second piece lies behind the first.                                 *)
LEMMA AtEnd ==
  ASSUME NEW f \in Fields, NEW g \in Fields
  PROVE  At(f \o g, Len(f) + 1, g)
BY DEF At, Fields

(* The fields in front are read as they are.                               *)
LEMMA AtFront ==
  ASSUME NEW f \in Fields, NEW g \in Fields
  PROVE  /\ Len(f \o g) = Len(f) + Len(g)
         /\ \A i \in 1 .. Len(f) : i \in DOMAIN (f \o g) /\ (f \o g)[i] = f[i]
BY DEF Fields


-----------------------------------------------------------------------------
(* Strings among the fields.                                               *)

LEMMA Halves ==
  /\ \A k \in Int : ((2 * k - 1) + 1) \div 2 = k /\ (2 * k - 1) % 2 = 1
  /\ \A k \in Int : (2 * k + 1) \div 2 = k /\ (2 * k) % 2 = 0 /\ (2 * k) \div 2 = k
  /\ \A n \in Nat, i \in Int : i \in 1 .. 2 * n => (i + 1) \div 2 \in 1 .. n
OBVIOUS

(* What w16 keeps of a small number.                                       *)
LEMMA Low16 ==
  ASSUME NEW n \in Nat, n <= 65535
  PROVE  n % 65536 = n
OBVIOUS

(* The two parts of a field.                                               *)
LEMMA FieldIs ==
  ASSUME NEW width, NEW value
  PROVE  F(width, value)[1] = width /\ F(width, value)[2] = value
BY DEF F

(* The two parts of what w16 writes.                                       *)
LEMMA W16Is ==
  ASSUME NEW value
  PROVE  W16(value)[1] = 2 /\ W16(value)[2] = value % 65536
BY DEF F, W16

(* How Fit and Total count a string.                                       *)
LEMMA Plus2 ==
  ASSUME NEW a \in Nat, NEW b \in Nat
  PROVE  (a + 2) + b = a + (2 + b)
OBVIOUS

(* The fields that wcs writes of each string.                              *)
LEMMA StringsAre ==
  ASSUME NEW lens \in Seq(Nat), NEW first \in Int
  PROVE  /\ Strings(lens, first) \in Fields
         /\ Len(Strings(lens, first)) = 2 * Len(lens)
         /\ \A k \in 1 .. Len(lens) :
              /\ 2 * k - 1 \in 1 .. 2 * Len(lens) /\ 2 * k \in 1 .. 2 * Len(lens)
              /\ Strings(lens, first)[2 * k - 1] = W16(lens[k])
              /\ Strings(lens, first)[2 * k] = F(lens[k], first + k - 1)
<1> DEFINE st == Strings(lens, first)
           Body(i) == LET k == (i + 1) \div 2
                      IN  Wcs(lens[k], first + k - 1)[IF i % 2 = 1 THEN 1 ELSE 2]
<1>1. Len(lens) \in Nat /\ \A k \in 1 .. Len(lens) : lens[k] \in Nat
  OBVIOUS
<1>2. st = [i \in 1 .. 2 * Len(lens) |-> Body(i)]
  BY DEF Strings
<1>3. ASSUME NEW i \in 1 .. 2 * Len(lens)
      PROVE  Body(i) \in Int \X Int
  <2>1. PICK k \in 1 .. Len(lens) : k = (i + 1) \div 2
    BY <1>1, Halves
  <2>2. lens[k] \in Nat /\ lens[k] % 65536 \in Int /\ first + k - 1 \in Int
    BY <1>1, <2>1
  <2>3. Wcs(lens[k], first + k - 1)[1] \in Int \X Int
    BY <2>2 DEF Wcs, W16, F
  <2>4. Wcs(lens[k], first + k - 1)[2] \in Int \X Int
    BY <2>2 DEF Wcs, W16, F
  <2> QED
    BY <2>1, <2>3, <2>4
<1>4. ASSUME NEW k \in 1 .. Len(lens)
      PROVE  /\ 2 * k - 1 \in 1 .. 2 * Len(lens) /\ 2 * k \in 1 .. 2 * Len(lens)
             /\ Body(2 * k - 1) = W16(lens[k])
             /\ Body(2 * k) = F(lens[k], first + k - 1)
  <2>1. 2 * k - 1 \in 1 .. 2 * Len(lens) /\ 2 * k \in 1 .. 2 * Len(lens)
    BY <1>1
  <2>2. Wcs(lens[k], first + k - 1)[1] = W16(lens[k])
    BY DEF Wcs
  <2>3. Wcs(lens[k], first + k - 1)[2] = F(lens[k], first + k - 1)
    BY DEF Wcs
  <2> QED
    BY <2>1, <2>2, <2>3, Halves
<1> HIDE DEF Body
<1>5. st \in Fields /\ Len(st) = 2 * Len(lens)
  BY <1>1, <1>2, <1>3 DEF Fields
<1>6. \A i \in 1 .. 2 * Len(lens) : st[i] = Body(i)
  BY <1>2
<1> HIDE DEF st
<1>7. \A k \in 1 .. Len(lens) :
        /\ 2 * k - 1 \in 1 .. 2 * Len(lens) /\ 2 * k \in 1 .. 2 * Len(lens)
        /\ st[2 * k - 1] = W16(lens[k]) /\ st[2 * k] = F(lens[k], first + k - 1)
  BY <1>4, <1>6
<1> QED
  BY <1>5, <1>7 DEF st

(* Strings take as many bytes as Total says.                               *)
LEMMA StringsSize ==
  ASSUME NEW lens \in Seq(Nat), NEW first \in Int
  PROVE  WireSize(Strings(lens, first)) = Total(lens)
<1> DEFINE st == Strings(lens, first)
           w == [i \in DOMAIN st |-> st[i][1]]
           T == {n \in Nat : n <= Len(lens) =>
                   Added(SubSeq(w, 1, 2 * n)) = Total(SubSeq(lens, 1, n))}
<1>1. /\ st \in Fields /\ Len(st) = 2 * Len(lens)
      /\ \A k \in 1 .. Len(lens) :
           /\ 2 * k - 1 \in 1 .. 2 * Len(lens) /\ 2 * k \in 1 .. 2 * Len(lens)
           /\ st[2 * k - 1] = W16(lens[k]) /\ st[2 * k] = F(lens[k], first + k - 1)
  BY StringsAre
<1> HIDE DEF st
<1>11. Len(lens) \in Nat /\ \A k \in 1 .. Len(lens) : lens[k] \in Nat
  OBVIOUS
<1>2. WireSize(st) = Added(w)
  BY DEF WireSize
<1>3. w \in Seq(Int) /\ Len(w) = 2 * Len(lens) /\ \A i \in 1 .. 2 * Len(lens) : w[i] = st[i][1]
  BY <1>1, <1>11 DEF Fields
<1>4. \A k \in 1 .. Len(lens) : w[2 * k - 1] = 2 /\ w[2 * k] = lens[k]
  BY <1>1, <1>3, FieldIs, W16Is
<1> HIDE DEF w
<1>5. 0 \in T
  <2>1. Added(SubSeq(w, 1, 0)) = 0
    BY <1>3, AddedPrefix
  <2>2. Total(SubSeq(lens, 1, 0)) = 0
    BY TotalIs
  <2> QED
    BY <2>1, <2>2
<1>6. ASSUME NEW n \in Nat, n \in T
      PROVE  n + 1 \in T
  <2> SUFFICES ASSUME n + 1 <= Len(lens)
               PROVE  Added(SubSeq(w, 1, 2 * (n + 1))) = Total(SubSeq(lens, 1, n + 1))
    OBVIOUS
  <2> DEFINE k == n + 1
  <2>1. /\ k \in 1 .. Len(lens) /\ k - 1 = n /\ (2 * k - 1) - 1 = 2 * n
        /\ 2 * k - 1 \in 1 .. Len(w) /\ 2 * k \in 1 .. Len(w) /\ n <= Len(lens)
    BY <1>1, <1>3, <1>11
  <2>2. Added(SubSeq(w, 1, 2 * n)) = Total(SubSeq(lens, 1, n))
    BY <1>6, <2>1
  <2> HIDE DEF k
  <2>3. Added(SubSeq(w, 1, 2 * k - 1)) = Added(SubSeq(w, 1, (2 * k - 1) - 1)) + w[2 * k - 1]
    BY <1>3, <2>1, AddedPrefix
  <2>4. Added(SubSeq(w, 1, 2 * k)) = Added(SubSeq(w, 1, 2 * k - 1)) + w[2 * k]
    BY <1>3, <2>1, AddedPrefix
  <2>5. /\ Total(SubSeq(lens, 1, k)) = Total(SubSeq(lens, 1, k - 1)) + (2 + lens[k])
        /\ Total(SubSeq(lens, 1, k - 1)) \in Nat
    BY <2>1, TotalIs
  <2>6. w[2 * k - 1] = 2 /\ w[2 * k] = lens[k] /\ lens[k] \in Nat
    BY <1>4, <1>11, <2>1
  <2>7. Added(SubSeq(w, 1, 2 * k)) = Total(SubSeq(lens, 1, k))
    <3>1. Added(SubSeq(w, 1, (2 * k - 1) - 1)) = Total(SubSeq(lens, 1, k - 1))
      BY <2>1, <2>2
    <3>2. Added(SubSeq(w, 1, 2 * k - 1)) = Total(SubSeq(lens, 1, k - 1)) + 2
      BY <2>3, <2>6, <3>1
    <3>3. Added(SubSeq(w, 1, 2 * k)) = (Total(SubSeq(lens, 1, k - 1)) + 2) + lens[k]
      BY <2>4, <2>6, <3>2
    <3> QED
      BY <2>5, <2>6, <3>3, Plus2
  <2> QED
    BY <2>7 DEF k
<1> HIDE DEF T
<1>7. Len(lens) \in T
  BY <1>5, <1>6, <1>11, Induction
<1>8. Added(SubSeq(w, 1, 2 * Len(lens))) = Total(SubSeq(lens, 1, Len(lens)))
  BY <1>7, <1>11 DEF T
<1>9. SubSeq(lens, 1, Len(lens)) = lens
  OBVIOUS
<1>10. SubSeq(w, 1, Len(w)) = w
  BY <1>3, AddedPrefix
<1> QED
  BY <1>2, <1>3, <1>8, <1>9, <1>10 DEF st

(* What was written is read again.                                         *)
LEMMA StringsRead ==
  ASSUME NEW lens \in Seq(Nat), \A k \in 1 .. Len(lens) : lens[k] <= C9maxstr,
         NEW first \in Int, NEW g, NEW i \in Int, At(g, i, Strings(lens, first))
  PROVE  /\ Lens(g, i, Len(lens)) = lens
         /\ StringsAt(g, i, Len(lens)) = Same(lens, first)
<1> DEFINE st == Strings(lens, first)
<1>1. /\ Len(st) = 2 * Len(lens)
      /\ \A k \in 1 .. Len(lens) :
           /\ 2 * k - 1 \in 1 .. 2 * Len(lens) /\ 2 * k \in 1 .. 2 * Len(lens)
           /\ st[2 * k - 1] = W16(lens[k]) /\ st[2 * k] = F(lens[k], first + k - 1)
  BY StringsAre
<1>6. /\ Len(lens) \in Nat /\ DOMAIN lens = 1 .. Len(lens)
      /\ lens = [k \in 1 .. Len(lens) |-> lens[k]]
      /\ \A k \in 1 .. Len(lens) : lens[k] \in Nat /\ lens[k] <= 65535
  BY DEF C9maxstr
<1>2. \A j \in 1 .. 2 * Len(lens) : i + j - 1 \in DOMAIN g /\ g[i + j - 1] = st[j]
  BY <1>1 DEF At
<1> HIDE DEF st
<1>3. ASSUME NEW k \in 1 .. Len(lens)
      PROVE  /\ Val(g, i + 2 * (k - 1), 2) = lens[k]
             /\ Val(g, i + 2 * k - 1, lens[k]) = first + k - 1
  <2>1. i + 2 * (k - 1) = i + (2 * k - 1) - 1
    OBVIOUS
  <2>2. /\ i + 2 * (k - 1) \in DOMAIN g /\ g[i + 2 * (k - 1)] = W16(lens[k])
        /\ i + 2 * k - 1 \in DOMAIN g /\ g[i + 2 * k - 1] = F(lens[k], first + k - 1)
    BY <1>1, <1>2, <2>1
  <2>3. lens[k] % 65536 = lens[k]
    BY <1>6, Low16
  <2> QED
    BY <2>2, <2>3, FieldIs, W16Is DEF Val
<1>4. Lens(g, i, Len(lens)) = lens
  BY <1>3, <1>6 DEF Lens
<1>5. Texts(g, i, Len(lens)) = [k \in DOMAIN lens |-> first + k - 1]
  BY <1>3, <1>4, <1>6 DEF Texts
<1> QED
  BY <1>4, <1>5 DEF StringsAt, Same


-----------------------------------------------------------------------------
(* Messages.                                                               *)

LEMMA VIs ==
  /\ V.fid \in Int /\ V.newfid \in Int /\ V.afid \in Int /\ V.offset \in Int
  /\ V.data \in Int /\ V.mode \in Int /\ V.perm \in Int /\ V.qid \in Int
  /\ V.iounit \in Int /\ V.stat \in Int /\ V.nochange \in Int /\ V.oldtag \in Int
  /\ V.known \in Int /\ V.longer \in Int /\ V.unknown \in Int
  /\ V.known # V.unknown /\ V.longer # V.unknown /\ V.oldtag % 65536 = V.oldtag
BY DEF V

(* T and R give a message, or say that it does not fit.                    *)
LEMMA BegunIs ==
  ASSUME NEW msize \in Int, NEW type, NEW size \in Int, NEW f
  PROVE  LET m == Begun(msize, type, size, f)
         IN  /\ m.err = "ok" => /\ m.type = type /\ m.f = f
                                /\ m.size = size + 7 /\ size <= msize - 7
             /\ m.err # "ok" => m.err = "C9Esize" /\ size > msize - 7
<1>1. CASE size > msize - 4 - 1 - 2
  <2>1. Begun(msize, type, size, f).err = "C9Esize" /\ size > msize - 7
    BY <1>1 DEF Begun, Refused
  <2> QED
    BY <2>1
<1>2. CASE ~ (size > msize - 4 - 1 - 2)
  <2> DEFINE m == [err |-> "ok", type |-> type, size |-> size + 4 + 1 + 2, f |-> f]
  <2>1. Begun(msize, type, size, f) = m
    BY <1>2 DEF Begun
  <2>2. m.err = "ok" /\ m.type = type /\ m.f = f /\ m.size = size + 4 + 1 + 2
    OBVIOUS
  <2>3. size + 4 + 1 + 2 = size + 7 /\ size <= msize - 7
    BY <1>2
  <2> QED
    BY <2>1, <2>2, <2>3
<1> QED
  BY <1>1, <1>2

(* The error of a call that writes nothing.                                *)
LEMMA RefusedIs ==
  ASSUME NEW e
  PROVE  Refused(e).err = e
BY DEF Refused

(* The case of s9proc for each type.                                       *)
LEMMA GotTIs ==
  ASSUME NEW p, NEW msize
  PROVE  /\ p.type = "Tread" => GotT(p, msize) = GotTread(p.size - 4 - 3, p.f, msize)
         /\ p.type = "Twrite" => GotT(p, msize) = GotTwrite(p.size - 4 - 3, p.f, msize)
         /\ p.type \in {"Tclunk", "Tstat", "Tremove"} =>
              GotT(p, msize) = GotFid(p.size - 4 - 3, p.f)
         /\ p.type = "Twalk" => GotT(p, msize) = GotTwalk(p.size - 4 - 3, p.f)
         /\ p.type = "Topen" => GotT(p, msize) = GotTopen(p.size - 4 - 3, p.f)
         /\ p.type = "Twstat" => GotT(p, msize) = GotTwstat(p.size - 4 - 3, p.f)
         /\ p.type = "Tcreate" => GotT(p, msize) = GotTcreate(p.size - 4 - 3, p.f)
         /\ p.type = "Tflush" => GotT(p, msize) = GotTflush(p.size - 4 - 3, p.f)
         /\ p.type = "Tattach" => GotT(p, msize) = GotTattach(p.size - 4 - 3, p.f)
         /\ p.type = "Tauth" => GotT(p, msize) = GotTauth(p.size - 4 - 3, p.f)
BY DEF GotT

(* Fields and, behind them, strings.                                       *)
LEMMA WithStrings ==
  ASSUME NEW f \in Fields, NEW lens \in Seq(Nat),
         \A k \in 1 .. Len(lens) : lens[k] <= C9maxstr
  PROVE  LET g == f \o Strings(lens, 1)
         IN  /\ g \in Fields /\ Len(g) = Len(f) + 2 * Len(lens)
             /\ WireSize(g) = WireSize(f) + Total(lens)
             /\ Lens(g, Len(f) + 1, Len(lens)) = lens
             /\ StringsAt(g, Len(f) + 1, Len(lens)) = Same(lens, 1)
             /\ \A i \in 1 .. Len(f) : Val(g, i, f[i][1]) = f[i][2]
<1> DEFINE st == Strings(lens, 1)
           g == f \o st
<1>1. st \in Fields /\ Len(st) = 2 * Len(lens) /\ WireSize(st) = Total(lens)
  BY StringsAre, StringsSize
<1> HIDE DEF st
<1>2. g \in Fields /\ WireSize(g) = WireSize(f) + Total(lens)
  BY <1>1, WireIs
<1>3. At(g, Len(f) + 1, st) /\ Len(g) = Len(f) + 2 * Len(lens) /\ Len(f) + 1 \in Int
  <2>1. At(g, Len(f) + 1, st)
    BY <1>1, AtEnd
  <2>2. Len(g) = Len(f) + Len(st)
    BY <1>1, AtFront
  <2>3. Len(f) \in Nat
    BY DEF Fields
  <2> QED
    BY <1>1, <2>1, <2>2, <2>3
<1> HIDE DEF g
<1>4. /\ Lens(g, Len(f) + 1, Len(lens)) = lens
      /\ StringsAt(g, Len(f) + 1, Len(lens)) = Same(lens, 1)
  BY <1>3, StringsRead DEF st
<1>5. \A i \in 1 .. Len(f) : Val(g, i, f[i][1]) = f[i][2]
  <2>1. \A i \in 1 .. Len(f) : i \in DOMAIN g /\ g[i] = f[i]
    BY <1>1, AtFront DEF g
  <2> QED
    BY <2>1 DEF Val
<1> QED
  BY <1>2, <1>3, <1>4, <1>5 DEF g, st

(* The sums of two and of four lengths.                                    *)
LEMMA TotalFew ==
  ASSUME NEW lens \in Seq(Nat)
  PROVE  /\ Len(lens) = 1 => Total(lens) = 2 + lens[1]
         /\ Len(lens) = 2 => Total(lens) = (2 + lens[1]) + (2 + lens[2])
         /\ Len(lens) = 4 => Total(lens) \in Nat /\ Total(lens) >= 8
<1> DEFINE plus == [k \in DOMAIN lens |-> 2 + lens[k]]
<1>1. /\ plus \in Seq(Int) /\ Len(plus) = Len(lens) /\ Len(lens) \in Nat
      /\ \A k \in 1 .. Len(lens) : plus[k] = 2 + lens[k] /\ lens[k] \in Nat
  OBVIOUS
<1>2. Total(lens) = Added(plus)
  BY DEF Total
<1> HIDE DEF plus
<1>3. /\ Len(lens) = 1 => Added(plus) = plus[1]
      /\ Len(lens) = 2 => Added(plus) = plus[1] + plus[2]
      /\ Len(lens) = 4 => Added(plus) = plus[1] + plus[2] + plus[3] + plus[4]
  BY <1>1, AddedFew
<1>4. ASSUME Len(lens) = 4
      PROVE  Total(lens) \in Nat /\ Total(lens) >= 8
  <2>1. ASSUME NEW k \in 1 .. 4
        PROVE  plus[k] \in Nat /\ plus[k] >= 2
    <3>1. plus[k] = 2 + lens[k] /\ lens[k] \in Nat
      BY <1>1, <1>4
    <3> QED
      BY <3>1
  <2>2. /\ plus[1] \in Nat /\ plus[1] >= 2 /\ plus[2] \in Nat /\ plus[2] >= 2
        /\ plus[3] \in Nat /\ plus[3] >= 2 /\ plus[4] \in Nat /\ plus[4] >= 2
    BY <2>1
  <2> QED
    BY <1>2, <1>3, <1>4, <2>2
<1>5. ASSUME Len(lens) = 1
      PROVE  Total(lens) = 2 + lens[1]
  <2>1. plus[1] = 2 + lens[1]
    BY <1>1, <1>5
  <2> QED
    BY <1>2, <1>3, <1>5, <2>1
<1>6. ASSUME Len(lens) = 2
      PROVE  Total(lens) = (2 + lens[1]) + (2 + lens[2])
  <2>1. plus[1] = 2 + lens[1] /\ plus[2] = 2 + lens[2]
    BY <1>1, <1>6
  <2> QED
    BY <1>2, <1>3, <1>6, <2>1
<1> QED
  BY <1>4, <1>5, <1>6


-----------------------------------------------------------------------------
(* The requests.                                                           *)

(* What the server relies on when it answers.                              *)
Shaped(type, v, msize) ==
  /\ type = "Twalk" => (Len(v) - 2) \div 2 \in 0 .. 16
  /\ type = "Tread" => v[3] \in Nat /\ v[3] <= msize - 11
  /\ type = "Twrite" => v[3] \in Nat /\ v[3] <= msize

(* The message m, which means v, is one that a server takes as that.       *)
Understood(m, v, msize) ==
  /\ m.type \in Requests
  /\ m.size \in Nat /\ m.size = 7 + WireSize(m.f) /\ m.size >= 7 /\ m.size <= msize
  /\ IF GotT(m, msize).err = "ok" THEN GotT(m, msize).v = v
     ELSE Rejected([type |-> m.type, v |-> v])
  /\ Shaped(m.type, v, msize)

(* A field is read as it was written, if the widths agree.                 *)
LEMMA ValIs ==
  ASSUME NEW f \in Fields, NEW i \in 1 .. Len(f),
         NEW width, NEW value, f[i] = F(width, value)
  PROVE  Val(f, i, width) = value
<1>1. i \in DOMAIN f
  BY DEF Fields
<1> QED
  BY <1>1, FieldIs DEF Val

(* c9open and s9proc.                                                      *)
LEMMA UnderstoodOpen ==
  ASSUME NEW msize \in Nat, C9open(msize).err = "ok"
  PROVE  Understood(C9open(msize), <<V.fid, V.mode>>, msize)
<1> DEFINE f == <<F(4, V.fid), F(1, V.mode)>>
           m == C9open(msize)
<1>1. f \in Fields /\ Len(f) = 2 /\ WireSize(f) = 5
  <2>1. f \in Fields /\ Len(f) = 2
    BY VIs DEF Fields, F, W16
  <2>2. f[1][1] = 4 /\ f[2][1] = 1
    BY DEF F, W16
  <2> QED
    BY <2>1, <2>2, WireFew
<1>2. m = Begun(msize, "Topen", 5, f)
  BY DEF C9open
<1>3. Val(f, 1, 4) = V.fid /\ Val(f, 2, 1) = V.mode
  BY VIs DEF f, Val, F, W16
<1> HIDE DEF f, m
<1>4. m.type = "Topen" /\ m.f = f /\ m.size = 12 /\ m.size <= msize
  BY <1>2, BegunIs DEF m
<1>5. GotT(m, msize) = GotTopen(5, f)
  BY <1>4, GotTIs
<1>6. GotTopen(5, f).err = "ok" /\ GotTopen(5, f).v = <<V.fid, V.mode>>
  BY <1>3 DEF GotTopen, Got
<1>7. "Topen" \in Requests /\ m.size = 7 + WireSize(m.f) /\ m.size >= 7
  BY <1>1, <1>4 DEF Requests
<1> QED
  BY <1>4, <1>5, <1>6, <1>7 DEF Understood, Shaped, m

(* c9flush and s9proc.                                                     *)
LEMMA UnderstoodFlush ==
  ASSUME NEW msize \in Nat, C9flush(msize).err = "ok"
  PROVE  Understood(C9flush(msize), <<V.oldtag>>, msize)
<1> DEFINE f == <<W16(V.oldtag)>>
           m == C9flush(msize)
<1>1. f \in Fields /\ Len(f) = 1 /\ WireSize(f) = 2
  <2>1. f \in Fields /\ Len(f) = 1
    BY VIs DEF Fields, F, W16
  <2>2. f[1][1] = 2
    BY DEF F, W16
  <2> QED
    BY <2>1, <2>2, WireFew
<1>2. m = Begun(msize, "Tflush", 2, f)
  BY DEF C9flush
<1>3. Val(f, 1, 2) = V.oldtag
  BY VIs DEF f, Val, F, W16
<1> HIDE DEF f, m
<1>4. m.type = "Tflush" /\ m.f = f /\ m.size = 9 /\ m.size <= msize
  BY <1>2, BegunIs DEF m
<1>5. GotT(m, msize) = GotTflush(2, f)
  BY <1>4, GotTIs
<1>6. GotTflush(2, f).err = "ok" /\ GotTflush(2, f).v = <<V.oldtag>>
  BY <1>3 DEF GotTflush, Got
<1>7. "Tflush" \in Requests /\ m.size = 7 + WireSize(m.f) /\ m.size >= 7
  BY <1>1, <1>4 DEF Requests
<1> QED
  BY <1>4, <1>5, <1>6, <1>7 DEF Understood, Shaped, m

(* c9clunk and s9proc.                                                     *)
LEMMA UnderstoodClunk ==
  ASSUME NEW msize \in Nat, C9clunk(msize).err = "ok"
  PROVE  Understood(C9clunk(msize), <<V.fid>>, msize)
<1> DEFINE f == <<F(4, V.fid)>>
           m == C9clunk(msize)
<1>1. f \in Fields /\ Len(f) = 1 /\ WireSize(f) = 4
  <2>1. f \in Fields /\ Len(f) = 1
    BY VIs DEF Fields, F, W16
  <2>2. f[1][1] = 4
    BY DEF F, W16
  <2> QED
    BY <2>1, <2>2, WireFew
<1>2. m = Begun(msize, "Tclunk", 4, f)
  BY DEF C9clunk
<1>3. Val(f, 1, 4) = V.fid
  BY VIs DEF f, Val, F, W16
<1> HIDE DEF f, m
<1>4. m.type = "Tclunk" /\ m.f = f /\ m.size = 11 /\ m.size <= msize
  BY <1>2, BegunIs DEF m
<1>5. GotT(m, msize) = GotFid(4, f)
  BY <1>4, GotTIs
<1>6. GotFid(4, f).err = "ok" /\ GotFid(4, f).v = <<V.fid>>
  BY <1>3 DEF GotFid, Got
<1>7. "Tclunk" \in Requests /\ m.size = 7 + WireSize(m.f) /\ m.size >= 7
  BY <1>1, <1>4 DEF Requests
<1> QED
  BY <1>4, <1>5, <1>6, <1>7 DEF Understood, Shaped, m

(* c9remove and s9proc.                                                    *)
LEMMA UnderstoodRemove ==
  ASSUME NEW msize \in Nat, C9remove(msize).err = "ok"
  PROVE  Understood(C9remove(msize), <<V.fid>>, msize)
<1> DEFINE f == <<F(4, V.fid)>>
           m == C9remove(msize)
<1>1. f \in Fields /\ Len(f) = 1 /\ WireSize(f) = 4
  <2>1. f \in Fields /\ Len(f) = 1
    BY VIs DEF Fields, F, W16
  <2>2. f[1][1] = 4
    BY DEF F, W16
  <2> QED
    BY <2>1, <2>2, WireFew
<1>2. m = Begun(msize, "Tremove", 4, f)
  BY DEF C9remove
<1>3. Val(f, 1, 4) = V.fid
  BY VIs DEF f, Val, F, W16
<1> HIDE DEF f, m
<1>4. m.type = "Tremove" /\ m.f = f /\ m.size = 11 /\ m.size <= msize
  BY <1>2, BegunIs DEF m
<1>5. GotT(m, msize) = GotFid(4, f)
  BY <1>4, GotTIs
<1>6. GotFid(4, f).err = "ok" /\ GotFid(4, f).v = <<V.fid>>
  BY <1>3 DEF GotFid, Got
<1>7. "Tremove" \in Requests /\ m.size = 7 + WireSize(m.f) /\ m.size >= 7
  BY <1>1, <1>4 DEF Requests
<1> QED
  BY <1>4, <1>5, <1>6, <1>7 DEF Understood, Shaped, m

(* c9stat and s9proc.                                                      *)
LEMMA UnderstoodStat ==
  ASSUME NEW msize \in Nat, C9stat(msize).err = "ok"
  PROVE  Understood(C9stat(msize), <<V.fid>>, msize)
<1> DEFINE f == <<F(4, V.fid)>>
           m == C9stat(msize)
<1>1. f \in Fields /\ Len(f) = 1 /\ WireSize(f) = 4
  <2>1. f \in Fields /\ Len(f) = 1
    BY VIs DEF Fields, F, W16
  <2>2. f[1][1] = 4
    BY DEF F, W16
  <2> QED
    BY <2>1, <2>2, WireFew
<1>2. m = Begun(msize, "Tstat", 4, f)
  BY DEF C9stat
<1>3. Val(f, 1, 4) = V.fid
  BY VIs DEF f, Val, F, W16
<1> HIDE DEF f, m
<1>4. m.type = "Tstat" /\ m.f = f /\ m.size = 11 /\ m.size <= msize
  BY <1>2, BegunIs DEF m
<1>5. GotT(m, msize) = GotFid(4, f)
  BY <1>4, GotTIs
<1>6. GotFid(4, f).err = "ok" /\ GotFid(4, f).v = <<V.fid>>
  BY <1>3 DEF GotFid, Got
<1>7. "Tstat" \in Requests /\ m.size = 7 + WireSize(m.f) /\ m.size >= 7
  BY <1>1, <1>4 DEF Requests
<1> QED
  BY <1>4, <1>5, <1>6, <1>7 DEF Understood, Shaped, m
(* The smaller of two numbers.                                             *)
LEMMA LeastIs ==
  ASSUME NEW a \in Nat, NEW b \in Nat
  PROVE  /\ Least(a, b) \in Nat /\ Least(a, b) <= a /\ Least(a, b) <= b
         /\ Least(a, b) \in {a, b} /\ (a <= b => Least(a, b) = a) /\ (b <= a => Least(a, b) = b)
BY DEF Least

(* c9read and s9proc, which lowers the count to what fits.                 *)
LEMMA UnderstoodRead ==
  ASSUME NEW msize \in Nat, NEW count \in Nat, C9read(msize, count).err = "ok"
  PROVE  Understood(C9read(msize, count),
                    <<V.fid, V.offset, Least(count, msize - 4 - 4 - 1 - 2)>>, msize)
<1> DEFINE f == <<F(4, V.fid), F(8, V.offset), F(4, count)>>
           m == C9read(msize, count)
           v == <<V.fid, V.offset, Least(count, msize - 4 - 4 - 1 - 2)>>
<1>1. f \in Fields /\ Len(f) = 3 /\ WireSize(f) = 16
  <2>1. f \in Fields /\ Len(f) = 3
    BY VIs DEF Fields, F
  <2>2. f[1][1] = 4 /\ f[2][1] = 8 /\ f[3][1] = 4
    BY DEF F
  <2> QED
    BY <2>1, <2>2, WireFew
<1>2. m = Begun(msize, "Tread", 16, f)
  BY DEF C9read
<1>3. Val(f, 1, 4) = V.fid /\ Val(f, 2, 8) = V.offset /\ Val(f, 3, 4) = count
  BY DEF f, Val, F
<1> HIDE DEF f, m
<1>4. m.type = "Tread" /\ m.f = f /\ m.size = 23 /\ m.size <= msize
  BY <1>2, BegunIs DEF m
<1>5. GotT(m, msize) = GotTread(16, f, msize)
  BY <1>4, GotTIs
<1>6. GotTread(16, f, msize).err = "ok" /\ GotTread(16, f, msize).v = v
  BY <1>3 DEF GotTread, Got
<1>7. "Tread" \in Requests /\ m.size = 7 + WireSize(m.f) /\ m.size >= 7
  BY <1>1, <1>4 DEF Requests
<1>8. v[3] \in Nat /\ v[3] <= msize - 11
  <2>1. msize - 4 - 4 - 1 - 2 \in Nat /\ msize - 4 - 4 - 1 - 2 = msize - 11
    BY <1>4
  <2>2. v[3] = Least(count, msize - 4 - 4 - 1 - 2)
    OBVIOUS
  <2> HIDE DEF v
  <2> QED
    BY <2>1, <2>2, LeastIs
<1> HIDE DEF v
<1>9. Understood(m, v, msize)
  BY <1>4, <1>5, <1>6, <1>7, <1>8 DEF Understood, Shaped
<1> QED
  BY <1>9 DEF m, v

(* c9write and s9proc, whose count is that of the data.                    *)
LEMMA UnderstoodWrite ==
  ASSUME NEW msize \in Nat, NEW count \in Nat, C9write(msize, count).err = "ok"
  PROVE  Understood(C9write(msize, count), <<V.fid, V.offset, count, V.data>>, msize)
<1> DEFINE f == <<F(4, V.fid), F(8, V.offset), F(4, count), F(count, V.data)>>
           m == C9write(msize, count)
           v == <<V.fid, V.offset, count, V.data>>
<1>1. f \in Fields /\ Len(f) = 4 /\ WireSize(f) = 16 + count
  <2>1. f \in Fields /\ Len(f) = 4
    BY VIs DEF Fields, F
  <2>2. f[1][1] = 4 /\ f[2][1] = 8 /\ f[3][1] = 4 /\ f[4][1] = count
    BY DEF F
  <2> QED
    BY <2>1, <2>2, WireFew
<1>2. m = Begun(msize, "Twrite", 4 + 8 + 4 + count, f)
  BY DEF C9write
<1>3. /\ Val(f, 1, 4) = V.fid /\ Val(f, 2, 8) = V.offset
      /\ Val(f, 3, 4) = count /\ Val(f, 4, count) = V.data
  BY DEF f, Val, F
<1> HIDE DEF f, m
<1>4. m.type = "Twrite" /\ m.f = f /\ m.size = 23 + count /\ m.size <= msize
  <2>1. 4 + 8 + 4 + count \in Int
    OBVIOUS
  <2> QED
    BY <1>2, <2>1, BegunIs DEF m
<1>5. GotT(m, msize) = GotTwrite(16 + count, f, msize)
  <2>1. m.size - 4 - 3 = 16 + count
    BY <1>4
  <2> QED
    BY <1>4, <2>1, GotTIs
<1>6. GotTwrite(16 + count, f, msize).err = "ok" /\ GotTwrite(16 + count, f, msize).v = v
  <2>1. Least(count, msize - 4 - 4 - 1 - 2) = count
    BY <1>4 DEF Least
  <2>2. 16 + count >= 4 + 8 + 4 /\ count >= 16 + count - 4 - 8 - 4
    OBVIOUS
  <2> QED
    BY <1>3, <2>1, <2>2 DEF GotTwrite, Got
<1>7. "Twrite" \in Requests /\ m.size = 7 + WireSize(m.f) /\ m.size >= 7
  BY <1>1, <1>4 DEF Requests
<1>8. v[3] \in Nat /\ v[3] <= msize
  BY <1>4
<1> HIDE DEF v
<1>9. Understood(m, v, msize)
  BY <1>4, <1>5, <1>6, <1>7, <1>8 DEF Understood, Shaped
<1> QED
  BY <1>9 DEF m, v

(* A sequence that is two others in a row.                                 *)
LEMMA SameSeqs ==
  ASSUME NEW S, NEW s \in Seq(S), NEW u \in Seq(S), NEW w \in Seq(S),
         Len(w) = Len(s) + Len(u), \A i \in 1 .. Len(s) : w[i] = s[i],
         \A i \in 1 .. Len(u) : w[Len(s) + i] = u[i]
  PROVE  s \o u = w
<1>1. /\ s \o u \in Seq(S) /\ Len(s \o u) = Len(s) + Len(u)
      /\ \A i \in 1 .. Len(s) + Len(u) : (s \o u)[i] = IF i <= Len(s) THEN s[i] ELSE u[i - Len(s)]
  BY ConcatProperties
<1>2. Len(s) \in Nat /\ Len(u) \in Nat
  OBVIOUS
<1>3. ASSUME NEW i \in 1 .. Len(s) + Len(u)
      PROVE  (s \o u)[i] = w[i]
  <2>1. CASE i <= Len(s)
    BY <1>1, <1>2, <2>1
  <2>2. CASE ~ (i <= Len(s))
    <3>1. i - Len(s) \in 1 .. Len(u) /\ Len(s) + (i - Len(s)) = i
      BY <1>2, <2>2
    <3>2. w[Len(s) + (i - Len(s))] = u[i - Len(s)]
      BY <3>1
    <3> QED
      BY <1>1, <2>2, <3>1, <3>2
  <2> QED
    BY <2>1, <2>2
<1>4. \A i \in 1 .. Len(s \o u) : (s \o u)[i] = w[i]
  BY <1>1, <1>3
<1> QED
  BY <1>1, <1>4, SeqEqual

(* Three fields, in two pieces.                                            *)
LEMMA Joined3 ==
  ASSUME NEW a, NEW b, NEW c
  PROVE  <<a>> \o <<b, c>> = <<a, b, c>>
<1> DEFINE s == <<a>>
           u == <<b, c>>
           w == <<a, b, c>>
           S == {a, b, c}
<1>1. s \in Seq(S) /\ u \in Seq(S) /\ w \in Seq(S)
  OBVIOUS
<1>2. Len(s) = 1 /\ Len(u) = 2 /\ Len(w) = 3
  OBVIOUS
<1>3. s[1] = w[1] /\ w[2] = u[1] /\ w[3] = u[2]
  OBVIOUS
<1> HIDE DEF s, u, w, S
<1>4. \A i \in 1 .. Len(s) : w[i] = s[i]
  BY <1>2, <1>3
<1>5. \A i \in 1 .. Len(u) : w[Len(s) + i] = u[i]
  BY <1>2, <1>3
<1>6. Len(w) = Len(s) + Len(u)
  BY <1>2
<1>7. s \o u = w
  BY <1>1, <1>4, <1>5, <1>6, SameSeqs
<1> QED
  BY <1>7 DEF s, u, w

(* Five fields, in three pieces.                                           *)
LEMMA Joined5 ==
  ASSUME NEW a, NEW b, NEW c, NEW d, NEW e
  PROVE  <<a>> \o <<b, c>> \o <<d, e>> = <<a, b, c, d, e>>
<1> DEFINE s == <<a, b, c>>
           u == <<d, e>>
           w == <<a, b, c, d, e>>
           S == {a, b, c, d, e}
<1>1. s \in Seq(S) /\ u \in Seq(S) /\ w \in Seq(S)
  OBVIOUS
<1>2. Len(s) = 3 /\ Len(u) = 2 /\ Len(w) = 5
  OBVIOUS
<1>3. s[1] = w[1] /\ s[2] = w[2] /\ s[3] = w[3] /\ w[4] = u[1] /\ w[5] = u[2]
  OBVIOUS
<1> HIDE DEF s, u, w, S
<1>4. \A i \in 1 .. Len(s) : w[i] = s[i]
  BY <1>2, <1>3
<1>5. \A i \in 1 .. Len(u) : w[Len(s) + i] = u[i]
  BY <1>2, <1>3
<1>6. Len(w) = Len(s) + Len(u)
  BY <1>2
<1>7. s \o u = w
  BY <1>1, <1>4, <1>5, <1>6, SameSeqs
<1> QED
  BY <1>7, Joined3 DEF s, u, w

(* c9create and s9proc.                                                    *)
LEMMA UnderstoodCreate ==
  ASSUME NEW msize \in Nat, NEW len \in Nat, C9create(msize, len).err = "ok"
  PROVE  Understood(C9create(msize, len), <<V.fid, len, 1, V.perm, V.mode>>, msize)
<1> DEFINE f == <<F(4, V.fid)>> \o Wcs(len, 1) \o <<F(4, V.perm), F(1, V.mode)>>
           m == C9create(msize, len)
           v == <<V.fid, len, 1, V.perm, V.mode>>
<1>1. len >= 1 /\ len <= 65535 /\ len % 65536 = len
  <2>1. ASSUME len = 0 \/ len > C9maxstr
        PROVE  FALSE
    <3>1. m = Refused("C9Epath")
      BY <2>1 DEF C9create
    <3> QED
      BY <3>1, RefusedIs
  <2> QED
    BY <2>1, Low16 DEF C9maxstr
<1>2. f = <<F(4, V.fid), F(2, len), F(len, 1), F(4, V.perm), F(1, V.mode)>>
  <2>1. Wcs(len, 1) = <<F(2, len), F(len, 1)>>
    BY <1>1 DEF Wcs, W16
  <2>2. f = <<F(4, V.fid)>> \o <<F(2, len), F(len, 1)>> \o <<F(4, V.perm), F(1, V.mode)>>
    BY <2>1, Zenon
  <2>3. <<F(4, V.fid)>> \o <<F(2, len), F(len, 1)>> \o <<F(4, V.perm), F(1, V.mode)>>
          = <<F(4, V.fid), F(2, len), F(len, 1), F(4, V.perm), F(1, V.mode)>>
    BY Joined5, Zenon
  <2> QED
    BY <2>2, <2>3, Zenon
<1> HIDE DEF f
<1>3. f \in Fields /\ Len(f) = 5 /\ WireSize(f) = 11 + len
  <2>1. f \in Fields /\ Len(f) = 5
    BY <1>2, VIs DEF Fields, F
  <2>2. f[1][1] = 4 /\ f[2][1] = 2 /\ f[3][1] = len /\ f[4][1] = 4 /\ f[5][1] = 1
    BY <1>2 DEF F
  <2> QED
    BY <2>1, <2>2, WireFew
<1>4. m = Begun(msize, "Tcreate", 4 + 2 + len + 4 + 1, f)
  BY <1>1 DEF C9create, C9maxstr, f
<1>5. /\ Val(f, 1, 4) = V.fid /\ Val(f, 2, 2) = len /\ Val(f, 3, len) = 1
      /\ Val(f, 4, 4) = V.perm /\ Val(f, 5, 1) = V.mode
  BY <1>2 DEF Val, F
<1> HIDE DEF m
<1>6. m.type = "Tcreate" /\ m.f = f /\ m.size = 18 + len /\ m.size <= msize
  <2>1. 4 + 2 + len + 4 + 1 \in Int
    OBVIOUS
  <2> QED
    BY <1>4, <2>1, BegunIs DEF m
<1>7. GotT(m, msize) = GotTcreate(11 + len, f)
  <2>1. m.size - 4 - 3 = 11 + len
    BY <1>6
  <2> QED
    BY <1>6, <2>1, GotTIs
<1>8. GotTcreate(11 + len, f).err = "ok" /\ GotTcreate(11 + len, f).v = v
  <2>1. 11 + len >= 4 + 2 + 4 + 1 /\ len >= 1 /\ len <= 11 + len - 4 - 2 - 4 - 1
    BY <1>1
  <2> QED
    BY <1>5, <2>1 DEF GotTcreate, Got
<1>9. "Tcreate" \in Requests /\ m.size = 7 + WireSize(m.f) /\ m.size >= 7
  BY <1>3, <1>6 DEF Requests
<1> HIDE DEF v
<1>10. Understood(m, v, msize)
  BY <1>6, <1>7, <1>8, <1>9 DEF Understood, Shaped
<1> QED
  BY <1>10 DEF m, v


(* What lies where in two sequences, one after the other.                  *)
LEMMA Behind ==
  ASSUME NEW S, NEW s \in Seq(S), NEW u \in Seq(S)
  PROVE  /\ s \o u \in Seq(S) /\ Len(s \o u) = Len(s) + Len(u)
         /\ \A k \in 1 .. Len(s) : (s \o u)[k] = s[k]
         /\ \A k \in 1 .. Len(u) : (s \o u)[Len(s) + k] = u[k]
<1>1. /\ s \o u \in Seq(S) /\ Len(s \o u) = Len(s) + Len(u)
      /\ \A i \in 1 .. Len(s) + Len(u) : (s \o u)[i] = IF i <= Len(s) THEN s[i] ELSE u[i - Len(s)]
  BY ConcatProperties
<1>2. Len(s) \in Nat /\ Len(u) \in Nat
  OBVIOUS
<1>3. \A k \in 1 .. Len(s) : (s \o u)[k] = s[k]
  BY <1>1, <1>2
<1>4. ASSUME NEW k \in 1 .. Len(u)
      PROVE  (s \o u)[Len(s) + k] = u[k]
  <2>1. Len(s) + k \in 1 .. Len(s) + Len(u) /\ ~ (Len(s) + k <= Len(s)) /\ (Len(s) + k) - Len(s) = k
    BY <1>2
  <2> QED
    BY <1>1, <2>1
<1> QED
  BY <1>1, <1>3, <1>4

(* Two values behind one or two others.                                    *)
LEMMA BehindFew ==
  ASSUME NEW a \in Int, NEW b \in Int, NEW w \in Seq(Int), Len(w) >= 2
  PROVE  /\ (<<a>> \o w)[2] = w[1] /\ (<<a>> \o w)[3] = w[2]
         /\ (<<a, b>> \o w)[3] = w[1] /\ (<<a, b>> \o w)[4] = w[2]
<1> DEFINE x == <<a>>
           y == <<a, b>>
<1>1. /\ x \in Seq(Int) /\ Len(x) = 1 /\ y \in Seq(Int) /\ Len(y) = 2
      /\ 1 \in 1 .. Len(w) /\ 2 \in 1 .. Len(w)
  OBVIOUS
<1> HIDE DEF x, y
<1>2. \A k \in 1 .. Len(w) : (x \o w)[Len(x) + k] = w[k]
  <2>1. x \in Seq(Int)
    BY <1>1
  <2> QED
    BY <2>1, Behind
<1>3. \A k \in 1 .. Len(w) : (y \o w)[Len(y) + k] = w[k]
  <2>1. y \in Seq(Int)
    BY <1>1
  <2> QED
    BY <2>1, Behind
<1>4. Len(x) + 1 = 2 /\ Len(x) + 2 = 3 /\ Len(y) + 1 = 3 /\ Len(y) + 2 = 4
  BY <1>1
<1>5. (x \o w)[2] = w[1] /\ (x \o w)[3] = w[2]
  BY <1>1, <1>2, <1>4
<1>6. (y \o w)[3] = w[1] /\ (y \o w)[4] = w[2]
  BY <1>1, <1>3, <1>4
<1> QED
  BY <1>5, <1>6 DEF x, y

(* What StringsAt gives begins with the lengths.                           *)
LEMMA SameIs ==
  ASSUME NEW lens \in Seq(Nat)
  PROVE  /\ Same(lens, 1) \in Seq(Int) /\ Len(Same(lens, 1)) = 2 * Len(lens)
         /\ \A k \in 1 .. Len(lens) : Same(lens, 1)[k] = lens[k]
<1> DEFINE u == [k \in DOMAIN lens |-> 1 + k - 1]
<1>1. lens \in Seq(Int) /\ u \in Seq(Int) /\ Len(u) = Len(lens) /\ Len(lens) \in Nat
  OBVIOUS
<1>2. Same(lens, 1) = lens \o u
  BY DEF Same
<1> HIDE DEF u
<1>3. /\ lens \o u \in Seq(Int) /\ Len(lens \o u) = Len(lens) + Len(u)
      /\ \A k \in 1 .. Len(lens) : (lens \o u)[k] = lens[k]
  BY <1>1, Behind
<1>4. Len(lens) + Len(u) = 2 * Len(lens)
  BY <1>1
<1> QED
  BY <1>2, <1>3, <1>4

(* Two lengths are a sequence.                                             *)
LEMMA Lengths2 ==
  ASSUME NEW lens \in [1 .. 2 -> Nat]
  PROVE  lens \in Seq(Nat) /\ Len(lens) = 2 /\ lens[1] \in Nat /\ lens[2] \in Nat
<1>1. lens \in Seq(Nat)
  BY SeqDef
<1>2. lens[1] \in Nat /\ lens[2] \in Nat
  OBVIOUS
<1>3. Len(lens) = 2
  BY <1>1, LenProperties
<1> QED
  BY <1>1, <1>2, <1>3

(* Strings that no call refuses have lengths of 16 bits.                   *)
LEMMA ShortEnough ==
  ASSUME NEW lens \in Seq(Nat), ~ TooLong(lens)
  PROVE  \A k \in 1 .. Len(lens) : lens[k] \in Nat /\ lens[k] <= C9maxstr
BY DEF TooLong, C9maxstr

(* What s9proc makes of Tauth and Tattach.                                 *)
LEMMA GotNamesIs ==
  ASSUME NEW sz \in Int, NEW f
  PROVE  /\ GotTauth(sz, f).err = "ok" =>
              GotTauth(sz, f).v = <<Val(f, 1, 4)>> \o StringsAt(f, 2, 2)
         /\ sz >= 8 /\ NamesFit(Lens(f, 2, 2), sz - 6) => GotTauth(sz, f).err = "ok"
         /\ GotTattach(sz, f).err = "ok" =>
              GotTattach(sz, f).v = <<Val(f, 1, 4), Val(f, 2, 4)>> \o StringsAt(f, 3, 2)
         /\ sz >= 12 /\ NamesFit(Lens(f, 3, 2), sz - 10) => GotTattach(sz, f).err = "ok"
<1>1. sz - (4 + 2) = sz - 6 /\ sz - (4 + 4 + 2) = sz - 10
  OBVIOUS
<1> QED
  BY <1>1 DEF GotTauth, GotTattach, Got

(* Rejected is all there is against a length of aname.                     *)
LEMMA NamesFitIf ==
  ASSUME NEW lens \in [1 .. 2 -> Nat], ~ (lens[2] > lens[1]), NEW sz \in Int,
         sz = 2 + lens[1] + lens[2]
  PROVE  NamesFit(lens, sz)
BY Lengths2 DEF NamesFit

(* The sizes of Tauth and Tattach.                                         *)
LEMMA NameSizes ==
  ASSUME NEW a \in Nat, NEW b \in Nat, NEW total, total = (2 + a) + (2 + b)
  PROVE  /\ 4 + total \in Int /\ 4 + total >= 8
         /\ (4 + total) - 6 = 2 + a + b /\ (4 + total) - 6 \in Int
         /\ 8 + total \in Int /\ 8 + total >= 12
         /\ (8 + total) - 10 = 2 + a + b /\ (8 + total) - 10 \in Int
OBVIOUS

(* c9auth and s9proc, but for an aname longer than uname.                  *)
LEMMA UnderstoodAuth ==
  ASSUME NEW msize \in Nat, NEW lens \in [1 .. 2 -> Nat], C9auth(msize, lens).err = "ok"
  PROVE  Understood(C9auth(msize, lens), <<V.afid>> \o Same(lens, 1), msize)
<1> DEFINE f == <<F(4, V.afid)>>
           g == f \o Strings(lens, 1)
           m == C9auth(msize, lens)
           v == <<V.afid>> \o Same(lens, 1)
<1>1. lens \in Seq(Nat) /\ Len(lens) = 2 /\ lens[1] \in Nat /\ lens[2] \in Nat
  BY Lengths2
<1>2. ~ TooLong(lens)
  <2>1. TooLong(lens) => m = Refused("C9Estr")
    BY DEF C9auth
  <2> QED
    BY <2>1, RefusedIs
<1>3. f \in Fields /\ Len(f) = 1 /\ WireSize(f) = 4 /\ f[1] = F(4, V.afid)
  <2>1. f \in Fields /\ Len(f) = 1 /\ f[1] = F(4, V.afid)
    BY VIs DEF Fields, F
  <2>2. f[1][1] = 4
    BY DEF F
  <2> QED
    BY <2>1, <2>2, WireFew
<1>4. m = Begun(msize, "Tauth", 4 + Total(lens), g)
  BY <1>2 DEF C9auth
<1>5. Total(lens) = (2 + lens[1]) + (2 + lens[2]) /\ Total(lens) \in Nat
  BY <1>1, TotalFew, TotalIs
<1> HIDE DEF f, m
<1>6. /\ WireSize(g) = 4 + Total(lens)
      /\ Lens(g, 2, 2) = lens /\ StringsAt(g, 2, 2) = Same(lens, 1)
      /\ \A i \in 1 .. Len(f) : Val(g, i, f[i][1]) = f[i][2]
  <2>1. \A k \in 1 .. Len(lens) : lens[k] <= C9maxstr
    BY <1>1, <1>2, ShortEnough
  <2>2. /\ WireSize(g) = WireSize(f) + Total(lens)
        /\ Lens(g, Len(f) + 1, Len(lens)) = lens
        /\ StringsAt(g, Len(f) + 1, Len(lens)) = Same(lens, 1)
        /\ \A i \in 1 .. Len(f) : Val(g, i, f[i][1]) = f[i][2]
    BY <1>1, <1>3, <2>1, WithStrings
  <2>3. Len(f) + 1 = 2
    BY <1>3
  <2> QED
    BY <1>1, <1>3, <2>2, <2>3
<1>7. Val(g, 1, 4) = V.afid
  <2>1. 1 \in 1 .. Len(f) /\ f[1][1] = 4 /\ f[1][2] = V.afid
    BY <1>3, FieldIs
  <2> QED
    BY <1>6, <2>1
<1> HIDE DEF g
<1>8. m.type = "Tauth" /\ m.f = g /\ m.size = 11 + Total(lens) /\ m.size <= msize
  <2>1. 4 + Total(lens) \in Int
    BY <1>5
  <2> QED
    BY <1>4, <1>5, <2>1, BegunIs DEF m
<1>9. GotT(m, msize) = GotTauth(4 + Total(lens), g)
  <2>1. m.size - 4 - 3 = 4 + Total(lens)
    BY <1>5, <1>8
  <2> QED
    BY <1>8, <2>1, GotTIs
<1>10. v[2] = lens[1] /\ v[3] = lens[2]
  <2>1. V.afid \in Int
    BY VIs
  <2>2. /\ Same(lens, 1) \in Seq(Int) /\ Len(Same(lens, 1)) = 2 * Len(lens)
        /\ \A k \in 1 .. Len(lens) : Same(lens, 1)[k] = lens[k]
    BY <1>1, SameIs
  <2>3. /\ Len(Same(lens, 1)) >= 2
        /\ Same(lens, 1)[1] = lens[1] /\ Same(lens, 1)[2] = lens[2]
    BY <1>1, <2>2
  <2> QED
    BY <2>1, <2>2, <2>3, BehindFew
<1>11. IF GotTauth(4 + Total(lens), g).err = "ok" THEN GotTauth(4 + Total(lens), g).v = v
       ELSE lens[2] > lens[1]
  <2> DEFINE sz == 4 + Total(lens)
  <2>1. sz \in Int /\ sz >= 8 /\ sz - 6 = 2 + lens[1] + lens[2] /\ sz - 6 \in Int
    BY <1>1, <1>5, NameSizes
  <2>2. <<Val(g, 1, 4)>> \o StringsAt(g, 2, 2) = v
    BY <1>6, <1>7
  <2> HIDE DEF v, sz
  <2>3. ~ (lens[2] > lens[1]) => NamesFit(Lens(g, 2, 2), sz - 6)
    BY <1>6, <2>1, NamesFitIf
  <2>4. IF GotTauth(sz, g).err = "ok" THEN GotTauth(sz, g).v = v ELSE lens[2] > lens[1]
    BY <2>1, <2>2, <2>3, GotNamesIs
  <2> QED
    BY <2>4 DEF sz
<1> HIDE DEF v
<1>12. "Tauth" \in Requests /\ m.size = 7 + WireSize(m.f) /\ m.size \in Nat /\ m.size >= 7
  BY <1>5, <1>6, <1>8 DEF Requests
<1>13. lens[2] > lens[1] => Rejected([type |-> m.type, v |-> v])
  BY <1>8, <1>10 DEF Rejected
<1>14. Understood(m, v, msize)
  BY <1>8, <1>9, <1>11, <1>12, <1>13 DEF Understood, Shaped
<1> QED
  BY <1>14 DEF m, v


(* c9attach and s9proc, but for an aname longer than uname.                *)
LEMMA UnderstoodAttach ==
  ASSUME NEW msize \in Nat, NEW lens \in [1 .. 2 -> Nat], C9attach(msize, lens).err = "ok"
  PROVE  Understood(C9attach(msize, lens), <<V.fid, V.afid>> \o Same(lens, 1), msize)
<1> DEFINE f == <<F(4, V.fid), F(4, V.afid)>>
           g == f \o Strings(lens, 1)
           m == C9attach(msize, lens)
           v == <<V.fid, V.afid>> \o Same(lens, 1)
<1>1. lens \in Seq(Nat) /\ Len(lens) = 2 /\ lens[1] \in Nat /\ lens[2] \in Nat
  BY Lengths2
<1>2. ~ TooLong(lens)
  <2>1. TooLong(lens) => m = Refused("C9Estr")
    BY DEF C9attach
  <2> QED
    BY <2>1, RefusedIs
<1>3. f \in Fields /\ Len(f) = 2 /\ WireSize(f) = 8
      /\ f[1] = F(4, V.fid) /\ f[2] = F(4, V.afid)
  <2>1. f \in Fields /\ Len(f) = 2 /\ f[1] = F(4, V.fid) /\ f[2] = F(4, V.afid)
    BY VIs DEF Fields, F
  <2>2. f[1][1] = 4 /\ f[2][1] = 4
    BY DEF F
  <2> QED
    BY <2>1, <2>2, WireFew
<1>4. m = Begun(msize, "Tattach", 4 + 4 + Total(lens), g)
  BY <1>2 DEF C9attach
<1>5. Total(lens) = (2 + lens[1]) + (2 + lens[2]) /\ Total(lens) \in Nat
  BY <1>1, TotalFew, TotalIs
<1> HIDE DEF f, m
<1>6. /\ WireSize(g) = 8 + Total(lens)
      /\ Lens(g, 3, 2) = lens /\ StringsAt(g, 3, 2) = Same(lens, 1)
      /\ \A i \in 1 .. Len(f) : Val(g, i, f[i][1]) = f[i][2]
  <2>1. \A k \in 1 .. Len(lens) : lens[k] <= C9maxstr
    BY <1>1, <1>2, ShortEnough
  <2>2. /\ WireSize(g) = WireSize(f) + Total(lens)
        /\ Lens(g, Len(f) + 1, Len(lens)) = lens
        /\ StringsAt(g, Len(f) + 1, Len(lens)) = Same(lens, 1)
        /\ \A i \in 1 .. Len(f) : Val(g, i, f[i][1]) = f[i][2]
    BY <1>1, <1>3, <2>1, WithStrings
  <2>3. Len(f) + 1 = 3
    BY <1>3
  <2> QED
    BY <1>1, <1>3, <2>2, <2>3
<1>7. Val(g, 1, 4) = V.fid /\ Val(g, 2, 4) = V.afid
  <2>1. /\ 1 \in 1 .. Len(f) /\ f[1][1] = 4 /\ f[1][2] = V.fid
        /\ 2 \in 1 .. Len(f) /\ f[2][1] = 4 /\ f[2][2] = V.afid
    BY <1>3, FieldIs
  <2> QED
    BY <1>6, <2>1
<1> HIDE DEF g
<1>8. m.type = "Tattach" /\ m.f = g /\ m.size = 15 + Total(lens) /\ m.size <= msize
  <2>1. 8 + Total(lens) \in Int
    BY <1>5
  <2> QED
    BY <1>4, <1>5, <2>1, BegunIs DEF m
<1>9. GotT(m, msize) = GotTattach(8 + Total(lens), g)
  <2>1. m.size - 4 - 3 = 8 + Total(lens)
    BY <1>5, <1>8
  <2> QED
    BY <1>8, <2>1, GotTIs
<1>10. v[3] = lens[1] /\ v[4] = lens[2]
  <2>1. V.fid \in Int /\ V.afid \in Int
    BY VIs
  <2>2. /\ Same(lens, 1) \in Seq(Int) /\ Len(Same(lens, 1)) = 2 * Len(lens)
        /\ \A k \in 1 .. Len(lens) : Same(lens, 1)[k] = lens[k]
    BY <1>1, SameIs
  <2>3. /\ Len(Same(lens, 1)) >= 2
        /\ Same(lens, 1)[1] = lens[1] /\ Same(lens, 1)[2] = lens[2]
    BY <1>1, <2>2
  <2> QED
    BY <2>1, <2>2, <2>3, BehindFew
<1>11. IF GotTattach(8 + Total(lens), g).err = "ok" THEN GotTattach(8 + Total(lens), g).v = v
       ELSE lens[2] > lens[1]
  <2> DEFINE sz == 8 + Total(lens)
  <2>1. sz \in Int /\ sz >= 12 /\ sz - 10 = 2 + lens[1] + lens[2] /\ sz - 10 \in Int
    BY <1>1, <1>5, NameSizes
  <2>2. <<Val(g, 1, 4), Val(g, 2, 4)>> \o StringsAt(g, 3, 2) = v
    BY <1>6, <1>7
  <2> HIDE DEF v, sz
  <2>3. ~ (lens[2] > lens[1]) => NamesFit(Lens(g, 3, 2), sz - 10)
    BY <1>6, <2>1, NamesFitIf
  <2>4. IF GotTattach(sz, g).err = "ok" THEN GotTattach(sz, g).v = v ELSE lens[2] > lens[1]
    BY <2>1, <2>2, <2>3, GotNamesIs
  <2> QED
    BY <2>4 DEF sz
<1> HIDE DEF v
<1>12. "Tattach" \in Requests /\ m.size = 7 + WireSize(m.f) /\ m.size \in Nat /\ m.size >= 7
  BY <1>5, <1>6, <1>8 DEF Requests
<1>13. lens[2] > lens[1] => Rejected([type |-> m.type, v |-> v])
  BY <1>8, <1>10 DEF Rejected
<1>14. Understood(m, v, msize)
  BY <1>8, <1>9, <1>11, <1>12, <1>13 DEF Understood, Shaped
<1> QED
  BY <1>14 DEF m, v


(* What s9proc makes of Twalk.                                             *)
LEMMA GotTwalkIs ==
  ASSUME NEW sz \in Int, NEW f, NEW path \in Seq(Nat), Len(path) <= 16,
         \A k \in 1 .. Len(path) : path[k] >= 1,
         Val(f, 3, 2) = Len(path), Lens(f, 4, Len(path)) = path,
         sz >= 10, Fit(path, sz - 10)
  PROVE  /\ GotTwalk(sz, f).err = "ok"
         /\ GotTwalk(sz, f).v = <<Val(f, 1, 4), Val(f, 2, 4)>> \o StringsAt(f, 4, Len(path))
<1>1. /\ ~ (Len(path) > 16) /\ ~ (\E k \in DOMAIN path : path[k] < 1)
      /\ sz - 4 - 4 - 2 = sz - 10 /\ sz >= 4 + 4 + 2
  OBVIOUS
<1> QED
  BY <1>1 DEF GotTwalk, Got

(* c9walk and s9proc.                                                      *)
LEMMA UnderstoodWalk ==
  ASSUME NEW msize \in Nat, NEW path \in Seq(Nat), C9walk(msize, path).err = "ok"
  PROVE  Understood(C9walk(msize, path), <<V.fid, V.newfid>> \o Same(path, 1), msize)
<1> DEFINE f == <<F(4, V.fid), F(4, V.newfid), W16(Len(path))>>
           g == f \o Strings(path, 1)
           m == C9walk(msize, path)
           v == <<V.fid, V.newfid>> \o Same(path, 1)
           sz == 10 + Total(path)
<1>1. /\ Len(path) \in Nat /\ Len(path) <= 16 /\ Len(path) % 65536 = Len(path)
      /\ (\A k \in 1 .. Len(path) : path[k] >= 1)
      /\ (\A k \in 1 .. Len(path) : path[k] <= C9maxstr)
      /\ m = Begun(msize, "Twalk", 4 + 4 + 2 + Total(path), g)
  <2> DEFINE Bad == \/ \E k \in DOMAIN path : k <= C9maxpathel /\ (path[k] = 0 \/ path[k] > C9maxstr)
                    \/ Len(path) > C9maxpathel
  <2>1. m = IF Bad THEN Refused("C9Epath") ELSE Begun(msize, "Twalk", 4 + 4 + 2 + Total(path), g)
    BY DEF C9walk
  <2>2. ~ Bad
    BY <2>1, RefusedIs
  <2>3. Len(path) \in Nat /\ \A k \in 1 .. Len(path) : k \in DOMAIN path /\ path[k] \in Nat
    OBVIOUS
  <2>4. Len(path) <= 16
    BY <2>2, <2>3 DEF C9maxpathel
  <2>5. /\ (\A k \in 1 .. Len(path) : path[k] >= 1)
        /\ (\A k \in 1 .. Len(path) : path[k] <= C9maxstr)
    BY <2>2, <2>3, <2>4 DEF C9maxpathel, C9maxstr
  <2>6. Len(path) % 65536 = Len(path)
    <3> HIDE DEF Bad, m, g
    <3>1. PICK n \in Nat : n = Len(path) /\ n <= 65535
      BY <2>3, <2>4
    <3>2. n % 65536 = n
      BY <3>1, Low16
    <3> QED
      BY <3>1, <3>2
  <2>7. m = Begun(msize, "Twalk", 4 + 4 + 2 + Total(path), g)
    BY <2>1, <2>2
  <2> HIDE DEF Bad, m, g
  <2> QED
    BY <2>3, <2>4, <2>5, <2>6, <2>7
<1>2. f \in Fields /\ Len(f) = 3 /\ WireSize(f) = 10
  <2>1. f \in Fields /\ Len(f) = 3
    <3>1. W16(Len(path)) = F(2, Len(path))
      BY <1>1 DEF W16
    <3>2. f = <<F(4, V.fid), F(4, V.newfid), F(2, Len(path))>>
      BY <3>1
    <3>3. PICK n \in Nat : n = Len(path)
      BY <1>1
    <3>4. f = <<F(4, V.fid), F(4, V.newfid), F(2, n)>>
      BY <3>2, <3>3
    <3> HIDE DEF f
    <3>5. V.fid \in Int /\ V.newfid \in Int
      BY VIs
    <3> QED
      BY <3>4, <3>5 DEF Fields, F
  <2>2. f[1][1] = 4 /\ f[2][1] = 4 /\ f[3][1] = 2
    BY DEF F, W16
  <2> QED
    BY <2>1, <2>2, WireFew
<1>3. /\ f[1][1] = 4 /\ f[1][2] = V.fid /\ f[2][1] = 4 /\ f[2][2] = V.newfid
      /\ f[3][1] = 2 /\ f[3][2] = Len(path)
  BY <1>1 DEF F, W16
<1>4. Total(path) \in Nat
  BY TotalIs
<1> HIDE DEF f, m
<1>5. /\ WireSize(g) = 10 + Total(path)
      /\ Lens(g, 4, Len(path)) = path /\ StringsAt(g, 4, Len(path)) = Same(path, 1)
      /\ \A i \in 1 .. Len(f) : Val(g, i, f[i][1]) = f[i][2]
  <2>1. /\ WireSize(g) = WireSize(f) + Total(path)
        /\ Lens(g, Len(f) + 1, Len(path)) = path
        /\ StringsAt(g, Len(f) + 1, Len(path)) = Same(path, 1)
        /\ \A i \in 1 .. Len(f) : Val(g, i, f[i][1]) = f[i][2]
    <3>1. \A k \in 1 .. Len(path) : path[k] <= C9maxstr
      BY <1>1
    <3> QED
      BY <1>2, <3>1, WithStrings
  <2>2. Len(f) + 1 = 4
    BY <1>2
  <2> QED
    BY <1>2, <2>1, <2>2
<1>6. Val(g, 1, 4) = V.fid /\ Val(g, 2, 4) = V.newfid /\ Val(g, 3, 2) = Len(path)
  <2>1. 1 \in 1 .. Len(f) /\ 2 \in 1 .. Len(f) /\ 3 \in 1 .. Len(f)
    BY <1>2
  <2> QED
    BY <1>3, <1>5, <2>1
<1>7. sz \in Int /\ sz >= 10 /\ sz - 10 = Total(path) /\ 4 + 4 + 2 + Total(path) = sz
  BY <1>4
<1> HIDE DEF g, sz
<1>8. m.type = "Twalk" /\ m.f = g /\ m.size = 7 + sz /\ m.size <= msize
  BY <1>1, <1>7, BegunIs DEF m
<1>9. GotT(m, msize) = GotTwalk(sz, g)
  <2>1. m.size - 4 - 3 = sz
    BY <1>7, <1>8
  <2> QED
    BY <1>8, <2>1, GotTIs
<1>10. Fit(path, sz - 10)
  BY <1>4, <1>7, FitIs
<1>11. GotTwalk(sz, g).err = "ok" /\ GotTwalk(sz, g).v = v
  <2>1. /\ sz \in Int /\ sz >= 10 /\ Len(path) <= 16
        /\ \A k \in 1 .. Len(path) : path[k] >= 1
        /\ Val(g, 3, 2) = Len(path) /\ Lens(g, 4, Len(path)) = path
    BY <1>1, <1>5, <1>6, <1>7
  <2>2. /\ GotTwalk(sz, g).err = "ok"
        /\ GotTwalk(sz, g).v = <<Val(g, 1, 4), Val(g, 2, 4)>> \o StringsAt(g, 4, Len(path))
    BY <1>10, <2>1, GotTwalkIs
  <2> QED
    BY <1>5, <1>6, <2>2
<1>12. "Twalk" \in Requests /\ m.size = 7 + WireSize(m.f) /\ m.size \in Nat /\ m.size >= 7
  BY <1>5, <1>7, <1>8 DEF Requests, sz
<1>13. (Len(v) - 2) \div 2 \in 0 .. 16
  <2>1. <<V.fid, V.newfid>> \in Seq(Int) /\ Len(<<V.fid, V.newfid>>) = 2
    BY VIs
  <2>2. Same(path, 1) \in Seq(Int) /\ Len(Same(path, 1)) = 2 * Len(path)
    BY SameIs
  <2>3. Len(v) = 2 + 2 * Len(path)
    BY <2>1, <2>2, Behind
  <2>4. Len(v) - 2 = 2 * Len(path)
    BY <1>1, <2>3
  <2>5. PICK n \in Nat : n = Len(path) /\ n <= 16
    BY <1>1
  <2>6. (2 * n) \div 2 = n
    BY <2>5, Halves
  <2> HIDE DEF v
  <2>7. Len(v) - 2 = 2 * n
    BY <2>4, <2>5
  <2>8. (Len(v) - 2) \div 2 = n
    BY <2>6, <2>7
  <2>9. n \in 0 .. 16
    <3>1. n <= 16
      BY <2>5
    <3> QED
      BY <3>1
  <2> QED
    BY <2>8, <2>9
<1> HIDE DEF v
<1>14. Understood(m, v, msize)
  BY <1>8, <1>9, <1>11, <1>12, <1>13 DEF Understood, Shaped
<1> QED
  BY <1>14 DEF m, v


-----------------------------------------------------------------------------
(* Stats.                                                                  *)

(* What w16 keeps of a number, and whether that is all.                    *)
Low(n) == n % 65536

Small(n) == n <= C9maxstr

(* What w16 writes of any number.                                          *)
LEMMA LowIs ==
  ASSUME NEW n \in Nat
  PROVE  /\ W16(n)[1] = 2 /\ W16(n)[2] = Low(n) /\ W16(n) = F(2, Low(n))
         /\ Low(n) \in Nat /\ Small(Low(n)) /\ Low(n) <= n /\ (Small(n) => Low(n) = n)
<1>1. W16(n)[1] = 2 /\ W16(n)[2] = Low(n) /\ W16(n) = F(2, Low(n))
  BY DEF W16, F, Low
<1> QED
  BY <1>1, SMT DEF Low, Small, C9maxstr

(* A number below one of 16 bits has 16 bits.                              *)
LEMMA SmallOrder ==
  ASSUME NEW m \in Int, NEW n \in Int, m <= n, Small(n)
  PROVE  Small(m)
BY DEF Small, C9maxstr

(* The size of a stat.                                                     *)
LEMMA StatszIs ==
  ASSUME NEW lens \in Seq(Nat)
  PROVE  /\ Statsz(lens) = 39 + Total(lens) /\ Statsz(lens) \in Nat
         /\ Len(lens) = 4 => Statsz(lens) >= 47
<1>1. Total(lens) \in Nat /\ (Len(lens) = 4 => Total(lens) >= 8)
  BY TotalIs, TotalFew
<1>2. Statsz(lens) = 39 + Total(lens)
  BY <1>1 DEF Statsz
<1> QED
  BY <1>1, <1>2

(* A stat has strings.                                                     *)
LEMMA NotEmpty ==
  ASSUME NEW lens \in Seq(Nat), Len(lens) = 4
  PROVE  lens # <<>>
<1>1. lens = <<>> => Len(lens) = 0
  OBVIOUS
<1> QED
  BY <1>1

(* c9parsedir, of a stat with strings of these lengths: it is refused if   *)
(* its size does not fit 16 bits.                                          *)
LEMMA ParsedirIs ==
  ASSUME NEW size \in Int, NEW i \in Int, NEW f, NEW lens \in Seq(Nat), Len(lens) = 4,
         Val(f, i, 2) = Low(Statsz(lens)),
         Lens(f, i + 4, 4) = lens, StringsAt(f, i + 4, 4) = Same(lens, 1)
  PROVE  LET stat == C9parsedir(size, f, i)
         IN  /\ stat.err = "ok" =>
                  stat.v = <<Val(f, i + 2, 13), Val(f, i + 3, 20)>> \o Same(lens, 1)
             /\ Small(Statsz(lens)) /\ size >= 2 + Statsz(lens) => stat.err = "ok"
             /\ ~ Small(Statsz(lens)) => stat.err # "ok"
<1> DEFINE stat == C9parsedir(size, f, i)
           sz == Low(Statsz(lens))
<1>1. PICK n \in Nat : n = Statsz(lens)
  BY StatszIs
<1>2. n >= 47 /\ n = 39 + Total(lens) /\ Total(lens) \in Nat
  BY <1>1, StatszIs, TotalIs
<1>3. sz \in Nat /\ Small(sz) /\ (Small(n) => sz = n) /\ sz - 39 \in Int
  BY <1>1, LowIs
<1>4. Val(f, i, 2) = sz
  OBVIOUS
<1> HIDE DEF sz
<1>5. stat.err = "ok" => stat.v = <<Val(f, i + 2, 13), Val(f, i + 3, 20)>> \o Same(lens, 1)
  BY DEF C9parsedir, Got
<1>6. stat.err = "ok" <=> size >= 49 /\ sz >= 47 /\ size >= 2 + sz /\ Fit(lens, sz - 39)
  BY <1>4 DEF C9parsedir, Got
<1>7. ASSUME Small(n), size >= 2 + n
      PROVE  stat.err = "ok"
  <2>1. sz = n /\ Total(lens) <= sz - 39
    BY <1>2, <1>3, <1>7
  <2>2. Fit(lens, sz - 39)
    BY <1>3, <2>1, FitIs
  <2> QED
    BY <1>2, <1>6, <1>7, <2>1, <2>2
<1>8. ASSUME ~ Small(n)
      PROVE  stat.err # "ok"
  <2>1. ~ (Total(lens) <= sz - 39)
    <3>1. ~ (n <= sz)
      BY <1>3, <1>8, SmallOrder
    <3> QED
      BY <1>2, <1>3, <3>1
  <2>2. lens # <<>>
    BY NotEmpty
  <2>3. ~ Fit(lens, sz - 39)
    BY <1>3, <2>1, <2>2, FitIs
  <2> QED
    BY <1>6, <2>3
<1> HIDE DEF stat
<1>9. Small(Statsz(lens)) /\ size >= 2 + Statsz(lens) => stat.err = "ok"
  BY <1>1, <1>7
<1>10. ~ Small(Statsz(lens)) => stat.err # "ok"
  BY <1>1, <1>8
<1> QED
  BY <1>5, <1>9, <1>10 DEF stat

(* Three lengths are a sequence.                                           *)
LEMMA Lengths3 ==
  ASSUME NEW lens \in [1 .. 3 -> Nat]
  PROVE  lens \in Seq(Nat) /\ Len(lens) = 3
<1>1. lens \in Seq(Nat)
  BY SeqDef
<1> QED
  BY <1>1, LenProperties

(* Four lengths are a sequence.                                            *)
LEMMA Lengths4 ==
  ASSUME NEW lens \in [1 .. 4 -> Nat]
  PROVE  lens \in Seq(Nat) /\ Len(lens) = 4
<1>1. lens \in Seq(Nat)
  BY SeqDef
<1> QED
  BY <1>1, LenProperties

(* The empty muid that c9wstat appends.                                    *)
LEMMA TotalMore ==
  ASSUME NEW lens \in Seq(Nat)
  PROVE  /\ lens \o <<0>> \in Seq(Nat) /\ Len(lens \o <<0>>) = Len(lens) + 1
         /\ \A k \in 1 .. Len(lens) : (lens \o <<0>>)[k] = lens[k]
         /\ (lens \o <<0>>)[Len(lens) + 1] = 0
         /\ Total(lens \o <<0>>) = Total(lens) + 2
<1> DEFINE u == <<0>>
           w == lens \o u
           n == Len(lens)
<1>0. u \in Seq(Nat)
  OBVIOUS
<1>1. Len(u) = 1 /\ u[1] = 0
  OBVIOUS
<1> HIDE DEF u
<1>2. /\ w \in Seq(Nat) /\ Len(w) = n + Len(u)
      /\ \A k \in 1 .. n : w[k] = lens[k]
      /\ \A k \in 1 .. Len(u) : w[n + k] = u[k]
  BY <1>0, Behind
<1>3. n \in Nat
  OBVIOUS
<1> HIDE DEF w
<1>4. Len(w) = n + 1 /\ w[n + 1] = 0
  BY <1>1, <1>2
<1>5. SubSeq(w, 1, Len(w)) = w
  BY <1>2
<1>6. SubSeq(w, 1, n) = lens
  <2>1. /\ SubSeq(w, 1, n) \in Seq(Nat) /\ Len(SubSeq(w, 1, n)) = n
        /\ \A k \in 1 .. n : SubSeq(w, 1, n)[k] = w[k]
    BY <1>2, <1>3, <1>4
  <2>2. \A k \in 1 .. n : SubSeq(w, 1, n)[k] = lens[k]
    BY <1>2, <2>1
  <2> QED
    BY <2>1, <2>2, SeqEqual
<1>7. Total(w) = Total(lens) + 2
  <2>1. Len(w) \in 1 .. Len(w) /\ Len(w) - 1 = n
    BY <1>3, <1>4
  <2>2. /\ Total(SubSeq(w, 1, Len(w))) = Total(SubSeq(w, 1, Len(w) - 1)) + (2 + w[Len(w)])
        /\ Total(SubSeq(w, 1, Len(w) - 1)) \in Nat
    BY <1>2, <2>1, TotalIs
  <2>3. Total(w) = Total(lens) + (2 + w[Len(w)]) /\ Total(lens) \in Nat
    BY <1>5, <1>6, <2>1, <2>2
  <2> QED
    BY <1>4, <2>3
<1> QED
  BY <1>2, <1>4, <1>7 DEF w, u

(* What s9proc makes of Twstat, given what c9parsedir does.                *)
LEMMA GotTwstatIs ==
  ASSUME NEW sz \in Int, NEW f
  PROVE  LET stat == C9parsedir(Val(f, 2, 2), f, 3)
         IN  /\ GotTwstat(sz, f).err = "ok" =>
                  stat.err = "ok" /\ GotTwstat(sz, f).v = <<Val(f, 1, 4)>> \o stat.v
             /\ sz >= 6 /\ Val(f, 2, 2) <= sz - 4 /\ stat.err = "ok" =>
                  GotTwstat(sz, f).err = "ok"
<1> DEFINE stat == C9parsedir(Val(f, 2, 2), f, 3)
           ok == sz >= 4 + 2 /\ Val(f, 2, 2) <= sz - 4 /\ stat.err = "ok"
<1>1. GotTwstat(sz, f)
        = IF ok THEN Got(TRUE, <<Val(f, 1, 4)>> \o stat.v) ELSE Got(FALSE, <<>>)
  BY DEF GotTwstat
<1> HIDE DEF stat
<1>2. ok => GotTwstat(sz, f).err = "ok" /\ GotTwstat(sz, f).v = <<Val(f, 1, 4)>> \o stat.v
  BY <1>1 DEF Got
<1>3. ~ ok => GotTwstat(sz, f).err # "ok"
  BY <1>1 DEF Got
<1> QED
  BY <1>2, <1>3 DEF stat

(* A stat in three pieces is one in two.                                   *)
LEMMA Regrouped ==
  ASSUME NEW a \in Int, NEW b \in Int, NEW c \in Int, NEW s \in Seq(Int)
  PROVE  <<a>> \o (<<b, c>> \o s) = <<a, b, c>> \o s
<1> DEFINE x == <<a>>
           y == <<b, c>>
<1>1. x \in Seq(Int) /\ y \in Seq(Int)
  OBVIOUS
<1>2. x \o y = <<a, b, c>>
  BY Joined3
<1> HIDE DEF x, y
<1>3. (x \o y) \o s = x \o (y \o s)
  BY <1>1, ConcatAssociative
<1> QED
  BY <1>2, <1>3 DEF x, y

(* What lies behind the first part of a sequence.                          *)
LEMMA PieceIs ==
  ASSUME NEW S, NEW x \in Seq(S), NEW s \in Seq(S), NEW w \in Seq(S),
         Len(w) <= Len(s), \A k \in 1 .. Len(w) : s[k] = w[k]
  PROVE  SubSeq(x \o s, Len(x) + 1, Len(x) + Len(w)) = w
<1> DEFINE v == x \o s
           n == Len(x)
           l == Len(w)
           p == SubSeq(v, n + 1, n + l)
<1>1. /\ v \in Seq(S) /\ Len(v) = n + Len(s)
      /\ \A k \in 1 .. Len(s) : v[n + k] = s[k]
  BY Behind
<1>2. n \in Nat /\ l \in Nat /\ Len(s) \in Nat
  OBVIOUS
<1> HIDE DEF v, n
<1>3. n + 1 \in Int /\ n + l \in Int /\ n + l <= Len(v) /\ n + 1 >= 1
  BY <1>1, <1>2
<1>4. \A k \in 1 .. l : v[n + k] = w[k]
  BY <1>1, <1>2
<1>5. p \in Seq(S) /\ Len(p) = l /\ \A k \in 1 .. l : p[k] = v[n + k]
  <2>1. Len(p) = IF n + 1 <= n + l THEN (n + l) - (n + 1) + 1 ELSE 0
    BY <1>2
  <2>2. Len(p) = l
    BY <1>2, <2>1
  <2>3. \A k \in 1 .. l : n + k \in 1 .. Len(v)
    BY <1>2, <1>3
  <2>4. p = [k \in 1 .. l |-> v[n + k]]
    <3>1. p = [k \in 1 .. l |-> v[(n + 1) + k - 1]]
      BY <1>2 
    <3>2. \A k \in 1 .. l : (n + 1) + k - 1 = n + k
      BY <1>2
    <3> QED
      BY <3>1, <3>2
  <2>5. \A k \in 1 .. l : p[k] = v[n + k]
    BY <2>4
  <2> HIDE DEF p, l
  <2>6. p \in [1 .. l -> S]
    <3>1. \A k \in 1 .. l : w[k] \in S
      BY DEF l
    <3>2. \A k \in 1 .. l : v[n + k] \in S
      BY <1>4, <3>1
    <3> QED
      BY <2>4, <3>2
  <2>7. p \in Seq(S)
    BY <1>2, <2>6, SeqDef
  <2> QED
    BY <2>2, <2>5, <2>7
<1>6. \A k \in 1 .. l : p[k] = w[k]
  BY <1>4, <1>5
<1> HIDE DEF p
<1>7. p = w
  BY <1>5, <1>6, SeqEqual
<1> QED
  BY <1>7 DEF p, v, n

(* The lengths behind three other values.                                  *)
LEMMA LengthsBehind ==
  ASSUME NEW a \in Int, NEW b \in Int, NEW c \in Int, NEW lens \in Seq(Nat), Len(lens) = 4
  PROVE  SubSeq(<<a, b, c>> \o Same(lens, 1), 4, 7) = lens
<1> DEFINE x == <<a, b, c>>
           s == Same(lens, 1)
<1>1. x \in Seq(Int)
  OBVIOUS
<1>2. Len(x) = 3
  OBVIOUS
<1>3. s \in Seq(Int) /\ Len(s) = 2 * Len(lens) /\ \A k \in 1 .. Len(lens) : s[k] = lens[k]
  BY SameIs
<1>4. lens \in Seq(Int)
  OBVIOUS
<1>5. Len(lens) <= Len(s)
  BY <1>3
<1> HIDE DEF x, s
<1>6. SubSeq(x \o s, Len(x) + 1, Len(x) + Len(lens)) = lens
  BY <1>1, <1>3, <1>4, <1>5, PieceIs
<1>7. Len(x) + 1 = 4 /\ Len(x) + Len(lens) = 7
  BY <1>2
<1> QED
  BY <1>6, <1>7 DEF x, s

(* The six fields in front of the strings of a wstat.                      *)
WstatFields(a, n, b, c, d) ==
  <<F(4, a), W16(n + 2), W16(n), F(6, b), F(13, c), F(20, d)>>

WstatFronted(f, a, n, b, c, d) ==
  /\ f \in Fields /\ Len(f) = 6 /\ WireSize(f) = 47
  /\ f[1][1] = 4 /\ f[1][2] = a /\ f[2][1] = 2 /\ f[2][2] = Low(n + 2)
  /\ f[3][1] = 2 /\ f[3][2] = Low(n)
  /\ f[5][1] = 13 /\ f[5][2] = c /\ f[6][1] = 20 /\ f[6][2] = d

(* The fields of Twstat before its strings.                                *)
LEMMA WstatFront ==
  ASSUME NEW a \in Int, NEW n \in Nat, NEW b \in Int, NEW c \in Int, NEW d \in Int
  PROVE  WstatFronted(WstatFields(a, n, b, c, d), a, n, b, c, d)
<1> DEFINE x == Low(n + 2)
           y == Low(n)
           f == <<F(4, a), F(2, x), F(2, y), F(6, b), F(13, c), F(20, d)>>
<1>1. f = WstatFields(a, n, b, c, d)
  BY LowIs DEF WstatFields
<1>2. x \in Nat /\ y \in Nat
  BY LowIs
<1> HIDE DEF x, y
<1>3. f \in Fields /\ Len(f) = 6
  BY <1>2 DEF Fields, F
<1>4. /\ f[1][1] = 4 /\ f[1][2] = a /\ f[2][1] = 2 /\ f[2][2] = x
      /\ f[3][1] = 2 /\ f[3][2] = y /\ f[4][1] = 6
      /\ f[5][1] = 13 /\ f[5][2] = c /\ f[6][1] = 20 /\ f[6][2] = d
  BY DEF F
<1> HIDE DEF f
<1>5. WireSize(f) = 47
  BY <1>3, <1>4, WireFew
<1> QED
  BY <1>1, <1>3, <1>4, <1>5 DEF x, y, WstatFronted

(* The stats that s9proc rejects.                                          *)
LEMMA RejectedWstat ==
  ASSUME NEW q, q.type = "Twstat"
  PROVE  Rejected(q) <=> Statsz(SubSeq(q.v, 4, 7)) + 2 > 65535
BY SMT DEF Rejected

(* c9wstat and s9proc, but for a stat too large for 16 bits.               *)
LEMMA UnderstoodWstat ==
  ASSUME NEW msize \in Nat, NEW lens \in [1 .. 3 -> Nat], C9wstat(msize, lens).err = "ok"
  PROVE  Understood(C9wstat(msize, lens),
                    <<V.fid, V.nochange, V.stat>> \o Same(lens \o <<0>>, 1), msize)
<1> DEFINE w == lens \o <<0>>
           n == Statsz(lens) + 2
           a == V.fid
           b == V.nochange
           d == V.stat
           f == WstatFields(a, n, b, b, d)
           g == f \o Strings(w, 1)
           m == C9wstat(msize, lens)
           v == <<a, b, d>> \o Same(w, 1)
           size == 4 + 2 + 2 + n
<1>0. a \in Int /\ b \in Int /\ d \in Int
  BY VIs
<1>1. lens \in Seq(Nat) /\ Len(lens) = 3
  BY Lengths3
<1>2. ~ TooLong(lens) /\ m = Begun(msize, "Twstat", size, g)
  <2>1. lens[1] = 0 \/ lens[1] > C9maxstr => m = Refused("C9Epath")
    BY SMT DEF C9wstat
  <2>2. TooLong(lens) => m = Refused("C9Estr") \/ m = Refused("C9Epath")
    BY SMT DEF C9wstat
  <2>3. ~ (lens[1] = 0 \/ lens[1] > C9maxstr) /\ ~ TooLong(lens)
    BY <2>1, <2>2, RefusedIs
  <2> QED
    BY SMT, <2>3 DEF C9wstat, WstatFields
<1> HIDE DEF a, b, d, m
<1>3. /\ w \in Seq(Nat) /\ Len(w) = 4 /\ Total(w) = Total(lens) + 2
      /\ \A k \in 1 .. Len(w) : w[k] <= C9maxstr
  <2>1. /\ w \in Seq(Nat) /\ Len(w) = Len(lens) + 1
        /\ \A k \in 1 .. Len(lens) : w[k] = lens[k]
        /\ w[Len(lens) + 1] = 0
        /\ Total(w) = Total(lens) + 2
    BY <1>1, TotalMore
  <2>2. \A k \in 1 .. 3 : lens[k] <= C9maxstr
    BY <1>1, <1>2, ShortEnough
  <2> HIDE DEF w
  <2>3. \A k \in 1 .. 4 : k \in 1 .. 3 \/ k = 4
    OBVIOUS
  <2>4. 0 <= C9maxstr
    BY SMT DEF C9maxstr
  <2>5. Len(w) = 4 /\ w[4] = 0 /\ \A k \in 1 .. 3 : w[k] = lens[k]
    BY <1>1, <2>1
  <2> QED
    BY <2>1, <2>2, <2>3, <2>4, <2>5
<1> HIDE DEF w
<1>4. n \in Nat /\ n = Statsz(w) /\ n = 39 + Total(w) /\ Total(w) \in Nat
  <2>1. w \in Seq(Nat) /\ Total(w) = Total(lens) + 2
    BY <1>3
  <2>2. Statsz(w) \in Nat /\ Statsz(w) = 39 + Total(w)
    BY <2>1, StatszIs
  <2>3. Total(w) \in Nat
    BY <2>1, TotalIs
  <2>4. Statsz(lens) = 39 + Total(lens)
    BY <1>1, StatszIs
  <2>5. Total(lens) \in Nat
    BY <1>1, TotalIs
  <2> QED
    BY <2>1, <2>2, <2>3, <2>4, <2>5
<1> HIDE DEF n, f
<1>5. /\ f \in Fields /\ Len(f) = 6 /\ WireSize(f) = 47
      /\ f[1][1] = 4 /\ f[1][2] = a /\ f[2][1] = 2 /\ f[2][2] = Low(n + 2)
      /\ f[3][1] = 2 /\ f[3][2] = Low(n)
      /\ f[5][1] = 13 /\ f[5][2] = b /\ f[6][1] = 20 /\ f[6][2] = d
  <2>1. WstatFronted(f, a, n, b, b, d)
    BY <1>0, <1>4, WstatFront DEF f
  <2> QED
    BY <2>1 DEF WstatFronted
<1>6. /\ WireSize(g) = 47 + Total(w)
      /\ Lens(g, 7, 4) = w /\ StringsAt(g, 7, 4) = Same(w, 1)
      /\ \A i \in 1 .. Len(f) : Val(g, i, f[i][1]) = f[i][2]
  <2>1. f \in Fields /\ w \in Seq(Nat)
    BY <1>3, <1>5
  <2>2. \A k \in 1 .. Len(w) : w[k] <= C9maxstr
    BY <1>3
  <2>3. /\ WireSize(g) = WireSize(f) + Total(w)
        /\ Lens(g, Len(f) + 1, Len(w)) = w
        /\ StringsAt(g, Len(f) + 1, Len(w)) = Same(w, 1)
        /\ \A i \in 1 .. Len(f) : Val(g, i, f[i][1]) = f[i][2]
    BY <2>1, <2>2, WithStrings
  <2>4. Len(f) + 1 = 7
    BY <1>5
  <2> QED
    BY SMT, <1>3, <1>5, <2>3, <2>4
<1>7. /\ Val(g, 1, 4) = a /\ Val(g, 2, 2) = Low(n + 2)
      /\ Val(g, 3, 2) = Low(n)
      /\ Val(g, 5, 13) = b /\ Val(g, 6, 20) = d
  <2>1. /\ 1 \in 1 .. Len(f) /\ 2 \in 1 .. Len(f) /\ 3 \in 1 .. Len(f)
        /\ 5 \in 1 .. Len(f) /\ 6 \in 1 .. Len(f)
    BY <1>5
  <2> QED
    BY SMT, <1>5, <1>6, <2>1
<1>8. size \in Nat /\ size = WireSize(g) /\ size >= 8 /\ size - 4 = n + 4
  BY <1>4, <1>6
<1> HIDE DEF g, size
<1>9. m.type = "Twstat" /\ m.f = g /\ m.size = size + 7 /\ m.size <= msize
  BY <1>2, <1>8, BegunIs DEF m
<1>10. GotT(m, msize) = GotTwstat(size, g)
  <2>1. m.size - 4 - 3 = size
    BY <1>8, <1>9
  <2> QED
    BY <1>9, <2>1, GotTIs
<1> DEFINE cnt == Val(g, 2, 2)
           stat == C9parsedir(cnt, g, 3)
<1>11. cnt \in Nat /\ cnt <= n + 2 /\ (Small(n + 2) => cnt = n + 2)
  <2>1. n + 2 \in Nat
    BY <1>4
  <2> QED
    BY <1>7, <2>1, LowIs
<1> HIDE DEF cnt
<1>12. /\ stat.err = "ok" => stat.v = <<b, d>> \o Same(w, 1)
       /\ Small(n) /\ cnt >= 2 + n => stat.err = "ok"
  <2>1. /\ 3 \in Int /\ cnt \in Int /\ 3 + 4 = 7 /\ 3 + 2 = 5 /\ 3 + 3 = 6
    BY <1>11
  <2>2. Val(g, 3, 2) = Low(Statsz(w))
    BY <1>4, <1>7
  <2>3. /\ Lens(g, 3 + 4, 4) = w /\ StringsAt(g, 3 + 4, 4) = Same(w, 1)
        /\ Val(g, 3 + 2, 13) = b /\ Val(g, 3 + 3, 20) = d
    BY SMT, <1>6, <1>7, <2>1
  <2>4. w \in Seq(Nat) /\ Len(w) = 4
    BY <1>3
  <2>5. /\ stat.err = "ok" =>
             stat.v = <<Val(g, 3 + 2, 13), Val(g, 3 + 3, 20)>> \o Same(w, 1)
        /\ Small(Statsz(w)) /\ cnt >= 2 + Statsz(w) => stat.err = "ok"
    BY <2>1, <2>2, <2>3, <2>4, ParsedirIs
  <2> QED
    BY SMT, <1>4, <2>3, <2>5
<1>13. /\ GotTwstat(size, g).err = "ok" =>
            stat.err = "ok" /\ GotTwstat(size, g).v = <<a>> \o stat.v
       /\ stat.err = "ok" => GotTwstat(size, g).err = "ok"
  <2>1. size >= 6 /\ cnt <= size - 4 /\ size \in Int
    BY <1>4, <1>8, <1>11
  <2> QED
    BY SMT, <1>7, <2>1, GotTwstatIs DEF cnt
<1>14. <<a>> \o (<<b, d>> \o Same(w, 1)) = v
  <2>1. Same(w, 1) \in Seq(Int)
    BY <1>3, SameIs
  <2> QED
    BY <1>0, <2>1, Regrouped
<1>15. ~ Small(n + 2) => Rejected([type |-> m.type, v |-> v])
  <2>1. SubSeq(v, 4, 7) = w
    <3>1. w \in Seq(Nat) /\ Len(w) = 4
      BY <1>3
    <3> QED
      BY <1>0, <3>1, LengthsBehind
  <2> HIDE DEF v
  <2> QED
    <3> DEFINE q == [type |-> "Twstat", v |-> v]
    <3>0. q.type = "Twstat" /\ q.v = v
      OBVIOUS
    <3> HIDE DEF q
    <3>1. Rejected(q) <=> Statsz(SubSeq(q.v, 4, 7)) + 2 > 65535
      BY <3>0, RejectedWstat
    <3>2. SubSeq(q.v, 4, 7) = w
      BY <2>1, <3>0
    <3>3. n + 2 > 65535 <=> ~ Small(n + 2)
      BY SMT, <1>4 DEF Small, C9maxstr
    <3>4. Statsz(SubSeq(q.v, 4, 7)) = n
      BY <1>4, <3>2
    <3> QED
      BY <1>9, <3>1, <3>3, <3>4 DEF q
<1> HIDE DEF v, stat
<1>16. Small(n + 2) => stat.err = "ok"
  BY <1>4, <1>11, <1>12, SmallOrder
<1>17. IF GotTwstat(size, g).err = "ok" THEN GotTwstat(size, g).v = v
       ELSE Rejected([type |-> m.type, v |-> v])
  BY <1>12, <1>13, <1>14, <1>15, <1>16
<1>18. "Twstat" \in Requests /\ m.size = 7 + WireSize(m.f) /\ m.size \in Nat /\ m.size >= 7
  BY SMT, <1>8, <1>9 DEF Requests
<1>19. Understood(m, v, msize)
  BY SMT, <1>9, <1>10, <1>17, <1>18 DEF Understood, Shaped
<1> QED
  BY <1>19 DEF m, v, w, a, b, d



-----------------------------------------------------------------------------
(* The answers.                                                            *)

(* The message m, which means v and answers with this type, is one that a  *)
(* client takes as that, but for what RepliesArrive excepts.               *)
Replied(m, type, v, msize) ==
  /\ m.type # "Rversion"
  /\ m.size \in Nat /\ m.size = 7 + WireSize(m.f) /\ m.size >= 7 /\ m.size <= msize
  /\ IF GotR(m, msize).err = "ok"
     THEN \/ GotR(m, msize).v = v
          \/ type = "Rstat" /\ v[6] # v[3]
          \/ type = "directory" /\ v[1] > 65535 /\ GotR(m, msize).v[2] = <<>>
     ELSE type = "Rstat" /\ Oversized(v)

(* The case of c9proc for each type.                                       *)
LEMMA GotRIs ==
  ASSUME NEW p, NEW msize
  PROVE  /\ p.type = "Rread" => GotR(p, msize) = GotRread(p.size - 4 - 3, p.f)
         /\ p.type = "Rwrite" => GotR(p, msize) = GotRwrite(p.size - 4 - 3, p.f, msize)
         /\ p.type = "Rwalk" => GotR(p, msize) = GotRwalk(p.size - 4 - 3, p.f)
         /\ p.type = "Rstat" => GotR(p, msize) = C9parsedir(p.size - 4 - 3 - 2, p.f, 2)
         /\ p.type \in {"Rflush", "Rclunk", "Rremove", "Rwstat"} =>
              GotR(p, msize).err = "ok" /\ GotR(p, msize).v = <<>>
         /\ p.type \in {"Ropen", "Rcreate"} => GotR(p, msize) = GotRopen(p.size - 4 - 3, p.f)
         /\ p.type = "Rerror" => GotR(p, msize) = GotRerror(p.size - 4 - 3, p.f)
         /\ p.type \in {"Rauth", "Rattach"} => GotR(p, msize) = GotQid(p.size - 4 - 3, p.f)
BY DEF GotR, Got

(* A reply that c9proc takes as it was meant.                              *)
LEMMA RepliedIf ==
  ASSUME NEW m, NEW type, NEW v, NEW msize, m.type # "Rversion",
         m.size = 7 + WireSize(m.f), m.size \in Nat, m.size >= 7, m.size <= msize,
         GotR(m, msize).err = "ok", GotR(m, msize).v = v
  PROVE  Replied(m, type, v, msize)
BY DEF Replied

(* An answer of a size that any msize has room for.                        *)
LEMMA BegunFits ==
  ASSUME NEW msize \in Int, NEW type, NEW size \in Nat, size <= msize - 7, NEW f
  PROVE  LET m == Begun(msize, type, size, f)
         IN  /\ m.err = "ok" /\ m.type = type /\ m.f = f
             /\ m.size - 4 - 3 = size /\ m.size = 7 + size
             /\ m.size \in Nat /\ m.size >= 7 /\ m.size <= msize
BY DEF Begun, Refused

(* The least msize has room for most answers.                              *)
LEMMA Roomy ==
  ASSUME NEW msize \in Nat, msize >= C9minmsize
  PROVE  /\ 0 <= msize - 7 /\ 4 <= msize - 7 /\ 13 <= msize - 7 /\ 17 <= msize - 7
         /\ 210 <= msize - 7
BY SMT DEF C9minmsize

(* s9auth, s9attach and c9proc.                                            *)
LEMMA RepliedQid ==
  ASSUME NEW msize \in Nat, msize >= C9minmsize,
         NEW type \in {"Rauth", "Rattach"}, NEW m,
         m = Begun(msize, type, 13, <<F(13, V.qid)>>)
  PROVE  m.err = "ok" /\ Replied(m, type, <<V.qid>>, msize)
<1> DEFINE f == <<F(13, V.qid)>>
<1>1. f \in Fields /\ Len(f) = 1 /\ f[1][1] = 13 /\ Val(f, 1, 13) = V.qid
  BY VIs DEF Fields, F, Val
<1> HIDE DEF f
<1>2. WireSize(f) = 13
  BY <1>1, WireFew
<1>3. /\ m.err = "ok" /\ m.type = type /\ m.f = f
      /\ m.size - 4 - 3 = 13 /\ m.size = 7 + 13
      /\ m.size \in Nat /\ m.size >= 7 /\ m.size <= msize
  BY Roomy, BegunFits DEF f
<1>4. GotR(m, msize) = GotQid(13, f)
  BY <1>3, GotRIs
<1>5. GotQid(13, f).err = "ok" /\ GotQid(13, f).v = <<V.qid>>
  BY <1>1 DEF GotQid, Got
<1>6. type # "Rversion"
  OBVIOUS
<1> DEFINE v == <<V.qid>>
<1> HIDE DEF v
<1>8. /\ m.size = 7 + WireSize(m.f) /\ m.type # "Rversion" /\ m.err = "ok"
      /\ m.size \in Nat /\ m.size >= 7 /\ m.size <= msize
  BY <1>2, <1>3, <1>4, <1>5, <1>6
<1>9. GotR(m, msize).err = "ok" /\ GotR(m, msize).v = v
  BY <1>2, <1>3, <1>4, <1>5, <1>6 DEF v
<1>10. Replied(m, type, v, msize)
  BY <1>8, <1>9, RepliedIf
<1> QED
  BY <1>8, <1>10 DEF v

(* The answers with nothing in them.                                       *)
LEMMA RepliedDone ==
  ASSUME NEW msize \in Nat, msize >= C9minmsize,
         NEW type \in {"Rflush", "Rclunk", "Rremove", "Rwstat"}
  PROVE  S9done(msize, type).err = "ok" /\ Replied(S9done(msize, type), type, <<>>, msize)
<1> DEFINE m == S9done(msize, type)
           f == <<>>
<1>1. f \in Fields /\ Len(f) = 0
  BY DEF Fields
<1>2. m = Begun(msize, type, 0, f)
  BY DEF S9done
<1> HIDE DEF m, f
<1>3. WireSize(f) = 0
  BY <1>1, WireFew
<1>4. /\ m.err = "ok" /\ m.type = type /\ m.f = f
      /\ m.size = 7 + 0 /\ m.size \in Nat /\ m.size >= 7 /\ m.size <= msize
  BY <1>2, Roomy, BegunFits
<1>5. GotR(m, msize).err = "ok" /\ GotR(m, msize).v = <<>>
  BY <1>4, GotRIs
<1>6. type # "Rversion"
  OBVIOUS
<1> DEFINE v == <<>>
<1> HIDE DEF v
<1>8. /\ m.size = 7 + WireSize(m.f) /\ m.type # "Rversion" /\ m.err = "ok"
      /\ m.size \in Nat /\ m.size >= 7 /\ m.size <= msize
  BY <1>3, <1>4, <1>5, <1>6
<1>9. GotR(m, msize).err = "ok" /\ GotR(m, msize).v = v
  BY <1>3, <1>4, <1>5, <1>6 DEF v
<1>10. Replied(m, type, v, msize)
  BY <1>8, <1>9, RepliedIf
<1> QED
  BY <1>8, <1>10 DEF v, m

(* s9open, s9create and c9proc.                                            *)
LEMMA RepliedOpen ==
  ASSUME NEW msize \in Nat, msize >= C9minmsize, NEW type \in {"Ropen", "Rcreate"}
  PROVE  /\ S9opened(msize, type).err = "ok"
         /\ Replied(S9opened(msize, type), type, <<V.qid, V.iounit>>, msize)
<1> DEFINE m == S9opened(msize, type)
           f == <<F(13, V.qid), F(4, V.iounit)>>
<1>1. /\ f \in Fields /\ Len(f) = 2 /\ f[1][1] = 13 /\ f[2][1] = 4
      /\ Val(f, 1, 13) = V.qid /\ Val(f, 2, 4) = V.iounit
  BY VIs DEF Fields, F, Val
<1>2. m = Begun(msize, type, 17, f)
  BY DEF S9opened
<1> HIDE DEF m, f
<1>3. WireSize(f) = 17
  BY <1>1, WireFew
<1>4. /\ m.err = "ok" /\ m.type = type /\ m.f = f
      /\ m.size - 4 - 3 = 17 /\ m.size = 7 + 17
      /\ m.size \in Nat /\ m.size >= 7 /\ m.size <= msize
  BY <1>2, Roomy, BegunFits
<1>5. GotR(m, msize) = GotRopen(17, f)
  BY <1>4, GotRIs
<1>6. GotRopen(17, f).err = "ok" /\ GotRopen(17, f).v = <<V.qid, V.iounit>>
  BY <1>1 DEF GotRopen, Got
<1>7. type # "Rversion"
  OBVIOUS
<1> DEFINE v == <<V.qid, V.iounit>>
<1> HIDE DEF v
<1>8. /\ m.size = 7 + WireSize(m.f) /\ m.type # "Rversion" /\ m.err = "ok"
      /\ m.size \in Nat /\ m.size >= 7 /\ m.size <= msize
  BY <1>3, <1>4, <1>5, <1>6, <1>7
<1>9. GotR(m, msize).err = "ok" /\ GotR(m, msize).v = v
  BY <1>3, <1>4, <1>5, <1>6, <1>7 DEF v
<1>10. Replied(m, type, v, msize)
  BY <1>8, <1>9, RepliedIf
<1> QED
  BY <1>8, <1>10 DEF v, m

(* s9write and c9proc.                                                     *)
LEMMA RepliedWrite ==
  ASSUME NEW msize \in Nat, msize >= C9minmsize, NEW size \in Nat, size <= msize
  PROVE  /\ S9write(msize, size).err = "ok"
         /\ Replied(S9write(msize, size), "Rwrite", <<size>>, msize)
<1> DEFINE m == S9write(msize, size)
           f == <<F(4, size)>>
<1>1. f \in Fields /\ Len(f) = 1 /\ f[1][1] = 4 /\ Val(f, 1, 4) = size
  BY DEF Fields, F, Val
<1>2. m = Begun(msize, "Rwrite", 4, f)
  BY DEF S9write
<1> HIDE DEF m, f
<1>3. WireSize(f) = 4
  BY <1>1, WireFew
<1>4. /\ m.err = "ok" /\ m.type = "Rwrite" /\ m.f = f
      /\ m.size - 4 - 3 = 4 /\ m.size = 7 + 4
      /\ m.size \in Nat /\ m.size >= 7 /\ m.size <= msize
  BY <1>2, Roomy, BegunFits
<1>5. GotR(m, msize) = GotRwrite(4, f, msize)
  BY <1>4, GotRIs
<1>6. GotRwrite(4, f, msize).err = "ok" /\ GotRwrite(4, f, msize).v = <<size>>
  BY <1>1 DEF GotRwrite, Got
<1> DEFINE v == <<size>>
<1> HIDE DEF v
<1>8. /\ m.size = 7 + WireSize(m.f) /\ m.type # "Rversion" /\ m.err = "ok"
      /\ m.size \in Nat /\ m.size >= 7 /\ m.size <= msize
  BY <1>3, <1>4, <1>5, <1>6
<1>9. GotR(m, msize).err = "ok" /\ GotR(m, msize).v = v
  BY <1>3, <1>4, <1>5, <1>6 DEF v
<1>10. Replied(m, "Rwrite", v, msize)
  BY <1>8, <1>9, RepliedIf
<1> QED
  BY <1>8, <1>10 DEF v, m

(* s9read and c9proc.                                                      *)
LEMMA RepliedRead ==
  ASSUME NEW msize \in Nat, msize >= C9minmsize, NEW size \in Nat, size <= msize - 11
  PROVE  /\ S9read(msize, size).err = "ok"
         /\ Replied(S9read(msize, size), "Rread", <<size, V.data>>, msize)
<1> DEFINE m == S9read(msize, size)
           f == <<F(4, size), F(size, V.data)>>
           v == <<size, V.data>>
<1>1. /\ f \in Fields /\ Len(f) = 2 /\ f[1][1] = 4 /\ f[2][1] = size
      /\ Val(f, 1, 4) = size /\ Val(f, 2, size) = V.data
  BY VIs DEF Fields, F, Val
<1>2. m = Begun(msize, "Rread", 4 + size, f)
  BY DEF S9read
<1> HIDE DEF m, f
<1>3. WireSize(f) = 4 + size
  BY <1>1, WireFew
<1>4. /\ m.err = "ok" /\ m.type = "Rread" /\ m.f = f
      /\ m.size - 4 - 3 = 4 + size /\ m.size = 7 + (4 + size)
      /\ m.size \in Nat /\ m.size >= 7 /\ m.size <= msize
  <2>1. 4 + size \in Nat /\ 4 + size <= msize - 7
    OBVIOUS
  <2> QED
    BY <1>2, <2>1, BegunFits
<1>5. GotR(m, msize) = GotRread(4 + size, f)
  BY <1>4, GotRIs
<1>6. GotRread(4 + size, f).err = "ok" /\ GotRread(4 + size, f).v = v
  BY <1>1 DEF GotRread, Got
<1> HIDE DEF v
<1>7. GotR(m, msize).err = "ok" /\ GotR(m, msize).v = v
  BY <1>5, <1>6
<1>8. m.type # "Rversion" /\ m.size = 7 + WireSize(m.f)
  BY <1>3, <1>4
<1>9. Replied(m, "Rread", v, msize)
  BY <1>4, <1>7, <1>8, RepliedIf
<1> QED
  BY <1>4, <1>9 DEF v, m


(* The qids of an answer to a walk.                                        *)
LEMMA AddedSame ==
  ASSUME NEW s \in Seq(Int), \A k \in 1 .. Len(s) : s[k] = 13
  PROVE  Added(s) = 13 * Len(s)
<1> DEFINE T == {n \in Nat : n <= Len(s) => Added(SubSeq(s, 1, n)) = 13 * n}
<1>1. /\ Added(SubSeq(s, 1, 0)) = 0 /\ SubSeq(s, 1, Len(s)) = s
      /\ \A i \in 1 .. Len(s) :
           Added(SubSeq(s, 1, i)) = Added(SubSeq(s, 1, i - 1)) + s[i]
  BY AddedPrefix
<1>2. 0 \in T
  BY <1>1
<1>3. ASSUME NEW n \in Nat, n \in T, n + 1 <= Len(s)
      PROVE  Added(SubSeq(s, 1, n + 1)) = 13 * (n + 1)
  <2>1. n + 1 \in 1 .. Len(s) /\ (n + 1) - 1 = n
    BY <1>3
  <2>2. Added(SubSeq(s, 1, n + 1)) = Added(SubSeq(s, 1, n)) + s[n + 1]
    BY <1>1, <2>1
  <2>3. Added(SubSeq(s, 1, n)) = 13 * n
    BY <1>3
  <2> QED
    BY <2>1, <2>2, <2>3
<1>4. \A n \in Nat : n \in T => n + 1 \in T
  BY <1>3
<1> HIDE DEF T
<1>5. Nat \subseteq T
  BY <1>2, <1>4, Induction
<1>6. Len(s) \in T
  BY <1>5
<1>7. Added(SubSeq(s, 1, Len(s))) = 13 * Len(s)
  BY <1>6 DEF T
<1> QED
  BY <1>1, <1>7

(* The qids are 13 bytes each.                                             *)
LEMMA QidsSize ==
  ASSUME NEW n \in Nat
  PROVE  LET q == [k \in 1 .. n |-> F(13, V.qid)]
         IN  /\ q \in Fields /\ Len(q) = n /\ WireSize(q) = 13 * n
             /\ \A k \in 1 .. n : q[k] = F(13, V.qid)
<1> DEFINE q == [k \in 1 .. n |-> F(13, V.qid)]
           w == [i \in DOMAIN q |-> q[i][1]]
<1>1. F(13, V.qid) \in Int \X Int /\ F(13, V.qid)[1] = 13
  BY VIs DEF F
<1>2. q \in Fields /\ Len(q) = n /\ DOMAIN q = 1 .. n
  BY <1>1 DEF Fields
<1>3. \A k \in 1 .. n : q[k] = F(13, V.qid)
  OBVIOUS
<1> HIDE DEF q
<1>4. w \in Seq(Int) /\ Len(w) = n /\ \A k \in 1 .. n : w[k] = 13
  BY <1>1, <1>2, <1>3
<1>5. WireSize(q) = Added(w)
  BY DEF WireSize
<1> HIDE DEF w
<1>6. Added(w) = 13 * n
  BY <1>4, AddedSame
<1> QED
  BY <1>2, <1>3, <1>5, <1>6 DEF q

(* s9walk and c9proc.                                                      *)
LEMMA RepliedWalk ==
  ASSUME NEW msize \in Nat, msize >= C9minmsize, NEW n \in 0 .. 16
  PROVE  /\ S9walk(msize, n).err = "ok"
         /\ Replied(S9walk(msize, n), "Rwalk", [k \in 1 .. n |-> V.qid], msize)
<1> DEFINE m == S9walk(msize, n)
           h == <<W16(n)>>
           q == [k \in 1 .. n |-> F(13, V.qid)]
           f == h \o q
           v == [k \in 1 .. n |-> V.qid]
           sz == 2 + n * 13
<1>1. n \in Nat /\ n <= 16 /\ W16(n) = F(2, n)
  <2>1. n \in Nat /\ n <= 16
    OBVIOUS
  <2>2. Small(n)
    BY <2>1, SMT DEF Small, C9maxstr
  <2> QED
    BY <2>1, <2>2, LowIs
<1>2. h \in Fields /\ Len(h) = 1 /\ h[1] = F(2, n) /\ h[1][1] = 2
  BY <1>1 DEF Fields, F
<1>3. /\ q \in Fields /\ Len(q) = n /\ WireSize(q) = 13 * n
      /\ \A k \in 1 .. n : q[k] = F(13, V.qid)
  BY <1>1, QidsSize
<1>4. m = Begun(msize, "Rwalk", sz, f)
  BY DEF S9walk
<1>5. sz \in Nat /\ sz <= msize - 7 /\ sz = 2 + 13 * n
  BY <1>1, Roomy, SMT
<1> HIDE DEF m, h, q, v, sz
<1>6. WireSize(h) = 2
  BY <1>2, WireFew
<1>7. /\ f \in Fields /\ WireSize(f) = WireSize(h) + WireSize(q)
      /\ Len(f) = Len(h) + Len(q)
      /\ \A k \in 1 .. Len(h) : f[k] = h[k]
      /\ \A k \in 1 .. Len(q) : f[Len(h) + k] = q[k]
  <2>1. h \in Fields /\ q \in Fields
    BY <1>2, <1>3
  <2>2. f \in Fields /\ WireSize(f) = WireSize(h) + WireSize(q)
    BY <2>1, WireIs
  <2>3. h \in Seq(Int \X Int) /\ q \in Seq(Int \X Int)
    BY <2>1 DEF Fields
  <2>4. /\ Len(f) = Len(h) + Len(q)
        /\ \A k \in 1 .. Len(h) : f[k] = h[k]
        /\ \A k \in 1 .. Len(q) : f[Len(h) + k] = q[k]
    BY <2>3, Behind
  <2> QED
    BY <2>2, <2>4
<1> HIDE DEF f
<1>8. Len(f) = n + 1 /\ f[1] = F(2, n) /\ \A k \in 1 .. n : f[k + 1] = F(13, V.qid)
  <2>1. Len(f) = n + 1
    BY <1>1, <1>2, <1>3, <1>7
  <2>2. f[1] = F(2, n)
    BY <1>2, <1>7
  <2>3. ASSUME NEW k \in 1 .. n
        PROVE  f[k + 1] = F(13, V.qid)
    <3>1. f[1 + k] = q[k] /\ 1 + k = k + 1
      BY <1>2, <1>3, <1>7
    <3> QED
      BY <1>3, <3>1
  <2> QED
    BY <2>1, <2>2, <2>3
<1>9. Val(f, 1, 2) = n
  <2>1. 1 \in 1 .. Len(f)
    BY <1>1, <1>8
  <2> QED
    BY <1>7, <1>8, <2>1, ValIs
<1>10. ASSUME NEW k \in 1 .. n
       PROVE  Val(f, k + 1, 13) = V.qid
  <2>1. k + 1 \in 1 .. Len(f)
    BY <1>1, <1>8
  <2> QED
    BY <1>7, <1>8, <2>1, ValIs
<1>11. /\ m.err = "ok" /\ m.type = "Rwalk" /\ m.f = f
       /\ m.size - 4 - 3 = sz /\ m.size = 7 + sz
      /\ m.size \in Nat /\ m.size >= 7 /\ m.size <= msize
  BY <1>4, <1>5, BegunFits
<1>12. GotR(m, msize) = GotRwalk(sz, f)
  BY <1>11, GotRIs
<1>13. GotRwalk(sz, f).err = "ok" /\ GotRwalk(sz, f).v = v
  <2>1. sz \in Int /\ sz = 2 + n * 13
    BY <1>5 DEF sz
  <2>2. \A k \in 1 .. n : Val(f, k + 1, 13) = V.qid
    BY <1>10
  <2>3. v = [k \in 1 .. n |-> Val(f, k + 1, 13)]
    BY <2>2 DEF v
  <2>4. sz >= 2 /\ n * 13 <= sz - 2 /\ ~ (n > C9maxpathel)
    BY <1>1, <2>1, SMT DEF C9maxpathel
  <2> QED
    BY <1>9, <2>3, <2>4 DEF GotRwalk, Got
<1>14. /\ m.size = 7 + WireSize(m.f) /\ m.type # "Rversion" /\ m.err = "ok"
       /\ m.size \in Nat /\ m.size >= 7 /\ m.size <= msize
  BY <1>1, <1>3, <1>5, <1>6, <1>7, <1>11
<1>15. GotR(m, msize).err = "ok" /\ GotR(m, msize).v = v
  BY <1>12, <1>13
<1>16. Replied(m, "Rwalk", v, msize)
  BY <1>14, <1>15, RepliedIf
<1> QED
  BY <1>14, <1>16 DEF v, m

(* An answer that is a message of its own: the text of an error.           *)
LEMMA RepliedError ==
  ASSUME NEW msize \in Nat, NEW len \in Nat, S9error(msize, len).err = "ok"
  PROVE  Replied(S9error(msize, len), "Rerror", Same(<<len>>, 1), msize)
<1> DEFINE m == S9error(msize, len)
           lens == <<len>>
           e == <<>>
           g == e \o Strings(lens, 1)
           f == Wcs(len, 1)
<1>1. len <= C9maxstr /\ m = Begun(msize, "Rerror", 2 + len, f)
  <2>1. len > C9maxstr => m = Refused("C9Estr")
    BY SMT DEF S9error
  <2>2. ~ (len > C9maxstr)
    BY <2>1, RefusedIs
  <2>3. len <= C9maxstr
    BY <2>2, SMT DEF C9maxstr
  <2> QED
    BY <2>2, <2>3 DEF S9error
<1>2. lens \in Seq(Nat) /\ Len(lens) = 1 /\ lens[1] = len
  OBVIOUS
<1>3. e \in Fields /\ Len(e) = 0
  BY DEF Fields
<1>4. f \in Fields /\ Len(f) = 2 /\ f[1] = W16(len) /\ f[2] = F(len, 1)
  <2>1. W16(len) \in Int \X Int /\ F(len, 1) \in Int \X Int
    <3>1. W16(len) = F(2, Low(len)) /\ Low(len) \in Nat
      BY LowIs
    <3> QED
      BY <3>1 DEF F
  <2> QED
    BY <2>1 DEF Wcs, Fields
<1> HIDE DEF lens, e, f, m
<1>5. /\ Strings(lens, 1) \in Fields /\ Len(Strings(lens, 1)) = 2
      /\ Strings(lens, 1)[1] = W16(len) /\ Strings(lens, 1)[2] = F(len, 1)
  <2> DEFINE first == 1
             s == Strings(lens, first)
  <2>1. first \in Int
    OBVIOUS
  <2> HIDE DEF first
  <2>2. /\ s \in Fields /\ Len(s) = 2 * Len(lens)
        /\ \A k \in 1 .. Len(lens) : /\ s[2 * k - 1] = W16(lens[k])
                                     /\ s[2 * k] = F(lens[k], first + k - 1)
    BY <1>2, <2>1, StringsAre
  <2> HIDE DEF s
  <2>3. 1 \in 1 .. Len(lens) /\ 2 * 1 - 1 = 1 /\ 2 * 1 = 2 /\ 2 * Len(lens) = 2
    BY <1>2
  <2>4. first + 1 - 1 = 1
    BY DEF first
  <2>5. s[2 * 1 - 1] = W16(lens[1]) /\ s[2 * 1] = F(lens[1], first + 1 - 1)
    BY <2>2, <2>3
  <2>6. s[1] = W16(len) /\ s[2] = F(len, 1)
    BY <1>2, <2>3, <2>4, <2>5
  <2> QED
    BY <2>2, <2>3, <2>6 DEF s, first
<1>6. g = f
  <2>1. e \in Seq(Int \X Int) /\ Strings(lens, 1) \in Seq(Int \X Int) /\ f \in Seq(Int \X Int)
    BY <1>3, <1>4, <1>5 DEF Fields
  <2>2. Len(f) = Len(e) + Len(Strings(lens, 1))
    BY <1>3, <1>4, <1>5
  <2>3. \A i \in 1 .. Len(e) : f[i] = e[i]
    BY <1>3
  <2>4. \A i \in 1 .. Len(Strings(lens, 1)) : f[Len(e) + i] = Strings(lens, 1)[i]
    <3>1. ASSUME NEW i \in 1 .. 2
          PROVE  f[0 + i] = Strings(lens, 1)[i]
      <4>1. i = 1 \/ i = 2
        OBVIOUS
      <4>2. 0 + i = i
        OBVIOUS
      <4> QED
        BY <1>4, <1>5, <4>1, <4>2
    <3> QED
      BY <1>3, <1>5, <3>1
  <2> QED
    BY <2>1, <2>2, <2>3, <2>4, SameSeqs
<1>7. \A k \in 1 .. Len(lens) : lens[k] <= C9maxstr
  <2>1. \A k \in 1 .. 1 : k = 1
    OBVIOUS
  <2> QED
    BY <1>1, <1>2, <2>1
<1>8. /\ WireSize(g) = WireSize(e) + Total(lens)
      /\ Lens(g, Len(e) + 1, Len(lens)) = lens
      /\ StringsAt(g, Len(e) + 1, Len(lens)) = Same(lens, 1)
  BY <1>2, <1>3, <1>7, WithStrings
<1>9. WireSize(f) = 2 + len /\ StringsAt(f, 1, 1) = Same(lens, 1)
  <2>1. WireSize(e) = 0 /\ Total(lens) = 2 + len
    BY <1>2, <1>3, WireFew, TotalFew
  <2>2. Len(e) + 1 = 1
    BY <1>3
  <2> HIDE DEF g
  <2>3. WireSize(f) = 2 + len
    BY <1>6, <1>8, <2>1
  <2> QED
    BY <1>2, <1>6, <1>8, <2>2, <2>3
<1>10. Val(f, 1, 2) = len
  <2>1. W16(len) = F(2, len)
    BY <1>1, LowIs DEF Small
  <2>2. 1 \in 1 .. Len(f)
    BY <1>4
  <2> QED
    BY <1>4, <2>1, <2>2, ValIs
<1>11. /\ m.type = "Rerror" /\ m.f = f /\ m.size = 7 + (2 + len)
       /\ m.size - 4 - 3 = 2 + len /\ m.size \in Nat /\ m.size >= 7 /\ m.size <= msize
  <2>1. 2 + len \in Int
    OBVIOUS
  <2>2. m.type = "Rerror" /\ m.f = f /\ m.size = (2 + len) + 7 /\ 2 + len <= msize - 7
    BY <1>1, <2>1, BegunIs DEF m
  <2> QED
    BY <2>2
<1>12. GotR(m, msize) = GotRerror(2 + len, f)
  BY <1>11, GotRIs
<1>13. GotRerror(2 + len, f).err = "ok" /\ GotRerror(2 + len, f).v = StringsAt(f, 1, 1)
  <2>1. 2 + len >= 2 /\ len <= (2 + len) - 2
    OBVIOUS
  <2> QED
    BY <1>10, <2>1 DEF GotRerror, Got
<1> DEFINE v == Same(lens, 1)
<1>14. GotR(m, msize).err = "ok" /\ GotR(m, msize).v = v
  BY <1>9, <1>12, <1>13
<1> HIDE DEF v
<1>15. /\ m.size = 7 + WireSize(m.f) /\ m.type # "Rversion"
       /\ m.size \in Nat /\ m.size >= 7 /\ m.size <= msize
  BY <1>9, <1>11
<1>16. Replied(m, "Rerror", v, msize)
  BY <1>14, <1>15, RepliedIf
<1> QED
  BY <1>16 DEF m, v, lens


(* Stats and the entries of directories.                                   *)
LEMMA EntryErrorIs ==
  ASSUME NEW lens \in [1 .. 4 -> Nat]
  PROVE  /\ EntryError(lens) \in {"C9Epath", "C9Estr", "ok"}
         /\ EntryError(lens) = "ok" => \A k \in 1 .. Len(lens) : lens[k] <= C9maxstr
<1>1. lens \in Seq(Nat) /\ Len(lens) = 4 /\ lens[1] \in Nat
  BY Lengths4
<1>2. EntryError(lens) \in {"C9Epath", "C9Estr", "ok"}
  BY SMT DEF EntryError
<1>3. ASSUME EntryError(lens) = "ok"
      PROVE  ~ TooLong(lens)
  <2>1. ~ (lens[1] = 0 \/ lens[1] > C9maxstr)
    BY <1>3, SMT DEF EntryError
  <2>2. lens[1] \in 1 .. C9maxstr
    <3>1. PICK n \in Nat : n = lens[1]
      BY <1>1
    <3>2. n # 0 /\ ~ (n > C9maxstr)
      BY <2>1, <3>1
    <3>3. C9maxstr \in Int
      BY SMT DEF C9maxstr
    <3>4. n >= 1 /\ n <= C9maxstr
      BY <3>2, <3>3
    <3>5. n \in 1 .. C9maxstr
      BY <3>3, <3>4
    <3> QED
      BY <3>1, <3>5
  <2> QED
    BY <1>3, <2>1, <2>2, SMT DEF EntryError
<1> QED
  BY <1>1, <1>2, <1>3, ShortEnough

EntryFront(n, a, b, c) == <<W16(n), F(6, a), F(13, b), F(20, c)>>

EntryFronted(h, n, b, c) ==
  /\ h \in Fields /\ Len(h) = 4 /\ WireSize(h) = 41
  /\ h[1] = F(2, Low(n)) /\ h[3] = F(13, b) /\ h[4] = F(20, c)

(* The fields of an entry before its strings.                              *)
LEMMA EntryFrontIs ==
  ASSUME NEW n \in Nat, NEW a \in Int, NEW b \in Int, NEW c \in Int
  PROVE  EntryFronted(EntryFront(n, a, b, c), n, b, c)
<1> DEFINE x == Low(n)
           f == <<F(2, x), F(6, a), F(13, b), F(20, c)>>
<1>1. f = EntryFront(n, a, b, c)
  BY LowIs DEF EntryFront
<1>2. x \in Nat
  BY LowIs
<1> HIDE DEF x
<1>3. f \in Fields /\ Len(f) = 4
  BY <1>2 DEF Fields, F
<1>4. /\ f[1] = F(2, x) /\ f[3] = F(13, b) /\ f[4] = F(20, c)
      /\ f[1][1] = 2 /\ f[2][1] = 6 /\ f[3][1] = 13 /\ f[4][1] = 20
  BY DEF F
<1> HIDE DEF f
<1>5. WireSize(f) = 41
  BY <1>3, <1>4, WireFew
<1> QED
  BY <1>1, <1>3, <1>4, <1>5 DEF x, EntryFronted

(* An entry has twelve fields and the size that it says.                   *)
LEMMA EntryIs ==
  ASSUME NEW lens \in Seq(Nat), Len(lens) = 4
  PROVE  LET h == EntryFront(Statsz(lens), V.nochange, V.qid, V.stat)
         IN  /\ Entry(lens) = h \o Strings(lens, 1)
             /\ h \in Fields /\ Strings(lens, 1) \in Fields
             /\ Len(h) = 4 /\ Len(Strings(lens, 1)) = 8
             /\ h[1] = F(2, Low(Statsz(lens))) /\ h[3] = F(13, V.qid) /\ h[4] = F(20, V.stat)
             /\ Entry(lens) \in Fields /\ Len(Entry(lens)) = 12
             /\ WireSize(Entry(lens)) = 2 + Statsz(lens)
             /\ \A k \in 1 .. 4 : Entry(lens)[k] = h[k]
             /\ \A k \in 1 .. 8 : Entry(lens)[4 + k] = Strings(lens, 1)[k]
<1> DEFINE n == Statsz(lens)
           a == V.nochange
           b == V.qid
           c == V.stat
           h == EntryFront(n, a, b, c)
           s == Strings(lens, 1)
           e == h \o s
<1>1. Entry(lens) = e
  BY DEF Entry, EntryFront
<1>2. n \in Nat /\ n = 39 + Total(lens) /\ Total(lens) \in Nat
  BY StatszIs, TotalIs
<1>3. a \in Int /\ b \in Int /\ c \in Int
  BY VIs
<1> HIDE DEF n, a, b, c
<1>4. /\ h \in Fields /\ Len(h) = 4 /\ WireSize(h) = 41
      /\ h[1] = F(2, Low(n)) /\ h[3] = F(13, b) /\ h[4] = F(20, c)
  <2>1. EntryFronted(h, n, b, c)
    BY <1>2, <1>3, EntryFrontIs
  <2> HIDE DEF h
  <2> QED
    BY <2>1 DEF EntryFronted
<1>5. s \in Fields /\ Len(s) = 8 /\ WireSize(s) = Total(lens)
  <2>1. 1 \in Int
    OBVIOUS
  <2>2. s \in Fields /\ Len(s) = 2 * Len(lens) /\ WireSize(s) = Total(lens)
    BY <2>1, StringsAre, StringsSize
  <2> QED
    BY <2>2
<1> HIDE DEF h, s
<1>6. e \in Fields /\ WireSize(e) = WireSize(h) + WireSize(s)
  BY <1>4, <1>5, WireIs
<1>7. /\ Len(e) = Len(h) + Len(s)
      /\ \A k \in 1 .. Len(h) : e[k] = h[k]
      /\ \A k \in 1 .. Len(s) : e[Len(h) + k] = s[k]
  <2>1. h \in Seq(Int \X Int) /\ s \in Seq(Int \X Int)
    BY <1>4, <1>5 DEF Fields
  <2> QED
    BY <2>1, Behind
<1> HIDE DEF e
<1>8. /\ Len(e) = 12 /\ WireSize(e) = 2 + n
      /\ \A k \in 1 .. 4 : e[k] = h[k]
      /\ \A k \in 1 .. 8 : e[4 + k] = s[k]
  BY <1>2, <1>4, <1>5, <1>6, <1>7
<1>9. Entry(lens) = h \o s
  BY <1>1 DEF e
<1>10. /\ h[1] = F(2, Low(Statsz(lens))) /\ h[3] = F(13, V.qid) /\ h[4] = F(20, V.stat)
       /\ WireSize(e) = 2 + Statsz(lens)
  BY <1>4, <1>8 DEF n, b, c
<1> QED
  BY <1>1, <1>4, <1>5, <1>6, <1>8, <1>9, <1>10 DEF h, s, n, a, b, c

(* What c9parsedir finds in an entry.                                      *)
LEMMA EntryRead ==
  ASSUME NEW lens \in Seq(Nat), Len(lens) = 4, \A k \in 1 .. Len(lens) : lens[k] <= C9maxstr,
         NEW g, NEW i \in Int, At(g, i, Entry(lens))
  PROVE  /\ Val(g, i, 2) = Low(Statsz(lens))
         /\ Val(g, i + 2, 13) = V.qid /\ Val(g, i + 3, 20) = V.stat
         /\ Lens(g, i + 4, 4) = lens /\ StringsAt(g, i + 4, 4) = Same(lens, 1)
<1> DEFINE e == Entry(lens)
           h == EntryFront(Statsz(lens), V.nochange, V.qid, V.stat)
           s == Strings(lens, 1)
<1>1. /\ Len(e) = 12 /\ Len(s) = 8
      /\ \A k \in 1 .. 4 : e[k] = h[k]
      /\ \A k \in 1 .. 8 : e[4 + k] = s[k]
      /\ h[1] = F(2, Low(Statsz(lens))) /\ h[3] = F(13, V.qid) /\ h[4] = F(20, V.stat)
  BY EntryIs
<1> HIDE DEF e, h, s
<1>2. \A j \in 1 .. 12 : i + j - 1 \in DOMAIN g /\ g[i + j - 1] = e[j]
  BY <1>1 DEF At, e
<1>3. /\ i \in DOMAIN g /\ g[i] = F(2, Low(Statsz(lens)))
      /\ i + 2 \in DOMAIN g /\ g[i + 2] = F(13, V.qid)
      /\ i + 3 \in DOMAIN g /\ g[i + 3] = F(20, V.stat)
  <2>1. i + 1 - 1 = i /\ i + 3 - 1 = i + 2 /\ i + 4 - 1 = i + 3
    OBVIOUS
  <2>2. 1 \in 1 .. 12 /\ 3 \in 1 .. 12 /\ 4 \in 1 .. 12
    OBVIOUS
  <2>3. /\ i + 1 - 1 \in DOMAIN g /\ g[i + 1 - 1] = e[1]
        /\ i + 3 - 1 \in DOMAIN g /\ g[i + 3 - 1] = e[3]
        /\ i + 4 - 1 \in DOMAIN g /\ g[i + 4 - 1] = e[4]
    BY <1>2, <2>2
  <2>4. e[1] = h[1] /\ e[3] = h[3] /\ e[4] = h[4]
    BY <1>1
  <2> QED
    BY <1>1, <2>1, <2>3, <2>4
<1>4. /\ Val(g, i, 2) = Low(Statsz(lens))
      /\ Val(g, i + 2, 13) = V.qid /\ Val(g, i + 3, 20) = V.stat
  BY <1>3, FieldIs DEF Val
<1>5. At(g, i + 4, s)
  <2>1. ASSUME NEW j \in 1 .. 8
        PROVE  (i + 4) + j - 1 \in DOMAIN g /\ g[(i + 4) + j - 1] = s[j]
    <3>1. 4 + j \in 1 .. 12 /\ (i + 4) + j - 1 = i + (4 + j) - 1
      OBVIOUS
    <3>2. e[4 + j] = s[j]
      BY <1>1
    <3> QED
      BY <1>2, <3>1, <3>2
  <2> QED
    BY <1>1, <2>1 DEF At
<1>6. Lens(g, i + 4, Len(lens)) = lens /\ StringsAt(g, i + 4, Len(lens)) = Same(lens, 1)
  <2>1. i + 4 \in Int /\ 1 \in Int
    OBVIOUS
  <2> QED
    BY <1>5, <2>1, StringsRead DEF s
<1> QED
  BY <1>4, <1>6


(* The lengths in what c9parsedir gives.                                   *)
LEMMA SameEntryIs ==
  ASSUME NEW lens \in Seq(Nat), Len(lens) = 4
  PROVE  /\ SameEntry(lens)[3] = lens[1] /\ SameEntry(lens)[4] = lens[2]
         /\ SameEntry(lens)[5] = lens[3] /\ SameEntry(lens)[6] = lens[4]
<1> DEFINE x == <<V.qid, V.stat>>
           s == Same(lens, 1)
           v == x \o s
<1>1. v = SameEntry(lens)
  BY DEF SameEntry
<1>2. x \in Seq(Int) /\ Len(x) = 2
  BY VIs
<1>3. s \in Seq(Int) /\ Len(s) = 2 * Len(lens) /\ \A k \in 1 .. Len(lens) : s[k] = lens[k]
  BY SameIs
<1> HIDE DEF x, s
<1>4. \A k \in 1 .. Len(s) : v[Len(x) + k] = s[k]
  <2>1. x \in Seq(Int) /\ s \in Seq(Int)
    BY <1>2, <1>3
  <2> QED
    BY <2>1, Behind
<1> HIDE DEF v
<1>5. \A k \in 1 .. 4 : v[2 + k] = lens[k]
  <2>1. Len(s) = 8
    BY <1>3
  <2>2. \A k \in 1 .. 8 : v[2 + k] = s[k]
    BY <1>2, <1>4, <2>1
  <2>3. \A k \in 1 .. 4 : s[k] = lens[k] /\ k \in 1 .. 8
    BY <1>3
  <2> QED
    BY <2>2, <2>3
<1>6. 1 \in 1 .. 4 /\ 2 \in 1 .. 4 /\ 3 \in 1 .. 4 /\ 4 \in 1 .. 4
      /\ 2 + 1 = 3 /\ 2 + 2 = 4 /\ 2 + 3 = 5 /\ 2 + 4 = 6
  OBVIOUS
<1>7. v[2 + 1] = lens[1] /\ v[2 + 2] = lens[2] /\ v[2 + 3] = lens[3] /\ v[2 + 4] = lens[4]
  BY <1>5, <1>6
<1> QED
  BY <1>1, <1>6, <1>7

(* s9stat and c9proc, but for muid and a stat too large for 16 bits.       *)
LEMMA RepliedStat ==
  ASSUME NEW msize \in Nat, NEW lens \in [1 .. 4 -> Nat], S9stat(msize, lens).err = "ok"
  PROVE  Replied(S9stat(msize, lens), "Rstat", SameEntry(lens), msize)
<1> DEFINE m == S9stat(msize, lens)
           sent == [lens EXCEPT ![4] = lens[1]]
           n == Statsz(sent)
           h == <<W16(n + 2)>>
           e == Entry(sent)
           f == h \o e
           v == SameEntry(lens)
           sz == 2 + 2 + n
<1>1. lens \in Seq(Nat) /\ Len(lens) = 4
  BY Lengths4
<1>2. /\ sent \in [1 .. 4 -> Nat] /\ sent[1] = lens[1] /\ sent[2] = lens[2]
      /\ sent[3] = lens[3] /\ sent[4] = lens[1]
  OBVIOUS
<1>3. EntryError(sent) = "ok" /\ m = Begun(msize, "Rstat", sz, f)
  <2>1. EntryError(sent) # "ok" => m = Refused(EntryError(sent))
    BY DEF S9stat
  <2>2. EntryError(sent) = "ok"
    BY <2>1, RefusedIs
  <2> QED
    BY <2>2 DEF S9stat
<1>4. lens[4] = lens[1] => sent = lens
  OBVIOUS
<1> HIDE DEF sent, m
<1>5. sent \in Seq(Nat) /\ Len(sent) = 4 /\ \A k \in 1 .. Len(sent) : sent[k] <= C9maxstr
  BY <1>2, <1>3, Lengths4, EntryErrorIs
<1>6. n \in Nat
  BY <1>5, StatszIs
<1>7. e \in Fields /\ Len(e) = 12 /\ WireSize(e) = 2 + n
  BY <1>5, EntryIs
<1>8. h \in Fields /\ Len(h) = 1 /\ h[1][1] = 2
  <2>1. n + 2 \in Nat
    BY <1>6
  <2>2. W16(n + 2) = F(2, Low(n + 2)) /\ Low(n + 2) \in Nat
    BY <2>1, LowIs
  <2> QED
    BY <2>2 DEF Fields, F
<1> HIDE DEF n, e, h
<1>9. WireSize(h) = 2
  BY <1>8, WireFew
<1>10. WireSize(f) = sz /\ sz \in Nat
  <2>1. WireSize(f) = WireSize(h) + WireSize(e)
    BY <1>7, <1>8, WireIs
  <2> QED
    BY <1>6, <1>7, <1>9, <2>1
<1>11. At(f, 2, e)
  <2>1. At(f, Len(h) + 1, e)
    BY <1>7, <1>8, AtEnd
  <2>2. Len(h) + 1 = 2
    BY <1>8
  <2> QED
    BY <2>1, <2>2
<1> HIDE DEF f
<1>12. /\ Val(f, 2, 2) = Low(Statsz(sent))
       /\ Val(f, 2 + 2, 13) = V.qid /\ Val(f, 2 + 3, 20) = V.stat
       /\ Lens(f, 2 + 4, 4) = sent /\ StringsAt(f, 2 + 4, 4) = Same(sent, 1)
  <2>1. 2 \in Int
    OBVIOUS
  <2>2. At(f, 2, Entry(sent))
    BY <1>11 DEF e
  <2>3. sent \in Seq(Nat) /\ Len(sent) = 4
    BY <1>5
  <2>4. \A k \in 1 .. Len(sent) : sent[k] <= C9maxstr
    BY <1>5
  <2> QED
    BY <2>1, <2>2, <2>3, <2>4, EntryRead
<1>13. /\ m.type = "Rstat" /\ m.f = f /\ m.size - 4 - 3 - 2 = n + 2
       /\ m.size = 7 + sz /\ m.size \in Nat /\ m.size >= 7 /\ m.size <= msize
  <2>1. sz \in Int
    BY <1>10
  <2>2. m.type = "Rstat" /\ m.f = f /\ m.size = sz + 7 /\ sz <= msize - 7
    BY <1>3, <2>1, BegunIs DEF m
  <2> QED
    BY <1>6, <1>10, <2>2
<1> DEFINE stat == C9parsedir(n + 2, f, 2)
<1>14. GotR(m, msize) = stat
  BY <1>13, GotRIs
<1>15. /\ stat.err = "ok" => stat.v = <<V.qid, V.stat>> \o Same(sent, 1)
       /\ Small(n) => stat.err = "ok"
  <2>1. 2 \in Int /\ n + 2 \in Int /\ n + 2 >= 2 + n
    BY <1>6
  <2>2. sent \in Seq(Nat) /\ Len(sent) = 4
    BY <1>5
  <2>3. /\ stat.err = "ok" =>
             stat.v = <<Val(f, 2 + 2, 13), Val(f, 2 + 3, 20)>> \o Same(sent, 1)
        /\ Small(Statsz(sent)) /\ n + 2 >= 2 + Statsz(sent) => stat.err = "ok"
    BY <1>12, <2>1, <2>2, ParsedirIs
  <2> QED
    BY <1>12, <2>1, <2>3 DEF n
<1> HIDE DEF stat
<1>16. /\ v[3] = lens[1] /\ v[4] = lens[2] /\ v[5] = lens[3] /\ v[6] = lens[4]
  BY <1>1, SameEntryIs
<1>17. stat.err = "ok" => stat.v = v \/ v[6] # v[3]
  <2>1. lens[4] = lens[1] /\ stat.err = "ok" => stat.v = v
    BY <1>4, <1>15 DEF SameEntry
  <2> HIDE DEF v
  <2> QED
    BY <1>16, <2>1
<1> HIDE DEF v
<1>18. ~ Small(n) => Oversized(v)
  <2>1. <<v[3], v[4], v[5], v[3]>> = sent
    <3> DEFINE u == <<v[3], v[4], v[5], v[3]>>
    <3>1. /\ u[1] = sent[1] /\ u[2] = sent[2] /\ u[3] = sent[3] /\ u[4] = sent[4]
      BY <1>2, <1>16
    <3>2. /\ u \in Seq(Nat) /\ Len(u) = 4
      BY <1>2, <1>16
    <3> HIDE DEF u
    <3>3. \A k \in 1 .. 4 : k = 1 \/ k = 2 \/ k = 3 \/ k = 4
      OBVIOUS
    <3>4. \A k \in 1 .. Len(u) : u[k] = sent[k]
      BY <3>1, <3>2, <3>3
    <3>5. u = sent
      BY <1>5, <3>2, <3>4, SeqEqual
    <3> QED
      BY <3>5 DEF u
  <2>2. Oversized(v) <=> Statsz(<<v[3], v[4], v[5], v[3]>>) + 2 > 65535
    BY SMT DEF Oversized
  <2>3. Statsz(<<v[3], v[4], v[5], v[3]>>) = n
    BY <2>1 DEF n
  <2>4. ~ Small(n) => n + 2 > 65535
    BY <1>6, SMT DEF Small, C9maxstr
  <2> QED
    BY <2>2, <2>3, <2>4
<1>19. /\ m.type # "Rversion" /\ m.size = 7 + WireSize(m.f)
      /\ m.size \in Nat /\ m.size >= 7 /\ m.size <= msize
  BY <1>10, <1>13
<1>20. Replied(m, "Rstat", v, msize)
  BY <1>14, <1>15, <1>17, <1>18, <1>19 DEF Replied
<1> QED
  BY <1>20 DEF m, v


-----------------------------------------------------------------------------
(* Directories.                                                            *)

Stats == [1 .. 4 -> Nat]

(* Each entry of a directory has four lengths.                             *)
LEMMA EntryAt ==
  ASSUME NEW entries \in Seq(Stats), NEW k \in 1 .. Len(entries)
  PROVE  /\ entries[k] \in Stats /\ entries[k] \in Seq(Nat) /\ Len(entries[k]) = 4
         /\ Statsz(entries[k]) \in Nat /\ 2 + Statsz(entries[k]) \in Nat
<1>1. entries[k] \in Stats
  OBVIOUS
<1>2. entries[k] \in Seq(Nat) /\ Len(entries[k]) = 4
  BY <1>1, Lengths4 DEF Stats
<1>3. Statsz(entries[k]) \in Nat
  BY <1>2, StatszIs
<1> QED
  BY <1>1, <1>2, <1>3

(* The bytes of a directory, entry by entry.                               *)
LEMMA BytesIs ==
  ASSUME NEW entries \in Seq(Stats), NEW n \in 0 .. Len(entries)
  PROVE  /\ Bytes(entries, 0) = 0
         /\ \A k \in 1 .. n : Bytes(entries, k) = Bytes(entries, k - 1) + (2 + Statsz(entries[k]))
         /\ \A k \in 0 .. n : Bytes(entries, k) \in Nat /\ Bytes(entries, k) <= Bytes(entries, n)
<1> DEFINE st(k) == 2 + Statsz(entries[k])
           u == [k \in 1 .. n |-> st(k)]
<1>1. Len(entries) \in Nat /\ n \in Nat /\ n <= Len(entries)
  OBVIOUS
<1>2. \A k \in 1 .. n : st(k) \in Nat
  BY <1>1, EntryAt
<1>3. \A k : Bytes(entries, k) = Added([j \in 1 .. k |-> st(j)])
  BY DEF Bytes
<1> HIDE DEF st
<1>4. u \in Seq(Nat) /\ Len(u) = n /\ \A k \in 1 .. n : u[k] = st(k)
  BY <1>1, <1>2
<1>5. ASSUME NEW k \in 0 .. n
      PROVE  SubSeq(u, 1, k) = [j \in 1 .. k |-> st(j)]
  BY <1>1, <1>4
<1> HIDE DEF u
<1>6. /\ Added(SubSeq(u, 1, 0)) = 0
      /\ \A k \in 1 .. n : Added(SubSeq(u, 1, k)) = Added(SubSeq(u, 1, k - 1)) + u[k]
  <2>1. u \in Seq(Int)
    BY <1>4
  <2> QED
    BY <1>4, <2>1, AddedPrefix
<1>7. \A k \in 0 .. n : Added(SubSeq(u, 1, k)) \in Nat /\ Added(SubSeq(u, 1, k)) <= Added(u)
  BY <1>4, AddedGrows
<1>8. \A k \in 0 .. n : Bytes(entries, k) = Added(SubSeq(u, 1, k))
  BY <1>3, <1>5
<1>9. Added(u) = Bytes(entries, n)
  BY <1>3 DEF u
<1>10. \A k \in 1 .. n : k \in 0 .. n /\ k - 1 \in 0 .. n
  BY <1>1
<1>11. Bytes(entries, 0) = 0
  BY <1>1, <1>6, <1>8
<1>12. ASSUME NEW k \in 1 .. n
       PROVE  Bytes(entries, k) = Bytes(entries, k - 1) + st(k)
  BY <1>4, <1>6, <1>8, <1>10
<1> QED
  BY <1>7, <1>8, <1>9, <1>11, <1>12 DEF st

(* The entries that are sent fit.                                          *)
LEMMA MostIs ==
  ASSUME NEW entries \in Seq(Stats), NEW size \in Int
  PROVE  /\ Most(entries, size) \in 0 .. Len(entries)
         /\ Most(entries, size) = 0 \/ 4 + Bytes(entries, Most(entries, size)) <= size
<1> DEFINE Fits == Fitting(entries, size)
<1>1. 0 \in Fits
  BY DEF Fitting
<1>2. \A n \in Fits : n \in 0 .. Len(entries) /\ (n = 0 \/ 4 + Bytes(entries, n) <= size)
  BY DEF Fitting
<1>3. Len(entries) \in Nat
  OBVIOUS
<1> HIDE DEF Fits
<1>4. \E n \in Fits : n + 1 \notin Fits
  <2> SUFFICES ASSUME \A n \in Fits : n + 1 \in Fits
               PROVE  FALSE
    OBVIOUS
  <2>1. Nat \subseteq Fits
    BY <1>1, Induction
  <2>2. Len(entries) + 1 \in Fits
    BY <1>3, <2>1
  <2> QED
    BY <1>2, <1>3, <2>2
<1>5. Most(entries, size) \in Fits
  BY <1>4 DEF Most, Fits
<1> QED
  BY <1>2, <1>5

(* The fields of the first n entries, one after the other.                 *)
Listed(entries, n) ==
  [i \in 1 .. 12 * n |-> Entry(entries[(i - 1) \div 12 + 1])[((i - 1) % 12) + 1]]

(* Which field of which entry lies at a place.                             *)
LEMMA Twelves ==
  /\ \A k \in Nat, j \in 1 .. 12 :
       k >= 1 => /\ (12 * (k - 1) + j - 1) \div 12 + 1 = k
                 /\ ((12 * (k - 1) + j - 1) % 12) + 1 = j
  /\ \A n \in Nat : \A i \in 1 .. 12 * n :
       /\ (i - 1) \div 12 + 1 \in 1 .. n /\ ((i - 1) % 12) + 1 \in 1 .. 12
       /\ i = 12 * (((i - 1) \div 12 + 1) - 1) + (((i - 1) % 12) + 1)
  /\ \A n \in Nat : ((12 * n + 1) - 1) \div 12 = n
OBVIOUS

(* The fields of the first n entries.                                      *)
LEMMA ListedIs ==
  ASSUME NEW entries \in Seq(Stats), NEW n \in 0 .. Len(entries)
  PROVE  /\ Listed(entries, n) \in Fields /\ Len(Listed(entries, n)) = 12 * n
         /\ \A k \in 1 .. n : \A j \in 1 .. 12 :
              /\ 12 * (k - 1) + j \in 1 .. 12 * n
              /\ Listed(entries, n)[12 * (k - 1) + j] = Entry(entries[k])[j]
<1> DEFINE q(i) == (i - 1) \div 12 + 1
           c(i) == ((i - 1) % 12) + 1
           l == Listed(entries, n)
<1>1. n \in Nat /\ n <= Len(entries) /\ Len(entries) \in Nat /\ 12 * n \in Nat
  OBVIOUS
<1>2. l = [i \in 1 .. 12 * n |-> Entry(entries[q(i)])[c(i)]]
  BY DEF Listed
<1>3. \A i \in 1 .. 12 * n : q(i) \in 1 .. n /\ c(i) \in 1 .. 12
  BY <1>1, Twelves
<1>4. ASSUME NEW k \in 1 .. n
      PROVE  Entry(entries[k]) \in Fields /\ Len(Entry(entries[k])) = 12
  <2>1. k \in 1 .. Len(entries)
    BY <1>1
  <2>2. entries[k] \in Seq(Nat) /\ Len(entries[k]) = 4
    BY <2>1, EntryAt
  <2> QED
    BY <2>2, EntryIs
<1>5. \A k \in 1 .. n : \A j \in 1 .. 12 : Entry(entries[k])[j] \in Int \X Int
  BY <1>4 DEF Fields
<1>6. ASSUME NEW k \in 1 .. n, NEW j \in 1 .. 12
      PROVE  /\ 12 * (k - 1) + j \in 1 .. 12 * n
             /\ q(12 * (k - 1) + j) = k /\ c(12 * (k - 1) + j) = j
  <2>1. k \in Nat /\ k >= 1 /\ k <= n
    BY <1>1
  <2>2. 12 * (k - 1) + j \in 1 .. 12 * n
    BY <1>1, <2>1
  <2> QED
    BY <2>1, <2>2, Twelves
<1> HIDE DEF l, q, c
<1>7. l \in [1 .. 12 * n -> Int \X Int]
  BY <1>2, <1>3, <1>5
<1>8. l \in Fields /\ Len(l) = 12 * n
  BY <1>1, <1>7 DEF Fields
<1>9. ASSUME NEW k \in 1 .. n, NEW j \in 1 .. 12
      PROVE  l[12 * (k - 1) + j] = Entry(entries[k])[j]
  BY <1>2, <1>6
<1> QED
  BY <1>6, <1>8, <1>9 DEF l


(* The fields of one entry more.                                           *)
LEMMA ListedGrows ==
  ASSUME NEW entries \in Seq(Stats), NEW n \in Nat, n + 1 <= Len(entries)
  PROVE  Listed(entries, n) \o Entry(entries[n + 1]) = Listed(entries, n + 1)
<1> DEFINE l == Listed(entries, n)
           w == Listed(entries, n + 1)
           e == Entry(entries[n + 1])
<1>1. n \in 0 .. Len(entries) /\ n + 1 \in 0 .. Len(entries) /\ n + 1 \in 1 .. Len(entries)
  OBVIOUS
<1>2. /\ l \in Fields /\ Len(l) = 12 * n
      /\ \A k \in 1 .. n : \A j \in 1 .. 12 : l[12 * (k - 1) + j] = Entry(entries[k])[j]
  BY <1>1, ListedIs
<1>3. /\ w \in Fields /\ Len(w) = 12 * (n + 1)
      /\ \A k \in 1 .. n + 1 : \A j \in 1 .. 12 : w[12 * (k - 1) + j] = Entry(entries[k])[j]
  BY <1>1, ListedIs
<1>4. e \in Fields /\ Len(e) = 12
  <2>1. entries[n + 1] \in Seq(Nat) /\ Len(entries[n + 1]) = 4
    BY <1>1, EntryAt
  <2> QED
    BY <2>1, EntryIs
<1>5. ASSUME NEW i \in 1 .. 12 * n
      PROVE  w[i] = l[i]
  <2>1. PICK k \in 1 .. n, j \in 1 .. 12 : i = 12 * (k - 1) + j
    BY Twelves
  <2>2. k \in 1 .. n + 1
    OBVIOUS
  <2> QED
    BY <1>2, <1>3, <2>1, <2>2
<1>6. ASSUME NEW j \in 1 .. 12
      PROVE  w[12 * n + j] = e[j]
  <2>1. n + 1 \in 1 .. n + 1 /\ 12 * ((n + 1) - 1) + j = 12 * n + j
    OBVIOUS
  <2>2. w[12 * ((n + 1) - 1) + j] = Entry(entries[n + 1])[j]
    BY <1>3, <2>1
  <2> QED
    BY <2>1, <2>2
<1> HIDE DEF l, w, e
<1>7. l \o e = w
  <2>1. l \in Seq(Int \X Int) /\ e \in Seq(Int \X Int) /\ w \in Seq(Int \X Int)
    BY <1>2, <1>3, <1>4 DEF Fields
  <2>2. Len(w) = Len(l) + Len(e)
    BY <1>2, <1>3, <1>4
  <2>3. \A i \in 1 .. Len(l) : w[i] = l[i]
    BY <1>2, <1>5
  <2>4. \A i \in 1 .. Len(e) : w[Len(l) + i] = e[i]
    BY <1>2, <1>4, <1>6
  <2> QED
    BY <2>1, <2>2, <2>3, <2>4, SameSeqs
<1> QED
  BY <1>7 DEF l, w, e

(* The fields of n entries are Bytes(entries, n) bytes.                    *)
LEMMA ListedSize ==
  ASSUME NEW entries \in Seq(Stats), NEW n \in 0 .. Len(entries)
  PROVE  WireSize(Listed(entries, n)) = Bytes(entries, n)
<1> DEFINE T == {m \in Nat : m <= n => WireSize(Listed(entries, m)) = Bytes(entries, m)}
<1>1. n \in Nat /\ n <= Len(entries) /\ Len(entries) \in Nat
  OBVIOUS
<1>2. /\ Bytes(entries, 0) = 0
      /\ \A k \in 1 .. n : Bytes(entries, k) = Bytes(entries, k - 1) + (2 + Statsz(entries[k]))
  BY BytesIs
<1>3. WireSize(Listed(entries, 0)) = 0
  <2>1. 0 \in 0 .. Len(entries)
    BY <1>1
  <2>2. Listed(entries, 0) \in Fields /\ Len(Listed(entries, 0)) = 12 * 0
    BY <2>1, ListedIs
  <2>3. Len(Listed(entries, 0)) = 0
    BY <2>2
  <2> QED
    BY <2>2, <2>3, WireFew
<1>4. 0 \in T
  BY <1>2, <1>3
<1>5. ASSUME NEW m \in Nat, m \in T, m + 1 <= n
      PROVE  WireSize(Listed(entries, m + 1)) = Bytes(entries, m + 1)
  <2>1. /\ m \in 0 .. Len(entries) /\ m + 1 \in 1 .. Len(entries) /\ m + 1 \in 1 .. n
        /\ (m + 1) - 1 = m /\ m + 1 <= Len(entries)
    BY <1>1, <1>5
  <2>2. Listed(entries, m) \in Fields
    BY <2>1, ListedIs
  <2>3. entries[m + 1] \in Seq(Nat) /\ Len(entries[m + 1]) = 4
    BY <2>1, EntryAt
  <2>4. Entry(entries[m + 1]) \in Fields /\ WireSize(Entry(entries[m + 1])) = 2 + Statsz(entries[m + 1])
    BY <2>3, EntryIs
  <2>5. WireSize(Listed(entries, m) \o Entry(entries[m + 1]))
          = WireSize(Listed(entries, m)) + WireSize(Entry(entries[m + 1]))
    BY <2>2, <2>4, WireIs
  <2>6. Listed(entries, m) \o Entry(entries[m + 1]) = Listed(entries, m + 1)
    BY <2>1, ListedGrows
  <2>7. WireSize(Listed(entries, m)) = Bytes(entries, m)
    BY <1>5
  <2>8. Bytes(entries, m + 1) = Bytes(entries, m) + (2 + Statsz(entries[m + 1]))
    BY <1>2, <2>1
  <2> QED
    BY <2>4, <2>5, <2>6, <2>7, <2>8
<1>6. \A m \in Nat : m \in T => m + 1 \in T
  BY <1>5
<1> HIDE DEF T
<1>7. Nat \subseteq T
  BY <1>4, <1>6, Induction
<1>8. n \in T
  BY <1>1, <1>7
<1> QED
  BY <1>8 DEF T

(* What the reader of a directory makes of it: all its entries, or none if *)
(* there is one whose size does not fit 16 bits.                           *)
LEMMA ParsedIs ==
  ASSUME NEW entries \in Seq(Stats), NEW n \in 0 .. Len(entries), NEW f,
         Len(f) = 12 * n + 1, Val(f, 1, 4) = Bytes(entries, n),
         \A k \in 1 .. n : /\ At(f, 2 + 12 * (k - 1), Entry(entries[k]))
                           /\ \A j \in 1 .. Len(entries[k]) : entries[k][j] <= C9maxstr
  PROVE  /\ (\A k \in 1 .. n : Small(Statsz(entries[k]))) =>
              Parsed(f) = [k \in 1 .. n |-> SameEntry(entries[k])]
         /\ (\E k \in 1 .. n : ~ Small(Statsz(entries[k]))) => Parsed(f) = <<>>
<1> DEFINE at(k) == 2 + 12 * (k - 1)
           upto(k) == [j \in 1 .. k - 1 |-> 2 + Val(f, at(j), 2)]
           rest(k) == Val(f, 1, 4) - Added(upto(k))
           entry(k) == C9parsedir(rest(k), f, at(k))
<1>1. n \in Nat /\ n <= Len(entries) /\ Len(entries) \in Nat
  OBVIOUS
<1>2. Parsed(f) = IF \A k \in 1 .. n : entry(k).err = "ok"
                  THEN [k \in 1 .. n |-> entry(k).v] ELSE <<>>
  <2>1. (Len(f) - 1) \div 12 = n
    BY <1>1, Twelves
  <2> DEFINE c == (Len(f) - 1) \div 12
  <2>2. Parsed(f) = IF \A k \in 1 .. c : entry(k).err = "ok"
                    THEN [k \in 1 .. c |-> entry(k).v] ELSE <<>>
    BY DEF Parsed
  <2>3. c = n
    BY <2>1
  <2> HIDE DEF c, entry
  <2> QED
    BY <2>2, <2>3
<1>3. ASSUME NEW k \in 1 .. n
      PROVE  /\ k \in 1 .. Len(entries) /\ entries[k] \in Seq(Nat) /\ Len(entries[k]) = 4
             /\ Statsz(entries[k]) \in Nat /\ at(k) \in Int
             /\ Val(f, at(k), 2) = Low(Statsz(entries[k]))
             /\ Val(f, at(k) + 2, 13) = V.qid /\ Val(f, at(k) + 3, 20) = V.stat
             /\ Lens(f, at(k) + 4, 4) = entries[k]
             /\ StringsAt(f, at(k) + 4, 4) = Same(entries[k], 1)
  <2>1. k \in 1 .. Len(entries) /\ at(k) \in Int
    BY <1>1
  <2>2. entries[k] \in Seq(Nat) /\ Len(entries[k]) = 4 /\ Statsz(entries[k]) \in Nat
    BY <2>1, EntryAt
  <2>3. At(f, at(k), Entry(entries[k])) /\ \A j \in 1 .. Len(entries[k]) : entries[k][j] <= C9maxstr
    OBVIOUS
  <2> HIDE DEF at
  <2>4. /\ Val(f, at(k), 2) = Low(Statsz(entries[k]))
        /\ Val(f, at(k) + 2, 13) = V.qid /\ Val(f, at(k) + 3, 20) = V.stat
        /\ Lens(f, at(k) + 4, 4) = entries[k]
        /\ StringsAt(f, at(k) + 4, 4) = Same(entries[k], 1)
    BY <2>1, <2>2, <2>3, EntryRead
  <2> QED
    BY <2>1, <2>2, <2>4
<1> HIDE DEF at
<1>4. ASSUME NEW k \in 1 .. n
      PROVE  rest(k) \in Int
  <2>1. upto(k) \in Seq(Int)
    <3>1. k - 1 \in Nat /\ \A j \in 1 .. k - 1 : j \in 1 .. n
      BY <1>1
    <3>2. ASSUME NEW j \in 1 .. k - 1
          PROVE  2 + Val(f, at(j), 2) \in Int
      <4>1. j \in 1 .. n
        BY <3>1
      <4>2. Val(f, at(j), 2) = Low(Statsz(entries[j])) /\ Statsz(entries[j]) \in Nat
        BY <1>3, <4>1
      <4>3. Low(Statsz(entries[j])) \in Nat
        BY <4>2, LowIs
      <4> QED
        BY <4>2, <4>3
    <3>3. upto(k) \in [1 .. k - 1 -> Int]
      BY <3>2
    <3>4. PICK c \in Nat : c = k - 1
      BY <3>1
    <3> HIDE DEF upto
    <3>5. upto(k) \in [1 .. c -> Int]
      BY <3>3, <3>4
    <3> QED
      BY <3>5, SeqDef
  <2> HIDE DEF upto
  <2>2. Added(upto(k)) \in Int
    BY <2>1, AddedPrefix
  <2>3. Bytes(entries, n) \in Nat
    BY <1>1, BytesIs
  <2> QED
    BY <2>2, <2>3
<1>5. ASSUME NEW k \in 1 .. n
      PROVE  /\ entry(k).err = "ok" => entry(k).v = SameEntry(entries[k])
             /\ Small(Statsz(entries[k])) /\ rest(k) >= 2 + Statsz(entries[k]) =>
                  entry(k).err = "ok"
             /\ ~ Small(Statsz(entries[k])) => entry(k).err # "ok"
  <2>1. /\ rest(k) \in Int /\ at(k) \in Int
        /\ entries[k] \in Seq(Nat) /\ Len(entries[k]) = 4
    BY <1>3, <1>4
  <2> DEFINE lens == entries[k]
  <2>2. /\ Val(f, at(k), 2) = Low(Statsz(lens))
        /\ Val(f, at(k) + 2, 13) = V.qid /\ Val(f, at(k) + 3, 20) = V.stat
        /\ Lens(f, at(k) + 4, 4) = lens
        /\ StringsAt(f, at(k) + 4, 4) = Same(lens, 1)
        /\ lens \in Seq(Nat) /\ Len(lens) = 4
    BY <1>3
  <2> DEFINE s == rest(k)
             i == at(k)
             got == entry(k)
  <2>9. s \in Int /\ i \in Int /\ got = C9parsedir(s, f, i)
    BY <2>1
  <2>10. /\ Val(f, i, 2) = Low(Statsz(lens))
         /\ Lens(f, i + 4, 4) = lens /\ StringsAt(f, i + 4, 4) = Same(lens, 1)
    BY <2>2
  <2> HIDE DEF rest, lens, s, i, got
  <2>11. /\ got.err = "ok" =>
              got.v = <<Val(f, i + 2, 13), Val(f, i + 3, 20)>> \o Same(lens, 1)
         /\ Small(Statsz(lens)) /\ s >= 2 + Statsz(lens) => got.err = "ok"
         /\ ~ Small(Statsz(lens)) => got.err # "ok"
    BY <2>2, <2>9, <2>10, ParsedirIs
  <2>3. /\ entry(k).err = "ok" =>
             entry(k).v = <<Val(f, at(k) + 2, 13), Val(f, at(k) + 3, 20)>> \o Same(lens, 1)
        /\ Small(Statsz(lens)) /\ rest(k) >= 2 + Statsz(lens) => entry(k).err = "ok"
        /\ ~ Small(Statsz(lens)) => entry(k).err # "ok"
    BY <2>11 DEF s, i, got
  <2> HIDE DEF entry
  <2>4. entry(k).err = "ok" => entry(k).v = SameEntry(lens)
    BY <2>2, <2>3 DEF SameEntry
  <2> QED
    BY <2>3, <2>4 DEF lens
<1>6. ASSUME \A k \in 1 .. n : Small(Statsz(entries[k])), NEW k \in 1 .. n
      PROVE  rest(k) >= 2 + Statsz(entries[k])
  <2>1. k - 1 \in Nat /\ k - 1 \in 0 .. n /\ k \in 0 .. n /\ \A j \in 1 .. k - 1 : j \in 1 .. n
    BY <1>1
  <2>2. ASSUME NEW j \in 1 .. k - 1
        PROVE  Val(f, at(j), 2) = Statsz(entries[j])
    <3>1. j \in 1 .. n
      BY <2>1
    <3>2. Val(f, at(j), 2) = Low(Statsz(entries[j])) /\ Statsz(entries[j]) \in Nat
      BY <1>3, <3>1
    <3>3. Small(Statsz(entries[j]))
      BY <1>6, <3>1
    <3> QED
      BY <3>2, <3>3, LowIs
  <2>3. upto(k) = [j \in 1 .. k - 1 |-> 2 + Statsz(entries[j])]
    BY <2>2
  <2>4. Added(upto(k)) = Bytes(entries, k - 1)
    BY <2>3 DEF Bytes
  <2>5. /\ Bytes(entries, k) = Bytes(entries, k - 1) + (2 + Statsz(entries[k]))
        /\ Bytes(entries, k) <= Bytes(entries, n)
        /\ Bytes(entries, k) \in Nat /\ Bytes(entries, k - 1) \in Nat /\ Bytes(entries, n) \in Nat
    BY <1>1, <2>1, BytesIs
  <2>6. Statsz(entries[k]) \in Nat
    BY <1>3
  <2> HIDE DEF upto
  <2> QED
    BY <2>4, <2>5, <2>6
<1> HIDE DEF entry, rest
<1>7. (\A k \in 1 .. n : Small(Statsz(entries[k]))) =>
         \A k \in 1 .. n : entry(k).err = "ok" /\ entry(k).v = SameEntry(entries[k])
  BY <1>5, <1>6
<1>8. (\E k \in 1 .. n : ~ Small(Statsz(entries[k]))) =>
         ~ \A k \in 1 .. n : entry(k).err = "ok"
  BY <1>5
<1> QED
  BY <1>2, <1>7, <1>8


(* The answer m to a read, with the first n entries.                       *)
Lists(m, msize, entries, n) ==
  \/ m.err \in {"C9Epath", "C9Estr"}
  \/ /\ m = Begun(msize, "Rread", 4 + Bytes(entries, n),
                  <<F(4, Bytes(entries, n))>> \o Listed(entries, n))
     /\ \A k \in 1 .. n : EntryError(entries[k]) = "ok"

(* What s9readdir sends.                                                   *)
LEMMA ReaddirIs ==
  ASSUME NEW msize \in Nat, msize >= C9minmsize, NEW entries \in Seq(Stats),
         NEW size \in Nat, size <= msize - 11
  PROVE  Lists(S9readdir(msize, entries, size), msize, entries, Most(entries, size))
<1> DEFINE c == Most(entries, Least(size, msize - 4 - 1 - 2))
           n == Most(entries, size)
           f(i) == <<F(4, Bytes(entries, i))>> \o Listed(entries, i)
           m == S9readdir(msize, entries, size)
           bad(i) == {k \in DOMAIN entries : k <= i + 1 /\ EntryError(entries[k]) # "ok"}
           first(i) == CHOOSE k \in bad(i) : \A j \in bad(i) : k <= j
<1>1. m = IF bad(c) # {} THEN Refused(EntryError(entries[first(c)]))
          ELSE Begun(msize, "Rread", 4 + Bytes(entries, c), f(c))
  BY DEF S9readdir, Listed
<1>2. c = n
  <2>1. msize - 4 - 1 - 2 \in Nat /\ size <= msize - 4 - 1 - 2
    OBVIOUS
  <2>2. Least(size, msize - 4 - 1 - 2) = size
    BY <2>1, LeastIs
  <2> QED
    BY <2>2
<1>3. n \in Nat /\ n <= Len(entries) /\ Len(entries) \in Nat
  BY MostIs
<1>4. DOMAIN entries = 1 .. Len(entries) /\ \A k \in 1 .. Len(entries) : entries[k] \in Stats
  OBVIOUS
<1> HIDE DEF c, f, m, n
<1>5. m = IF bad(n) # {} THEN Refused(EntryError(entries[first(n)]))
          ELSE Begun(msize, "Rread", 4 + Bytes(entries, n), f(n))
  BY <1>1, <1>2
<1>6. CASE bad(n) # {}
  <2>1. bad(n) \subseteq Nat
    BY <1>4
  <2> HIDE DEF bad
  <2>2. first(n) \in bad(n)
    BY <1>6, <2>1, LeastNumber
  <2> HIDE DEF first
  <2>3. first(n) \in 1 .. Len(entries) /\ EntryError(entries[first(n)]) # "ok"
    BY <1>4, <2>2 DEF bad
  <2>4. EntryError(entries[first(n)]) \in {"C9Epath", "C9Estr", "ok"}
    BY <1>4, <2>3, EntryErrorIs DEF Stats
  <2>5. m.err = EntryError(entries[first(n)])
    BY <1>5, <1>6, RefusedIs
  <2> QED
    BY <2>3, <2>4, <2>5 DEF m, n, Lists
<1>7. CASE bad(n) = {}
  <2>1. m = Begun(msize, "Rread", 4 + Bytes(entries, n), f(n))
    BY <1>5, <1>7
  <2>2. ASSUME NEW k \in 1 .. n
        PROVE  EntryError(entries[k]) = "ok"
    <3>1. k \in DOMAIN entries /\ k <= n + 1
      BY <1>3, <1>4
    <3> QED
      BY <1>7, <3>1
  <2> QED
    BY <2>1, <2>2 DEF m, n, f, Lists
<1> QED
  BY <1>6, <1>7

(* Where the j-th field of the k-th entry is.                              *)
Cell(k, j) == 12 * (k - 1) + j

(* The j-th field of the k-th entry.                                       *)
LEMMA ListedCell ==
  ASSUME NEW entries \in Seq(Stats), NEW n \in 0 .. Len(entries),
         NEW k \in 1 .. n, NEW j \in 1 .. 12
  PROVE  Cell(k, j) \in 1 .. 12 * n /\ Listed(entries, n)[Cell(k, j)] = Entry(entries[k])[j]
<1>1. /\ 12 * (k - 1) + j \in 1 .. 12 * n
      /\ Listed(entries, n)[12 * (k - 1) + j] = Entry(entries[k])[j]
  BY ListedIs, Zenon
<1> QED
  BY <1>1 DEF Cell

(* An entry is at a place if its twelve fields are.                        *)
LEMMA AtIf ==
  ASSUME NEW f, NEW i, NEW e, Len(e) = 12,
         \A j \in 1 .. 12 : i + j - 1 \in DOMAIN f /\ f[i + j - 1] = e[j]
  PROVE  At(f, i, e)
BY DEF At

(* Where the entries are in the message.                                   *)
LEMMA ListedAt ==
  ASSUME NEW entries \in Seq(Stats), NEW n \in 0 .. Len(entries), NEW b \in Int
  PROVE  LET f == <<F(4, b)>> \o Listed(entries, n)
         IN  /\ f \in Fields /\ Len(f) = 12 * n + 1 /\ f[1] = F(4, b)
             /\ WireSize(f) = 4 + Bytes(entries, n)
             /\ \A k \in 1 .. n : At(f, 2 + 12 * (k - 1), Entry(entries[k]))
<1> DEFINE h == <<F(4, b)>>
           l == Listed(entries, n)
           f == h \o l
<1>1. n \in Nat /\ n <= Len(entries) /\ Len(entries) \in Nat
  OBVIOUS
<1>2. ASSUME NEW k \in 1 .. n, NEW j \in 1 .. 12
      PROVE  Cell(k, j) \in 1 .. 12 * n /\ l[Cell(k, j)] = Entry(entries[k])[j]
  BY ListedCell
<1>3. l \in Fields /\ Len(l) = 12 * n /\ WireSize(l) = Bytes(entries, n)
  BY ListedIs, ListedSize
<1> HIDE DEF l
<1>4. h \in Fields /\ Len(h) = 1 /\ h[1] = F(4, b) /\ WireSize(h) = 4
  <2>1. h \in Fields /\ Len(h) = 1 /\ h[1] = F(4, b) /\ h[1][1] = 4
    BY DEF Fields, F
  <2> HIDE DEF h
  <2> QED
    BY <2>1, WireFew
<1> HIDE DEF h
<1>5. /\ f \in Fields /\ WireSize(f) = 4 + Bytes(entries, n)
      /\ Len(f) = 12 * n + 1 /\ f[1] = F(4, b)
      /\ \A k \in 1 .. 12 * n : f[1 + k] = l[k]
  <2>1. f \in Fields /\ WireSize(f) = WireSize(h) + WireSize(l)
    BY <1>3, <1>4, WireIs
  <2>2. h \in Seq(Int \X Int) /\ l \in Seq(Int \X Int)
    BY <1>3, <1>4 DEF Fields
  <2>3. /\ Len(f) = Len(h) + Len(l)
        /\ \A k \in 1 .. Len(h) : f[k] = h[k]
        /\ \A k \in 1 .. Len(l) : f[Len(h) + k] = l[k]
    BY <2>2, Behind
  <2> HIDE DEF f
  <2> QED
    BY <1>1, <1>3, <1>4, <2>1, <2>3
<1> HIDE DEF f
<1>6. DOMAIN f = 1 .. Len(f)
  BY <1>5 DEF Fields
<1>7. ASSUME NEW k \in 1 .. n
       PROVE  At(f, 2 + 12 * (k - 1), Entry(entries[k]))
  <2>1. Len(Entry(entries[k])) = 12
    <3>1. k \in 1 .. Len(entries)
      BY <1>1
    <3>2. entries[k] \in Seq(Nat) /\ Len(entries[k]) = 4
      BY <3>1, EntryAt
    <3> QED
      BY <3>2, EntryIs
  <2> DEFINE at == 2 + 12 * (k - 1)
             e == Entry(entries[k])
  <2>2. ASSUME NEW j \in 1 .. 12
        PROVE  at + j - 1 \in DOMAIN f /\ f[at + j - 1] = e[j]
    <3> DEFINE i == Cell(k, j)
    <3>1. at + j - 1 = 1 + i
      BY <1>1 DEF Cell
    <3> HIDE DEF at
    <3>3. i \in 1 .. 12 * n /\ l[i] = e[j]
      BY <1>2
    <3> HIDE DEF i
    <3>4. f[1 + i] = l[i]
      BY <1>5, <3>3
    <3>5. 1 + i \in 1 .. Len(f)
      BY <1>1, <1>5, <3>3
    <3> HIDE DEF e
    <3> QED
      BY <1>6, <3>1, <3>3, <3>4, <3>5
  <2>3. Len(e) = 12
    BY <2>1
  <2> HIDE DEF at, e
  <2>4. At(f, at, e)
    BY <2>2, <2>3, AtIf
  <2> QED
    BY <2>4 DEF at, e
<1> QED
  BY <1>5, <1>7 DEF f, h, l

(* s9readdir, c9proc and the reader of the directory.                      *)
LEMMA RepliedDirectory ==
  ASSUME NEW msize \in Nat, msize >= C9minmsize, NEW entries \in Seq(Stats),
         NEW size \in Nat, size <= msize - 11
  PROVE  LET n == Most(entries, size)
             m == S9readdir(msize, entries, size)
         IN  /\ m.err # "C9Esize"
             /\ m.err = "ok" =>
                  Replied(m, "directory",
                          <<Bytes(entries, n), [k \in 1 .. n |-> SameEntry(entries[k])]>>, msize)
<1> DEFINE n == Most(entries, size)
           b == Bytes(entries, n)
           f == <<F(4, b)>> \o Listed(entries, n)
           m == S9readdir(msize, entries, size)
           d == [k \in 1 .. n |-> SameEntry(entries[k])]
           v == <<b, d>>
           sz == 4 + b
<1>1. \/ m.err \in {"C9Epath", "C9Estr"}
      \/ /\ m = Begun(msize, "Rread", sz, f)
         /\ \A k \in 1 .. n : EntryError(entries[k]) = "ok"
  <2>1. Lists(m, msize, entries, n)
    BY ReaddirIs
  <2> HIDE DEF m, n
  <2> QED
    BY <2>1 DEF Lists
<1>2. n \in 0 .. Len(entries) /\ (n = 0 \/ 4 + b <= size)
  BY MostIs
<1>3. n \in Nat /\ n <= Len(entries) /\ Len(entries) \in Nat
  BY <1>2
<1> HIDE DEF n, m
<1>4. b \in Nat /\ (n = 0 => b = 0)
  <2>1. n \in 0 .. n
    BY <1>3
  <2> QED
    BY <1>2, <2>1, BytesIs
<1>5. /\ f \in Fields /\ Len(f) = 12 * n + 1 /\ f[1] = F(4, b)
      /\ WireSize(f) = 4 + Bytes(entries, n)
      /\ \A k \in 1 .. n : At(f, 2 + 12 * (k - 1), Entry(entries[k]))
  <2>1. b \in Int
    BY <1>4
  <2> HIDE DEF b
  <2> QED
    BY <1>2, <2>1, ListedAt
<1>6. WireSize(f) = sz /\ sz \in Nat
  BY <1>4, <1>5
<1> HIDE DEF f
<1>10. Val(f, 1, 4) = b
  <2>1. 1 \in 1 .. Len(f)
    BY <1>3, <1>5
  <2> QED
    BY <1>5, <2>1, ValIs
<1> HIDE DEF b
<1>12. m.err # "C9Esize"
  <2>1. sz <= msize - 7
    BY <1>2, <1>4 DEF b
  <2>2. m = Begun(msize, "Rread", sz, f) => m.err = "ok"
    BY <1>6, <2>1, BegunFits
  <2> QED
    BY <1>1, <2>2 DEF f, b
<1>13. ASSUME m.err = "ok"
       PROVE  Replied(m, "directory", v, msize)
  <2>1. /\ m = Begun(msize, "Rread", sz, f)
        /\ \A k \in 1 .. n : EntryError(entries[k]) = "ok"
    BY <1>1, <1>13 DEF f, b
  <2>2. /\ m.type = "Rread" /\ m.f = f /\ m.size - 4 - 3 = sz
        /\ m.size = 7 + sz /\ m.size \in Nat /\ m.size >= 7 /\ m.size <= msize
    <3>1. sz <= msize - 7
      BY <1>2, <1>4 DEF b
    <3> QED
      BY <1>6, <2>1, <3>1, BegunFits
  <2>3. ASSUME NEW k \in 1 .. n
        PROVE  \A j \in 1 .. Len(entries[k]) : entries[k][j] <= C9maxstr
    <3>1. k \in 1 .. Len(entries)
      BY <1>3
    <3>2. entries[k] \in [1 .. 4 -> Nat]
      BY <3>1, EntryAt DEF Stats
    <3> QED
      BY <2>1, <3>2, EntryErrorIs
  <2>4. /\ (\A k \in 1 .. n : Small(Statsz(entries[k]))) => Parsed(f) = d
        /\ (\E k \in 1 .. n : ~ Small(Statsz(entries[k]))) => Parsed(f) = <<>>
    <3>1. Val(f, 1, 4) = Bytes(entries, n)
      BY <1>10 DEF b
    <3>2. n \in 0 .. Len(entries) /\ Len(f) = 12 * n + 1
      BY <1>2, <1>5
    <3>3. \A k \in 1 .. n : /\ At(f, 2 + 12 * (k - 1), Entry(entries[k]))
                            /\ \A j \in 1 .. Len(entries[k]) : entries[k][j] <= C9maxstr
      BY <1>5, <2>3
    <3> HIDE DEF b
    <3> QED
      BY <3>1, <3>2, <3>3, ParsedIs
  <2>5. GotR(m, msize) = GotRread(sz, f)
    BY <2>2, GotRIs
  <2>6. GotRread(sz, f).err = "ok" /\ GotRread(sz, f).v = <<b, Parsed(f)>>
    <3>1. Len(f) # 2
      BY <1>3, <1>5
    <3>2. sz >= 4 /\ b <= sz - 4
      BY <1>4
    <3> QED
      BY <1>10, <3>1, <3>2 DEF GotRread, Got
  <2>7. /\ m.type # "Rversion" /\ m.size = 7 + WireSize(m.f)
        /\ m.size \in Nat /\ m.size >= 7 /\ m.size <= msize
    BY <1>6, <2>2
  <2>8. CASE \A k \in 1 .. n : Small(Statsz(entries[k]))
    <3>1. Parsed(f) = d
      BY <2>4, <2>8
    <3>2. GotR(m, msize).err = "ok" /\ GotR(m, msize).v = v
      BY <2>5, <2>6, <3>1
    <3> HIDE DEF v
    <3> QED
      BY <2>7, <3>2, RepliedIf
  <2>9. CASE \E k \in 1 .. n : ~ Small(Statsz(entries[k]))
    <3>1. Parsed(f) = <<>>
      BY <2>4, <2>9
    <3>2. b > 65535
      <4>1. PICK k \in 1 .. n : ~ Small(Statsz(entries[k]))
        BY <2>9
      <4>2. /\ k \in 0 .. n /\ k \in 1 .. Len(entries) /\ k - 1 \in 0 .. n
        BY <1>3
      <4>3. /\ Bytes(entries, k) = Bytes(entries, k - 1) + (2 + Statsz(entries[k]))
            /\ Bytes(entries, k) <= Bytes(entries, n)
            /\ Bytes(entries, k) \in Nat /\ Bytes(entries, k - 1) \in Nat
        BY <1>2, <4>2, BytesIs
      <4>4. PICK s \in Nat : s = Statsz(entries[k])
        BY <4>2, EntryAt
      <4>5. s > 65535
        BY <4>1, <4>4, SMT DEF Small, C9maxstr
      <4>6. s <= b
        BY <1>4, <4>3, <4>4 DEF b
      <4> QED
        BY <1>4, <4>5, <4>6, SMT
    <3>3. GotR(m, msize).err = "ok" /\ GotR(m, msize).v[2] = <<>>
      BY <2>5, <2>6, <3>1
    <3>4. v[1] > 65535
      BY <3>2
    <3> HIDE DEF v
    <3> QED
      BY <2>7, <3>3, <3>4, SMT DEF Replied
  <2> QED
    BY <2>8, <2>9
<1> QED
  BY <1>12, <1>13 DEF m, n, b


-----------------------------------------------------------------------------
(* The inductive invariant, phase by phase.                                *)

Sized(p) == p = NoPacket \/ p.size = 7 + WireSize(p.f)

(* What a version asks for, and with which text.                           *)
Asks(f, msize, length, text) ==
  /\ WireSize(f) = 6 + length
  /\ Val(f, 1, 4) = msize /\ Val(f, 2, 2) = length /\ f[3][2] = text

Versions(p, msize, length, text) ==
  p.type = "Tversion" /\ p.size = 7 + WireSize(p.f) /\ Asks(p.f, msize, length, text)

SentVersion ==
  /\ called = [type |-> "Tversion", v |-> <<>>]
  /\ cmsize >= C9minmsize /\ Versions(packet, cmsize, 6, V.known)

SentRequest ==
  /\ called = [type |-> packet.type, v |-> called.v]
  /\ svver /\ cmsize = smsize /\ Understood(packet, called.v, smsize)

SentForeign ==
  /\ called.type = "foreign" /\ ~ svver
  /\ \/ Versions(packet, cmsize, 8, V.longer)
     \/ Versions(packet, cmsize, 7, V.unknown)
     \/ packet.type # "Tversion"

ServedVersion == t = [type |-> "Tversion", v |-> <<>>] /\ cmsize >= smsize

ServedRequest ==
  t.type \in Requests /\ cmsize = smsize /\ Shaped(t.type, t.v, smsize)

AnsweredVersion ==
  /\ packet.type = "Rversion" /\ packet.size = 19 /\ cmsize >= smsize
  /\ Asks(packet.f, smsize, 6, V.known)
  /\ told = [type |-> "Rversion", v |-> <<>>]

AnsweredUnknown ==
  /\ packet.type = "Rversion" /\ packet.size = 20 /\ cmsize >= C9minmsize
  /\ Asks(packet.f, 0, 7, V.unknown)
  /\ told = [type |-> "Rversion", v |-> <<V.unknown>>]

AnsweredRequest == svver /\ cmsize = smsize /\ Replied(packet, told.type, told.v, cmsize)

(* A reply is what the server meant, but for what RepliesArrive excepts.   *)
Faithful ==
  \/ r.v = told.v
  \/ told.type = "Rstat" /\ told.v[6] # told.v[3]
  \/ told.type = "directory" /\ told.v[1] > 65535 /\ r.v[2] = <<>>

C9Inv ==
  /\ cmsize \in Nat /\ smsize \in Nat /\ smsize >= C9minmsize
  /\ Sized(packet)
  /\ phase \in {"new", "idle", "sent", "served", "answered", "replied", "refused", "broken"}
  /\ phase = "new" => ~ held
  /\ phase = "idle" => err = "ok" /\ ~ held /\ svver /\ cmsize = smsize
  /\ phase = "sent" =>
       err = "ok" /\ held = TRUE /\ packet # NoPacket
         /\ (SentVersion \/ SentRequest \/ SentForeign)
  /\ phase = "served" =>
       /\ held = TRUE /\ svver /\ packet = NoPacket
       /\ ServedVersion \/ ServedRequest
       /\ called.type # "foreign" => t = called
       /\ err = "C9Esize" => told.type \in {"Rstat", "Rerror"}
  /\ phase = "answered" =>
       /\ err = "ok" /\ held = TRUE
       /\ (svver /\ AnsweredVersion) \/ AnsweredUnknown \/ AnsweredRequest
  /\ phase = "replied" =>
       /\ svver /\ cmsize = smsize /\ (held <=> err = "ok")
       /\ err = "ok" => Faithful
  /\ phase = "refused" => called.type = "foreign" \/ Rejected(called)
  /\ phase = "broken" =>
       \/ told.type = "Rversion" /\ told.v # <<>>
       \/ told.type = "Rstat" /\ Oversized(told.v)


(* What the assumption on the constants is used for.                       *)
LEMMA Constants ==
  /\ ClientMsizes \subseteq Nat
  /\ \A m \in ServerMsizes : m \in Nat /\ m >= C9minmsize
  /\ Lengths \subseteq Nat /\ Counts \subseteq Nat
  /\ \A k \in Margins : k \in Nat /\ k <= C9minmsize
  /\ Paths \subseteq Seq(Nat) /\ Dirs \subseteq Seq(Stats)
<1>1. ClientMsizes \subseteq Nat /\ Lengths \subseteq Nat /\ Counts \subseteq Nat
  BY C9Assumption DEF C9Sizes
<1>2. \A m \in ServerMsizes : m \in Nat /\ m >= C9minmsize
  BY C9Assumption, SMT DEF C9Sizes, C9minmsize
<1>3. \A k \in Margins : k \in Nat /\ k <= C9minmsize
  BY C9Assumption, SMT DEF C9Sizes, C9minmsize
<1> QED
  BY <1>1, <1>2, <1>3, C9Assumption DEF C9Sizes, Stats

(* The fields of a version, whichever it is.                               *)
LEMMA AsksIs ==
  ASSUME NEW msize \in Int, NEW length \in Nat, length <= 8, NEW text \in Int
  PROVE  Asks(<<F(4, msize)>> \o Wcs(length, text), msize, length, text)
<1> DEFINE f == <<F(4, msize)>> \o Wcs(length, text)
<1>1. f = <<F(4, msize), W16(length), F(length, text)>>
  BY Joined3 DEF Wcs
<1>2. W16(length) = F(2, length)
  BY SMT DEF W16
<1> HIDE DEF f
<1>3. /\ f \in Fields /\ Len(f) = 3
      /\ f[1] = F(4, msize) /\ f[2] = F(2, length) /\ f[3] = F(length, text)
  BY <1>1, <1>2 DEF Fields, F
<1>4. f[1][1] = 4 /\ f[2][1] = 2 /\ f[3][1] = length /\ f[3][2] = text
  BY <1>3, FieldIs
<1>5. WireSize(f) = f[1][1] + f[2][1] + f[3][1]
  BY <1>3, WireFew
<1>6. Val(f, 1, 4) = msize /\ Val(f, 2, 2) = length
  <2>1. /\ f \in Fields /\ 1 \in 1 .. Len(f) /\ 2 \in 1 .. Len(f)
        /\ f[1] = F(4, msize) /\ f[2] = F(2, length)
    BY <1>3
  <2>2. Val(f, 1, 4) = msize
    BY <2>1, ValIs
  <2>3. Val(f, 2, 2) = length
    BY <2>1, ValIs
  <2> QED
    BY <2>2, <2>3
<1>7. WireSize(f) = 6 + length
  BY <1>4, <1>5
<1>8. Asks(f, msize, length, text)
  BY <1>4, <1>6, <1>7 DEF Asks
<1> QED
  BY <1>8 DEF f

(* The three texts.                                                        *)
LEMMA AsksAre ==
  ASSUME NEW msize \in Int
  PROVE  /\ Asks(<<F(4, msize)>> \o Wcs(6, V.known), msize, 6, V.known)
         /\ Asks(<<F(4, msize)>> \o Wcs(8, V.longer), msize, 8, V.longer)
         /\ Asks(<<F(4, msize)>> \o Wcs(7, V.unknown), msize, 7, V.unknown)
<1>1. /\ 6 \in Nat /\ 6 <= 8 /\ 8 \in Nat /\ 8 <= 8 /\ 7 \in Nat /\ 7 <= 8
      /\ V.known \in Int /\ V.longer \in Int /\ V.unknown \in Int
  BY VIs
<1> QED
  BY <1>1, AsksIs

(* What c9version sends asks for the msize it is called with.              *)
LEMMA VersionsIs ==
  ASSUME NEW msize \in Nat, NEW m, m = C9version(msize), m.err = "ok"
  PROVE  msize >= C9minmsize /\ Versions(m, msize, 6, V.known)
<1> DEFINE f == <<F(4, msize)>> \o Wcs(6, V.known)
<1>1. CASE msize < C9minmsize
  <2>1. m = Refused("C9Einit")
    BY <1>1 DEF C9version
  <2> QED
    BY <2>1, RefusedIs
<1>2. CASE msize >= C9minmsize
  <2>1. m = Begun(msize, "Tversion", 12, f)
    BY <1>2, SMT DEF C9version, C9minmsize
  <2>2. Asks(f, msize, 6, V.known)
    BY AsksAre
  <2> HIDE DEF f
  <2>3. m.type = "Tversion" /\ m.f = f /\ m.size = 12 + 7
    BY <2>1, BegunIs
  <2>4. WireSize(f) = 6 + 6
    BY <2>2 DEF Asks
  <2>5. m.size = 7 + WireSize(m.f)
    BY <2>3, <2>4
  <2> QED
    BY <1>2, <2>2, <2>3, <2>5 DEF Versions
<1>3. C9minmsize \in Int
  BY SMT DEF C9minmsize
<1> QED
  BY <1>1, <1>2, <1>3
(* What a foreign client sends is a version or is none.                    *)
LEMMA ForeignIs ==
  ASSUME NEW msize \in Nat, NEW m \in Foreign(msize)
  PROVE  /\ m.type # "none" /\ m.size = 7 + WireSize(m.f)
         /\ \/ Versions(m, msize, 8, V.longer)
            \/ Versions(m, msize, 7, V.unknown)
            \/ m.type # "Tversion"
<1> DEFINE f == <<F(4, msize)>> \o Wcs(8, V.longer)
           g == <<F(4, msize)>> \o Wcs(7, V.unknown)
<1>1. Asks(f, msize, 8, V.longer) /\ Asks(g, msize, 7, V.unknown)
  BY AsksAre
<1>2. \/ m.f = f /\ m.type = "Tversion" /\ m.size = 21
      \/ m.f = g /\ m.type = "Tversion" /\ m.size = 20
      \/ m = C9clunk(C9minmsize)
  BY SMT DEF Foreign
<1> HIDE DEF f, g
<1>3. WireSize(f) = 6 + 8 /\ WireSize(g) = 6 + 7
  BY <1>1 DEF Asks
<1>4. CASE m.f = f /\ m.type = "Tversion" /\ m.size = 21
  <2>1. m.size = 7 + WireSize(m.f)
    BY <1>3, <1>4
  <2> QED
    BY <1>1, <1>4, <2>1 DEF Versions
<1>5. CASE m.f = g /\ m.type = "Tversion" /\ m.size = 20
  <2>1. m.size = 7 + WireSize(m.f)
    BY <1>3, <1>5
  <2> QED
    BY <1>1, <1>5, <2>1 DEF Versions
<1>6. CASE m = C9clunk(C9minmsize)
  <2>1. C9minmsize \in Nat /\ C9minmsize \in Int /\ 4 \in Nat /\ 4 <= C9minmsize - 7
    BY SMT DEF C9minmsize
  <2>2. C9clunk(C9minmsize) = Begun(C9minmsize, "Tclunk", 4, <<F(4, V.fid)>>)
    BY DEF C9clunk
  <2>5. ~ (4 > C9minmsize - 7)
    BY <2>1
  <2>3. m.err = "ok" /\ m.type = "Tclunk"
    BY <1>6, <2>1, <2>2, <2>5, BegunIs
  <2>4. m.size = 7 + WireSize(m.f)
    BY <1>6, <2>1, <2>3, UnderstoodClunk DEF Understood
  <2> QED
    BY <2>3, <2>4
<1> QED
  BY <1>2, <1>4, <1>5, <1>6

(* What s9proc and s9version answer to a version.                          *)
LEMMA VersionAnswered ==
  ASSUME NEW msize \in Nat, msize >= C9minmsize, NEW m, m = S9version(msize)
  PROVE  /\ m.err = "ok" /\ m.type = "Rversion" /\ m.size = 19
         /\ m.size = 7 + WireSize(m.f) /\ Asks(m.f, msize, 6, V.known)
<1> DEFINE f == <<F(4, msize)>> \o Wcs(6, V.known)
<1>1. Asks(f, msize, 6, V.known)
  BY AsksAre
<1>2. m = Begun(msize, "Rversion", 12, f)
  BY SMT DEF S9version
<1>3. 12 <= msize - 7
  BY SMT DEF C9minmsize
<1> HIDE DEF f
<1>4. WireSize(f) = 12
  BY <1>1 DEF Asks
<1>5. m.err = "ok" /\ m.type = "Rversion" /\ m.f = f /\ m.size = 7 + 12
  BY <1>2, <1>3, BegunFits
<1> QED
  BY <1>1, <1>4, <1>5

(* What s9proc answers to a version it does not know.                      *)
LEMMA UnknownAnswered ==
  ASSUME NEW msize \in Nat, msize >= C9minmsize, NEW m, m = UnknownVersion(msize)
  PROVE  /\ m.type = "Rversion" /\ m.size = 20
         /\ m.size = 7 + WireSize(m.f) /\ Asks(m.f, 0, 7, V.unknown)
<1> DEFINE f == <<F(4, 0)>> \o Wcs(7, V.unknown)
<1>1. Asks(f, 0, 7, V.unknown)
  BY AsksAre
<1>2. m = Begun(msize, "Rversion", 13, f)
  BY SMT DEF UnknownVersion
<1>3. 13 <= msize - 7
  BY SMT DEF C9minmsize
<1> HIDE DEF f
<1>4. WireSize(f) = 13
  BY <1>1 DEF Asks
<1>5. m.err = "ok" /\ m.type = "Rversion" /\ m.f = f /\ m.size = 7 + 13
  BY <1>2, <1>3, BegunFits
<1> QED
  BY <1>1, <1>4, <1>5

(* What the invariant says of the types of messages.                       *)
LEMMA NoVersion ==
  /\ "Tversion" \notin Requests /\ "none" \notin Requests /\ "foreign" \notin Requests
  /\ NoPacket.type = "none" /\ NoPacket.size = 0
BY DEF Requests, NoPacket

(* The invariant holds at the start.                                       *)
LEMMA InitialC9 ==
  ASSUME C9Init
  PROVE  C9Inv
<1>1. smsize \in Nat /\ smsize >= C9minmsize /\ cmsize = 0
  BY Constants DEF C9Init
<1> QED
  BY <1>1 DEF C9Init, C9Inv, Sized

(* The client asks for a version.                                          *)
LEMMA CallVersionKeeps ==
  ASSUME C9Inv, NEW msize \in ClientMsizes, CallVersion(msize)
  PROVE  C9Inv'
<1> DEFINE m == C9version(msize)
<1>1. msize \in Nat
  BY Constants
<1>2. C9minmsize \in Nat
  BY SMT DEF C9minmsize
<1> HIDE DEF m
<1>3. cmsize' \in Nat /\ smsize' = smsize
  BY <1>1 DEF CallVersion, C9Inv
<1>4. CASE m.err = "ok" /\ Sent(m, <<>>)
  <2>1. msize >= C9minmsize /\ Versions(m, msize, 6, V.known)
    BY <1>1, <1>4, VersionsIs DEF m
  <2>2. cmsize' = msize
    BY <1>1, <1>2, <2>1 DEF CallVersion
  <2>3. m.type = "Tversion" /\ m.size = 7 + WireSize(m.f)
    BY <2>1 DEF Versions
  <2>4. m # NoPacket
    BY <2>3, NoVersion
  <2>5. SentVersion'
    BY <1>4, <2>1, <2>2, <2>3 DEF Sent, SentVersion
  <2> QED
    BY <1>3, <1>4, <2>3, <2>4, <2>5 DEF Sent, C9Inv, Sized
<1>5. CASE NotSent(m) /\ phase' = "new"
  <2>1. ~ held /\ packet' = packet /\ held' = held
    BY <1>5 DEF CallVersion, C9Inv, NotSent
  <2> QED
    BY <1>3, <1>5, <2>1 DEF C9Inv, Sized
<1> QED
  BY <1>4, <1>5 DEF CallVersion, m

(* A client of another library sends something.                            *)
LEMMA CallForeignKeeps ==
  ASSUME C9Inv, NEW msize \in ClientMsizes, CallForeign(msize)
  PROVE  C9Inv'
<1>1. msize \in Nat
  BY Constants
<1>2. /\ packet'.type # "none" /\ packet'.size = 7 + WireSize(packet'.f)
      /\ \/ Versions(packet', msize, 8, V.longer)
         \/ Versions(packet', msize, 7, V.unknown)
         \/ packet'.type # "Tversion"
  BY <1>1, ForeignIs DEF CallForeign
<1>3. packet' # NoPacket
  BY <1>2, NoVersion
<1>4. SentForeign'
  BY <1>2 DEF CallForeign, SentForeign
<1> QED
  BY <1>1, <1>2, <1>3, <1>4 DEF CallForeign, C9Inv, Sized

(* Any request the server understands.                                     *)
LEMMA CallsKeeps ==
  ASSUME C9Inv, NEW m, NEW v, Calls(m, v),
         m.err = "ok" => Understood(m, v, cmsize)
  PROVE  C9Inv'
<1>1. /\ phase = "idle" /\ ~ held /\ svver /\ cmsize = smsize
      /\ cmsize' = cmsize /\ smsize' = smsize /\ svver' = svver
  BY DEF Calls, C9Inv
<1>2. CASE m.err = "ok" /\ Sent(m, v)
  <2>1. Understood(m, v, smsize) /\ m.type \in Requests /\ m.size = 7 + WireSize(m.f)
    BY <1>1, <1>2 DEF Understood
  <2>2. m # NoPacket
    BY <2>1, NoVersion
  <2>3. SentRequest'
    BY <1>1, <1>2, <2>1 DEF Sent, SentRequest
  <2> QED
    BY <1>1, <1>2, <2>1, <2>2, <2>3 DEF Sent, C9Inv, Sized
<1>3. CASE NotSent(m) /\ phase' = "replied"
  <2>1. err' # "ok" /\ packet' = packet /\ held' = held
    BY <1>3 DEF NotSent
  <2> QED
    BY <1>1, <1>3, <2>1 DEF C9Inv, Sized
<1> QED
  BY <1>2, <1>3 DEF Calls

(* The client calls for anything else.                                     *)
LEMMA ClientKeeps ==
  ASSUME C9Inv, Client
  PROVE  C9Inv'
<1>1. phase = "idle"
  BY DEF Client, Calls
<1>2. cmsize \in Nat /\ cmsize >= C9minmsize
  BY <1>1 DEF C9Inv
<1>3. \A count \in Amounts : count \in Nat
  <2>1. C9minmsize \in Nat
    BY SMT DEF C9minmsize
  <2> QED
    BY <1>2, <2>1, Constants DEF Amounts
<1>4. CASE \E lens \in [1 .. 2 -> Lengths] :
             \/ Calls(C9auth(cmsize, lens), <<V.afid>> \o Same(lens, 1))
             \/ Calls(C9attach(cmsize, lens), <<V.fid, V.afid>> \o Same(lens, 1))
  <2>1. PICK lens \in [1 .. 2 -> Lengths] :
             \/ Calls(C9auth(cmsize, lens), <<V.afid>> \o Same(lens, 1))
             \/ Calls(C9attach(cmsize, lens), <<V.fid, V.afid>> \o Same(lens, 1))
    BY <1>4
  <2>2. lens \in [1 .. 2 -> Nat]
    BY Constants
  <2> QED
    BY <1>2, <2>1, <2>2, UnderstoodAuth, UnderstoodAttach, CallsKeeps
<1>5. CASE Calls(C9flush(cmsize), <<V.oldtag>>)
  BY <1>2, <1>5, UnderstoodFlush, CallsKeeps
<1>6. CASE \E path \in Paths :
             Calls(C9walk(cmsize, path), <<V.fid, V.newfid>> \o Same(path, 1))
  BY <1>2, <1>6, Constants, UnderstoodWalk, CallsKeeps
<1>7. CASE Calls(C9open(cmsize), <<V.fid, V.mode>>)
  BY <1>2, <1>7, UnderstoodOpen, CallsKeeps
<1>8. CASE \E len \in Lengths :
             Calls(C9create(cmsize, len), <<V.fid, len, 1, V.perm, V.mode>>)
  BY <1>2, <1>8, Constants, UnderstoodCreate, CallsKeeps
<1>9. CASE \E count \in Amounts :
             \/ Calls(C9read(cmsize, count),
                      <<V.fid, V.offset, Least(count, cmsize - 4 - 4 - 1 - 2)>>)
             \/ Calls(C9write(cmsize, count), <<V.fid, V.offset, count, V.data>>)
  <2>1. PICK count \in Amounts :
             \/ Calls(C9read(cmsize, count),
                      <<V.fid, V.offset, Least(count, cmsize - 4 - 4 - 1 - 2)>>)
             \/ Calls(C9write(cmsize, count), <<V.fid, V.offset, count, V.data>>)
    BY <1>9
  <2>2. count \in Nat
    BY <1>3
  <2> QED
    BY <1>2, <2>1, <2>2, UnderstoodRead, UnderstoodWrite, CallsKeeps
<1>10. CASE Calls(C9clunk(cmsize), <<V.fid>>)
  BY <1>2, <1>10, UnderstoodClunk, CallsKeeps
<1>11. CASE Calls(C9remove(cmsize), <<V.fid>>)
  BY <1>2, <1>11, UnderstoodRemove, CallsKeeps
<1>12. CASE Calls(C9stat(cmsize), <<V.fid>>)
  BY <1>2, <1>12, UnderstoodStat, CallsKeeps
<1>13. CASE \E lens \in Triples :
              Calls(C9wstat(cmsize, lens),
                    <<V.fid, V.nochange, V.stat>> \o Same(lens \o <<0>>, 1))
  <2>1. PICK lens \in Triples :
              Calls(C9wstat(cmsize, lens),
                    <<V.fid, V.nochange, V.stat>> \o Same(lens \o <<0>>, 1))
    BY <1>13
  <2>2. lens \in [1 .. 3 -> Nat]
    BY Constants DEF Triples
  <2> QED
    BY <1>2, <2>1, <2>2, UnderstoodWstat, CallsKeeps
<1> QED
  BY <1>4, <1>5, <1>6, <1>7, <1>8, <1>9, <1>10, <1>11, <1>12, <1>13 DEF Client

(* What is in a message that was sent.                                     *)
LEMMA SentIs ==
  ASSUME C9Inv, phase = "sent"
  PROVE  /\ err = "ok" /\ held = TRUE
         /\ \/ SentVersion /\ ~ Unfit /\ packet.type = "Tversion" /\ VersionSize(packet)
            \/ SentRequest /\ ~ Unfit /\ packet.type # "Tversion"
            \/ SentForeign
<1>1. C9minmsize \in Nat /\ C9minmsize >= 20
  BY SMT DEF C9minmsize
<1>2. CASE SentVersion
  <2>1. /\ packet.type = "Tversion" /\ packet.size = 19
        /\ Val(packet.f, 1, 4) = cmsize /\ Val(packet.f, 2, 2) = 6
    BY <1>2 DEF SentVersion, Versions, Asks
  <2>2. ~ Unfit
    BY <1>1, <2>1 DEF Unfit, C9Inv
  <2>3. VersionSize(packet)
    BY <1>2, <2>1 DEF VersionSize, SentVersion
  <2> QED
    BY <1>2, <2>1, <2>2, <2>3 DEF C9Inv
<1>3. CASE SentRequest
  <2>1. /\ packet.type \in Requests /\ svver
        /\ packet.size \in Nat /\ packet.size >= 7 /\ packet.size <= smsize
    BY <1>3 DEF SentRequest, Understood
  <2>3. ~ Unfit
    BY <2>1 DEF Unfit, C9Inv
  <2> QED
    BY <1>3, <2>1, <2>3, NoVersion DEF C9Inv
<1> QED
  BY <1>2, <1>3 DEF C9Inv

(* s9proc returns an error.                                                *)
LEMMA S9procRefusesKeeps ==
  ASSUME C9Inv, S9procRefuses
  PROVE  C9Inv'
<1>1. called.type = "foreign" \/ Rejected(called)
  <2>1. CASE SentRequest /\ ~ Unfit /\ packet.type # "Tversion"
    <3>1. GotT(packet, smsize).err # "ok"
      BY <2>1 DEF S9procRefuses
    <3> QED
      BY <2>1, <3>1 DEF SentRequest, Understood
  <2>2. CASE SentVersion /\ ~ Unfit /\ packet.type = "Tversion" /\ VersionSize(packet)
    BY <2>2 DEF S9procRefuses
  <2>3. CASE SentForeign
    BY <2>3 DEF SentForeign
  <2> QED
    BY <2>1, <2>2, <2>3, SentIs DEF S9procRefuses
<1> QED
  BY <1>1 DEF S9procRefuses, C9Inv, Sized

(* s9proc hands a request to the server.                                   *)
LEMMA S9procRequestKeeps ==
  ASSUME C9Inv, S9procRequest
  PROVE  C9Inv'
<1>1. SentRequest
  <2>1. ~ SentForeign
    BY DEF SentForeign, S9procRequest, Unfit
  <2> QED
    BY <2>1, SentIs DEF S9procRequest
<1>2. GotT(packet, smsize).v = called.v /\ Shaped(packet.type, called.v, smsize)
  BY <1>1 DEF SentRequest, Understood, S9procRequest
<1>3. t' = called /\ packet.type \in Requests /\ svver /\ cmsize = smsize
  BY <1>1, <1>2 DEF S9procRequest, SentRequest, Understood
<1>4. called.type = packet.type
  BY <1>1 DEF SentRequest
<1>5. ServedRequest'
  BY <1>2, <1>3, <1>4 DEF ServedRequest, S9procRequest
<1>6. err = "ok" /\ held = TRUE
  BY SentIs DEF S9procRequest
<1> QED
  BY <1>3, <1>5, <1>6 DEF S9procRequest, C9Inv, Sized

(* A version that s9proc looks at asks for the msize that the client set.  *)
LEMMA VersionAsked ==
  ASSUME C9Inv, phase = "sent", ~ Unfit, packet.type = "Tversion", VersionSize(packet)
  PROVE  /\ Val(packet.f, 1, 4) = cmsize /\ cmsize >= C9minmsize
         /\ SentVersion \/ SentForeign
<1>1. SentVersion \/ SentForeign
  BY SentIs
<1>2. Val(packet.f, 1, 4) = cmsize
  BY <1>1 DEF SentVersion, SentForeign, Versions, Asks
<1> QED
  BY <1>1, <1>2 DEF VersionSize

(* s9proc takes a version.                                                 *)
LEMMA S9procVersionKeeps ==
  ASSUME C9Inv, S9procVersion
  PROVE  C9Inv'
<1>1. /\ Val(packet.f, 1, 4) = cmsize /\ cmsize >= C9minmsize
      /\ SentVersion \/ SentForeign
  BY VersionAsked DEF S9procVersion
<1>2. smsize' = Least(cmsize, smsize)
  BY <1>1 DEF S9procVersion
<1>3. smsize' \in Nat /\ smsize' <= cmsize /\ smsize' >= C9minmsize
  <2>1. cmsize \in Nat /\ smsize \in Nat /\ smsize >= C9minmsize
    BY DEF C9Inv
  <2> QED
    BY <1>1, <1>2, <2>1, LeastIs
<1>4. called.type # "foreign" => t' = called
  BY <1>1 DEF SentVersion, SentForeign, S9procVersion
<1>5. ServedVersion'
  BY <1>3 DEF ServedVersion, S9procVersion, C9Inv
<1>6. err = "ok" /\ held = TRUE
  BY SentIs DEF S9procVersion
<1> QED
  BY <1>3, <1>4, <1>5, <1>6 DEF S9procVersion, C9Inv, Sized

(* s9proc answers a version it does not know.                              *)
LEMMA S9procUnknownKeeps ==
  ASSUME C9Inv, S9procUnknown
  PROVE  C9Inv'
<1>1. cmsize >= C9minmsize
  BY VersionAsked DEF S9procUnknown
<1>2. /\ packet'.type = "Rversion" /\ packet'.size = 20
      /\ packet'.size = 7 + WireSize(packet'.f) /\ Asks(packet'.f, 0, 7, V.unknown)
  BY UnknownAnswered DEF S9procUnknown, C9Inv
<1>3. AnsweredUnknown'
  BY <1>1, <1>2 DEF AnsweredUnknown, S9procUnknown
<1>4. err = "ok" /\ held = TRUE
  BY SentIs DEF S9procUnknown
<1> QED
  BY <1>2, <1>3, <1>4 DEF S9procUnknown, C9Inv, Sized

(* Any answer that fails but for its size, or is understood.               *)
LEMMA AnswersKeeps ==
  ASSUME C9Inv, NEW types, NEW type, NEW m, NEW v, Answers(types, type, m, v),
         "Tversion" \notin types,
         m.err = "C9Esize" => type \in {"Rstat", "Rerror"},
         ServedRequest /\ m.err = "ok" => Replied(m, type, v, smsize)
  PROVE  C9Inv'
<1>1. /\ phase = "served" /\ ServedRequest
      /\ cmsize = smsize /\ svver /\ held = TRUE /\ packet = NoPacket
      /\ cmsize' = cmsize /\ smsize' = smsize /\ svver' = svver /\ held' = held
  BY DEF Answers, C9Inv, ServedVersion, ServedRequest
<1>2. CASE /\ m.err = "ok"
           /\ packet' = m /\ err' = "ok" /\ phase' = "answered"
           /\ told' = [type |-> type, v |-> v]
           /\ called' = Nothing /\ t' = Nothing
  <2>1. Replied(m, type, v, smsize)
    BY <1>1, <1>2
  <2>2. m.size = 7 + WireSize(m.f)
    BY <2>1 DEF Replied
  <2>3. AnsweredRequest'
    BY <1>1, <1>2, <2>1 DEF AnsweredRequest
  <2> QED
    BY <1>1, <1>2, <2>2, <2>3 DEF C9Inv, Sized
<1>3. CASE /\ err' = IF m.err # "ok" THEN m.err ELSE "C9Ebuf"
           /\ told' = [type |-> type, v |-> <<>>]
           /\ UNCHANGED <<packet, called, t, phase>>
  <2>1. ServedRequest'
    BY <1>1, <1>3 DEF ServedRequest
  <2>2. err' = "C9Esize" => told'.type \in {"Rstat", "Rerror"}
    BY <1>3
  <2>3. called'.type # "foreign" => t' = called'
    BY <1>1, <1>3 DEF C9Inv
  <2> QED
    BY <1>1, <1>3, <2>1, <2>2, <2>3 DEF C9Inv, Sized
<1> QED
  BY <1>2, <1>3 DEF Answers

(* The server answers a version.                                           *)
LEMMA AnswersVersionKeeps ==
  ASSUME C9Inv, Answers({"Tversion"}, "Rversion", S9version(smsize), <<>>)
  PROVE  C9Inv'
<1> DEFINE m == S9version(smsize)
<1>1. /\ phase = "served" /\ ServedVersion
      /\ cmsize >= smsize /\ svver /\ held = TRUE
      /\ cmsize' = cmsize /\ smsize' = smsize /\ svver' = svver /\ held' = held
  BY NoVersion DEF Answers, C9Inv, ServedVersion, ServedRequest
<1>2. /\ m.err = "ok" /\ m.type = "Rversion" /\ m.size = 19
      /\ m.size = 7 + WireSize(m.f) /\ Asks(m.f, smsize, 6, V.known)
  BY VersionAnswered DEF C9Inv
<1>3. Answers({"Tversion"}, "Rversion", m, <<>>)
  OBVIOUS
<1> HIDE DEF m
<1>4. CASE /\ packet' = m /\ err' = "ok" /\ phase' = "answered"
           /\ told' = [type |-> "Rversion", v |-> <<>>]
  <2>1. AnsweredVersion'
    BY <1>1, <1>2, <1>4 DEF AnsweredVersion
  <2> QED
    BY <1>1, <1>2, <1>4, <2>1 DEF C9Inv, Sized
<1>5. CASE err' = "C9Ebuf" /\ UNCHANGED <<packet, called, t, phase>>
  <2>1. ServedVersion'
    BY <1>1, <1>5 DEF ServedVersion
  <2>2. called'.type # "foreign" => t' = called'
    BY <1>1, <1>5 DEF C9Inv
  <2>3. packet' = NoPacket
    BY <1>1, <1>5 DEF C9Inv
  <2> QED
    BY <1>1, <1>5, <2>1, <2>2, <2>3 DEF C9Inv, Sized
<1> QED
  BY <1>2, <1>3, <1>4, <1>5 DEF Answers

(* A request that is answered has the shape that s9proc gave it.           *)
LEMMA AnswersFrom ==
  ASSUME C9Inv, NEW types, NEW type, NEW m, NEW v, Answers(types, type, m, v),
         "Tversion" \notin types
  PROVE  t.type \in types /\ ServedRequest /\ Shaped(t.type, t.v, smsize)
<1>1. phase = "served" /\ t.type \in types
  BY DEF Answers
<1>2. ServedRequest
  BY <1>1 DEF C9Inv, ServedVersion
<1> QED
  BY <1>1, <1>2 DEF ServedRequest

(* The server answers anything else, or fails to.                          *)
LEMMA ServerKeeps ==
  ASSUME C9Inv, Server
  PROVE  C9Inv'
<1>1. smsize \in Nat /\ smsize >= C9minmsize
  BY DEF C9Inv
<1>2. CASE Answers({"Tversion"}, "Rversion", S9version(smsize), <<>>)
  BY <1>2, AnswersVersionKeeps
<1>3. CASE Answers({"Tauth"}, "Rauth", S9auth(smsize), <<V.qid>>)
  <2>1. /\ S9auth(smsize).err = "ok"
        /\ Replied(S9auth(smsize), "Rauth", <<V.qid>>, smsize)
    <3>1. S9auth(smsize) = Begun(smsize, "Rauth", 13, <<F(13, V.qid)>>)
      BY DEF S9auth
    <3> QED
      BY <1>1, <3>1, RepliedQid
  <2> QED
    BY <1>3, <2>1, AnswersKeeps
<1>4. CASE Answers({"Tattach"}, "Rattach", S9attach(smsize), <<V.qid>>)
  <2>1. /\ S9attach(smsize).err = "ok"
        /\ Replied(S9attach(smsize), "Rattach", <<V.qid>>, smsize)
    <3>1. S9attach(smsize) = Begun(smsize, "Rattach", 13, <<F(13, V.qid)>>)
      BY DEF S9attach
    <3> QED
      BY <1>1, <3>1, RepliedQid
  <2> QED
    BY <1>4, <2>1, AnswersKeeps
<1>5. \A type \in {"Rflush", "Rclunk", "Rremove", "Rwstat"} :
        /\ S9done(smsize, type).err = "ok"
        /\ Replied(S9done(smsize, type), type, <<>>, smsize)
  BY <1>1, RepliedDone
<1>6. CASE Answers({"Tflush"}, "Rflush", S9done(smsize, "Rflush"), <<>>)
  BY <1>5, <1>6, AnswersKeeps
<1>7. CASE Answers({"Tclunk"}, "Rclunk", S9done(smsize, "Rclunk"), <<>>)
  BY <1>5, <1>7, AnswersKeeps
<1>8. CASE Answers({"Tremove"}, "Rremove", S9done(smsize, "Rremove"), <<>>)
  BY <1>5, <1>8, AnswersKeeps
<1>9. CASE Answers({"Twstat"}, "Rwstat", S9done(smsize, "Rwstat"), <<>>)
  BY <1>5, <1>9, AnswersKeeps
<1>10. CASE \E n \in IF t.type = "Twalk" THEN 0 .. (Len(t.v) - 2) \div 2 ELSE {} :
              Answers({"Twalk"}, "Rwalk", S9walk(smsize, n), [k \in 1 .. n |-> V.qid])
  <2>1. PICK n \in IF t.type = "Twalk" THEN 0 .. (Len(t.v) - 2) \div 2 ELSE {} :
              Answers({"Twalk"}, "Rwalk", S9walk(smsize, n), [k \in 1 .. n |-> V.qid])
    BY <1>10
  <2>2. t.type = "Twalk" /\ Shaped(t.type, t.v, smsize)
    BY <2>1, AnswersFrom
  <2>3. (Len(t.v) - 2) \div 2 \in 0 .. 16
    BY <2>2 DEF Shaped
  <2>4. n \in 0 .. (Len(t.v) - 2) \div 2
    BY <2>1, <2>2
  <2>5. n \in 0 .. 16
    <3>1. PICK x \in 0 .. 16 : x = (Len(t.v) - 2) \div 2
      BY <2>3
    <3>2. n \in 0 .. x
      BY <2>4, <3>1
    <3> QED
      BY <3>2
  <2>6. /\ S9walk(smsize, n).err = "ok"
        /\ Replied(S9walk(smsize, n), "Rwalk", [k \in 1 .. n |-> V.qid], smsize)
    BY <1>1, <2>5, RepliedWalk
  <2> QED
    BY <2>1, <2>6, AnswersKeeps
<1>11. \A type \in {"Ropen", "Rcreate"} :
         /\ S9opened(smsize, type).err = "ok"
         /\ Replied(S9opened(smsize, type), type, <<V.qid, V.iounit>>, smsize)
  BY <1>1, RepliedOpen
<1>12. CASE Answers({"Topen"}, "Ropen", S9opened(smsize, "Ropen"), <<V.qid, V.iounit>>)
  BY <1>11, <1>12, AnswersKeeps
<1>13. CASE Answers({"Tcreate"}, "Rcreate", S9opened(smsize, "Rcreate"), <<V.qid, V.iounit>>)
  BY <1>11, <1>13, AnswersKeeps
<1>14. CASE \E size \in IF t.type = "Tread" THEN {0, t.v[3]} ELSE {} :
              Answers({"Tread"}, "Rread", S9read(smsize, size), <<size, V.data>>)
  <2>1. PICK size \in IF t.type = "Tread" THEN {0, t.v[3]} ELSE {} :
              Answers({"Tread"}, "Rread", S9read(smsize, size), <<size, V.data>>)
    BY <1>14
  <2>2. t.type = "Tread" /\ Shaped(t.type, t.v, smsize)
    BY <2>1, AnswersFrom
  <2>3. size \in {0, t.v[3]} /\ t.v[3] \in Nat /\ t.v[3] <= smsize - 11
    BY <2>1, <2>2 DEF Shaped
  <2>4. size \in Nat /\ size <= smsize - 11
    BY <1>1, <2>3, SMT
  <2>5. /\ S9read(smsize, size).err = "ok"
        /\ Replied(S9read(smsize, size), "Rread", <<size, V.data>>, smsize)
    BY <1>1, <2>4, RepliedRead
  <2> QED
    BY <2>1, <2>5, AnswersKeeps
<1>15. CASE \E entries \in IF t.type = "Tread" THEN Dirs ELSE {} :
              LET n == Most(entries, t.v[3])
              IN  Answers({"Tread"}, "directory", S9readdir(smsize, entries, t.v[3]),
                          <<Bytes(entries, n), [k \in 1 .. n |-> SameEntry(entries[k])]>>)
  <2>1. PICK entries \in IF t.type = "Tread" THEN Dirs ELSE {} :
              LET n == Most(entries, t.v[3])
              IN  Answers({"Tread"}, "directory", S9readdir(smsize, entries, t.v[3]),
                          <<Bytes(entries, n), [k \in 1 .. n |-> SameEntry(entries[k])]>>)
    BY <1>15
  <2> DEFINE m == S9readdir(smsize, entries, t.v[3])
             v == LET n == Most(entries, t.v[3])
                  IN  <<Bytes(entries, n), [k \in 1 .. n |-> SameEntry(entries[k])]>>
  <2>2. Answers({"Tread"}, "directory", m, v)
    BY <2>1
  <2>3. t.type = "Tread" /\ Shaped(t.type, t.v, smsize)
    <3> HIDE DEF m, v
    <3> QED
      BY <2>2, AnswersFrom
  <2>4. entries \in Seq(Stats) /\ t.v[3] \in Nat /\ t.v[3] <= smsize - 11
    BY <2>1, <2>3, Constants DEF Shaped
  <2>5. m.err # "C9Esize" /\ (m.err = "ok" => Replied(m, "directory", v, smsize))
    BY <1>1, <2>4, RepliedDirectory
  <2> HIDE DEF m, v
  <2> QED
    BY <2>2, <2>5, AnswersKeeps
<1>16. CASE \E size \in IF t.type = "Twrite" THEN {0, t.v[3]} ELSE {} :
              Answers({"Twrite"}, "Rwrite", S9write(smsize, size), <<size>>)
  <2>1. PICK size \in IF t.type = "Twrite" THEN {0, t.v[3]} ELSE {} :
              Answers({"Twrite"}, "Rwrite", S9write(smsize, size), <<size>>)
    BY <1>16
  <2>2. t.type = "Twrite" /\ Shaped(t.type, t.v, smsize)
    BY <2>1, AnswersFrom
  <2>3. size \in {0, t.v[3]} /\ t.v[3] \in Nat /\ t.v[3] <= smsize
    BY <2>1, <2>2 DEF Shaped
  <2>4. size \in Nat /\ size <= smsize
    BY <1>1, <2>3, SMT
  <2>5. /\ S9write(smsize, size).err = "ok"
        /\ Replied(S9write(smsize, size), "Rwrite", <<size>>, smsize)
    BY <1>1, <2>4, RepliedWrite
  <2> QED
    BY <2>1, <2>5, AnswersKeeps
<1>17. CASE \E lens \in [1 .. 4 -> Lengths] :
              Answers({"Tstat"}, "Rstat", S9stat(smsize, lens), SameEntry(lens))
  <2>1. PICK lens \in [1 .. 4 -> Lengths] :
              Answers({"Tstat"}, "Rstat", S9stat(smsize, lens), SameEntry(lens))
    BY <1>17
  <2>2. lens \in [1 .. 4 -> Nat]
    BY Constants
  <2>3. S9stat(smsize, lens).err = "ok" =>
          Replied(S9stat(smsize, lens), "Rstat", SameEntry(lens), smsize)
    BY <1>1, <2>2, RepliedStat
  <2> QED
    BY <2>1, <2>3, AnswersKeeps
<1>18. CASE \E len \in Lengths :
              Answers(Requests, "Rerror", S9error(smsize, len), Same(<<len>>, 1))
  <2>1. PICK len \in Lengths :
              Answers(Requests, "Rerror", S9error(smsize, len), Same(<<len>>, 1))
    BY <1>18
  <2>2. len \in Nat
    BY Constants
  <2>3. S9error(smsize, len).err = "ok" =>
          Replied(S9error(smsize, len), "Rerror", Same(<<len>>, 1), smsize)
    BY <1>1, <2>2, RepliedError
  <2> QED
    BY <2>1, <2>3, NoVersion, AnswersKeeps
<1> QED
  BY <1>2, <1>3, <1>4, <1>6, <1>7, <1>8, <1>9, <1>10, <1>12, <1>13, <1>14, <1>15,
     <1>16, <1>17, <1>18 DEF Server

(* What is in a message that was answered.                                 *)
LEMMA AnsweredIs ==
  ASSUME C9Inv, phase = "answered"
  PROVE  /\ err = "ok" /\ held = TRUE
         /\ \/ /\ AnsweredVersion /\ svver
               /\ ~ UnfitReply /\ packet.type = "Rversion" /\ KnownHere(packet)
            \/ /\ AnsweredUnknown
               /\ packet.type = "Rversion" /\ ~ KnownHere(packet) /\ packet.size <= cmsize
            \/ /\ AnsweredRequest
               /\ ~ UnfitReply /\ packet.type # "Rversion" /\ packet.size <= cmsize
<1>1. /\ C9minmsize \in Nat /\ C9minmsize >= 20
      /\ cmsize \in Nat /\ smsize \in Nat /\ smsize >= C9minmsize
  BY SMT DEF C9minmsize, C9Inv
<1>2. CASE svver /\ AnsweredVersion
  <2>1. /\ packet.type = "Rversion" /\ packet.size = 19 /\ cmsize >= smsize
        /\ Val(packet.f, 1, 4) = smsize /\ Val(packet.f, 2, 2) = 6
        /\ packet.f[3][2] = V.known
    BY <1>2 DEF AnsweredVersion, Asks
  <2>2. ~ UnfitReply
    BY <1>1, <2>1 DEF UnfitReply
  <2>3. VersionSize(packet)
    BY <1>1, <2>1 DEF VersionSize
  <2>4. KnownHere(packet)
    BY <2>1, <2>3 DEF KnownHere
  <2> QED
    BY <1>2, <2>1, <2>2, <2>4 DEF C9Inv
<1>3. CASE AnsweredUnknown
  <2>1. /\ packet.type = "Rversion" /\ packet.size = 20 /\ cmsize >= C9minmsize
        /\ Val(packet.f, 1, 4) = 0
    BY <1>3 DEF AnsweredUnknown, Asks
  <2>2. ~ KnownHere(packet)
    BY <1>1, <2>1 DEF KnownHere, VersionSize
  <2>3. packet.size <= cmsize
    BY <1>1, <2>1
  <2> QED
    BY <1>3, <2>1, <2>2, <2>3 DEF C9Inv
<1>4. CASE AnsweredRequest
  <2>1. /\ packet.type # "Rversion"
        /\ packet.size \in Nat /\ packet.size >= 7 /\ packet.size <= cmsize
    BY <1>4 DEF AnsweredRequest, Replied
  <2>2. ~ UnfitReply
    BY <1>1, <2>1 DEF UnfitReply
  <2> QED
    BY <1>4, <2>1, <2>2 DEF C9Inv
<1> QED
  BY <1>2, <1>3, <1>4 DEF C9Inv

(* c9proc returns an error.                                                *)
LEMMA C9procFailsKeeps ==
  ASSUME C9Inv, C9procFails
  PROVE  C9Inv'
<1>1. \/ told.type = "Rversion" /\ told.v # <<>>
      \/ told.type = "Rstat" /\ Oversized(told.v)
  <2>1. CASE /\ AnsweredRequest
             /\ ~ UnfitReply /\ packet.type # "Rversion" /\ packet.size <= cmsize
    <3>1. GotR(packet, cmsize).err # "ok"
      BY <2>1 DEF C9procFails
    <3> QED
      BY <2>1, <3>1 DEF AnsweredRequest, Replied
  <2>2. CASE AnsweredUnknown
    BY <2>2 DEF AnsweredUnknown
  <2> QED
    BY <2>1, <2>2, AnsweredIs DEF C9procFails
<1> QED
  BY <1>1 DEF C9procFails, C9Inv, Sized

(* c9proc hands a reply to the caller.                                     *)
LEMMA C9procReplyKeeps ==
  ASSUME C9Inv, C9procReply
  PROVE  C9Inv'
<1>1. AnsweredRequest /\ err = "ok" /\ held = TRUE
  BY AnsweredIs DEF C9procReply
<1>2. /\ \/ GotR(packet, cmsize).v = told.v
         \/ told.type = "Rstat" /\ told.v[6] # told.v[3]
         \/ told.type = "directory" /\ told.v[1] > 65535 /\ GotR(packet, cmsize).v[2] = <<>>
      /\ svver /\ cmsize = smsize
  BY <1>1, SMT DEF AnsweredRequest, Replied, C9procReply
<1>3. r'.v = GotR(packet, cmsize).v /\ told' = told
  BY DEF C9procReply
<1>4. Faithful'
  BY <1>2, <1>3, SMT DEF Faithful
<1> QED
  BY <1>1, <1>2, <1>4 DEF C9procReply, C9Inv, Sized

(* c9proc takes the version.                                               *)
LEMMA C9procVersionKeeps ==
  ASSUME C9Inv, C9procVersion
  PROVE  C9Inv'
<1>1. AnsweredVersion /\ svver /\ err = "ok" /\ held = TRUE
  BY AnsweredIs DEF C9procVersion
<1>2. Val(packet.f, 1, 4) = smsize /\ cmsize >= smsize /\ told.v = <<>>
  BY <1>1 DEF AnsweredVersion, Asks
<1>3. cmsize' = smsize /\ smsize \in Nat /\ smsize >= C9minmsize
  <2>1. cmsize \in Nat /\ smsize \in Nat /\ smsize >= C9minmsize
    BY DEF C9Inv
  <2>2. Least(smsize, cmsize) = smsize
    BY <1>2, <2>1, LeastIs
  <2> QED
    BY <1>2, <2>1, <2>2 DEF C9procVersion
<1>4. Faithful'
  BY <1>2 DEF Faithful, C9procVersion
<1> QED
  BY <1>1, <1>3, <1>4 DEF C9procVersion, C9Inv, Sized

(* The caller is done.                                                     *)
LEMMA ReturnsKeeps ==
  ASSUME C9Inv, Returns
  PROVE  C9Inv'
<1>1. CASE phase = "replied"
  BY <1>1 DEF Returns, C9Inv, Sized
<1>2. CASE phase = "new"
  BY <1>2 DEF Returns, C9Inv, Sized
<1> QED
  BY <1>1, <1>2 DEF Returns

(* Both sides start afresh.                                                *)
LEMMA ReconnectKeeps ==
  ASSUME C9Inv, Reconnect
  PROVE  C9Inv'
<1>1. smsize' \in Nat /\ smsize' >= C9minmsize
  BY Constants DEF Reconnect
<1> QED
  BY <1>1 DEF Reconnect, C9Inv, Sized

(* Every step keeps the invariant.                                         *)
LEMMA C9Keeps ==
  ASSUME C9Inv, [C9Next]_c9vars
  PROVE  C9Inv'
<1>1. CASE \E msize \in ClientMsizes : CallVersion(msize) \/ CallForeign(msize)
  BY <1>1, CallVersionKeeps, CallForeignKeeps
<1>2. CASE Client
  BY <1>2, ClientKeeps
<1>3. CASE S9procRefuses
  BY <1>3, S9procRefusesKeeps
<1>4. CASE S9procRequest
  BY <1>4, S9procRequestKeeps
<1>5. CASE S9procVersion
  BY <1>5, S9procVersionKeeps
<1>6. CASE S9procUnknown
  BY <1>6, S9procUnknownKeeps
<1>7. CASE Server
  BY <1>7, ServerKeeps
<1>8. CASE C9procFails
  BY <1>8, C9procFailsKeeps
<1>9. CASE C9procReply
  BY <1>9, C9procReplyKeeps
<1>10. CASE C9procVersion
  BY <1>10, C9procVersionKeeps
<1>11. CASE Returns
  BY <1>11, ReturnsKeeps
<1>12. CASE Reconnect
  BY <1>12, ReconnectKeeps
<1>13. CASE UNCHANGED c9vars
  BY <1>13 DEF c9vars, C9Inv, Sized, SentVersion, SentRequest, SentForeign,
     ServedVersion, ServedRequest, AnsweredVersion, AnsweredUnknown, AnsweredRequest,
     Faithful
<1> QED
  BY <1>1, <1>2, <1>3, <1>4, <1>5, <1>6, <1>7, <1>8, <1>9, <1>10, <1>11, <1>12, <1>13
     DEF C9Next

(* What the invariant is for.                                              *)
LEMMA InvRequests ==
  ASSUME C9Inv
  PROVE  RequestsArrive
BY DEF C9Inv, RequestsArrive

LEMMA InvReplies ==
  ASSUME C9Inv
  PROVE  RepliesArrive
BY SMT DEF C9Inv, RepliesArrive, Faithful

LEMMA InvSizes ==
  ASSUME C9Inv
  PROVE  SizesAgree
<1>1. packet # NoPacket => packet.size = 7 + WireSize(packet.f)
  BY DEF C9Inv, Sized
<1>2. ASSUME phase = "sent", called.type # "foreign"
      PROVE  packet.size <= smsize
  <2>1. CASE SentVersion /\ ~ Unfit
    <3>1. packet.size = 19
      BY <2>1 DEF SentVersion, Versions, Asks
    <3>2. C9minmsize \in Nat /\ C9minmsize >= 19 /\ smsize \in Nat /\ smsize >= C9minmsize
      BY SMT DEF C9minmsize, C9Inv
    <3> QED
      BY <3>1, <3>2
  <2>2. CASE SentRequest
    BY <2>2 DEF SentRequest, Understood
  <2>3. CASE SentForeign
    BY <1>2, <2>3 DEF SentForeign
  <2> QED
    BY <1>2, <2>1, <2>2, <2>3, SentIs
<1>3. ASSUME phase = "answered"
      PROVE  packet.size <= cmsize
  <2>1. CASE ~ UnfitReply /\ AnsweredVersion
    <3>1. packet.size = 19 /\ cmsize \in Nat
      BY <2>1 DEF AnsweredVersion, C9Inv
    <3> QED
      BY <2>1, <3>1 DEF UnfitReply
  <2> QED
    BY <1>3, <2>1, AnsweredIs
<1>4. phase = "served" /\ err = "C9Esize" => told.type \in {"Rstat", "Rerror"}
  BY DEF C9Inv
<1> QED
  BY <1>1, <1>2, <1>3, <1>4 DEF SizesAgree

(* The invariant holds in every behaviour.                                 *)
THEOREM C9Invariance == C9Spec => []C9Inv
<1>1. C9Init => C9Inv
  BY InitialC9
<1>2. C9Inv /\ [C9Next]_c9vars => C9Inv'
  BY C9Keeps
<1> QED
  BY <1>1, <1>2, PTL DEF C9Spec

(* Each request that the client library accepts is understood by s9proc as *)
(* it was meant, or is one of the two that Rejected names, and no tag is   *)
(* left behind: for every msize that c9version is called with and every    *)
(* msize of a server, every string, path and count.                        *)
THEOREM RequestsUnderstood == C9Spec => []RequestsArrive
<1>1. C9Inv => RequestsArrive
  BY InvRequests
<1> QED
  BY <1>1, C9Invariance, PTL

(* Each reply is understood by c9proc and c9parsedir as the server meant   *)
(* it, but for the stats and directories that are too large for 16 bits    *)
(* and the muid of a stat, and after each both have the same msize.        *)
THEOREM RepliesUnderstood == C9Spec => []RepliesArrive
<1>1. C9Inv => RepliesArrive
  BY InvReplies
<1> QED
  BY <1>1, C9Invariance, PTL

(* No message is larger than its receiver takes or other than it says, and *)
(* the server has room for every answer but a stat or an error.            *)
THEOREM SizesMatch == C9Spec => []SizesAgree
<1>1. C9Inv => SizesAgree
  BY InvSizes
<1> QED
  BY <1>1, C9Invariance, PTL

=============================================================================
