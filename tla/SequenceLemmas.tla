-------------------------- MODULE SequenceLemmas --------------------------
(***************************************************************************)
(* Facts about natural numbers, recursive functions and sequences that the *)
(* proofs of this project rest on.  Induction is stated with sets instead  *)
(* of predicates, and recursion with step functions instead of operators,  *)
(* so that every lemma is first-order.                                     *)
(***************************************************************************)
EXTENDS Integers, Sequences, FiniteSets, SequencesExt, Sums, SequenceTheorems,
        FiniteSetTheorems, WellFoundedInduction, TLAPS

(* Induction: a set of naturals that holds 0 and every successor is Nat. *)
LEMMA SetInduction ==
    ASSUME NEW S, 0 \in S, \A n \in Nat : n \in S => n + 1 \in S
    PROVE  Nat \subseteq S
<1> DEFINE T == Nat \ S
           R == OpToRel(<, Nat)
<1>0. R = {ss \in Nat \X Nat : ss[1] < ss[2]}
    BY DEF OpToRel
<1> SUFFICES ASSUME T # {} PROVE FALSE
    OBVIOUS
<1> HIDE DEF R
<1>1. PICK x \in T : \A y \in T : ~(<<y, x>> \in R)
  <2>1. IsWellFoundedOn(R, Nat)
      BY NatLessThanWellFounded DEF R
  <2> QED
      BY <2>1, WFMin, T \subseteq Nat
<1>2. x \in Nat /\ x # 0 /\ x - 1 \in Nat
    OBVIOUS
<1>3. <<x - 1, x>> \in R
    BY <1>0, <1>2
<1>4. x - 1 \in S
    BY <1>1, <1>2, <1>3
<1> QED
    BY <1>2, <1>4

(* A set of naturals has a least element. *)
LEMMA MinOf ==
    ASSUME NEW S \in SUBSET Nat, S # {}
    PROVE  Min(S) \in S
<1> DEFINE R == OpToRel(<, Nat)
<1>1. R = {ss \in Nat \X Nat : ss[1] < ss[2]}
    BY DEF OpToRel
<1> HIDE DEF R
<1>2. PICK x \in S : \A y \in S : ~(<<y, x>> \in R)
  <2>1. IsWellFoundedOn(R, Nat)
      BY NatLessThanWellFounded DEF R
  <2> QED
      BY <2>1, WFMin
<1>3. ASSUME NEW y \in S PROVE y >= x
  <2>1. x \in Nat /\ y \in Nat /\ ~(<<y, x>> \in R)
      BY <1>2
  <2> QED
      BY <1>1, <2>1
<1> QED
    BY <1>3 DEF Min

(* Recursion: a base and a step function define a function on 0..n. *)
Follows(f, m, base, step) ==
    f[0] = base /\ \A i \in 1..m : f[i] = step[<<i, f[i-1]>>]

LEMMA RecursionExists ==
    ASSUME NEW A, NEW n \in Nat, NEW base \in A,
           NEW step \in [(1..n) \X A -> A]
    PROVE  \E f \in [0..n -> A] : Follows(f, n, base, step)
<1> DEFINE P(m) == m <= n => \E f \in [0..m -> A] : Follows(f, m, base, step)
           S == {m \in Nat : P(m)}
<1>1. P(0)
  <2>1. [i \in 0..0 |-> base] \in [0..0 -> A]
      OBVIOUS
  <2>2. Follows([i \in 0..0 |-> base], 0, base, step)
      BY DEF Follows
  <2> QED
      BY <2>1, <2>2
<1>2. ASSUME NEW m \in Nat, P(m) PROVE P(m + 1)
  <2> SUFFICES ASSUME m + 1 <= n
               PROVE  \E f \in [0..(m+1) -> A] : Follows(f, m + 1, base, step)
      OBVIOUS
  <2>1. PICK f \in [0..m -> A] : Follows(f, m, base, step)
      BY <1>2
  <2>2. f[m] \in A /\ m + 1 \in 1..n
      BY <2>1
  <2> DEFINE last == step[<<m + 1, f[m]>>]
             g == [i \in 0..(m+1) |-> IF i = m + 1 THEN last ELSE f[i]]
  <2>3. last \in A
      BY <2>2
  <2> HIDE DEF last
  <2>4. g \in [0..(m+1) -> A]
      BY <2>1, <2>3
  <2>5. g[0] = base
      BY <2>1 DEF Follows
  <2>6. ASSUME NEW i \in 1..(m+1) PROVE g[i] = step[<<i, g[i-1]>>]
    <3>1. CASE i = m + 1
      <4>1. i - 1 = m /\ g[m] = f[m] /\ g[i] = last
          BY <3>1
      <4> HIDE DEF g
      <4> QED
          BY <3>1, <4>1 DEF last
    <3>2. CASE i # m + 1
      <4>1. i \in 1..m /\ g[i] = f[i] /\ g[i-1] = f[i-1]
          BY <3>2
      <4> HIDE DEF g
      <4> QED
          BY <4>1, <2>1 DEF Follows
    <3> QED
        BY <3>1, <3>2
  <2> HIDE DEF g
  <2> QED
      BY <2>4, <2>5, <2>6 DEF Follows
<1> HIDE DEF P
<1>3. n \in S
  <2>1. 0 \in S /\ \A m \in Nat : m \in S => m + 1 \in S
      BY <1>1, <1>2
  <2> HIDE DEF S
  <2>2. Nat \subseteq S
      BY <2>1, SetInduction
  <2> QED
      BY <2>2
<1> QED
    BY <1>3 DEF P

(* A sequence of S is a function from 1..n for its length n. *)
LEMMA SeqIsFunction ==
    ASSUME NEW S, NEW s \in Seq(S)
    PROVE  Len(s) \in Nat /\ DOMAIN s = 1..Len(s) /\ s \in [1..Len(s) -> S]
OBVIOUS

(* What updateCacheSize computes while it ejects: the sum of the first i   *)
(* elements of a sequence of integers, for every i.                        *)
LEMMA PrefixSumsDef ==
    ASSUME NEW w \in Seq(Int)
    PROVE  /\ PrefixSums(w) \in [0..Len(w) -> Int]
           /\ PrefixSums(w)[0] = 0
           /\ \A i \in 1..Len(w) : PrefixSums(w)[i] = PrefixSums(w)[i-1] + w[i]
<1>0. PICK n \in Nat : n = Len(w) /\ w \in [1..n -> Int]
    BY SeqIsFunction
<1> DEFINE step == [p \in (1..n) \X Int |-> p[2] + w[p[1]]]
           Body(s) == [i \in 0..n |-> IF i = 0 THEN 0 ELSE s[i-1] + w[i]]
<1>1. step \in [(1..n) \X Int -> Int]
    BY <1>0
<1>2. PICK f \in [0..n -> Int] : Follows(f, n, 0, step)
  <2> HIDE DEF step
  <2> QED
    BY <1>1, RecursionExists, 0 \in Int
<1>3. ASSUME NEW i \in 1..n PROVE f[i] = f[i-1] + w[i]
  <2>1. f[i-1] \in Int
      OBVIOUS
  <2>2. f[i] = step[<<i, f[i-1]>>]
      BY <1>2 DEF Follows
  <2> QED
      BY <2>1, <2>2
<1>4. f = Body(f)
  <2>1. \A i \in 0..n : f[i] = IF i = 0 THEN 0 ELSE f[i-1] + w[i]
      BY <1>2, <1>3 DEF Follows
  <2> QED
      BY <2>1
<1>5. PrefixSums(w) = CHOOSE s : s = Body(s)
    BY <1>0 DEF PrefixSums
<1>6. PrefixSums(w) = Body(PrefixSums(w))
    BY <1>4, <1>5
<1> DEFINE T == {i \in Nat : i <= n => PrefixSums(w)[i] = f[i]}
<1>7. 0 \in T
    BY <1>2, <1>6 DEF Follows
<1>8. ASSUME NEW i \in Nat, i \in T PROVE i + 1 \in T
  <2> SUFFICES ASSUME i + 1 <= n PROVE PrefixSums(w)[i+1] = f[i+1]
      OBVIOUS
  <2>1. PrefixSums(w)[i] = f[i] /\ i + 1 \in 1..n /\ (i + 1) - 1 = i
      BY <1>8
  <2>2. PrefixSums(w)[i+1] = PrefixSums(w)[i] + w[i+1]
      BY <1>6, <2>1
  <2> QED
      BY <1>3, <2>1, <2>2
<1>9. \A i \in 0..n : PrefixSums(w)[i] = f[i]
  <2> HIDE DEF T
  <2>1. Nat \subseteq T
      BY <1>7, <1>8, SetInduction
  <2> QED
      BY <2>1 DEF T
<1>10. PrefixSums(w) = f
    BY <1>6, <1>9
<1> QED
    BY <1>0, <1>2, <1>3, <1>10 DEF Follows

(* FlattenSeq adds one sequence after the other. *)
LEMMA FlattenSeqDef ==
    ASSUME NEW S, NEW ss \in Seq(Seq(S))
    PROVE  \E f \in [0..Len(ss) -> Seq(S)] :
              /\ f[0] = << >>
              /\ \A i \in 1..Len(ss) : f[i] = f[i-1] \o ss[i]
              /\ FlattenSeq(ss) = f[Len(ss)]
<1>0. PICK n \in Nat : n = Len(ss) /\ ss \in [1..n -> Seq(S)] /\ DOMAIN ss = 1..n
    BY SeqIsFunction
<1> DEFINE step == [p \in (1..n) \X Seq(S) |-> p[2] \o ss[p[1]]]
           Body(g) == [i \in 1..n |-> IF i = 1 THEN ss[i] ELSE g[i-1] \o ss[i]]
           F == CHOOSE g : g = Body(g)
<1>1. step \in [(1..n) \X Seq(S) -> Seq(S)]
  <2> SUFFICES ASSUME NEW p \in (1..n) \X Seq(S) PROVE p[2] \o ss[p[1]] \in Seq(S)
      OBVIOUS
  <2>1. p[2] \in Seq(S) /\ ss[p[1]] \in Seq(S)
      BY <1>0
  <2> QED
      BY <2>1
<1>2. PICK f \in [0..n -> Seq(S)] : Follows(f, n, << >>, step)
  <2> HIDE DEF step
  <2> QED
    BY <1>1, RecursionExists, << >> \in Seq(S)
<1>3. ASSUME NEW i \in 1..n PROVE f[i] = f[i-1] \o ss[i]
  <2>1. f[i-1] \in Seq(S)
      OBVIOUS
  <2>2. f[i] = step[<<i, f[i-1]>>]
      BY <1>2 DEF Follows
  <2>3. <<i, f[i-1]>> \in (1..n) \X Seq(S)
      BY <2>1
  <2> QED
      BY <2>2, <2>3
<1>4. f[0] = << >>
    BY <1>2 DEF Follows
<1>5. CASE n = 0
  <2>1. FlattenSeq(ss) = ss /\ ss = << >>
      BY <1>0, <1>5 DEF FlattenSeq
  <2> QED
      BY <1>0, <1>3, <1>4, <1>5, <2>1
<1>6. CASE n # 0
  <2>0. f[1] = ss[1] /\ 1 \in 1..n
    <3>1. 1 \in 1..n /\ 1 - 1 = 0
        BY <1>6
    <3>2. f[1] = f[0] \o ss[1] /\ ss[1] \in Seq(S)
        BY <1>0, <1>3, <3>1
    <3> QED
        BY <1>4, <3>1, <3>2, ConcatEmptySeq
  <2> DEFINE h == [i \in 1..n |-> f[i]]
  <2>1. ASSUME NEW i \in 1..n
        PROVE  h[i] = IF i = 1 THEN ss[i] ELSE h[i-1] \o ss[i]
    <3>1. CASE i = 1
        BY <2>0, <3>1
    <3>2. CASE i # 1
      <4>1. i - 1 \in 1..n
          BY <3>2
      <4> QED
          BY <1>3, <3>2, <4>1
    <3> QED
        BY <3>1, <3>2
  <2>2. h = Body(h)
    <3> HIDE DEF h
    <3>1. h = [i \in 1..n |-> h[i]]
        BY DEF h
    <3> QED
        BY <2>1, <3>1, Zenon
  <2>3. F = Body(F)
    <3> HIDE DEF h
    <3> QED
      BY <2>2, Zenon
  <2>4. FlattenSeq(ss) = F[n]
      BY <1>0, <1>6 DEF FlattenSeq
  <2> DEFINE T == {i \in Nat : i + 1 <= n => F[i+1] = f[i+1]}
  <2> HIDE DEF F
  <2>5. 0 \in T
    <3>1. F[1] = f[1]
        BY <2>0, <2>3
    <3> QED
        BY <3>1
  <2>6. ASSUME NEW i \in Nat, i \in T PROVE i + 1 \in T
    <3> SUFFICES ASSUME (i + 1) + 1 <= n PROVE F[(i+1)+1] = f[(i+1)+1]
        OBVIOUS
    <3> DEFINE k == (i + 1) + 1
    <3>1. F[i+1] = f[i+1] /\ k \in 1..n /\ k - 1 = i + 1 /\ k # 1
        BY <2>6
    <3> HIDE DEF k
    <3>2. F[k] = F[i+1] \o ss[k]
        BY <2>3, <3>1
    <3>3. F[k] = f[k]
        BY <1>3, <3>1, <3>2
    <3> QED
        BY <3>3 DEF k
  <2>7. n - 1 \in T
    <3> HIDE DEF T
    <3>1. Nat \subseteq T
        BY <2>5, <2>6, SetInduction
    <3> QED
        BY <1>6, <3>1
  <2>8. F[n] = f[n]
      BY <1>6, <2>7
  <2> QED
      BY <1>0, <1>3, <1>4, <2>4, <2>8
<1> QED
    BY <1>5, <1>6

(* An element of a \o b is an element of a or of b. *)
LEMMA ConcatElements ==
    ASSUME NEW S, NEW a \in Seq(S), NEW b \in Seq(S), NEW p \in DOMAIN (a \o b)
    PROVE  \/ p \in DOMAIN a /\ (a \o b)[p] = a[p]
           \/ /\ p - Len(a) \in DOMAIN b
              /\ (a \o b)[p] = b[p - Len(a)]
              /\ p \in Int
BY ConcatProperties, SeqIsFunction

(* Appending different elements to different ones. *)
LEMMA ConcatInjective ==
    ASSUME NEW S, NEW a \in Seq(S), NEW b \in Seq(S),
           IsInjective(a), IsInjective(b),
           \A x \in DOMAIN a, y \in DOMAIN b : a[x] # b[y]
    PROVE  IsInjective(a \o b)
<1> SUFFICES ASSUME NEW p \in DOMAIN (a \o b), NEW q \in DOMAIN (a \o b),
                    (a \o b)[p] = (a \o b)[q]
             PROVE  p = q
    BY DEF IsInjective
<1> DEFINE c == a \o b
           InA(r) == r \in DOMAIN a /\ c[r] = a[r]
           InB(r) == r - Len(a) \in DOMAIN b /\ c[r] = b[r - Len(a)] /\ r \in Int
<1>1. (InA(p) \/ InB(p)) /\ (InA(q) \/ InB(q))
    BY ConcatElements
<1>2. CASE InA(p) /\ InA(q)
    BY <1>2 DEF IsInjective
<1>3. CASE InB(p) /\ InB(q)
  <2>1. p - Len(a) = q - Len(a)
      BY <1>3 DEF IsInjective
  <2> QED
      BY <1>3, <2>1, SeqIsFunction
<1>4. ~(InA(p) /\ InB(q)) /\ ~(InB(p) /\ InA(q))
    OBVIOUS
<1> QED
    BY <1>1, <1>2, <1>3, <1>4

(* Every element of t is an element of one of the first m sequences of ss. *)
ComesFrom(t, ss, m) ==
    \A p \in DOMAIN t : \E i \in 1..m : \E j \in DOMAIN ss[i] : t[p] = ss[i][j]

LEMMA ConcatComesFrom ==
    ASSUME NEW S, NEW m \in Nat, NEW ss \in Seq(Seq(S)), m + 1 \in DOMAIN ss,
           NEW a \in Seq(S), ComesFrom(a, ss, m)
    PROVE  ComesFrom(a \o ss[m+1], ss, m + 1)
<1> DEFINE b == ss[m+1]
<1>0. b \in Seq(S)
    OBVIOUS
<1> HIDE DEF b
<1> SUFFICES ASSUME NEW p \in DOMAIN (a \o b)
             PROVE  \E i \in 1..(m+1) : \E j \in DOMAIN ss[i] : (a \o b)[p] = ss[i][j]
    BY DEF ComesFrom, b
<1>1. CASE p \in DOMAIN a /\ (a \o b)[p] = a[p]
  <2>1. PICK i \in 1..m : \E j \in DOMAIN ss[i] : a[p] = ss[i][j]
      BY <1>1 DEF ComesFrom
  <2>2. i \in 1..(m+1)
      OBVIOUS
  <2> QED
      BY <1>1, <2>1, <2>2
<1>2. CASE p - Len(a) \in DOMAIN b /\ (a \o b)[p] = b[p - Len(a)]
  <2>1. m + 1 \in 1..(m+1)
      OBVIOUS
  <2> QED
      BY <1>2, <2>1 DEF b
<1> QED
    BY <1>0, <1>1, <1>2, ConcatElements, SMTT(30)

(* Flattening sequences whose elements all differ gives a sequence of      *)
(* those elements, all of them different.                                  *)
LEMMA FlattenSeqDistinct ==
    ASSUME NEW S, NEW ss \in Seq(Seq(S)),
           \A i, k \in DOMAIN ss : \A j \in DOMAIN ss[i], l \in DOMAIN ss[k] :
              ss[i][j] = ss[k][l] => i = k /\ j = l
    PROVE  /\ FlattenSeq(ss) \in Seq(S)
           /\ ComesFrom(FlattenSeq(ss), ss, Len(ss))
           /\ IsInjective(FlattenSeq(ss))
<1>0. PICK n \in Nat : n = Len(ss) /\ ss \in [1..n -> Seq(S)] /\ DOMAIN ss = 1..n
    BY SeqIsFunction
<1>1. PICK f \in [0..n -> Seq(S)] :
              /\ f[0] = << >>
              /\ \A i \in 1..n : f[i] = f[i-1] \o ss[i]
              /\ FlattenSeq(ss) = f[n]
    BY <1>0, FlattenSeqDef
<1> DEFINE T == {m \in Nat : m <= n => ComesFrom(f[m], ss, m) /\ IsInjective(f[m])}
<1>2. 0 \in T
    BY <1>1 DEF ComesFrom, IsInjective
<1>3. ASSUME NEW m \in Nat, m \in T PROVE m + 1 \in T
  <2> SUFFICES ASSUME m + 1 <= n
               PROVE  ComesFrom(f[m+1], ss, m + 1) /\ IsInjective(f[m+1])
      OBVIOUS
  <2>1. ComesFrom(f[m], ss, m) /\ IsInjective(f[m])
      BY <1>3
  <2>2. PICK a \in Seq(S), b \in Seq(S) :
           a = f[m] /\ b = ss[m + 1] /\ f[m + 1] = a \o b
    <3>1. m + 1 \in 1..n /\ m \in 0..n /\ (m + 1) - 1 = m
        OBVIOUS
    <3>2. f[m] \in Seq(S) /\ ss[m + 1] \in Seq(S)
        BY <1>0, <3>1
    <3>3. f[m + 1] = f[m] \o ss[m + 1]
        BY <1>1, <3>1
    <3> QED
        BY <3>2, <3>3
  <2>3. ComesFrom(a, ss, m) /\ IsInjective(a) /\ m + 1 \in DOMAIN ss
      BY <1>0, <2>1, <2>2
  <2>4. ComesFrom(a \o b, ss, m + 1)
      BY <2>2, <2>3, ConcatComesFrom
  <2>5. ASSUME NEW x \in DOMAIN a, NEW y \in DOMAIN b, a[x] = b[y] PROVE FALSE
    <3>1. PICK i \in 1..m : \E j \in DOMAIN ss[i] : a[x] = ss[i][j]
        BY <2>3 DEF ComesFrom
    <3>2. i \in DOMAIN ss /\ i # m + 1
        BY <1>0
    <3>3. PICK j \in DOMAIN ss[i] : a[x] = ss[i][j]
        BY <3>1
    <3>4. y \in DOMAIN ss[m + 1] /\ ss[i][j] = ss[m + 1][y]
        BY <2>2, <2>5, <3>3
    <3> QED
        BY <2>3, <3>2, <3>4
  <2>6. IsInjective(b)
      BY <2>2, <2>3 DEF IsInjective
  <2>7. IsInjective(a \o b)
      BY <2>3, <2>5, <2>6, ConcatInjective
  <2> QED
      BY <2>2, <2>4, <2>7
<1>4. n \in T
  <2> HIDE DEF T
  <2>1. Nat \subseteq T
      BY <1>2, <1>3, SetInduction
  <2> QED
      BY <2>1
<1> QED
    BY <1>0, <1>1, <1>4

(* Appending puts the elements together. *)
LEMMA ConcatRange ==
    ASSUME NEW S, NEW a \in Seq(S), NEW b \in Seq(S)
    PROVE  Range(a \o b) = Range(a) \cup Range(b)
<1> DEFINE c == a \o b
<1>1. /\ Len(a) \in Nat /\ DOMAIN a = 1..Len(a)
      /\ Len(b) \in Nat /\ DOMAIN b = 1..Len(b)
    BY SeqIsFunction
<1>2. /\ c \in Seq(S) /\ Len(c) = Len(a) + Len(b)
      /\ \A i \in 1..(Len(a) + Len(b)) : c[i] = IF i <= Len(a) THEN a[i] ELSE b[i - Len(a)]
    BY ConcatProperties
<1>3. DOMAIN c = 1..(Len(a) + Len(b))
    BY <1>2, SeqIsFunction
<1> HIDE DEF c
<1>4. ASSUME NEW p \in DOMAIN a PROVE p \in DOMAIN c /\ c[p] = a[p]
    BY <1>1, <1>2, <1>3
<1>5. ASSUME NEW p \in DOMAIN b
      PROVE  \E q \in DOMAIN c : c[q] = b[p]
  <2>1. /\ p + Len(a) \in 1..(Len(a) + Len(b)) /\ ~(p + Len(a) <= Len(a))
        /\ (p + Len(a)) - Len(a) = p
      BY <1>1
  <2>2. c[p + Len(a)] = b[p]
      BY <1>2, <2>1
  <2> QED
      BY <1>3, <2>1, <2>2
<1>6. ASSUME NEW p \in DOMAIN c
      PROVE  \/ \E q \in DOMAIN a : c[p] = a[q]
             \/ \E q \in DOMAIN b : c[p] = b[q]
    BY ConcatElements DEF c
<1> QED
    BY <1>4, <1>5, <1>6 DEF Range, c

LEMMA AppendRange ==
    ASSUME NEW S, NEW s \in Seq(S), NEW e \in S
    PROVE  Range(Append(s, e)) = Range(s) \cup {e}
<1> DEFINE n == Len(s)
           t == Append(s, e)
<1>1. n \in Nat /\ DOMAIN s = 1..n
    BY SeqIsFunction
<1>2. /\ t \in Seq(S) /\ Len(t) = n + 1
      /\ \A i \in 1..n : t[i] = s[i]
      /\ t[n + 1] = e
    BY AppendProperties
<1>3. DOMAIN t = 1..(n + 1) /\ 1..(n + 1) = 1..n \cup {n + 1}
    BY <1>1, <1>2, SeqIsFunction
<1> HIDE DEF t, n
<1> QED
    BY <1>1, <1>2, <1>3 DEF Range, t

\* The elements of t are those of the first m sequences of ss.
HasAllOf(t, ss, m) ==
    \A x : x \in Range(t) <=> \E i \in 1..m : x \in Range(ss[i])

(* FlattenSeq keeps every element and adds none. *)
LEMMA FlattenSeqRange ==
    ASSUME NEW S, NEW ss \in Seq(Seq(S))
    PROVE  HasAllOf(FlattenSeq(ss), ss, Len(ss))
<1>0. PICK n \in Nat : n = Len(ss) /\ ss \in [1..n -> Seq(S)] /\ DOMAIN ss = 1..n
    BY SeqIsFunction
<1>1. PICK f \in [0..n -> Seq(S)] :
              /\ f[0] = << >>
              /\ \A i \in 1..n : f[i] = f[i-1] \o ss[i]
              /\ FlattenSeq(ss) = f[n]
    BY <1>0, FlattenSeqDef
<1> DEFINE T == {m \in Nat : m <= n => HasAllOf(f[m], ss, m)}
<1>2. 0 \in T
    BY <1>1 DEF HasAllOf, Range
<1>3. ASSUME NEW m \in Nat, m \in T PROVE m + 1 \in T
  <2> SUFFICES ASSUME m + 1 <= n PROVE HasAllOf(f[m+1], ss, m + 1)
      OBVIOUS
  <2>1. HasAllOf(f[m], ss, m)
      BY <1>3
  <2>2. f[m] \in Seq(S) /\ ss[m + 1] \in Seq(S) /\ f[m + 1] = f[m] \o ss[m + 1]
    <3>1. m + 1 \in 1..n /\ m \in 0..n /\ (m + 1) - 1 = m
        OBVIOUS
    <3> QED
        BY <1>0, <1>1, <3>1
  <2>3. Range(f[m + 1]) = Range(f[m]) \cup Range(ss[m + 1])
      BY <2>2, ConcatRange
  <2>4. 1..(m + 1) = 1..m \cup {m + 1}
      OBVIOUS
  <2> QED
      BY <2>1, <2>3, <2>4 DEF HasAllOf
<1>4. n \in T
  <2> HIDE DEF T
  <2>1. Nat \subseteq T
      BY <1>2, <1>3, SetInduction
  <2> QED
      BY <2>1
<1> QED
    BY <1>0, <1>1, <1>4

(* t is s, of length n, without its i-th position. *)
Without(s, t, n, i) ==
    /\ s \in [1..n -> Range(s)]
    /\ t \in [1..(n-1) -> Range(t)]
    /\ \A p \in 1..(n-1) : t[p] = IF p < i THEN s[p] ELSE s[p+1]

LEMMA WithoutPosition ==
    ASSUME NEW s, NEW t, NEW n \in Nat, NEW i \in 1..n,
           Without(s, t, n, i), IsInjective(s)
    PROVE  IsInjective(t) /\ Range(t) = Range(s) \ {s[i]}
<1>0. /\ DOMAIN s = 1..n /\ DOMAIN t = 1..(n-1)
      /\ \A p \in 1..(n-1) : t[p] = IF p < i THEN s[p] ELSE s[p+1]
    BY DEF Without
<1>1. \A p \in 1..(n-1) :
         \E q \in 1..n : q # i /\ t[p] = s[q] /\ q = IF p < i THEN p ELSE p + 1
    BY <1>0
<1>2. IsInjective(t)
  <2> SUFFICES ASSUME NEW p \in 1..(n-1), NEW q \in 1..(n-1), t[p] = t[q]
               PROVE  p = q
      BY <1>0 DEF IsInjective
  <2>1. PICK p1 \in 1..n : t[p] = s[p1] /\ p1 = IF p < i THEN p ELSE p + 1
      BY <1>1
  <2>2. PICK q1 \in 1..n : t[q] = s[q1] /\ q1 = IF q < i THEN q ELSE q + 1
      BY <1>1
  <2>3. p1 = q1
      BY <1>0, <2>1, <2>2 DEF IsInjective
  <2> QED
      BY <2>1, <2>2, <2>3
<1>3. Range(t) \subseteq Range(s) \ {s[i]}
  <2> SUFFICES ASSUME NEW p \in 1..(n-1) PROVE t[p] \in Range(s) /\ t[p] # s[i]
      BY <1>0 DEF Range
  <2>1. PICK q \in 1..n : q # i /\ t[p] = s[q]
      BY <1>1
  <2> QED
      BY <1>0, <2>1 DEF IsInjective, Range
<1>4. ASSUME NEW p \in 1..n, p # i PROVE \E q \in 1..(n-1) : t[q] = s[p]
  <2>1. CASE p < i
    <3>1. p \in 1..(n-1) /\ t[p] = s[p]
        BY <1>0, <2>1
    <3> QED
        BY <3>1
  <2>2. CASE p > i
    <3>1. p - 1 \in 1..(n-1) /\ ~(p - 1 < i) /\ (p - 1) + 1 = p
        BY <2>2
    <3>2. t[p-1] = s[p]
        BY <1>0, <3>1
    <3> QED
        BY <3>1, <3>2
  <2> QED
      BY <1>4, <2>1, <2>2
<1>5. Range(s) \ {s[i]} \subseteq Range(t)
  <2> SUFFICES ASSUME NEW p \in 1..n, p # i PROVE s[p] \in Range(t)
      BY <1>0 DEF Range
  <2> QED
      BY <1>0, <1>4, SMTT(30) DEF Range
<1> QED
    BY <1>2, <1>3, <1>5

(* What is left of a sequence without its i-th position. *)
LEMMA RemoveAtIs ==
    ASSUME NEW S, NEW s \in Seq(S), NEW i \in 1..Len(s)
    PROVE  LET t == SubSeq(s, 1, i - 1) \o SubSeq(s, i + 1, Len(s))
           IN  t \in Seq(S) /\ Len(t) = Len(s) - 1 /\ Without(s, t, Len(s), i)
<1>1. PICK n \in Nat : n = Len(s) /\ DOMAIN s = 1..n /\ s \in [1..n -> S]
    BY SeqIsFunction
<1>2. PICK j \in 1..n : j = i
    BY <1>1
<1>3. PICK a : a = SubSeq(s, 1, j - 1)
    OBVIOUS
<1>4. PICK b : b = SubSeq(s, j + 1, n)
    OBVIOUS
<1>5. PICK t : t = a \o b
    OBVIOUS
<1>6. /\ a \in Seq(S) /\ Len(a) = j - 1
      /\ \A p \in 1..(j-1) : a[p] = s[p]
  <2>1. 1 \in 1..(Len(s) + 1) /\ j - 1 \in (1 - 1)..Len(s)
      BY <1>1
  <2> QED
      BY <1>1, <1>3, <2>1, SubSeqProperties
<1>7. /\ b \in Seq(S) /\ Len(b) = n - j
      /\ \A p \in 1..(n-j) : b[p] = s[p+j]
  <2>1. j + 1 \in Int /\ n \in Int /\ \A x \in (j+1)..n : s[x] \in S
      BY <1>1
  <2>2. b \in Seq(S)
      BY <1>4, <2>1, SubSeqProperties
  <2>3. Len(b) = IF j + 1 <= n THEN n - (j + 1) + 1 ELSE 0
      BY <1>4, <2>1, SubSeqProperties
  <2>4. \A p \in 1..(n-(j+1)+1) : b[p] = s[(j+1)+p-1]
      BY <1>4, <2>1, SubSeqProperties
  <2>5. n - (j + 1) + 1 = n - j /\ \A p \in 1..(n-j) : (j+1)+p-1 = p + j
      OBVIOUS
  <2> QED
      BY <2>2, <2>3, <2>4, <2>5
<1>8. t \in Seq(S) /\ Len(t) = n - 1
    BY <1>5, <1>6, <1>7, ConcatProperties
<1>9. \A p \in 1..(n-1) : t[p] = IF p < j THEN s[p] ELSE s[p+1]
  <2> SUFFICES ASSUME NEW p \in 1..(n-1) PROVE t[p] = IF p < j THEN s[p] ELSE s[p+1]
      OBVIOUS
  <2>0. p \in 1..(Len(a) + Len(b)) /\ Len(a) = j - 1
      BY <1>6, <1>7
  <2>1. t[p] = IF p <= Len(a) THEN a[p] ELSE b[p - Len(a)]
      BY <1>5, <1>6, <1>7, <2>0, ConcatProperties
  <2>2. CASE p < j
      BY <1>6, <2>0, <2>1, <2>2
  <2>3. CASE p >= j
    <3>1. p - (j - 1) \in 1..(n-j) /\ (p - (j - 1)) + j = p + 1
        BY <2>3
    <3>2. ~(p <= Len(a)) /\ ~(p < j)
        BY <2>0, <2>3
    <3>3. t[p] = b[p - (j - 1)]
        BY <2>0, <2>1, <3>2
    <3>4. b[p - (j - 1)] = s[p + 1]
        BY <1>7, <3>1
    <3> QED
        BY <3>2, <3>3, <3>4
  <2> QED
      BY <2>2, <2>3
<1>10. Without(s, t, n, j)
  <2>1. s \in [1..n -> Range(s)]
      BY <1>1 DEF Range
  <2>2. t \in [1..(n-1) -> Range(t)]
      BY <1>8, SeqIsFunction DEF Range
  <2> QED
      BY <1>9, <2>1, <2>2 DEF Without
<1> QED
    BY <1>1, <1>2, <1>3, <1>4, <1>5, <1>8, <1>10, Zenon

LEMMA RemoveAtInjective ==
    ASSUME NEW S, NEW s \in Seq(S), NEW i \in 1..Len(s), IsInjective(s)
    PROVE  LET t == SubSeq(s, 1, i - 1) \o SubSeq(s, i + 1, Len(s))
           IN  /\ t \in Seq(S) /\ Len(t) = Len(s) - 1
               /\ IsInjective(t)
               /\ Range(t) = Range(s) \ {s[i]}
<1>1. PICK t : t = SubSeq(s, 1, i - 1) \o SubSeq(s, i + 1, Len(s))
    OBVIOUS
<1>2. t \in Seq(S) /\ Len(t) = Len(s) - 1 /\ Without(s, t, Len(s), i)
    BY <1>1, RemoveAtIs
<1>3. Len(s) \in Nat
    BY SeqIsFunction
<1>4. IsInjective(t) /\ Range(t) = Range(s) \ {s[i]}
    BY <1>2, <1>3, WithoutPosition
<1> QED
    BY <1>1, <1>2, <1>4

(* It has every element of the others' positions, and only elements of s. *)
LEMMA RemoveAtKeeps ==
    ASSUME NEW S, NEW s \in Seq(S), NEW i \in 1..Len(s)
    PROVE  LET t == SubSeq(s, 1, i - 1) \o SubSeq(s, i + 1, Len(s))
           IN  /\ t \in Seq(S) /\ Len(t) = Len(s) - 1
               /\ \A p \in DOMAIN s : p # i => \E q \in DOMAIN t : t[q] = s[p]
<1>1. PICK t : t = SubSeq(s, 1, i - 1) \o SubSeq(s, i + 1, Len(s))
    OBVIOUS
<1>2. t \in Seq(S) /\ Len(t) = Len(s) - 1 /\ Without(s, t, Len(s), i)
    BY <1>1, RemoveAtIs
<1>3. PICK n \in Nat : n = Len(s) /\ DOMAIN s = 1..n /\ DOMAIN t = 1..(n-1)
    BY <1>2, SeqIsFunction
<1>4. \A p \in 1..(n-1) : t[p] = IF p < i THEN s[p] ELSE s[p+1]
    BY <1>2, <1>3 DEF Without
<1>5. ASSUME NEW p \in 1..n, p # i PROVE \E q \in 1..(n-1) : t[q] = s[p]
  <2>1. CASE p < i
    <3>1. p \in 1..(n-1) /\ t[p] = s[p]
        BY <1>3, <1>4, <2>1
    <3> QED
        BY <3>1
  <2>2. CASE p > i
    <3>1. p - 1 \in 1..(n-1) /\ ~(p - 1 < i) /\ (p - 1) + 1 = p
        BY <1>3, <2>2
    <3>2. t[p-1] = s[p]
        BY <1>4, <3>1
    <3> QED
        BY <3>1, <3>2
  <2> QED
      BY <1>3, <1>5, <2>1, <2>2
<1> QED
    BY <1>1, <1>2, <1>3, <1>5

(* Appending a new element. *)
LEMMA AppendInjective2 ==
    ASSUME NEW S, NEW s \in Seq(S), NEW e \in S, IsInjective(s), e \notin Range(s)
    PROVE  /\ Append(s, e) \in Seq(S) /\ Len(Append(s, e)) = Len(s) + 1
           /\ IsInjective(Append(s, e))
           /\ Range(Append(s, e)) = Range(s) \cup {e}
<1> DEFINE n == Len(s)
           t == Append(s, e)
<1>1. n \in Nat /\ DOMAIN s = 1..n
    BY SeqIsFunction
<1>2. /\ t \in Seq(S) /\ Len(t) = n + 1
      /\ t[n + 1] = e /\ \A i \in 1..n : t[i] = s[i]
    BY AppendProperties
<1>3. DOMAIN t = 1..(n+1)
    BY <1>2, SeqIsFunction
<1> HIDE DEF n, t
<1>4. \A i \in 1..(n+1) : i \in 1..n \/ i = n + 1
    BY <1>1
<1>5. IsInjective(t)
    BY <1>1, <1>2, <1>3, <1>4 DEF IsInjective, Range
<1>6. Range(t) = Range(s) \cup {e}
  <2>1. \A i \in 1..n : i \in 1..(n+1)
      BY <1>1
  <2>2. n + 1 \in 1..(n+1)
      BY <1>1
  <2> QED
      BY <1>1, <1>2, <1>3, <1>4, <2>1, <2>2 DEF Range
<1> QED
    BY <1>2, <1>5, <1>6 DEF n, t

(* Prefix sums depend on the elements before them only.                    *)
LEMMA PrefixSumsLocal ==
    ASSUME NEW u \in Seq(Int), NEW v \in Seq(Int), Len(u) <= Len(v),
           \A i \in 1..Len(u) : u[i] = v[i]
    PROVE  \A i \in 0..Len(u) : PrefixSums(u)[i] = PrefixSums(v)[i]
<1> DEFINE T == {i \in Nat : i <= Len(u) => PrefixSums(u)[i] = PrefixSums(v)[i]}
<1>0. Len(u) \in Nat /\ Len(v) \in Nat
    BY SeqIsFunction
<1>1. 0 \in T
    BY PrefixSumsDef
<1>2. ASSUME NEW i \in Nat, i \in T PROVE i + 1 \in T
  <2> SUFFICES ASSUME i + 1 <= Len(u) PROVE PrefixSums(u)[i+1] = PrefixSums(v)[i+1]
      OBVIOUS
  <2>1. i + 1 \in 1..Len(u) /\ i + 1 \in 1..Len(v) /\ (i + 1) - 1 = i
      BY <1>0
  <2>2. PrefixSums(u)[i+1] = PrefixSums(u)[i] + u[i+1]
      BY <2>1, PrefixSumsDef
  <2>3. PrefixSums(v)[i+1] = PrefixSums(v)[i] + v[i+1]
      BY <2>1, PrefixSumsDef
  <2>4. PrefixSums(u)[i] = PrefixSums(v)[i]
      BY <1>0, <1>2, <2>1
  <2> QED
      BY <2>1, <2>2, <2>3, <2>4
<1>3. Nat \subseteq T
  <2> HIDE DEF T
  <2> QED
      BY <1>1, <1>2, SetInduction
<1> QED
    BY <1>0, <1>3

(* The sums of natural numbers are natural numbers.                        *)
LEMMA PrefixSumsNat ==
    ASSUME NEW w \in Seq(Nat)
    PROVE  /\ PrefixSums(w)[0] = 0
           /\ \A i \in 0..Len(w) : PrefixSums(w)[i] \in Nat
           /\ \A i \in 1..Len(w) : PrefixSums(w)[i] = PrefixSums(w)[i-1] + w[i]
<1> DEFINE T == {i \in Nat : i <= Len(w) => PrefixSums(w)[i] \in Nat}
<1>0. Len(w) \in Nat /\ w \in Seq(Int) /\ \A i \in 1..Len(w) : w[i] \in Nat
    BY SeqIsFunction
<1>1. 0 \in T
    BY <1>0, PrefixSumsDef
<1>2. ASSUME NEW i \in Nat, i \in T PROVE i + 1 \in T
  <2> SUFFICES ASSUME i + 1 <= Len(w) PROVE PrefixSums(w)[i+1] \in Nat
      OBVIOUS
  <2>1. i + 1 \in 1..Len(w) /\ (i + 1) - 1 = i /\ PrefixSums(w)[i] \in Nat
      BY <1>0, <1>2
  <2>2. PrefixSums(w)[i+1] = PrefixSums(w)[i] + w[i+1]
      BY <1>0, <2>1, PrefixSumsDef
  <2> QED
      BY <1>0, <2>1, <2>2
<1>3. Nat \subseteq T
  <2> HIDE DEF T
  <2> QED
      BY <1>1, <1>2, SetInduction
<1> QED
    BY <1>0, <1>3, PrefixSumsDef

(* The sequence x stands in s, after the first "at" elements of s.         *)
StandsAt(s, at, x) ==
    /\ at + Len(x) <= Len(s)
    /\ \A i \in 1..Len(x) : s[at + i] = x[i]

LEMMA StandsIs ==
    ASSUME NEW S, NEW s \in Seq(S), NEW x \in Seq(S), NEW at \in Nat, StandsAt(s, at, x)
    PROVE  SubSeq(s, at + 1, at + Len(x)) = x
<1>1. PICK n \in Nat, k \in Nat : n = Len(s) /\ k = Len(x) /\ at + k <= n
    BY SeqIsFunction DEF StandsAt
<1>2. PICK t : t = SubSeq(s, at + 1, at + k)
    OBVIOUS
<1>3. \A i \in (at + 1)..(at + k) : s[i] \in S
    BY <1>1, SeqIsFunction
<1>4. /\ t \in Seq(S)
      /\ Len(t) = IF at + 1 <= at + k THEN (at + k) - (at + 1) + 1 ELSE 0
      /\ \A i \in 1..((at + k) - (at + 1) + 1) : t[i] = s[(at + 1) + i - 1]
    BY <1>2, <1>3, SubSeqProperties
<1>5. (at + k) - (at + 1) + 1 = k /\ Len(t) = k
    BY <1>4
<1>6. \A i \in 1..k : t[i] = x[i]
  <2>1. \A i \in 1..k : (at + 1) + i - 1 = at + i
      OBVIOUS
  <2> QED
      BY <1>1, <1>4, <1>5, <2>1 DEF StandsAt
<1>7. t = x
    BY <1>1, <1>4, <1>5, <1>6, SeqEqual
<1> QED
    BY <1>1, <1>2, <1>7

LEMMA StandsParts ==
    ASSUME NEW S, NEW a \in Seq(S), NEW b \in Seq(S)
    PROVE  /\ a \o b \in Seq(S) /\ Len(a \o b) = Len(a) + Len(b)
           /\ StandsAt(a \o b, 0, a) /\ StandsAt(a \o b, Len(a), b)
<1>1. PICK n \in Nat, k \in Nat : n = Len(a) /\ k = Len(b)
    BY SeqIsFunction
<1>2. PICK c : c = a \o b
    OBVIOUS
<1>3. /\ c \in Seq(S) /\ Len(c) = n + k
      /\ \A i \in 1..(n + k) : c[i] = IF i <= n THEN a[i] ELSE b[i - n]
    BY <1>1, <1>2, ConcatProperties
<1>4. StandsAt(c, 0, a)
    BY <1>1, <1>3 DEF StandsAt
<1>5. StandsAt(c, n, b)
  <2>1. \A i \in 1..k : n + i \in 1..(n + k) /\ ~(n + i <= n) /\ (n + i) - n = i
      OBVIOUS
  <2>2. \A i \in 1..k : c[n + i] = b[i]
      BY <1>3, <2>1
  <2>3. n + Len(b) <= Len(c) /\ \A i \in 1..Len(b) : c[n + i] = b[i]
      BY <1>1, <1>3, <2>2
  <2> QED
      BY <2>3 DEF StandsAt
<1> QED
    BY <1>1, <1>2, <1>3, <1>4, <1>5

LEMMA StandsWithin ==
    ASSUME NEW S, NEW s \in Seq(S), NEW y \in Seq(S), NEW x \in Seq(S),
           NEW p \in Nat, NEW q \in Nat, StandsAt(s, p, y), StandsAt(y, q, x)
    PROVE  StandsAt(s, p + q, x)
<1>1. PICK n \in Nat, k \in Nat, l \in Nat : n = Len(s) /\ k = Len(y) /\ l = Len(x)
    BY SeqIsFunction
<1>2. p + k <= n /\ q + l <= k
    BY <1>1 DEF StandsAt
<1>3. ASSUME NEW i \in 1..l PROVE s[(p + q) + i] = x[i]
  <2>1. q + i \in 1..k /\ p + (q + i) = (p + q) + i
      BY <1>2
  <2>2. s[p + (q + i)] = y[q + i] /\ y[q + i] = x[i]
      BY <1>1, <2>1 DEF StandsAt
  <2> QED
      BY <2>1, <2>2
<1> QED
    BY <1>1, <1>2, <1>3 DEF StandsAt

(* Each sequence is in the flattened one after the lengths of those before.*)
LEMMA FlattenSeqStands ==
    ASSUME NEW S, NEW ss \in Seq(Seq(S)), NEW w \in Seq(Nat), Len(w) = Len(ss),
           \A i \in 1..Len(ss) : w[i] = Len(ss[i])
    PROVE  /\ FlattenSeq(ss) \in Seq(S) /\ Len(FlattenSeq(ss)) = PrefixSums(w)[Len(ss)]
           /\ \A i \in 1..Len(ss) : StandsAt(FlattenSeq(ss), PrefixSums(w)[i-1], ss[i])
<1>0. PICK n \in Nat : n = Len(ss) /\ ss \in [1..n -> Seq(S)] /\ DOMAIN ss = 1..n
    BY SeqIsFunction
<1>1. PICK f \in [0..n -> Seq(S)] :
              /\ f[0] = << >>
              /\ \A i \in 1..n : f[i] = f[i-1] \o ss[i]
              /\ FlattenSeq(ss) = f[n]
    BY <1>0, FlattenSeqDef
<1>2. PICK v : v = PrefixSums(w)
    OBVIOUS
<1>3. v[0] = 0 /\ \A i \in 1..n : v[i - 1] \in Nat /\ v[i] = v[i-1] + w[i] /\ v[i] \in Nat
    BY <1>0, <1>2, PrefixSumsNat
<1> DEFINE T == {m \in Nat : m <= n =>
                    /\ Len(f[m]) = v[m]
                    /\ \A i \in 1..m : StandsAt(f[m], v[i-1], ss[i])}
<1>4. 0 \in T
    BY <1>1, <1>3
<1>5. ASSUME NEW m \in Nat, m \in T PROVE m + 1 \in T
  <2> SUFFICES ASSUME m + 1 <= n
               PROVE  /\ Len(f[m + 1]) = v[m + 1]
                      /\ \A i \in 1..(m + 1) : StandsAt(f[m + 1], v[i-1], ss[i])
      OBVIOUS
  <2>1. Len(f[m]) = v[m] /\ \A i \in 1..m : StandsAt(f[m], v[i-1], ss[i])
      BY <1>5
  <2>2. PICK k \in 1..n : k = m + 1 /\ k - 1 = m
      BY <1>0
  <2>3. PICK a \in Seq(S), b \in Seq(S) : a = f[m] /\ b = ss[k] /\ f[k] = a \o b
    <3>1. m \in 0..n
        BY <2>2
    <3>2. f[m] \in Seq(S) /\ ss[k] \in Seq(S)
        BY <1>0, <3>1
    <3> QED
        BY <1>1, <2>2, <3>2
  <2>4. /\ Len(f[k]) = Len(a) + Len(b) /\ f[k] \in Seq(S)
        /\ StandsAt(f[k], 0, a) /\ StandsAt(f[k], Len(a), b)
      BY <2>3, StandsParts
  <2>5. Len(f[k]) = v[k]
    <3>1. w[k] = Len(b) /\ Len(a) = v[m]
        BY <1>0, <2>1, <2>2, <2>3
    <3> QED
        BY <1>3, <2>2, <2>4, <3>1
  <2>6. ASSUME NEW i \in 1..k PROVE StandsAt(f[k], v[i-1], ss[i])
    <3>1. CASE i = k
        BY <2>1, <2>2, <2>3, <2>4, <3>1
    <3>2. CASE i # k
      <4>1. i \in 1..m /\ i \in 1..n
          BY <2>2, <3>2
      <4>2. StandsAt(a, v[i-1], ss[i]) /\ v[i-1] \in Nat /\ ss[i] \in Seq(S)
          BY <1>0, <1>3, <2>1, <2>3, <4>1
      <4>3. StandsAt(f[k], 0 + v[i-1], ss[i])
          BY <2>4, <4>2, StandsWithin
      <4> QED
          BY <4>2, <4>3
    <3> QED
        BY <3>1, <3>2
  <2> QED
      BY <2>2, <2>5, <2>6
<1>6. n \in T
  <2> HIDE DEF T
  <2>1. Nat \subseteq T
      BY <1>4, <1>5, SetInduction
  <2> QED
      BY <2>1
<1>7. Len(f[n]) = v[n] /\ \A i \in 1..n : StandsAt(f[n], v[i-1], ss[i])
    BY <1>6
<1> QED
    BY <1>0, <1>1, <1>2, <1>7, SMTT(30)

LEMMA StandsMore ==
    ASSUME NEW S, NEW s \in Seq(S), NEW t \in Seq(S), NEW x \in Seq(S), NEW at \in Nat,
           StandsAt(s, at, x)
    PROVE  StandsAt(s \o t, at, x)
<1>1. PICK c : c = s \o t
    OBVIOUS
<1>2. c \in Seq(S) /\ StandsAt(c, 0, s)
    BY <1>1, StandsParts
<1>3. StandsAt(c, 0 + at, x)
    BY <1>2, StandsWithin
<1> QED
    BY <1>1, <1>3

(* Several sequences one after the other. *)
FourIn(s, a, b, c, d) ==
    /\ Len(s) = Len(a) + Len(b) + Len(c) + Len(d)
    /\ StandsAt(s, 0, a) /\ StandsAt(s, Len(a), b) /\ StandsAt(s, Len(a) + Len(b), c)
    /\ StandsAt(s, Len(a) + Len(b) + Len(c), d)

LEMMA StandsFour ==
    ASSUME NEW S, NEW a \in Seq(S), NEW b \in Seq(S), NEW c \in Seq(S), NEW d \in Seq(S)
    PROVE  a \o b \o c \o d \in Seq(S) /\ FourIn(a \o b \o c \o d, a, b, c, d)
<1>0. PICK l \in Nat, m \in Nat, n \in Nat, o \in Nat :
         Len(a) = l /\ Len(b) = m /\ Len(c) = n /\ Len(d) = o
    BY SeqIsFunction
<1>1. PICK p \in Seq(S) : p = a \o b
    BY StandsParts
<1>2. Len(p) = l + m /\ StandsAt(p, 0, a) /\ StandsAt(p, l, b)
    BY <1>0, <1>1, StandsParts
<1>3. PICK q \in Seq(S) : q = p \o c
    BY StandsParts
<1>4. Len(q) = l + m + n /\ StandsAt(q, l + m, c)
  <2>1. Len(q) = Len(p) + Len(c) /\ StandsAt(q, Len(p), c)
      BY <1>3, StandsParts
  <2> QED
      BY <1>0, <1>2, <2>1
<1>5. StandsAt(q, 0, a) /\ StandsAt(q, l, b)
    BY <1>2, <1>3, StandsMore
<1>6. PICK r \in Seq(S) : r = q \o d
    BY StandsParts
<1>7. Len(r) = l + m + n + o /\ StandsAt(r, l + m + n, d)
  <2>1. Len(r) = Len(q) + Len(d) /\ StandsAt(r, Len(q), d)
      BY <1>6, StandsParts
  <2> QED
      BY <1>0, <1>4, <2>1
<1>8. l + m \in Nat
    OBVIOUS
<1>9. StandsAt(r, 0, a) /\ StandsAt(r, l, b) /\ StandsAt(r, l + m, c)
    BY <1>4, <1>5, <1>6, <1>8, StandsMore
<1>10. FourIn(r, a, b, c, d)
    BY <1>0, <1>7, <1>9 DEF FourIn
<1> QED
    BY <1>1, <1>3, <1>6, <1>10

LEMMA SeqElement ==
    ASSUME NEW S, NEW s \in Seq(S), NEW i \in 1..Len(s)
    PROVE  s[i] \in S
OBVIOUS

SixIn(s, a, b, c, d, e, f, l, m, n, o, p) ==
    /\ Len(s) = l + m + n + o + p + Len(f)
    /\ StandsAt(s, 0, a) /\ StandsAt(s, l, b) /\ StandsAt(s, l + m, c) /\ StandsAt(s, l + m + n, d)
    /\ StandsAt(s, l + m + n + o, e) /\ StandsAt(s, l + m + n + o + p, f)

LEMMA StandsSix ==
    ASSUME NEW S, NEW a \in Seq(S), NEW b \in Seq(S), NEW c \in Seq(S), NEW d \in Seq(S),
           NEW e \in Seq(S), NEW f \in Seq(S),
           NEW l \in Nat, NEW m \in Nat, NEW n \in Nat, NEW o \in Nat, NEW p \in Nat,
           Len(a) = l, Len(b) = m, Len(c) = n, Len(d) = o, Len(e) = p
    PROVE  /\ a \o b \o c \o d \o e \o f \in Seq(S)
           /\ SixIn(a \o b \o c \o d \o e \o f, a, b, c, d, e, f, l, m, n, o, p)
<1>1. PICK q : q = a \o b \o c \o d
    OBVIOUS
<1>2. /\ q \in Seq(S) /\ Len(q) = Len(a) + Len(b) + Len(c) + Len(d)
      /\ StandsAt(q, 0, a) /\ StandsAt(q, Len(a), b)
      /\ StandsAt(q, Len(a) + Len(b), c)
      /\ StandsAt(q, Len(a) + Len(b) + Len(c), d)
  <2>1. q \in Seq(S) /\ FourIn(q, a, b, c, d)
      BY <1>1, StandsFour
  <2> QED
      BY <2>1 DEF FourIn
<1>3. /\ Len(q) = l + m + n + o
      /\ StandsAt(q, 0, a) /\ StandsAt(q, l, b) /\ StandsAt(q, l + m, c) /\ StandsAt(q, l + m + n, d)
    BY <1>2, Zenon
<1>4. PICK r : r = q \o e
    OBVIOUS
<1>5. r \in Seq(S) /\ Len(r) = Len(q) + Len(e) /\ StandsAt(r, Len(q), e)
    BY <1>2, <1>4, StandsParts
<1>6. Len(r) = l + m + n + o + p /\ StandsAt(r, l + m + n + o, e)
    BY <1>3, <1>5, Zenon
<1>7. l + m \in Nat /\ l + m + n \in Nat /\ l + m + n + o \in Nat
    OBVIOUS
<1>8. StandsAt(r, 0, a) /\ StandsAt(r, l, b) /\ StandsAt(r, l + m, c) /\ StandsAt(r, l + m + n, d)
    BY <1>2, <1>3, <1>4, <1>7, StandsMore
<1>9. PICK t : t = r \o f
    OBVIOUS
<1>10. t \in Seq(S) /\ StandsAt(t, Len(r), f) /\ Len(t) = Len(r) + Len(f)
    BY <1>5, <1>9, StandsParts
<1>11. StandsAt(t, l + m + n + o + p, f) /\ Len(t) = l + m + n + o + p + Len(f)
    BY <1>6, <1>10, Zenon
<1>12. /\ StandsAt(t, 0, a) /\ StandsAt(t, l, b) /\ StandsAt(t, l + m, c) /\ StandsAt(t, l + m + n, d)
       /\ StandsAt(t, l + m + n + o, e)
    BY <1>5, <1>6, <1>7, <1>8, <1>9, StandsMore
<1>13. SixIn(t, a, b, c, d, e, f, l, m, n, o, p)
    BY <1>11, <1>12 DEF SixIn
<1> QED
    BY <1>1, <1>4, <1>9, <1>10, <1>13, Zenon

LEMMA SeqIsMap ==
    ASSUME NEW S, NEW s \in Seq(S)
    PROVE  s = [i \in 1..Len(s) |-> s[i]]
<1>1. s \in [1..Len(s) -> S]
    BY SeqIsFunction
<1> QED
    BY <1>1

(* The sum of all elements of a sequence.                                  *)
TotalOf(w) == PrefixSums(w)[Len(w)]

LEMMA TotalEmpty == TotalOf(<< >>) = 0
<1>1. << >> \in Seq(Int) /\ Len(<< >>) = 0
    OBVIOUS
<1> QED
    BY <1>1, PrefixSumsDef DEF TotalOf

LEMMA TotalAppend ==
    ASSUME NEW w \in Seq(Int), NEW x \in Int
    PROVE  TotalOf(Append(w, x)) = TotalOf(w) + x
<1>1. PICK n \in Nat : n = Len(w)
    BY SeqIsFunction
<1>2. PICK v : v = Append(w, x)
    OBVIOUS
<1>3. v \in Seq(Int) /\ Len(v) = n + 1 /\ v[n + 1] = x /\ \A i \in 1..n : v[i] = w[i]
    BY <1>1, <1>2, AppendProperties
<1>4. PrefixSums(w)[n] = PrefixSums(v)[n]
    BY <1>1, <1>3, PrefixSumsLocal
<1>5. n + 1 \in 1..Len(v) /\ (n + 1) - 1 = n
    BY <1>1, <1>3
<1>6. PrefixSums(v)[n + 1] = PrefixSums(v)[(n + 1) - 1] + v[n + 1]
    BY <1>3, <1>5, PrefixSumsDef
<1> QED
    BY <1>1, <1>2, <1>3, <1>4, <1>5, <1>6 DEF TotalOf

LEMMA NextReaches == \A i, y \in Nat : i + 1 # y => (i + 1 >= y <=> i >= y)
OBVIOUS

(* Changing one element changes the sum by as much.                        *)
LEMMA TotalChange ==
    ASSUME NEW u \in Seq(Int), NEW v \in Seq(Int), Len(u) = Len(v), NEW j \in 1..Len(u),
           \A i \in 1..Len(u) : i # j => u[i] = v[i]
    PROVE  TotalOf(u) = TotalOf(v) + u[j] - v[j]
<1>1. PICK n \in Nat : n = Len(u) /\ n = Len(v)
    BY SeqIsFunction
<1>2. PICK a \in [0..n -> Int] : a = PrefixSums(u)
    BY <1>1, PrefixSumsDef
<1>3. PICK b \in [0..n -> Int] : b = PrefixSums(v)
    BY <1>1, PrefixSumsDef
<1>4. /\ a[0] = 0 /\ b[0] = 0
      /\ \A i \in 1..n : a[i] = a[i-1] + u[i] /\ b[i] = b[i-1] + v[i]
    BY <1>1, <1>2, <1>3, PrefixSumsDef
<1>5. PICK d \in Int : d = u[j] - v[j]
    BY <1>1, SeqIsFunction
<1>6. \A i \in 1..n : u[i] \in Int /\ v[i] \in Int
    BY <1>1, SeqIsFunction
<1> DEFINE T == {i \in Nat : i <= n => a[i] = b[i] + (IF i >= j THEN d ELSE 0)}
<1>7. 0 \in T
    BY <1>1, <1>4
<1>8. ASSUME NEW i \in Nat, i \in T PROVE i + 1 \in T
  <2> SUFFICES ASSUME i + 1 <= n PROVE a[i+1] = b[i+1] + (IF i + 1 >= j THEN d ELSE 0)
      OBVIOUS
  <2>1. i + 1 \in 1..n /\ i \in 0..n /\ (i + 1) - 1 = i
      OBVIOUS
  <2>2. a[i+1] = a[i] + u[i+1] /\ b[i+1] = b[i] + v[i+1]
      BY <1>4, <2>1
  <2>3. a[i] = b[i] + (IF i >= j THEN d ELSE 0) /\ a[i] \in Int /\ b[i] \in Int
      BY <1>8, <2>1
  <2>4. u[i+1] \in Int /\ v[i+1] \in Int
      BY <1>6, <2>1
  <2> HIDE DEF T
  <2>0. j \in Nat
      BY <1>1
  <2>5. CASE i + 1 = j
    <3>1. ~(i >= j) /\ i + 1 >= j
        BY <2>0, <2>5
    <3>2. a[i] = b[i]
        BY <2>3, <3>1
    <3>3. d = u[i+1] - v[i+1]
        BY <1>5, <2>5
    <3>4. a[i+1] = b[i+1] + d
      <4>1. PICK x \in Int, y \in Int, z \in Int : x = b[i] /\ y = u[i+1] /\ z = v[i+1]
          BY <2>3, <2>4
      <4>2. a[i+1] = x + y /\ b[i+1] = x + z /\ d = y - z
          BY <2>2, <3>2, <3>3, <4>1
      <4> QED
          BY <4>2
    <3> QED
        BY <3>1, <3>4
  <2>6. CASE i + 1 # j
    <3>1. u[i+1] = v[i+1]
        BY <1>1, <2>1, <2>6
    <3>2. i + 1 >= j <=> i >= j
      <4>1. i \in Nat
          OBVIOUS
      <4> QED
          BY <2>0, <2>6, <4>1, NextReaches
    <3>3. CASE i >= j
      <4>1. PICK x \in Int, z \in Int : x = b[i] /\ z = v[i+1]
          BY <2>3, <2>4
      <4>2. a[i] = x + d
          BY <2>3, <3>3, <4>1
      <4>3. a[i+1] = (x + d) + z /\ b[i+1] = x + z
          BY <2>2, <3>1, <4>1, <4>2
      <4>4. (x + d) + z = (x + z) + d
          OBVIOUS
      <4>5. a[i+1] = b[i+1] + d
          BY <4>3, <4>4
      <4> QED
          BY <3>2, <3>3, <4>5
    <3>4. CASE ~(i >= j)
        BY <2>2, <2>3, <2>4, <3>1, <3>2, <3>4
    <3> QED
        BY <3>3, <3>4
  <2> QED
      BY <2>5, <2>6
<1>9. n \in T
  <2> HIDE DEF T
  <2> QED
      BY <1>7, <1>8, SetInduction
<1>10. a[n] = b[n] + d /\ b[n] \in Int
    BY <1>1, <1>9
<1> QED
    BY <1>1, <1>2, <1>3, <1>5, <1>6, <1>10 DEF TotalOf

(* The sum of what is left when the first m elements go.                   *)
LEMMA TotalAfter ==
    ASSUME NEW w \in Seq(Int), NEW m \in 0..Len(w)
    PROVE  TotalOf(SubSeq(w, m + 1, Len(w))) = TotalOf(w) - PrefixSums(w)[m]
<1>1. PICK n \in Nat : n = Len(w) /\ m \in 0..n /\ m \in Nat
    BY SeqIsFunction
<1>2. PICK r : r = SubSeq(w, m + 1, n)
    OBVIOUS
<1>3. \A i \in (m + 1)..n : w[i] \in Int
    BY <1>1, SeqIsFunction
<1>4. /\ r \in Seq(Int)
      /\ Len(r) = IF m + 1 <= n THEN n - (m + 1) + 1 ELSE 0
      /\ \A i \in 1..(n - (m + 1) + 1) : r[i] = w[(m + 1) + i - 1]
    BY <1>1, <1>2, <1>3, SubSeqProperties
<1>5. PICK k \in Nat : k = n - m
  <2>1. n - m \in Nat
      BY <1>1
  <2> QED
      BY <2>1
<1>6. Len(r) = k /\ \A i \in 1..k : r[i] = w[m + i]
  <2>1. n - (m + 1) + 1 = k /\ Len(r) = k
      BY <1>1, <1>4, <1>5
  <2>2. \A i \in 1..k : (m + 1) + i - 1 = m + i
      BY <1>1
  <2> QED
      BY <1>4, <2>1, <2>2
<1>7. PICK a \in [0..n -> Int] : a = PrefixSums(w) /\ \A i \in 1..n : a[i] = a[i-1] + w[i]
    BY <1>1, PrefixSumsDef
<1>8. PICK b \in [0..k -> Int] : /\ b = PrefixSums(r) /\ b[0] = 0
                                 /\ \A i \in 1..k : b[i] = b[i-1] + r[i]
    BY <1>4, <1>6, PrefixSumsDef
<1> DEFINE T == {i \in Nat : i <= k => b[i] = a[m + i] - a[m]}
<1>9. 0 \in T
  <2>1. m + 0 = m /\ a[m] \in Int
      BY <1>1, <1>7
  <2> QED
      BY <1>8, <2>1
<1>10. ASSUME NEW i \in Nat, i \in T PROVE i + 1 \in T
  <2> SUFFICES ASSUME i + 1 <= k PROVE b[i+1] = a[m + (i + 1)] - a[m]
      OBVIOUS
  <2>1. i + 1 \in 1..k /\ (i + 1) - 1 = i /\ i <= k
      OBVIOUS
  <2>2. PICK p \in 1..n : p = m + (i + 1) /\ p - 1 = m + i /\ p - 1 \in 0..n
      BY <1>1, <1>5, <2>1
  <2>3. b[i+1] = b[i] + w[p] /\ a[p] = a[m + i] + w[p]
      BY <1>6, <1>7, <1>8, <2>1, <2>2
  <2>4. b[i] = a[m + i] - a[m]
      BY <1>10, <2>1
  <2>5. a[m + i] \in Int /\ a[m] \in Int /\ w[p] \in Int
    <3>1. m + i \in 0..n
        BY <2>2
    <3> QED
        BY <1>1, <1>7, <2>2, <3>1, SeqIsFunction
  <2> HIDE DEF T
  <2>6. PICK x \in Int, y \in Int, z \in Int : x = a[m + i] /\ y = a[m] /\ z = w[p]
      BY <2>5
  <2>7. b[i+1] = a[p] - a[m]
    <3>1. b[i+1] = (x - y) + z
        BY <2>3, <2>4, <2>6
    <3>2. a[p] = x + z
        BY <2>3, <2>6
    <3>3. (x - y) + z = (x + z) - y
        OBVIOUS
    <3> QED
        BY <2>6, <3>1, <3>2, <3>3
  <2> QED
      BY <2>2, <2>7
<1>11. k \in T
  <2> HIDE DEF T
  <2> QED
      BY <1>9, <1>10, SetInduction
<1>12. b[k] = a[n] - a[m]
    BY <1>1, <1>5, <1>11
<1> QED
    BY <1>1, <1>2, <1>6, <1>7, <1>8, <1>12 DEF TotalOf

(* Sequences of the same elements have the same sums.                      *)
LEMMA TotalZero ==
    ASSUME NEW w \in Seq(Int), \A i \in 1..Len(w) : w[i] = 0
    PROVE  TotalOf(w) = 0
<1>1. PICK n \in Nat : n = Len(w)
    BY SeqIsFunction
<1>2. PICK a : a = PrefixSums(w) /\ a[0] = 0 /\ \A i \in 1..n : a[i] = a[i-1] + w[i]
    BY <1>1, PrefixSumsDef
<1> DEFINE T == {i \in Nat : i <= n => a[i] = 0}
<1>3. 0 \in T
    BY <1>2
<1>4. ASSUME NEW i \in Nat, i \in T PROVE i + 1 \in T
  <2> SUFFICES ASSUME i + 1 <= n PROVE a[i+1] = 0
      OBVIOUS
  <2>1. i + 1 \in 1..n /\ (i + 1) - 1 = i /\ a[i] = 0
      BY <1>4
  <2>2. w[i+1] = 0
      BY <1>1, <2>1
  <2>3. a[i+1] = 0 + 0
      BY <1>2, <2>1, <2>2
  <2> QED
      BY <2>3
<1>5. n \in T
  <2> HIDE DEF T
  <2> QED
      BY <1>3, <1>4, SetInduction
<1> QED
    BY <1>1, <1>2, <1>5 DEF TotalOf

(* The folds over a function that add up its values take its elements in   *)
(* an order of their own.                                                  *)
AddsUp(size, it) ==
    it = [s \in SUBSET DOMAIN size |->
             IF s = {} THEN 0
             ELSE LET x == CHOOSE y \in s : TRUE IN size[x] + it[s \ {x}]]

\* The sum over the elements of s, as a sum along the list l.
Masked(size, l, s) == [i \in DOMAIN l |-> IF l[i] \in s THEN size[l[i]] ELSE 0]

LEMMA MaskedIs ==
    ASSUME NEW S, NEW l \in Seq(S), NEW size \in [Range(l) -> Int], NEW s
    PROVE  /\ Masked(size, l, s) \in Seq(Int) /\ Len(Masked(size, l, s)) = Len(l)
           /\ \A i \in 1..Len(l) :
                 Masked(size, l, s)[i] = IF l[i] \in s THEN size[l[i]] ELSE 0
<1>1. PICK n \in Nat : n = Len(l) /\ DOMAIN l = 1..n
    BY SeqIsFunction
<1>2. \A i \in 1..n : l[i] \in Range(l)
    BY <1>1 DEF Range
<1>3. Masked(size, l, s) \in [1..n -> Int]
    BY <1>1, <1>2 DEF Masked
<1>4. Masked(size, l, s) \in Seq(Int) /\ Len(Masked(size, l, s)) = n
    BY <1>3, IsASeq
<1> QED
    BY <1>1, <1>4 DEF Masked

LEMMA MaskedLess ==
    ASSUME NEW S, NEW l \in Seq(S), IsInjective(l), NEW size \in [Range(l) -> Int],
           NEW s \in SUBSET Range(l), NEW x \in s
    PROVE  TotalOf(Masked(size, l, s)) = size[x] + TotalOf(Masked(size, l, s \ {x}))
<1>1. PICK n \in Nat : n = Len(l) /\ DOMAIN l = 1..n
    BY SeqIsFunction
<1>2. PICK j \in 1..n : l[j] = x
    BY <1>1 DEF Range
<1>3. PICK u : /\ u = Masked(size, l, s) /\ u \in Seq(Int) /\ Len(u) = n
               /\ \A i \in 1..n : u[i] = IF l[i] \in s THEN size[l[i]] ELSE 0
    BY <1>1, MaskedIs
<1>4. PICK v : /\ v = Masked(size, l, s \ {x}) /\ v \in Seq(Int) /\ Len(v) = n
               /\ \A i \in 1..n : v[i] = IF l[i] \in s \ {x} THEN size[l[i]] ELSE 0
    BY <1>1, MaskedIs
<1>5. \A i \in 1..n : i # j => u[i] = v[i]
  <2>1. \A i \in 1..n : i # j => l[i] # x
      BY <1>1, <1>2 DEF IsInjective
  <2> QED
      BY <1>3, <1>4, <2>1
<1>6. TotalOf(u) = TotalOf(v) + u[j] - v[j]
  <2>1. /\ Len(u) = Len(v) /\ j \in 1..Len(u)
        /\ \A i \in 1..Len(u) : i # j => u[i] = v[i]
      BY <1>2, <1>3, <1>4, <1>5
  <2>2. u \in Seq(Int) /\ v \in Seq(Int)
      BY <1>3, <1>4
  <2> QED
      BY <2>1, <2>2, TotalChange
<1>7. u[j] = size[x] /\ v[j] = 0
    BY <1>2, <1>3, <1>4
<1>8. size[x] \in Int /\ TotalOf(v) \in Int
  <2>1. n \in 0..n
      OBVIOUS
  <2> QED
      BY <1>4, <2>1, PrefixSumsDef DEF TotalOf
<1> QED
    BY <1>3, <1>4, <1>6, <1>7, <1>8

LEMMA RangeFinite ==
    ASSUME NEW S, NEW l \in Seq(S)
    PROVE  IsFiniteSet(Range(l))
<1>1. PICK n \in Nat : n = Len(l) /\ DOMAIN l = 1..n
    BY SeqIsFunction
<1> DEFINE T == {k \in Nat : k <= n => IsFiniteSet({l[i] : i \in 1..k})}
<1>2. 0 \in T
  <2>1. {l[i] : i \in 1..0} = {}
      OBVIOUS
  <2> QED
      BY <2>1, FS_EmptySet
<1>3. ASSUME NEW k \in Nat, k \in T PROVE k + 1 \in T
  <2> SUFFICES ASSUME k + 1 <= n PROVE IsFiniteSet({l[i] : i \in 1..(k+1)})
      OBVIOUS
  <2>1. IsFiniteSet({l[i] : i \in 1..k})
      BY <1>3
  <2>2. 1..(k+1) = (1..k) \cup {k+1}
      OBVIOUS
  <2>3. {l[i] : i \in 1..(k+1)} = {l[i] : i \in 1..k} \cup {l[k+1]}
      BY <2>2
  <2>4. PICK A, B : A = {l[i] : i \in 1..k} /\ B = {l[i] : i \in 1..(k+1)}
      OBVIOUS
  <2>5. IsFiniteSet(A) /\ B = A \cup {l[k+1]}
      BY <2>1, <2>3, <2>4
  <2>6. IsFiniteSet(B)
      BY <2>5, FS_AddElement
  <2> QED
      BY <2>4, <2>6
<1>4. n \in T
  <2> HIDE DEF T
  <2> QED
      BY <1>2, <1>3, SetInduction
<1>5. Range(l) = {l[i] : i \in 1..n}
    BY <1>1 DEF Range
<1> QED
    BY <1>4, <1>5

(* There is such a fold, ...                                               *)
LEMMA FoldExists ==
    ASSUME NEW S, NEW l \in Seq(S), IsInjective(l), NEW size \in [Range(l) -> Int]
    PROVE  \E it : AddsUp(size, it)
<1>1. PICK it : it = [s \in SUBSET Range(l) |-> TotalOf(Masked(size, l, s))]
    OBVIOUS
<1>2. it[{}] = 0
  <2>1. PICK u : u = Masked(size, l, {}) /\ u \in Seq(Int) /\ \A i \in 1..Len(u) : u[i] = 0
      BY MaskedIs
  <2>2. TotalOf(u) = 0
      BY <2>1, TotalZero
  <2>3. it[{}] = TotalOf(Masked(size, l, {}))
      BY <1>1
  <2> QED
      BY <2>1, <2>2, <2>3
<1>3. ASSUME NEW s \in SUBSET Range(l), s # {}
      PROVE  LET x == CHOOSE y \in s : TRUE IN it[s] = size[x] + it[s \ {x}]
  <2>1. PICK x \in s : x = CHOOSE y \in s : TRUE
      BY <1>3
  <2>2. TotalOf(Masked(size, l, s)) = size[x] + TotalOf(Masked(size, l, s \ {x}))
      BY MaskedLess
  <2>3. it[s] = TotalOf(Masked(size, l, s))
      BY <1>1
  <2>4. it[s \ {x}] = TotalOf(Masked(size, l, s \ {x}))
      BY <1>1
  <2>5. it[s] = size[x] + it[s \ {x}]
      BY <2>2, <2>3, <2>4
  <2> QED
      BY <2>1, <2>5
<1>4. ASSUME NEW s \in SUBSET Range(l)
      PROVE  it[s] = IF s = {} THEN 0
                     ELSE LET x == CHOOSE y \in s : TRUE IN size[x] + it[s \ {x}]
    BY <1>2, <1>3
<1>5. DOMAIN size = Range(l) /\ it = [s \in SUBSET Range(l) |-> it[s]]
    BY <1>1
<1>6. it = [s \in SUBSET Range(l) |->
               IF s = {} THEN 0
               ELSE LET x == CHOOSE y \in s : TRUE IN size[x] + it[s \ {x}]]
    BY <1>4, <1>5, Zenon
<1>7. AddsUp(size, it)
    BY <1>5, <1>6 DEF AddsUp
<1> QED
    BY <1>7

(* ... and what it computes is the sum along any list of the elements.     *)
LEMMA FoldIs ==
    ASSUME NEW S, NEW l \in Seq(S), IsInjective(l), NEW size \in [Range(l) -> Int],
           NEW it, AddsUp(size, it)
    PROVE  it[DOMAIN size] = TotalOf([i \in DOMAIN l |-> size[l[i]]])
<1>0. DOMAIN size = Range(l)
    OBVIOUS
<1>1. \A s \in SUBSET Range(l) :
         it[s] = IF s = {} THEN 0
                 ELSE LET x == CHOOSE y \in s : TRUE IN size[x] + it[s \ {x}]
    BY <1>0 DEF AddsUp
<1> DEFINE T == {k \in Nat : \A s \in SUBSET Range(l) :
                    Cardinality(s) = k => it[s] = TotalOf(Masked(size, l, s))}
<1>2. \A s \in SUBSET Range(l) : IsFiniteSet(s) /\ Cardinality(s) \in Nat
    BY RangeFinite, FS_Subset, FS_CardinalityType
<1>3. 0 \in T
  <2> SUFFICES ASSUME NEW s \in SUBSET Range(l), Cardinality(s) = 0
               PROVE  it[s] = TotalOf(Masked(size, l, s))
      OBVIOUS
  <2>1. s = {}
      BY <1>2, FS_EmptySet
  <2>2. PICK u : u = Masked(size, l, s) /\ u \in Seq(Int) /\ \A i \in 1..Len(u) : u[i] = 0
      BY <2>1, MaskedIs
  <2>3. TotalOf(u) = 0
      BY <2>2, TotalZero
  <2> QED
      BY <1>1, <2>1, <2>2, <2>3
<1>4. ASSUME NEW k \in Nat, k \in T PROVE k + 1 \in T
  <2> SUFFICES ASSUME NEW s \in SUBSET Range(l), Cardinality(s) = k + 1
               PROVE  it[s] = TotalOf(Masked(size, l, s))
      OBVIOUS
  <2>1. s # {}
    <3>1. s = {} => Cardinality(s) = 0
        BY FS_EmptySet
    <3>2. k + 1 # 0
        OBVIOUS
    <3> QED
        BY <3>1, <3>2
  <2>2. PICK x \in s : x = CHOOSE y \in s : TRUE
      BY <2>1
  <2>3. it[s] = size[x] + it[s \ {x}]
      BY <1>1, <2>1, <2>2
  <2>4. Cardinality(s \ {x}) = k
      BY <1>2, FS_RemoveElement
  <2>5. it[s \ {x}] = TotalOf(Masked(size, l, s \ {x}))
      BY <1>4, <2>4
  <2>6. TotalOf(Masked(size, l, s)) = size[x] + TotalOf(Masked(size, l, s \ {x}))
      BY MaskedLess
  <2> QED
      BY <2>3, <2>5, <2>6
<1>5. Nat \subseteq T
  <2> HIDE DEF T
  <2> QED
      BY <1>3, <1>4, SetInduction
<1>6. it[Range(l)] = TotalOf(Masked(size, l, Range(l)))
    BY <1>2, <1>5
<1>7. Masked(size, l, Range(l)) = [i \in DOMAIN l |-> size[l[i]]]
    BY DEF Masked, Range
<1> QED
    BY <1>0, <1>6, <1>7

(* The smaller one of two.                                                 *)
LEMMA MinOfTwo ==
    ASSUME NEW a \in Nat, NEW b \in Nat
    PROVE  Min({a, b}) = IF a <= b THEN a ELSE b
<1>1. PICK s : s = {a, b}
    OBVIOUS
<1>2. PICK m : m = (IF a <= b THEN a ELSE b)
    OBVIOUS
<1>3. m \in s /\ \A y \in s : m <= y
    BY <1>1, <1>2
<1>4. \A x \in s : (\A y \in s : x <= y) => x = m
    BY <1>1, <1>2
<1>5. Min(s) = m
    BY <1>3, <1>4 DEF Min
<1> QED
    BY <1>1, <1>2, <1>5

-----------------------------------------------------------------------------
(* A set of numbers up to n has a greatest element. *)
LEMMA MaxOf ==
    ASSUME NEW n \in Nat, NEW S \in SUBSET (0 .. n), S # {}
    PROVE  Max(S) \in S /\ \A y \in S : Max(S) >= y
<1> DEFINE T == {n - y : y \in S}
           R == OpToRel(<, Nat)
<1>1. R = {ss \in Nat \X Nat : ss[1] < ss[2]}
    BY DEF OpToRel
<1> HIDE DEF R
<1>2. T \subseteq Nat /\ T # {}
  <2>1. \A y \in S : n - y \in Nat
      OBVIOUS
  <2> QED
      BY <2>1
<1>3. PICK t \in T : \A y \in T : ~(<<y, t>> \in R)
  <2>1. IsWellFoundedOn(R, Nat)
      BY NatLessThanWellFounded DEF R
  <2> QED
      BY <1>2, <2>1, WFMin
<1>4. PICK x \in S : t = n - x
    OBVIOUS
<1>5. \A y \in S : x >= y
  <2> SUFFICES ASSUME NEW y \in S PROVE x >= y
      OBVIOUS
  <2>1. n - y \in T /\ n - y \in Nat
      OBVIOUS
  <2>2. ~(n - y < t)
      BY <1>1, <1>2, <1>3, <2>1
  <2> QED
      BY <1>4, <2>2
<1> QED
    BY <1>5 DEF Max

LEMMA MaxUpTo ==
    ASSUME NEW n \in Nat, NEW s \in SUBSET (1..n), s # {}
    PROVE  Max(s) \in s /\ \A y \in s : y <= Max(s)
<1>1. s \in SUBSET (0..n)
    OBVIOUS
<1>2. PICK x : x = Max(s) /\ x \in s /\ \A y \in s : x >= y
    BY <1>1, MaxOf
<1>3. \A y \in s : y <= x
    BY <1>2
<1> QED
    BY <1>2, <1>3

(* Folding from the left: a step for each element, in their order.         *)
FoldsLeft(n, base, step, it) ==
    it = [s \in SUBSET (1..n) |->
             IF s = {} THEN base ELSE LET x == Max(s) IN step[<<x, it[s \ {x}]>>]]

\* The steps of the elements of s only.
Part(n, D, step, s) ==
    [p \in (1..n) \X D |-> IF p[1] \in s THEN step[p] ELSE p[2]]

\* f goes through the elements of s.
Passes(f, n, base, step, s) ==
    /\ f[0] = base
    /\ \A i \in 1..n : f[i] = IF i \in s THEN step[<<i, f[i-1]>>] ELSE f[i-1]

LEMMA PartIs ==
    ASSUME NEW n \in Nat, NEW D, NEW base \in D, NEW step \in [(1..n) \X D -> D], NEW s
    PROVE  \E f \in [0..n -> D] : Passes(f, n, base, step, s)
<1>1. Part(n, D, step, s) \in [(1..n) \X D -> D]
  <2>1. \A p \in (1..n) \X D : (IF p[1] \in s THEN step[p] ELSE p[2]) \in D
      OBVIOUS
  <2> QED
      BY <2>1 DEF Part
<1>2. \E f \in [0..n -> D] : Follows(f, n, base, Part(n, D, step, s))
    BY <1>1, RecursionExists
<1>3. ASSUME NEW f \in [0..n -> D], Follows(f, n, base, Part(n, D, step, s)), NEW i \in 1..n
      PROVE  f[i] = IF i \in s THEN step[<<i, f[i-1]>>] ELSE f[i-1]
  <2>1. PICK q : q = <<i, f[i-1]>>
      OBVIOUS
  <2>2. q \in (1..n) \X D /\ q[1] = i /\ q[2] = f[i-1]
      BY <2>1
  <2>3. f[i] = Part(n, D, step, s)[q]
      BY <1>3, <2>1 DEF Follows
  <2>4. f[i] = IF i \in s THEN step[q] ELSE f[i-1]
      BY <2>2, <2>3 DEF Part
  <2> QED
      BY <2>1, <2>4
<1>4. \A f \in [0..n -> D] : Follows(f, n, base, Part(n, D, step, s)) =>
                                  Passes(f, n, base, step, s)
    BY <1>3 DEF Follows, Passes
<1> QED
    BY <1>2, <1>4

\* Beyond its last element a part does nothing.
LEMMA PartSteady ==
    ASSUME NEW n \in Nat, NEW D, NEW f \in [0..n -> D], NEW s, NEW a \in 0..n,
           \A i \in 1..n : i > a => f[i] = f[i-1]
    PROVE  f[n] = f[a]
<1> DEFINE T == {i \in Nat : a + i <= n => f[a + i] = f[a]}
<1>0. a \in Nat
    OBVIOUS
<1>1. 0 \in T
    BY <1>0
<1>2. ASSUME NEW i \in Nat, i \in T PROVE i + 1 \in T
  <2> SUFFICES ASSUME a + (i + 1) <= n PROVE f[a + (i + 1)] = f[a]
      OBVIOUS
  <2>1. PICK x \in 1..n : x = a + (i + 1) /\ x > a /\ x - 1 = a + i /\ a + i <= n
      BY <1>0
  <2>2. f[x] = f[x-1]
      BY <2>1
  <2> QED
      BY <1>2, <2>1, <2>2
<1>3. PICK d \in Nat : d = n - a
  <2>1. n - a \in Nat
      OBVIOUS
  <2> QED
      BY <2>1
<1>4. d \in T
  <2> HIDE DEF T
  <2> QED
      BY <1>1, <1>2, SetInduction
<1> QED
    BY <1>0, <1>3, <1>4

LEMMA FoldLeftExists ==
    ASSUME NEW n \in Nat, NEW D, NEW base \in D, NEW step \in [(1..n) \X D -> D]
    PROVE  \E it \in [SUBSET (1..n) -> D] : FoldsLeft(n, base, step, it)
<1> DEFINE G(s) == CHOOSE f \in [0..n -> D] : Passes(f, n, base, step, s)
<1>1. ASSUME NEW s \in SUBSET (1..n)
      PROVE  G(s) \in [0..n -> D] /\ Passes(G(s), n, base, step, s)
  <2>1. \E f \in [0..n -> D] : Passes(f, n, base, step, s)
      BY PartIs
  <2> QED
      BY <2>1
<1> HIDE DEF G
<1>2. PICK it : it = [s \in SUBSET (1..n) |-> G(s)[n]]
    OBVIOUS
<1>3. it \in [SUBSET (1..n) -> D]
  <2>1. n \in 0..n
      OBVIOUS
  <2>2. \A s \in SUBSET (1..n) : G(s)[n] \in D
      BY <1>1, <2>1
  <2> QED
      BY <1>2, <2>2
<1>4. it[{}] = base
  <2>1. PICK f \in [0..n -> D] : f = G({}) /\ f[0] = base /\ \A i \in 1..n : f[i] = f[i-1]
    <3>1. {} \in SUBSET (1..n)
        OBVIOUS
    <3>2. G({}) \in [0..n -> D] /\ Passes(G({}), n, base, step, {})
        BY <1>1, <3>1
    <3> QED
        BY <3>2 DEF Passes
  <2>2. 0 \in 0..n /\ \A i \in 1..n : i > 0 => f[i] = f[i-1]
      BY <2>1
  <2>3. f[n] = f[0]
      BY <2>2, PartSteady
  <2> QED
      BY <1>2, <2>1, <2>3
<1>5. ASSUME NEW s \in SUBSET (1..n), s # {}, NEW x, x = Max(s)
      PROVE  it[s] = step[<<x, it[s \ {x}]>>]
  <2>1. x \in s /\ x \in 1..n /\ x \in Nat /\ x - 1 \in 0..n /\ \A y \in s : y <= x
    <3>1. Max(s) \in s /\ \A y \in s : y <= Max(s)
        BY <1>5, MaxUpTo
    <3>2. x \in s /\ \A y \in s : y <= x
        BY <1>5, <3>1
    <3>3. x \in 1..n
        BY <3>2
    <3> QED
        BY <3>2, <3>3
  <2>2. PICK f \in [0..n -> D] :
            /\ f = G(s) /\ f[0] = base
            /\ \A i \in 1..n : f[i] = IF i \in s THEN step[<<i, f[i-1]>>] ELSE f[i-1]
      BY <1>1 DEF Passes
  <2>3. PICK r \in SUBSET (1..n) : r = s \ {x}
      OBVIOUS
  <2>4. PICK g \in [0..n -> D] :
            /\ g = G(r) /\ g[0] = base
            /\ \A i \in 1..n : g[i] = IF i \in r THEN step[<<i, g[i-1]>>] ELSE g[i-1]
      BY <1>1 DEF Passes
  <2>5. f[n] = f[x]
    <3>1. \A i \in 1..n : i > x => i \notin s
        BY <2>1
    <3>2. \A i \in 1..n : i > x => f[i] = f[i-1]
        BY <2>2, <3>1
    <3>3. x \in 0..n
        BY <2>1
    <3> QED
        BY <3>2, <3>3, PartSteady
  <2>6. g[n] = g[x-1]
    <3>1. \A i \in 1..n : i > x - 1 => i \notin r
        BY <2>1, <2>3
    <3>2. \A i \in 1..n : i > x - 1 => g[i] = g[i-1]
        BY <2>4, <3>1
    <3> QED
        BY <2>1, <3>2, PartSteady
  <2>7. f[x-1] = g[x-1]
    <3> DEFINE T == {i \in Nat : i < x => f[i] = g[i]}
    <3>1. 0 \in T
        BY <2>2, <2>4
    <3>2. ASSUME NEW i \in Nat, i \in T PROVE i + 1 \in T
      <4> SUFFICES ASSUME i + 1 < x PROVE f[i+1] = g[i+1]
          OBVIOUS
      <4>1. i + 1 \in 1..n /\ (i + 1) - 1 = i /\ f[i] = g[i]
          BY <2>1, <3>2
      <4>2. i + 1 \in s <=> i + 1 \in r
          BY <2>1, <2>3
      <4>3. PICK u \in 1..n : u = i + 1 /\ u - 1 = i
          BY <4>1
      <4>4. f[u] = IF u \in s THEN step[<<u, f[i]>>] ELSE f[i]
          BY <2>2, <4>3
      <4>5. g[u] = IF u \in r THEN step[<<u, g[i]>>] ELSE g[i]
          BY <2>4, <4>3
      <4> QED
          BY <4>1, <4>2, <4>3, <4>4, <4>5
    <3>3. x - 1 \in T
      <4> HIDE DEF T
      <4>1. x - 1 \in Nat
          BY <2>1
      <4> QED
          BY <3>1, <3>2, <4>1, SetInduction
    <3> QED
        BY <2>1, <3>3
  <2>8. f[x] = step[<<x, f[x-1]>>]
      BY <2>1, <2>2
  <2>9. it[s] = f[n] /\ it[r] = g[n]
      BY <1>2, <2>2, <2>4
  <2> QED
      BY <2>3, <2>5, <2>6, <2>7, <2>8, <2>9
<1>6. it = [s \in SUBSET (1..n) |->
               IF s = {} THEN base ELSE LET x == Max(s) IN step[<<x, it[s \ {x}]>>]]
  <2>1. it = [s \in SUBSET (1..n) |-> it[s]]
      BY <1>3
  <2>2. ASSUME NEW s \in SUBSET (1..n)
        PROVE  it[s] = IF s = {} THEN base ELSE LET x == Max(s) IN step[<<x, it[s \ {x}]>>]
      BY <1>4, <1>5
  <2> QED
      BY <2>1, <2>2, Zenon
<1> QED
    BY <1>3, <1>6 DEF FoldsLeft

\* The sets a fold goes through.
LEMMA PrefixSets ==
    ASSUME NEW n \in Nat, NEW j \in 1..n
    PROVE  /\ 1..j \in SUBSET (1..n) /\ 1..j # {} /\ Max(1..j) = j
           /\ (1..j) \ {j} = 1..(j-1)
<1>1. 1..j \in SUBSET (1..n) /\ j \in 1..j
    OBVIOUS
<1>2. PICK x : x = Max(1..j) /\ x \in 1..j /\ \A y \in 1..j : y <= x
    BY <1>1, MaxUpTo
<1>3. x = j
    BY <1>1, <1>2
<1> QED
    BY <1>1, <1>2, <1>3
=============================================================================
