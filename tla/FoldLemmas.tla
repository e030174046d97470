----------------------------- MODULE FoldLemmas -----------------------------
(***************************************************************************)
(* Induction over the naturals, and what a fold of SequencesExt computes.  *)
(*                                                                         *)
(* The induction rule of NaturalsInduction has an operator for parameter;  *)
(* here the predicate is a set, which a proof can give, and the rule comes *)
(* from the well-founded order of the naturals.  FoldLeft(op, base, s) is  *)
(* a function it, chosen to be defined on the sets of positions of s, at   *)
(* the set of all of them: FoldExists says that there is such a function,  *)
(* when the step, given as a function st, stays within a set S.            *)
(***************************************************************************)
EXTENDS Integers, SequencesExt, WellFoundedInduction, TLAPS

Below == {ss \in Nat \X Nat : ss[1] < ss[2]}

\* The order of the naturals, as a relation.
LEMMA BelowIsWellFounded == IsWellFoundedOn(Below, Nat)
BY NatLessThanWellFounded, Zenon DEF OpToRel, Below

\* A set of naturals has a least element.
LEMMA LeastNat ==
  ASSUME NEW T, T \subseteq Nat, T # {}
  PROVE  \E x \in T : \A y \in T : x <= y
<1>1. PICK x \in T : \A y \in T : <<y, x>> \notin Below
  BY BelowIsWellFounded, WFMin
<1>2. ASSUME NEW y \in T PROVE x <= y
  <2>1. x \in Nat /\ y \in Nat /\ <<y, x>> \notin Below
    BY <1>1
  <2> QED
    BY <2>1 DEF Below
<1> QED
  BY <1>2

\* Induction: a set with 0 and all successors has every natural.
LEMMA NatInd ==
  ASSUME NEW P, 0 \in P, \A n \in Nat : n \in P => n + 1 \in P
  PROVE  Nat \subseteq P
<1> SUFFICES ASSUME Nat \ P # {} PROVE FALSE
  OBVIOUS
<1>1. PICK x \in Nat \ P : \A y \in Nat \ P : x <= y
  BY LeastNat
<1>2. x # 0 /\ x - 1 \in Nat
  BY <1>1
<1>3. x - 1 \in P
  BY <1>1, <1>2
<1> QED
  BY <1>1, <1>2, <1>3

\* Induction up to a bound.
LEMMA UpTo ==
  ASSUME NEW P, NEW n \in Nat, 0 \in P, \A i \in 1 .. n : i - 1 \in P => i \in P
  PROVE  0 .. n \subseteq P
<1> DEFINE Q == {i \in Nat : i <= n => i \in P}
<1>1. 0 \in Q
  OBVIOUS
<1>2. ASSUME NEW i \in Nat, i \in Q PROVE i + 1 \in Q
  <2>1. CASE i + 1 <= n
    <3>1. i \in P /\ i + 1 \in 1 .. n /\ (i + 1) - 1 = i
      BY <1>2, <2>1
    <3>2. i + 1 \in P
      BY <3>1
    <3> QED
      BY <3>2
  <2>2. CASE ~(i + 1 <= n)
    BY <2>2
  <2> QED
    BY <2>1, <2>2
<1> HIDE DEF Q
<1>3. Nat \subseteq Q
  BY <1>1, <1>2, NatInd
<1> QED
  BY <1>3 DEF Q

\* it computes the fold over the first n elements, taken in any subset.
Folds(it, st, base, s, n) ==
  \A t \in SUBSET (1 .. n) :
    it[t] = IF t = {} THEN base ELSE st[<<it[t \ {Max(t)}], s[Max(t)]>>]

\* The last one of the first n positions.
LEMMA MaxIs ==
  ASSUME NEW n \in Nat, NEW t \in SUBSET (1 .. n), n \in t
  PROVE  Max(t) = n
<1>1. n \in t /\ \A y \in t : n >= y
  OBVIOUS
<1>2. Max(t) \in t /\ \A y \in t : Max(t) >= y
  BY <1>1 DEF Max
<1>3. Max(t) \in 1 .. n /\ Max(t) >= n
  BY <1>2
<1> QED
  BY <1>3

\* Any set of positions has a last one.
LEMMA HasMax ==
  ASSUME NEW n \in Nat, NEW t \in SUBSET (1 .. n), t # {}
  PROVE  Max(t) \in t /\ \A y \in t : Max(t) >= y
<1> DEFINE T == {k \in Nat : \E x \in t : k = n - x}
<1>1. T \subseteq Nat /\ T # {}
  <2>1. PICK x \in t : x \in 1 .. n
    OBVIOUS
  <2>2. n - x \in T
    BY <2>1
  <2> QED
    BY <2>2
<1>2. PICK k \in T : \A l \in T : k <= l
  BY <1>1, LeastNat
<1>3. PICK x \in t : k = n - x
  BY <1>2
<1>4. ASSUME NEW y \in t PROVE x >= y
  <2>1. n - y \in T /\ y \in 1 .. n /\ x \in 1 .. n
    BY <1>3
  <2>2. k <= n - y
    BY <1>2, <2>1
  <2> QED
    BY <1>3, <2>1, <2>2
<1> QED
  BY <1>4 DEF Max

\* The fold of a sequence is defined, by a function with values in S.
LEMMA FoldExists ==
  ASSUME NEW S, NEW E, NEW st \in [S \X E -> S], NEW base \in S, NEW s \in Seq(E)
  PROVE  \E it \in [SUBSET DOMAIN s -> S] : Folds(it, st, base, s, Len(s))
<1> DEFINE P == {n \in Nat : \E it \in [SUBSET (1 .. n) -> S] : Folds(it, st, base, s, n)}
<1>1. 0 \in P
  <2> DEFINE it == [t \in SUBSET (1 .. 0) |-> base]
  <2>1. it \in [SUBSET (1 .. 0) -> S]
    OBVIOUS
  <2>2. \A t \in SUBSET (1 .. 0) : t = {}
    OBVIOUS
  <2>3. Folds(it, st, base, s, 0)
    BY <2>2 DEF Folds
  <2> QED
    BY <2>1, <2>3
<1>2. ASSUME NEW n \in 1 .. Len(s), n - 1 \in P PROVE n \in P
  <2>1. n \in Nat /\ n - 1 \in Nat
    OBVIOUS
  <2>2. PICK it \in [SUBSET (1 .. n - 1) -> S] : Folds(it, st, base, s, n - 1)
    BY <1>2
  <2> DEFINE more == [t \in SUBSET (1 .. n) |->
                        IF n \in t THEN st[<<it[t \ {n}], s[n]>>] ELSE it[t]]
  <2>3. \A t \in SUBSET (1 .. n) : t \ {n} \in SUBSET (1 .. n - 1) /\ (n \notin t => t \in SUBSET (1 .. n - 1))
    BY <2>1
  <2>4. s[n] \in E
    OBVIOUS
  <2>5. more \in [SUBSET (1 .. n) -> S]
    BY <2>2, <2>3, <2>4
  <2>6. ASSUME NEW t \in SUBSET (1 .. n)
        PROVE  more[t] = IF t = {} THEN base ELSE st[<<more[t \ {Max(t)}], s[Max(t)]>>]
    <3>1. CASE n \in t
      <4>1. Max(t) = n /\ t # {}
        BY <2>1, <3>1, MaxIs
      <4>2. t \ {n} \in SUBSET (1 .. n) /\ n \notin t \ {n}
        OBVIOUS
      <4>3. more[t \ {n}] = it[t \ {n}]
        BY <4>2
      <4>4. more[t] = st[<<it[t \ {n}], s[n]>>]
        BY <3>1
      <4> QED
        BY <4>1, <4>3, <4>4
    <3>2. CASE n \notin t
      <4>1. t \in SUBSET (1 .. n - 1) /\ more[t] = it[t]
        BY <2>3, <3>2
      <4>2. it[t] = IF t = {} THEN base ELSE st[<<it[t \ {Max(t)}], s[Max(t)]>>]
        BY <2>2, <4>1 DEF Folds
      <4>3. t \ {Max(t)} \in SUBSET (1 .. n) /\ n \notin t \ {Max(t)}
        BY <3>2
      <4>4. more[t \ {Max(t)}] = it[t \ {Max(t)}]
        BY <4>3
      <4> QED
        BY <4>1, <4>2, <4>4
    <3> QED
      BY <3>1, <3>2
  <2>7. Folds(more, st, base, s, n)
    BY <2>6 DEF Folds
  <2> QED
    BY <2>1, <2>5, <2>7
<1> HIDE DEF P
<1>3. Len(s) \in Nat /\ DOMAIN s = 1 .. Len(s)
  OBVIOUS
<1>4. Len(s) \in P
  <2>1. 0 .. Len(s) \subseteq P
    BY <1>1, <1>2, <1>3, UpTo
  <2> QED
    BY <1>3, <2>1
<1> QED
  BY <1>3, <1>4 DEF P

\* The prefixes of a sequence, as sets of positions.
LEMMA Prefix ==
  ASSUME NEW n \in Nat, NEW i \in 1 .. n
  PROVE  /\ 1 .. i \in SUBSET (1 .. n)
         /\ 1 .. i # {}
         /\ Max(1 .. i) = i
         /\ (1 .. i) \ {i} = 1 .. (i - 1)
         /\ 1 .. (i - 1) \in SUBSET (1 .. n)
<1>1. i \in Nat /\ 1 .. i \in SUBSET (1 .. i) /\ i \in 1 .. i
  OBVIOUS
<1>2. Max(1 .. i) = i
  BY <1>1, MaxIs
<1>3. 1 .. i \in SUBSET (1 .. n) /\ 1 .. (i - 1) \in SUBSET (1 .. n)
  OBVIOUS
<1>4. (1 .. i) \ {i} = 1 .. (i - 1)
  OBVIOUS
<1> QED
  BY <1>1, <1>2, <1>3, <1>4

=============================================================================
