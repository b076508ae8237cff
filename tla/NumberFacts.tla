---------------------------- MODULE NumberFacts ----------------------------
(***************************************************************************)
(* What the proofs of several components need of the natural numbers.      *)
(*                                                                         *)
(* Induction is stated for a set of numbers: the set of those that have a  *)
(* property contains all of them if it contains the first and the          *)
(* successor of each.  It rests on the least number of a set, which the    *)
(* induction theorems of the library give through finite sets.             *)
(***************************************************************************)
EXTENDS Integers, FiniteSetTheorems, WellFoundedInduction, TLAPS

\* A set of natural numbers has a least element.
LEMMA LeastNumber ==
    ASSUME NEW S \in SUBSET Nat, S # {}
    PROVE  \E x \in S : \A y \in S : x <= y
<1> DEFINE R == StrictSubsetOrdering(Nat)
           T == {0 .. n : n \in S}
<1>1. IsWellFoundedOn(R, FiniteSubsetsOf(Nat))
    BY FS_StrictSubsetOrderingWellFounded
<1>2. T \subseteq FiniteSubsetsOf(Nat) /\ T # {}
    <2>1. ASSUME NEW n \in S PROVE 0 .. n \in FiniteSubsetsOf(Nat)
        <3>1. 0 \in Int /\ n \in Int
            OBVIOUS
        <3>2. IsFiniteSet(0 .. n)
            BY ONLY <3>1, FS_Interval
        <3>3. 0 .. n \in SUBSET Nat
            OBVIOUS
        <3> QED BY <3>2, <3>3 DEF FiniteSubsetsOf
    <2> QED BY <2>1
<1>3. \A x, y \in Nat : y < x => <<0 .. y, 0 .. x>> \in R
    <2> TAKE x, y \in Nat
    <2> HAVE y < x
    <2>1. 0 .. y \subseteq 0 .. x /\ x \in 0 .. x /\ x \notin 0 .. y
        OBVIOUS
    <2>2. 0 .. y \in SUBSET Nat /\ 0 .. x \in SUBSET Nat
        OBVIOUS
    <2> DEFINE p == <<0 .. y, 0 .. x>>
    <2>3. p \in (SUBSET Nat) \X (SUBSET Nat)
        BY <2>2
    <2>4. p[1] = 0 .. y /\ p[2] = 0 .. x
        OBVIOUS
    <2> HIDE DEF p
    <2>5. p \in R
        BY <2>1, <2>3, <2>4 DEF StrictSubsetOrdering
    <2> QED BY <2>5 DEF p
<1> HIDE DEF R
<1>4. \E least \in T : \A t \in T : ~ (<<t, least>> \in R)
    <2> HIDE DEF T
    <2> QED BY <1>1, <1>2, WFMin
<1>5. PICK x \in S : \A y \in S : ~ (<<0 .. y, 0 .. x>> \in R)
    BY <1>4
<1>6. ASSUME NEW y \in S PROVE x <= y
    <2>1. ~ (y < x)
        BY <1>3, <1>5
    <2> QED BY <2>1
<1> QED BY <1>6

\* Induction.
LEMMA Induction ==
    ASSUME NEW S \in SUBSET Nat, 0 \in S, \A n \in S : n + 1 \in S
    PROVE  Nat \subseteq S
<1> DEFINE Rest == Nat \ S
<1>1. SUFFICES ASSUME Rest # {} PROVE FALSE
    OBVIOUS
<1>2. PICK least \in Rest : \A n \in Rest : least <= n
    <2>1. Rest \in SUBSET Nat
        OBVIOUS
    <2> HIDE DEF Rest
    <2> QED BY <1>1, <2>1, LeastNumber
<1>3. least - 1 \in S
    <2>1. least # 0 /\ least \in Nat
        OBVIOUS
    <2>2. least - 1 \in Nat /\ ~(least <= least - 1)
        BY <2>1
    <2> QED BY <1>2, <2>2
<1>4. least - 1 + 1 \in S
    BY <1>3
<1> QED BY <1>4

\* A function that steps define from one number to the next.
Iterates(f, n, first, step) ==
    f = [i \in 0 .. n |-> IF i = 0 THEN first ELSE step[i][f[i - 1]]]

\* There is one, with values where the steps keep them.
LEMMA Iteration ==
    ASSUME NEW n \in Nat, NEW S, NEW first \in S, NEW step,
           \A i \in 1 .. n : \A x \in S : step[i][x] \in S
    PROVE  \E f : Iterates(f, n, first, step) /\ \A i \in 0 .. n : f[i] \in S
<1> DEFINE Upto(f, last) ==
               /\ f \in [0 .. last -> S]
               /\ f = [i \in 0 .. last |-> IF i = 0 THEN first ELSE step[i][f[i - 1]]]
           T == {last \in Nat : last <= n => \E f : Upto(f, last)}
<1>1. 0 \in T
    <2>1. Upto([i \in 0 .. 0 |-> first], 0)
        <3>1. \A i \in 0 .. 0 : i = 0
            OBVIOUS
        <3> QED BY <3>1
    <2> HIDE DEF Upto
    <2> QED BY <2>1
<1>2. ASSUME NEW last \in T PROVE last + 1 \in T
    <2>1. SUFFICES ASSUME last + 1 <= n PROVE \E f : Upto(f, last + 1)
        <3> HIDE DEF Upto
        <3> QED OBVIOUS
    <2>2. PICK before : Upto(before, last)
        <3> HIDE DEF Upto
        <3>1. last <= n
            BY <2>1
        <3> QED BY <3>1
    <2> DEFINE f == [i \in 0 .. last + 1 |->
                        IF i <= last THEN before[i] ELSE step[last + 1][before[last]]]
    <2>3. ASSUME NEW i \in 0 .. last + 1
          PROVE  f[i] = IF i = 0 THEN first ELSE step[i][f[i - 1]]
        <3>1. CASE i <= last
            <4>1. i \in 0 .. last
                BY <3>1
            <4>2. before[i] = IF i = 0 THEN first ELSE step[i][before[i - 1]]
                BY <2>2, <4>1
            <4>3. i # 0 => i - 1 \in 0 .. last + 1 /\ i - 1 <= last
                BY <4>1
            <4> QED BY <3>1, <4>2, <4>3
        <3>2. CASE ~(i <= last)
            <4>1. i = last + 1 /\ i # 0 /\ i - 1 = last
                BY <3>2
            <4>2. f[last] = before[last]
                OBVIOUS
            <4> QED BY <3>2, <4>1, <4>2
        <3> QED BY <3>1, <3>2
    <2>4. f \in [0 .. last + 1 -> S]
        <3>1. \A i \in 0 .. last : before[i] \in S
            BY <2>2
        <3>2. step[last + 1][before[last]] \in S
            <4>1. last + 1 \in 1 .. n /\ last \in 0 .. last
                BY <2>1
            <4> QED BY <3>1, <4>1
        <3> QED BY <3>1, <3>2
    <2>5. Upto(f, last + 1)
        <3>1. f = [i \in 0 .. last + 1 |-> f[i]]
            OBVIOUS
        <3> HIDE DEF f
        <3> QED BY <2>3, <2>4, <3>1
    <2> HIDE DEF Upto, f
    <2> QED BY <2>5
<1>3. n \in T
    <2>1. T \in SUBSET Nat
        OBVIOUS
    <2> HIDE DEF T
    <2> QED BY <1>1, <1>2, <2>1, Induction
<1> QED BY <1>3 DEF Iterates

\* What holds of the first value and is handed on from each to the next holds of
\* all.
LEMMA HandedOn ==
    ASSUME NEW n \in Nat, NEW S, NEW f, f[0] \in S,
           \A i \in 1 .. n : f[i - 1] \in S => f[i] \in S
    PROVE  \A i \in 0 .. n : f[i] \in S
<1> DEFINE T == {i \in Nat : i <= n => f[i] \in S}
<1>1. 0 \in T
    OBVIOUS
<1>2. ASSUME NEW i \in T PROVE i + 1 \in T
    <2>1. SUFFICES ASSUME i + 1 <= n PROVE f[i + 1] \in S
        OBVIOUS
    <2>2. i + 1 \in 1 .. n /\ (i + 1) - 1 = i /\ f[i] \in S
        BY <2>1
    <2> QED BY <2>2
<1>3. Nat \subseteq T
    <2>1. T \in SUBSET Nat
        OBVIOUS
    <2> HIDE DEF T
    <2> QED BY <1>1, <1>2, <2>1, Induction
<1> QED BY <1>3

----------------------------------------------------------------------------
(* Remainders.                                                             *)

\* The quotient and the remainder.
LEMMA Division ==
    ASSUME NEW m \in Nat \ {0}, NEW x \in Int
    PROVE  x \div m \in Int /\ x % m \in 0 .. m - 1 /\ x = m * (x \div m) + (x % m)
<1> DEFINE q == x \div m
           r == x % m
<1>1. x \in Int /\ q \in Int /\ r \in 0 .. m - 1 /\ x = m * q + r
    OBVIOUS
<1> QED BY <1>1

\* They are the only such pair.
LEMMA Remainder ==
    ASSUME NEW m \in Nat \ {0}, NEW q \in Int, NEW r \in 0 .. m - 1
    PROVE  (m * q + r) % m = r /\ (m * q + r) \div m = q
<1> DEFINE x == m * q + r
           q1 == x \div m
           r1 == x % m
<1>1. x \in Int /\ q1 \in Int /\ r1 \in 0 .. m - 1 /\ x = m * q1 + r1
    <2>1. x \in Int
        OBVIOUS
    <2> HIDE DEF x
    <2> QED BY <2>1
<1>2. m * (q1 - q) = r - r1
    <2> HIDE DEF q1, r1
    <2> QED BY <1>1
<1> HIDE DEF x, q1, r1
<1>3. q1 - q <= 0
    <2>1. SUFFICES ASSUME q1 - q >= 1 PROVE FALSE
        BY <1>1
    <2>2. m * (q1 - q) >= m
        BY <2>1, <1>1
    <2> QED BY <2>2, <1>2, <1>1
<1>4. q1 - q >= 0
    <2>1. SUFFICES ASSUME q1 - q <= -1 PROVE FALSE
        BY <1>1
    <2>2. m * (q1 - q) <= -m
        BY <2>1, <1>1
    <2> QED BY <2>2, <1>2, <1>1
<1>5. q1 = q
    BY <1>3, <1>4, <1>1
<1>6. r1 = r
    BY <1>5, <1>2, <1>1
<1> QED BY <1>5, <1>6 DEF x, q1, r1

\* Around an edge: the remainder of a number at most one size out.
LEMMA Around ==
    ASSUME NEW m \in Nat \ {0}, NEW x \in Int
    PROVE  /\ x \in 0 .. m - 1 => x % m = x
           /\ x - m \in 0 .. m - 1 => x % m = x - m
           /\ x + m \in 0 .. m - 1 => x % m = x + m
<1>1. ASSUME x \in 0 .. m - 1 PROVE x % m = x
    <2>1. m * 0 + x = x
        OBVIOUS
    <2> QED BY <1>1, <2>1, Remainder
<1>2. ASSUME x - m \in 0 .. m - 1 PROVE x % m = x - m
    <2>1. m * 1 + (x - m) = x
        OBVIOUS
    <2> QED BY <1>2, <2>1, Remainder
<1>3. ASSUME x + m \in 0 .. m - 1 PROVE x % m = x + m
    <2>1. m * (-1) + (x + m) = x
        OBVIOUS
    <2> QED BY <1>3, <2>1, Remainder
<1> QED BY <1>1, <1>2, <1>3
=============================================================================
