--------------------------- MODULE CountingLemmas ---------------------------
(***************************************************************************)
(* Lemmas about the sizes of sets of threads, of which one step moves one  *)
(* thread, about the places of a message in a queue, about remainders and  *)
(* division, and about what is repeated a number of times.                 *)
(***************************************************************************)
EXTENDS Integers, Sequences, FiniteSets, FiniteSetTheorems, WellFoundedInduction, TLAPS

Has(S, t) == IF t \in S THEN 1 ELSE 0

(* Two sets that differ at most in t have cardinalities that differ by the *)
(* membership of t.                                                        *)
LEMMA CardinalityMove ==
  ASSUME NEW S, NEW T, NEW t, IsFiniteSet(S), S \ {t} = T \ {t}
  PROVE  /\ IsFiniteSet(T)
         /\ Cardinality(S) \in Nat /\ Cardinality(T) \in Nat
         /\ Cardinality(T) = Cardinality(S) - Has(S, t) + Has(T, t)
<1>1. IsFiniteSet(S \ {t}) /\ Cardinality(S \ {t}) = Cardinality(S) - Has(S, t)
  BY FS_RemoveElement, FS_CardinalityType DEF Has
<1>2. IsFiniteSet(T)
  <2>1. IsFiniteSet((S \ {t}) \cup {t})
    BY <1>1, FS_AddElement
  <2>2. T \subseteq (S \ {t}) \cup {t}
    OBVIOUS
  <2>3. T \in SUBSET ((S \ {t}) \cup {t})
    BY <2>2
  <2>4. QED
    BY <2>1, <2>3, FS_Subset
<1>3. Cardinality(T \ {t}) = Cardinality(T) - Has(T, t)
  BY <1>2, FS_RemoveElement, FS_CardinalityType DEF Has
<1>4. Cardinality(S) \in Nat /\ Cardinality(T) \in Nat
  BY <1>2, FS_CardinalityType
<1>5. Cardinality(S \ {t}) = Cardinality(T \ {t})
  OBVIOUS
<1>6. Has(S, t) \in {0, 1} /\ Has(T, t) \in {0, 1}
  BY DEF Has
<1>7. QED
  BY <1>1, <1>2, <1>3, <1>4, <1>5, <1>6

(* A part of a finite set is finite, and has at most as many elements.     *)
LEMMA PartOf ==
  ASSUME NEW S, IsFiniteSet(S), NEW T, T \subseteq S
  PROVE  /\ IsFiniteSet(T)
         /\ Cardinality(T) \in Nat /\ Cardinality(T) <= Cardinality(S)
         /\ Cardinality(T) = 0 <=> T = {}
<1>1. T \in SUBSET S
  OBVIOUS
<1>2. IsFiniteSet(T) /\ Cardinality(T) <= Cardinality(S)
  BY <1>1, FS_Subset
<1>3. QED
  BY <1>2, FS_CardinalityType, FS_EmptySet

(* As many numbers as one counts.                                          *)
LEMMA FirstNumbers ==
  ASSUME NEW n \in Nat
  PROVE  /\ IsFiniteSet(1 .. n) /\ Cardinality(1 .. n) = n
         /\ IsFiniteSet(0 .. n - 1) /\ Cardinality(0 .. n - 1) = n
<1>1. IsFiniteSet(1 .. n) /\ Cardinality(1 .. n) = IF 1 > n THEN 0 ELSE n - 1 + 1
  BY FS_Interval
<1>2. n - 1 \in Int
  OBVIOUS
<1>3. IsFiniteSet(0 .. n - 1) /\ Cardinality(0 .. n - 1) = IF 0 > n - 1 THEN 0 ELSE n - 1 - 0 + 1
  BY <1>2, FS_Interval
<1>4. QED
  BY <1>1, <1>3
-----------------------------------------------------------------------------
(* The places where a sequence has the item m.                             *)
Positions(s, m) == {i \in 1 .. Len(s) : s[i] = m}

(* They are finitely many, and none exactly when the item is not there.    *)
LEMMA PositionsCount ==
  ASSUME NEW M, NEW s \in Seq(M), NEW m
  PROVE  /\ IsFiniteSet(Positions(s, m))
         /\ Cardinality(Positions(s, m)) \in Nat
         /\ Cardinality(Positions(s, m)) = 0 <=> \A i \in 1 .. Len(s) : s[i] # m
<1>1. IsFiniteSet(1 .. Len(s))
  BY FS_Interval
<1>2. Positions(s, m) \subseteq 1 .. Len(s)
  BY DEF Positions
<1>3. Positions(s, m) = {} <=> \A i \in 1 .. Len(s) : s[i] # m
  BY DEF Positions
<1>4. QED
  BY <1>1, <1>2, <1>3, PartOf

(* An item that is appended counts once more.                              *)
LEMMA PositionsAppend ==
  ASSUME NEW M, NEW s \in Seq(M), NEW m, NEW x \in M
  PROVE  Cardinality(Positions(Append(s, x), m))
           = Cardinality(Positions(s, m)) + (IF x = m THEN 1 ELSE 0)
<1>1. Positions(Append(s, x), m) = IF x = m THEN Positions(s, m) \cup {Len(s) + 1} ELSE Positions(s, m)
  BY DEF Positions
<1>2. Len(s) + 1 \notin Positions(s, m)
  BY DEF Positions
<1>3. IsFiniteSet(Positions(s, m)) /\ Cardinality(Positions(s, m)) \in Nat
  BY PositionsCount
<1>4. Cardinality(Positions(s, m) \cup {Len(s) + 1}) = Cardinality(Positions(s, m)) + 1
  BY <1>2, <1>3, FS_AddElement
<1>5. QED
  BY <1>1, <1>3, <1>4

(* The first item counts once less when it is taken.                       *)
LEMMA PositionsTail ==
  ASSUME NEW M, NEW s \in Seq(M), NEW m, s # <<>>
  PROVE  Cardinality(Positions(Tail(s), m))
           = Cardinality(Positions(s, m)) - (IF Head(s) = m THEN 1 ELSE 0)
<1> DEFINE f == [i \in Positions(Tail(s), m) |-> i + 1]
           Rest == Positions(s, m) \ {1}
<1>1. /\ Len(Tail(s)) = Len(s) - 1 /\ Len(s) \in Nat \ {0} /\ Tail(s) \in Seq(M)
      /\ \A i \in 1 .. Len(s) - 1 : Tail(s)[i] = s[i + 1]
      /\ Head(s) = s[1]
  OBVIOUS
<1>2. f \in Bijection(Positions(Tail(s), m), Rest)
  <2>1. f \in [Positions(Tail(s), m) -> Rest]
    BY <1>1 DEF Positions
  <2>2. f \in Injection(Positions(Tail(s), m), Rest)
    BY <2>1, <1>1 DEF Injection, IsInjective, Positions
  <2>3. \A j \in Rest : \E i \in Positions(Tail(s), m) : f[i] = j
    <3> SUFFICES ASSUME NEW j \in Rest
                 PROVE  j - 1 \in Positions(Tail(s), m) /\ f[j - 1] = j
      OBVIOUS
    <3>1. j \in 2 .. Len(s) /\ s[j] = m
      BY <1>1 DEF Positions
    <3>2. j - 1 \in 1 .. Len(s) - 1 /\ (j - 1) + 1 = j
      BY <3>1, <1>1
    <3>3. QED
      BY <3>1, <3>2, <1>1 DEF Positions
  <2>4. QED
    BY <2>1, <2>2, <2>3 DEF Bijection, Surjection
<1>3. Cardinality(Rest) = Cardinality(Positions(Tail(s), m))
  BY <1>1, <1>2, PositionsCount, FS_Bijection, ZenonT(40) DEF ExistsBijection
<1>4. 1 \in Positions(s, m) <=> Head(s) = m
  BY <1>1 DEF Positions
<1>5. IsFiniteSet(Positions(s, m)) /\ Cardinality(Positions(s, m)) \in Nat
  BY PositionsCount
<1>6. Cardinality(Rest) = IF 1 \in Positions(s, m) THEN Cardinality(Positions(s, m)) - 1
                          ELSE Cardinality(Positions(s, m))
  BY <1>5, FS_RemoveElement
<1>7. QED
  BY <1>3, <1>4, <1>5, <1>6
-----------------------------------------------------------------------------
(***************************************************************************)
(* Arithmetic modulo the size of a ring.                                   *)
(***************************************************************************)
(* A remainder that changes nothing.                                       *)
LEMMA ModSmall ==
  ASSUME NEW B \in Nat \ {0}, NEW k \in 0 .. B - 1
  PROVE  k % B = k
OBVIOUS

(* An index that has run over the end of the ring once comes back to it.  *)
LEMMA ModWrap ==
  ASSUME NEW B \in Nat \ {0}, NEW k \in B .. 2 * B - 1
  PROVE  k % B = k - B
OBVIOUS

(* A remainder is an index of the ring.                                    *)
LEMMA ModRange ==
  ASSUME NEW B \in Nat \ {0}, NEW k \in Nat
  PROVE  k % B \in 0 .. B - 1
OBVIOUS
-----------------------------------------------------------------------------
(***************************************************************************)
(* Repetition.  The library's induction takes the formula as an operator,  *)
(* so what holds step by step is shown by a least counterexample.          *)
(***************************************************************************)
(* Some sets of numbers have a least element.                              *)
LEMMA MinExists ==
  ASSUME NEW S, S \subseteq Nat, S # {}
  PROVE  \E i \in S : \A k \in S : i <= k
<1> DEFINE less == {ss \in Nat \X Nat : ss[1] < ss[2]}
<1>1. IsWellFoundedOn(less, Nat)
  BY NatLessThanWellFounded DEF OpToRel
<1>2. PICK i \in S : \A k \in S : ~(<<k, i>> \in less)
  <2> HIDE DEF less
  <2>1. QED
    BY <1>1, WFMin
<1>3. \A k \in S : ~(k < i)
  BY <1>2
<1>4. QED
  BY <1>3

(* What 0 has, and every number has if the one before has it, all have.    *)
LEMMA StepByStep ==
  ASSUME NEW n \in Nat, NEW P, 0 \in P, \A k \in 1 .. n : k - 1 \in P => k \in P
  PROVE  0 .. n \subseteq P
<1> DEFINE Bad == {k \in 0 .. n : k \notin P}
<1>1. SUFFICES ASSUME Bad # {} PROVE FALSE
  OBVIOUS
<1>2. PICK k \in Bad : \A j \in Bad : k <= j
  <2>1. Bad \subseteq Nat
    OBVIOUS
  <2> HIDE DEF Bad
  <2>2. QED
    BY <1>1, <2>1, MinExists
<1>3. k \in 1 .. n /\ k \notin P /\ k - 1 \in 0 .. n
  BY <1>2
<1>4. k - 1 \in P
  BY <1>2, <1>3
<1>5. QED
  BY <1>3, <1>4

(* A step that stays in X, taken n times from s0, runs through a function. *)
Iterates(g, X, s0, step, n) ==
  g \in [0 .. n -> X] /\ g[0] = s0 /\ \A k \in 1 .. n : g[k] = step[g[k - 1]]

LEMMA IterationExists ==
  ASSUME NEW X, NEW s0 \in X, NEW step \in [X -> X], NEW n \in Nat
  PROVE  \E g : Iterates(g, X, s0, step, n)
<1> DEFINE P == {m \in 0 .. n : \E g : Iterates(g, X, s0, step, m)}
<1>1. 0 \in P
  <2> DEFINE g == [i \in 0 .. 0 |-> s0]
  <2>1. Iterates(g, X, s0, step, 0)
    BY DEF Iterates
  <2> HIDE DEF g
  <2>2. QED
    BY <2>1
<1>2. ASSUME NEW m \in 1 .. n, m - 1 \in P PROVE m \in P
  <2>1. PICK g : Iterates(g, X, s0, step, m - 1)
    BY <1>2
  <2> DEFINE h == [i \in 0 .. m |-> IF i = m THEN step[g[m - 1]] ELSE g[i]]
  <2>2. h \in [0 .. m -> X] /\ h[0] = s0
    BY <2>1 DEF Iterates
  <2>3. \A k \in 1 .. m : h[k] = step[h[k - 1]]
    BY <2>1 DEF Iterates
  <2>4. Iterates(h, X, s0, step, m)
    BY <2>2, <2>3 DEF Iterates
  <2> HIDE DEF h
  <2>5. QED
    BY <2>4
<1>3. 0 .. n \subseteq P
  <2> HIDE DEF P
  <2> QED
    BY <1>1, <1>2, StepByStep
<1>4. QED
  BY <1>3

(* Products of numbers that are not negative.                              *)
LEMMA Products ==
  ASSUME NEW x \in Int, NEW y \in Int, NEW K \in Nat
  PROVE  /\ x * K \in Int
         /\ x >= 0 => x * K >= 0
         /\ x <= y => x * K <= y * K
         /\ x < y => x * K + K <= y * K
<1>1. \A z \in Nat : z * K >= 0
  OBVIOUS
<1>2. x >= 0 => x * K >= 0
  BY <1>1
<1>3. x <= y => (y - x) * K >= 0
  <2>1. x <= y => y - x \in Nat
    OBVIOUS
  <2>2. QED
    BY <1>1, <2>1
<1>4. x < y => (y - x - 1) * K >= 0
  <2>1. x < y => y - x - 1 \in Nat
    OBVIOUS
  <2>2. QED
    BY <1>1, <2>1
<1>5. (y - x) * K = y * K - x * K /\ (y - x - 1) * K = y * K - x * K - K
  OBVIOUS
<1>6. x * K \in Int /\ y * K \in Int
  OBVIOUS
<1>7. QED
  BY <1>2, <1>3, <1>4, <1>5, <1>6

(* Division with remainder.                                                *)
LEMMA Division ==
  ASSUME NEW c \in Int, NEW b \in Nat \ {0}
  PROVE  /\ c \div b \in Int /\ c % b \in 0 .. b - 1 /\ c % b = c - b * (c \div b)
         /\ c >= 0 => c \div b \in Nat
<1>1. c \div b \in Int
  OBVIOUS
<1>2. c % b \in 0 .. b - 1
  OBVIOUS
<1>3. c % b = c - b * (c \div b)
  OBVIOUS
<1>4. c >= 0 => c \div b \in Nat
  OBVIOUS
<1>5. QED
  BY <1>1, <1>2, <1>3, <1>4

(* A quotient and a rest that fit are the only ones.                      *)
Divided(c, b, q, r) == c = b * q + r /\ r \in 0 .. b - 1

LEMMA OneQuotient ==
  ASSUME NEW c \in Int, NEW b \in Nat \ {0}, NEW q \in Int, NEW r \in Int, Divided(c, b, q, r)
  PROVE  c \div b = q /\ c % b = r
<1>1. c \div b = q
  BY DEF Divided
<1>2. c % b = r
  BY DEF Divided
<1>3. QED
  BY <1>1, <1>2

(* A unit that divides another goes into it a whole number of times.       *)
LEMMA UnitsDivide ==
  ASSUME NEW S \in Nat \ {0}, NEW U \in Nat \ {0}, S % U = 0
  PROVE  S \div U \in Nat \ {0} /\ S = U * (S \div U)
<1>1. S \div U \in Nat /\ S % U = S - U * (S \div U)
  BY Division
<1>2. U * (S \div U) \in Int
  BY <1>1
<1>3. S = U * (S \div U)
  BY <1>1, <1>2
<1>4. S \div U # 0
  BY <1>3
<1>5. QED
  BY <1>1, <1>3, <1>4
=============================================================================
