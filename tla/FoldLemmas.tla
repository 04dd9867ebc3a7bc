------------------------------ MODULE FoldLemmas ------------------------------
(***************************************************************************)
(* What the folds of the community modules return: SumFunctionOnSet, with  *)
(* which the specifications add up shares, and FlattenSeq and SetToSeq,    *)
(* with which they lay out scripts and lists.  Each is a recursive         *)
(* function, so the facts are proved by looking at a smallest set, or a    *)
(* smallest index, at which one of them would fail.                        *)
(***************************************************************************)
EXTENDS SequencesExt, FiniteSetTheorems, SequenceTheorems, WellFoundedInduction, TLAPS

-----------------------------------------------------------------------------
(* Sums.                                                                   *)

(* The element the fold takes first, and the equation its table solves.    *)
Pick(s) == CHOOSE x \in s : TRUE

Adds(f, S, h) ==
  h = [s \in SUBSET S |-> IF s = {} THEN 0 ELSE f[Pick(s)] + h[s \ {Pick(s)}]]

(* A table cut down to the subsets of R.                                   *)
Part(h, R) == [s \in SUBSET R |-> h[s]]

LEMMA SumIsTable ==
  ASSUME NEW f, NEW S
  PROVE  SumFunctionOnSet(f, S) = (CHOOSE h : Adds(f, S, h))[S]
BY DEF SumFunctionOnSet, FoldFunctionOnSet, MapThenFoldSet, Adds, Pick

LEMMA PickIn == ASSUME NEW s, s # {}  PROVE Pick(s) \in s
BY DEF Pick

(* Among finite sets there is a smallest.                                  *)
LEMMA SmallestSet ==
  ASSUME NEW S, IsFiniteSet(S), NEW B, B \subseteq SUBSET S, B # {}
  PROVE  \E m \in B : \A n \in B : n \subseteq m => n = m
<1>1. FiniteSubsetsOf(S) = SUBSET S
  BY FS_FiniteSubsetsOfFinite
<1>2. IsWellFoundedOn(StrictSubsetOrdering(S), SUBSET S)
  BY <1>1, FS_StrictSubsetOrderingWellFounded
<1>3. PICK m \in B : \A n \in B : ~(<<n, m>> \in StrictSubsetOrdering(S))
  BY <1>2, WFMin, Zenon
<1>4. \A n \in B : n \subseteq m => n = m
  BY <1>3 DEF StrictSubsetOrdering
<1> QED
  BY <1>4

LEMMA TableUnique ==
  ASSUME NEW f, NEW S, IsFiniteSet(S), NEW h, Adds(f, S, h), NEW k, Adds(f, S, k)
  PROVE  h = k
<1> DEFINE B == {s \in SUBSET S : h[s] # k[s]}
<1>0. B \subseteq SUBSET S
  OBVIOUS
<1>1. ASSUME B # {}  PROVE FALSE
  <2> HIDE DEF B
  <2>1. PICK m \in B : \A n \in B : n \subseteq m => n = m
    BY <1>0, <1>1, SmallestSet
  <2> USE DEF B
  <2>2. CASE m = {}
    BY <2>1, <2>2 DEF Adds
  <2>3. CASE m # {}
    <3>1. Pick(m) \in m
      BY <2>3, PickIn
    <3>2. m \ {Pick(m)} \notin B
      BY <2>1, <3>1
    <3>3. h[m \ {Pick(m)}] = k[m \ {Pick(m)}]
      BY <2>1, <3>2
    <3>4. /\ h[m] = f[Pick(m)] + h[m \ {Pick(m)}]
          /\ k[m] = f[Pick(m)] + k[m \ {Pick(m)}]
      BY <2>1, <2>3 DEF Adds
    <3> QED
      BY <2>1, <3>3, <3>4
  <2> QED
    BY <2>2, <2>3
<1>2. h = [s \in SUBSET S |-> h[s]] /\ k = [s \in SUBSET S |-> k[s]]
  BY DEF Adds
<1> QED
  BY <1>1, <1>2

LEMMA TableRestricts ==
  ASSUME NEW f, NEW S, NEW R, R \subseteq S, NEW h, Adds(f, S, h)
  PROVE  Adds(f, R, Part(h, R))
<1> DEFINE r == [s \in SUBSET R |-> h[s]]
<1>1. ASSUME NEW s \in SUBSET R
      PROVE  r[s] = IF s = {} THEN 0 ELSE f[Pick(s)] + r[s \ {Pick(s)}]
  <2>1. h[s] = IF s = {} THEN 0 ELSE f[Pick(s)] + h[s \ {Pick(s)}]
    BY DEF Adds
  <2> QED
    BY <2>1
<1> HIDE DEF r
<1>2. r = [s \in SUBSET R |-> r[s]]
  BY DEF r
<1>3. r = [s \in SUBSET R |-> IF s = {} THEN 0 ELSE f[Pick(s)] + r[s \ {Pick(s)}]]
  BY <1>1, <1>2
<1> QED
  BY <1>3 DEF Adds, Part, r

LEMMA TableOfPart ==
  ASSUME NEW f, NEW S, NEW R, R \subseteq S, IsFiniteSet(R),
         NEW h, Adds(f, S, h), NEW k, Adds(f, R, k)
  PROVE  k[R] = h[R]
<1>1. Adds(f, R, Part(h, R))
  BY TableRestricts
<1>2. k = Part(h, R)
  BY <1>1, TableUnique
<1> QED
  BY <1>2 DEF Part

LEMMA TableExists ==
  ASSUME NEW f, NEW S, IsFiniteSet(S)
  PROVE  \E h : Adds(f, S, h)
<1> DEFINE B == {s \in SUBSET S : ~ \E h : Adds(f, s, h)}
           H(s) == CHOOSE h : Adds(f, s, h)
<1>0. B \subseteq SUBSET S
  OBVIOUS
<1>1. ASSUME B # {}  PROVE FALSE
  <2> HIDE DEF B
  <2>1. PICK m \in B : \A n \in B : n \subseteq m => n = m
    BY <1>0, <1>1, SmallestSet
  <2> USE DEF B
  <2>2. \A s \in SUBSET m : s # m => Adds(f, s, H(s))
    BY <2>1
  <2>3. ASSUME NEW s \in SUBSET m, s # m, NEW r \in SUBSET s
        PROVE  H(s)[r] = H(r)[r]
    <3>1. Adds(f, s, H(s)) /\ Adds(f, r, H(r)) /\ r \subseteq s /\ IsFiniteSet(r)
      BY <2>1, <2>2, <2>3, FS_Subset
    <3> HIDE DEF H
    <3> QED
      BY <3>1, TableOfPart
  <2> DEFINE V(s) == IF s = m /\ m # {} THEN f[Pick(m)] + H(m \ {Pick(m)})[m \ {Pick(m)}]
                     ELSE IF s = {} THEN 0 ELSE H(s)[s]
             v == [s \in SUBSET m |-> V(s)]
  <2>4. ASSUME NEW s \in SUBSET m
        PROVE  v[s] = IF s = {} THEN 0 ELSE f[Pick(s)] + v[s \ {Pick(s)}]
    <3>1. CASE s = {}
      BY <3>1
    <3>2. CASE s # {}
      <4> DEFINE r == s \ {Pick(s)}
      <4>1. Pick(s) \in s
        BY <3>2, PickIn
      <4>2. r \in SUBSET m /\ r # m /\ r \in SUBSET s
        BY <4>1
      <4>3. Adds(f, r, H(r))
        BY <2>2, <4>2
      <4>4. v[r] = H(r)[r]
        <5>1. r = {} => H(r)[r] = 0
          BY <4>3 DEF Adds
        <5> QED
          BY <4>2, <5>1
      <4>5. CASE s = m
        BY <3>2, <4>4, <4>5
      <4>6. CASE s # m
        <5>1. Adds(f, s, H(s)) /\ H(s)[r] = H(r)[r]
          BY <2>2, <2>3, <4>2, <4>6
        <5>2. H(s)[s] = f[Pick(s)] + H(s)[r]
          BY <3>2, <5>1 DEF Adds
        <5>3. v[s] = H(s)[s]
          BY <3>2, <4>6
        <5> QED
          BY <3>2, <4>4, <5>1, <5>2, <5>3
      <4> QED
        BY <4>5, <4>6
    <3> QED
      BY <3>1, <3>2
  <2> HIDE DEF V
  <2>5. v = [s \in SUBSET m |-> v[s]]
    OBVIOUS
  <2> HIDE DEF v
  <2>6. Adds(f, m, v)
    BY <2>4, <2>5 DEF Adds
  <2> QED
    BY <2>1, <2>6
<1> QED
  BY <1>1

-----------------------------------------------------------------------------
(* The equations of the fold.                                              *)

LEMMA SumEmpty == ASSUME NEW f  PROVE SumFunctionOnSet(f, {}) = 0
<1> DEFINE h == CHOOSE h : Adds(f, {}, h)
<1>1. IsFiniteSet({})
  BY FS_EmptySet
<1>2. Adds(f, {}, h)
  BY <1>1, TableExists
<1>3. h[{}] = 0
  BY <1>2 DEF Adds
<1> QED
  BY <1>3, SumIsTable

LEMMA SumPick ==
  ASSUME NEW f, NEW S, IsFiniteSet(S), S # {}
  PROVE  SumFunctionOnSet(f, S) = f[Pick(S)] + SumFunctionOnSet(f, S \ {Pick(S)})
<1> DEFINE H(s) == CHOOSE h : Adds(f, s, h)
           R == S \ {Pick(S)}
<1>1. R \subseteq S /\ R \in SUBSET S /\ IsFiniteSet(R)
  BY FS_Subset
<1>2. Adds(f, S, H(S)) /\ Adds(f, R, H(R))
  BY <1>1, TableExists
<1> HIDE DEF R
<1>5. H(R)[R] = H(S)[R]
  <2> HIDE DEF H
  <2> QED
    BY <1>1, <1>2, TableOfPart
<1>6. H(S)[S] = f[Pick(S)] + H(S)[R]
  <2> HIDE DEF H
  <2> QED
    BY <1>2 DEF Adds, R
<1>7. SumFunctionOnSet(f, S) = H(S)[S] /\ SumFunctionOnSet(f, R) = H(R)[R]
  BY SumIsTable
<1> QED
  BY <1>5, <1>6, <1>7 DEF R

(* A sum of integers, of naturals.                                         *)
LEMMA SumInt ==
  ASSUME NEW S, IsFiniteSet(S), NEW f, \A x \in S : f[x] \in Int
  PROVE  SumFunctionOnSet(f, S) \in Int
<1> DEFINE B == {s \in SUBSET S : SumFunctionOnSet(f, s) \notin Int}
<1>0. B \subseteq SUBSET S
  OBVIOUS
<1>1. ASSUME B # {}  PROVE FALSE
  <2> HIDE DEF B
  <2>1. PICK m \in B : \A n \in B : n \subseteq m => n = m
    BY <1>0, <1>1, SmallestSet
  <2> USE DEF B
  <2>2. m # {}
    BY <2>1, SumEmpty
  <2>3. Pick(m) \in m /\ m \in SUBSET S /\ IsFiniteSet(m)
    BY <2>1, <2>2, PickIn, FS_Subset
  <2>4. SumFunctionOnSet(f, m \ {Pick(m)}) \in Int /\ f[Pick(m)] \in Int
    BY <2>1, <2>3
  <2>5. SumFunctionOnSet(f, m) \in Int
    BY <2>2, <2>3, <2>4, SumPick
  <2> QED
    BY <2>1, <2>5
<1> QED
  BY <1>1

LEMMA SumNat ==
  ASSUME NEW S, IsFiniteSet(S), NEW f, \A x \in S : f[x] \in Nat
  PROVE  SumFunctionOnSet(f, S) \in Nat
<1> DEFINE B == {s \in SUBSET S : SumFunctionOnSet(f, s) \notin Nat}
<1>0. B \subseteq SUBSET S
  OBVIOUS
<1>1. ASSUME B # {}  PROVE FALSE
  <2> HIDE DEF B
  <2>1. PICK m \in B : \A n \in B : n \subseteq m => n = m
    BY <1>0, <1>1, SmallestSet
  <2> USE DEF B
  <2>2. m # {}
    <3>1. SumFunctionOnSet(f, {}) \in Nat
      BY SumEmpty
    <3> QED
      BY <2>1, <3>1
  <2>3. Pick(m) \in m /\ m \in SUBSET S /\ IsFiniteSet(m)
    BY <2>1, <2>2, PickIn, FS_Subset
  <2>4. SumFunctionOnSet(f, m \ {Pick(m)}) \in Nat /\ f[Pick(m)] \in Nat
    BY <2>1, <2>3
  <2>5. SumFunctionOnSet(f, m) \in Nat
    BY <2>2, <2>3, <2>4, SumPick
  <2> QED
    BY <2>1, <2>5
<1> QED
  BY <1>1

(* The elements may be added in any order.                                 *)
LEMMA SumTakes ==
  ASSUME NEW S, IsFiniteSet(S), NEW f, \A x \in S : f[x] \in Int, NEW a \in S
  PROVE  SumFunctionOnSet(f, S) = f[a] + SumFunctionOnSet(f, S \ {a})
<1> DEFINE Bad(s) == \E x \in s : SumFunctionOnSet(f, s) # f[x] + SumFunctionOnSet(f, s \ {x})
           B == {s \in SUBSET S : Bad(s)}
<1>0. B \subseteq SUBSET S
  OBVIOUS
<1>1. ASSUME B # {}  PROVE FALSE
  <2> HIDE DEF B
  <2>1. PICK m \in B : \A n \in B : n \subseteq m => n = m
    BY <1>0, <1>1, SmallestSet
  <2> USE DEF B
  <2>2. PICK x \in m : SumFunctionOnSet(f, m) # f[x] + SumFunctionOnSet(f, m \ {x})
    BY <2>1
  <2> DEFINE p == Pick(m)
             r == m \ {x, p}
  <2>3. m \in SUBSET S /\ IsFiniteSet(m) /\ p \in m
    BY <2>1, <2>2, PickIn, FS_Subset
  <2>4. SumFunctionOnSet(f, m) = f[p] + SumFunctionOnSet(f, m \ {p})
    BY <2>2, <2>3, SumPick
  <2>5. p # x
    BY <2>2, <2>4
  <2> HIDE DEF p
  <2>6. /\ m \ {p} \in SUBSET S /\ m \ {p} \subseteq m /\ m \ {p} # m /\ x \in m \ {p}
        /\ m \ {x} \in SUBSET S /\ m \ {x} \subseteq m /\ m \ {x} # m /\ p \in m \ {x}
        /\ (m \ {p}) \ {x} = r /\ (m \ {x}) \ {p} = r
    BY <2>2, <2>3, <2>5
  <2>7. SumFunctionOnSet(f, m \ {p}) = f[x] + SumFunctionOnSet(f, r)
    <3>1. ~Bad(m \ {p})
      BY <2>1, <2>6
    <3> HIDE DEF r
    <3> QED
      BY <2>6, <3>1
  <2>8. SumFunctionOnSet(f, m \ {x}) = f[p] + SumFunctionOnSet(f, r)
    <3>1. ~Bad(m \ {x})
      BY <2>1, <2>6
    <3> HIDE DEF r
    <3> QED
      BY <2>6, <3>1
  <2>9. SumFunctionOnSet(f, r) \in Int /\ f[p] \in Int /\ f[x] \in Int
    <3>1. r \in SUBSET S /\ IsFiniteSet(r)
      BY <2>3, FS_Subset
    <3> HIDE DEF r
    <3> QED
      BY <2>2, <2>3, <3>1, SumInt
  <2> HIDE DEF r
  <2> QED
    BY <2>2, <2>4, <2>7, <2>8, <2>9
<1>2. ~Bad(S)
  BY <1>1
<1> QED
  BY <1>2

(* Only the values on the set count.                                       *)
LEMMA SumAgrees ==
  ASSUME NEW S, IsFiniteSet(S), NEW f, NEW h, \A x \in S : f[x] = h[x]
  PROVE  SumFunctionOnSet(f, S) = SumFunctionOnSet(h, S)
<1> DEFINE B == {s \in SUBSET S : SumFunctionOnSet(f, s) # SumFunctionOnSet(h, s)}
<1>0. B \subseteq SUBSET S
  OBVIOUS
<1>1. ASSUME B # {}  PROVE FALSE
  <2> HIDE DEF B
  <2>1. PICK m \in B : \A n \in B : n \subseteq m => n = m
    BY <1>0, <1>1, SmallestSet
  <2> USE DEF B
  <2>2. m # {}
    BY <2>1, SumEmpty
  <2>3. Pick(m) \in m /\ m \in SUBSET S /\ IsFiniteSet(m)
    BY <2>1, <2>2, PickIn, FS_Subset
  <2>4. SumFunctionOnSet(f, m \ {Pick(m)}) = SumFunctionOnSet(h, m \ {Pick(m)})
    BY <2>1, <2>3
  <2>5. f[Pick(m)] = h[Pick(m)]
    BY <2>3
  <2> QED
    BY <2>1, <2>2, <2>3, <2>4, <2>5, SumPick
<1> QED
  BY <1>1

(* A function changed in one place.                                        *)
LEMMA SumMoves ==
  ASSUME NEW S, IsFiniteSet(S), NEW f, NEW h, NEW a \in S,
         \A x \in S : f[x] \in Int, h[a] \in Int, \A x \in S \ {a} : h[x] = f[x]
  PROVE  SumFunctionOnSet(h, S) = SumFunctionOnSet(f, S) - f[a] + h[a]
<1> DEFINE R == S \ {a}
<1>1. IsFiniteSet(R)
  BY FS_Subset
<1>2. SumFunctionOnSet(f, S) = f[a] + SumFunctionOnSet(f, R)
  BY SumTakes
<1>3. SumFunctionOnSet(h, S) = h[a] + SumFunctionOnSet(h, R)
  BY SumTakes
<1>4. SumFunctionOnSet(h, R) = SumFunctionOnSet(f, R)
  BY <1>1, SumAgrees
<1>5. SumFunctionOnSet(f, R) \in Int /\ f[a] \in Int
  BY <1>1, SumInt
<1> QED
  BY <1>2, <1>3, <1>4, <1>5

LEMMA SumZero ==
  ASSUME NEW S, IsFiniteSet(S), NEW f, \A x \in S : f[x] = 0
  PROVE  SumFunctionOnSet(f, S) = 0
<1> DEFINE B == {s \in SUBSET S : SumFunctionOnSet(f, s) # 0}
<1>0. B \subseteq SUBSET S
  OBVIOUS
<1>1. ASSUME B # {}  PROVE FALSE
  <2> HIDE DEF B
  <2>1. PICK m \in B : \A n \in B : n \subseteq m => n = m
    BY <1>0, <1>1, SmallestSet
  <2> USE DEF B
  <2>2. m # {}
    BY <2>1, SumEmpty
  <2>3. Pick(m) \in m /\ m \in SUBSET S /\ IsFiniteSet(m)
    BY <2>1, <2>2, PickIn, FS_Subset
  <2>4. SumFunctionOnSet(f, m \ {Pick(m)}) = 0 /\ f[Pick(m)] = 0
    BY <2>1, <2>3
  <2> QED
    BY <2>1, <2>2, <2>3, <2>4, SumPick
<1> QED
  BY <1>1

(* A sum of smaller numbers is smaller.                                    *)
LEMMA SumBelow ==
  ASSUME NEW S, IsFiniteSet(S), NEW f, NEW h,
         \A x \in S : f[x] \in Int /\ h[x] \in Int /\ f[x] <= h[x]
  PROVE  SumFunctionOnSet(f, S) <= SumFunctionOnSet(h, S)
<1> DEFINE B == {s \in SUBSET S : ~(SumFunctionOnSet(f, s) <= SumFunctionOnSet(h, s))}
<1>0. B \subseteq SUBSET S
  OBVIOUS
<1>1. ASSUME B # {}  PROVE FALSE
  <2> HIDE DEF B
  <2>1. PICK m \in B : \A n \in B : n \subseteq m => n = m
    BY <1>0, <1>1, SmallestSet
  <2>8. ~(SumFunctionOnSet(f, m) <= SumFunctionOnSet(h, m))
    BY <2>1 DEF B
  <2>2. m # {}
    <3>1. SumFunctionOnSet(f, {}) <= SumFunctionOnSet(h, {})
      BY SumEmpty
    <3> QED
      BY <2>8, <3>1
  <2> USE DEF B
  <2>3. Pick(m) \in m /\ m \in SUBSET S /\ IsFiniteSet(m) /\ IsFiniteSet(m \ {Pick(m)})
    BY <2>1, <2>2, PickIn, FS_Subset
  <2>4. SumFunctionOnSet(f, m \ {Pick(m)}) <= SumFunctionOnSet(h, m \ {Pick(m)})
    BY <2>1, <2>3
  <2>5. f[Pick(m)] \in Int /\ h[Pick(m)] \in Int /\ f[Pick(m)] <= h[Pick(m)]
    BY <2>3
  <2>6. /\ SumFunctionOnSet(f, m \ {Pick(m)}) \in Int
        /\ SumFunctionOnSet(h, m \ {Pick(m)}) \in Int
    BY <2>3, SumInt
  <2>7. /\ SumFunctionOnSet(f, m) = f[Pick(m)] + SumFunctionOnSet(f, m \ {Pick(m)})
        /\ SumFunctionOnSet(h, m) = h[Pick(m)] + SumFunctionOnSet(h, m \ {Pick(m)})
    BY <2>2, <2>3, SumPick
  <2> HIDE DEF B
  <2> QED
    BY <2>4, <2>5, <2>6, <2>7, <2>8
<1> QED
  BY <1>1

(* A sum over a set counts nothing outside its part where f is not 0.      *)
LEMMA SumOfPart ==
  ASSUME NEW S, IsFiniteSet(S), NEW f, \A x \in S : f[x] \in Int,
         NEW R, R \subseteq S, \A x \in S \ R : f[x] = 0
  PROVE  SumFunctionOnSet(f, S) = SumFunctionOnSet(f, R)
<1> DEFINE B == {s \in SUBSET S : SumFunctionOnSet(f, s) # SumFunctionOnSet(f, s \cap R)}
<1>0. B \subseteq SUBSET S
  OBVIOUS
<1>1. ASSUME B # {}  PROVE FALSE
  <2> HIDE DEF B
  <2>1. PICK m \in B : \A n \in B : n \subseteq m => n = m
    BY <1>0, <1>1, SmallestSet
  <2>2. m \in SUBSET S /\ SumFunctionOnSet(f, m) # SumFunctionOnSet(f, m \cap R)
    BY <2>1 DEF B
  <2>3. PICK a \in m : a \notin R
    <3>1. m # m \cap R
      BY <2>2
    <3> QED
      BY <3>1
  <2> DEFINE r == m \ {a}
  <2>4. IsFiniteSet(m) /\ IsFiniteSet(r) /\ r \in SUBSET S /\ r \subseteq m /\ r # m
    BY <2>2, <2>3, FS_Subset
  <2>5. r \notin B
    BY <2>1, <2>4
  <2>6. SumFunctionOnSet(f, r) = SumFunctionOnSet(f, r \cap R)
    BY <2>4, <2>5 DEF B
  <2>7. r \cap R = m \cap R
    BY <2>3
  <2>8. SumFunctionOnSet(f, m) = f[a] + SumFunctionOnSet(f, r)
    BY <2>2, <2>4, SumTakes
  <2>9. SumFunctionOnSet(f, r) \in Int /\ f[a] = 0
    BY <2>2, <2>3, <2>4, SumInt
  <2>10. SumFunctionOnSet(f, m) = SumFunctionOnSet(f, r)
    <3> HIDE DEF r
    <3> QED
      BY <2>8, <2>9
  <2>11. SumFunctionOnSet(f, m) = SumFunctionOnSet(f, m \cap R)
    BY <2>6, <2>7, <2>10, Zenon
  <2> QED
    BY <2>2, <2>11
<1>2. S \cap R = R
  OBVIOUS
<1> QED
  BY <1>1, <1>2

(* The entries of a queue after the first, numbered from 1 again.          *)
LEMMA SumShifts ==
  ASSUME NEW n \in Nat, NEW f, NEW h,
         \A k \in 1..(n + 1) : f[k] \in Int, \A k \in 1..n : h[k] = f[k + 1]
  PROVE  SumFunctionOnSet(f, 1..(n + 1)) = f[1] + SumFunctionOnSet(h, 1..n)
<1> DEFINE Up(s) == {k + 1 : k \in s}
           B == {s \in SUBSET (1..n) : SumFunctionOnSet(h, s) # SumFunctionOnSet(f, Up(s))}
<1>0. B \subseteq SUBSET (1..n) /\ IsFiniteSet(1..n) /\ IsFiniteSet(1..(n + 1))
  BY FS_Interval
<1>1. ASSUME B # {}  PROVE FALSE
  <2> HIDE DEF B
  <2>1. PICK m \in B : \A r \in B : r \subseteq m => r = m
    <3> DEFINE N == 1..n
    <3>1. B \subseteq SUBSET N /\ IsFiniteSet(N)
      BY <1>0
    <3> HIDE DEF N
    <3> QED
      BY <1>1, <3>1, SmallestSet
  <2>2. m \in SUBSET (1..n) /\ SumFunctionOnSet(h, m) # SumFunctionOnSet(f, Up(m))
    BY <2>1 DEF B
  <2>3. PICK a \in m : TRUE
    <3>1. m = {} => Up(m) = {}
      OBVIOUS
    <3> QED
      BY <2>2, <3>1, SumEmpty
  <2> DEFINE r == m \ {a}
  <2>4. IsFiniteSet(m) /\ r \in SUBSET (1..n) /\ r \subseteq m /\ r # m
    BY <1>0, <2>2, <2>3, FS_Subset
  <2>5. r \notin B
    BY <2>1, <2>4
  <2>6. SumFunctionOnSet(h, r) = SumFunctionOnSet(f, Up(r))
    BY <2>4, <2>5 DEF B
  <2>7. /\ a \in 1..n /\ a + 1 \in Up(m) /\ Up(m) \subseteq 1..(n + 1)
        /\ \A k \in m : h[k] \in Int
        /\ \A k \in Up(m) : f[k] \in Int
    BY <2>2, <2>3
  <2>8. Up(r) = Up(m) \ {a + 1}
    BY <2>2, <2>3
  <2>9. IsFiniteSet(Up(m))
    BY <1>0, <2>7, FS_Subset
  <2>10. SumFunctionOnSet(h, m) = h[a] + SumFunctionOnSet(h, r)
    BY <2>3, <2>4, <2>7, SumTakes
  <2>11. SumFunctionOnSet(f, Up(m)) = f[a + 1] + SumFunctionOnSet(f, Up(r))
    <3> HIDE DEF Up, r
    <3> QED
      BY <2>7, <2>8, <2>9, SumTakes
  <2>12. h[a] = f[a + 1]
    BY <2>7
  <2> HIDE DEF r, Up
  <2> QED
    BY <2>2, <2>6, <2>10, <2>11, <2>12
<1>2. SumFunctionOnSet(h, 1..n) = SumFunctionOnSet(f, Up(1..n))
  BY <1>1
<1>3. Up(1..n) = (1..(n + 1)) \ {1}
  <2>1. ASSUME NEW k \in (1..(n + 1)) \ {1}  PROVE k \in Up(1..n)
    <3>1. k - 1 \in 1..n /\ k = (k - 1) + 1
      OBVIOUS
    <3> QED
      BY <3>1
  <2> QED
    BY <2>1
<1>4. 1 \in 1..(n + 1)
  OBVIOUS
<1> DEFINE N == 1..(n + 1)
<1>5. SumFunctionOnSet(f, N) = f[1] + SumFunctionOnSet(f, N \ {1})
  <2>1. IsFiniteSet(N) /\ 1 \in N /\ \A k \in N : f[k] \in Int
    BY <1>0, <1>4
  <2> HIDE DEF N
  <2> QED
    BY <2>1, SumTakes
<1>6. SumFunctionOnSet(h, 1..n) = SumFunctionOnSet(f, N \ {1})
  BY <1>2, <1>3, Zenon
<1> QED
  BY <1>5, <1>6, Zenon

-----------------------------------------------------------------------------
(* Sequences laid out one after the other.                                 *)

LEMMA SmallestIndex ==
  ASSUME NEW B, B \subseteq Nat, B # {}
  PROVE  \E m \in B : \A n \in B : m <= n
<1>1. PICK m \in B : \A n \in B : ~(<<n, m>> \in OpToRel(<, Nat))
  BY NatLessThanWellFounded, WFMin, Zenon
<1>2. \A n \in B : ~(n < m)
  BY <1>1 DEF OpToRel
<1> QED
  BY <1>2

(* The table FlattenSeq builds: entry i is the first i sequences joined.   *)
Joins(s, n, f) ==
  f = [i \in 1..n |-> IF i = 1 THEN s[i] ELSE f[i - 1] \o s[i]]

LEMMA FlattenIsTable ==
  ASSUME NEW s, Len(s) # 0
  PROVE  FlattenSeq(s) = (CHOOSE f : Joins(s, Len(s), f))[Len(s)]
BY DEF FlattenSeq, Joins

LEMMA JoinsExist ==
  ASSUME NEW s, NEW n \in Nat
  PROVE  \E f : Joins(s, n, f)
<1> DEFINE B == {m \in Nat : ~ \E f : Joins(s, m, f)}
<1>1. ASSUME B # {}  PROVE FALSE
  <2>0. B \subseteq Nat
    OBVIOUS
  <2> HIDE DEF B
  <2>1. PICK m \in B : \A k \in B : m <= k
    BY <1>1, <2>0, SmallestIndex
  <2> USE DEF B
  <2>2. m \in Nat /\ m # 0
    <3>1. Joins(s, 0, [i \in 1..0 |-> 0])
      BY DEF Joins
    <3> QED
      BY <2>1, <3>1
  <2>3. PICK f : Joins(s, m - 1, f)
    BY <2>1, <2>2
  <2> DEFINE V(i) == IF i = 1 THEN s[i] ELSE f[i - 1] \o s[i]
             h == [i \in 1..m |-> V(i)]
  <2>4. \A i \in 1..(m - 1) : f[i] = V(i)
    BY <2>3 DEF Joins
  <2>5. \A i \in 1..m : h[i] = IF i = 1 THEN s[i] ELSE h[i - 1] \o s[i]
    <3> SUFFICES ASSUME NEW i \in 1..m, i # 1  PROVE h[i - 1] = f[i - 1]
      OBVIOUS
    <3>1. i - 1 \in 1..(m - 1) /\ i - 1 \in 1..m
      BY <2>2
    <3> QED
      BY <2>4, <3>1
  <2> HIDE DEF V
  <2>6. h = [i \in 1..m |-> h[i]]
    OBVIOUS
  <2> HIDE DEF h
  <2>7. Joins(s, m, h)
    BY <2>5, <2>6 DEF Joins
  <2> QED
    BY <2>1, <2>7
<1> QED
  BY <1>1

(* Sequence s is a stretch of r.                                           *)
Within(s, r) ==
  \E d \in Nat : d + Len(s) <= Len(r) /\ \A j \in 1..Len(s) : r[d + j] = s[j]

(* Everything in r is in s[k] for one of the first n.                      *)
MadeOf(r, s, n) ==
  \A j \in 1..Len(r) : \E k \in 1..n : \E l \in 1..Len(s[k]) : r[j] = s[k][l]

(* r is b after a.                                                         *)
Follows(a, b, r, S) ==
  /\ r \in Seq(S)
  /\ Within(b, r)
  /\ \A c \in Seq(S) : Within(c, a) => Within(c, r)
  /\ \A j \in 1..Len(r) : \/ \E l \in 1..Len(a) : r[j] = a[l]
                          \/ \E l \in 1..Len(b) : r[j] = b[l]

LEMMA JoinWithin ==
  ASSUME NEW S, NEW a \in Seq(S), NEW b \in Seq(S), NEW r, r = a \o b
  PROVE  Follows(a, b, r, S)
<1>1. /\ r \in Seq(S) /\ Len(r) = Len(a) + Len(b)
      /\ \A i \in 1..(Len(a) + Len(b)) : r[i] = IF i <= Len(a) THEN a[i] ELSE b[i - Len(a)]
      /\ Len(a) \in Nat /\ Len(b) \in Nat
  BY ConcatProperties
<1>2. Within(b, r)
  <2>1. \A j \in 1..Len(b) : r[Len(a) + j] = b[j]
    BY <1>1
  <2> QED
    BY <1>1, <2>1 DEF Within
<1>3. ASSUME NEW c \in Seq(S), Within(c, a)  PROVE Within(c, r)
  <2>1. PICK d \in Nat : d + Len(c) <= Len(a) /\ \A j \in 1..Len(c) : a[d + j] = c[j]
    BY <1>3 DEF Within
  <2>2. Len(c) \in Nat
    OBVIOUS
  <2>3. \A j \in 1..Len(c) : r[d + j] = c[j]
    BY <1>1, <2>1, <2>2
  <2>4. d + Len(c) <= Len(r)
    BY <1>1, <2>1, <2>2
  <2> QED
    BY <2>3, <2>4 DEF Within
<1>4. ASSUME NEW j \in 1..Len(r)
      PROVE  \/ \E l \in 1..Len(a) : r[j] = a[l]
             \/ \E l \in 1..Len(b) : r[j] = b[l]
  BY <1>1
<1> QED
  BY <1>1, <1>2, <1>3, <1>4 DEF Follows

LEMMA WithinItself == ASSUME NEW S, NEW s \in Seq(S)  PROVE Within(s, s)
<1>1. 0 + Len(s) <= Len(s) /\ \A j \in 1..Len(s) : s[0 + j] = s[j]
  OBVIOUS
<1> QED
  BY <1>1 DEF Within

LEMMA FlattenFacts ==
  ASSUME NEW S, NEW s \in Seq(Seq(S))
  PROVE  /\ FlattenSeq(s) \in Seq(S)
         /\ MadeOf(FlattenSeq(s), s, Len(s))
         /\ \A k \in 1..Len(s) : Within(s[k], FlattenSeq(s))
<1> DEFINE n == Len(s)
<1>1. CASE n = 0
  <2>1. s = <<>> /\ FlattenSeq(s) = s
    BY <1>1 DEF FlattenSeq
  <2>2. FlattenSeq(s) = <<>> /\ <<>> \in Seq(S) /\ Len(<<>>) = 0
    BY <2>1
  <2>3. MadeOf(FlattenSeq(s), s, Len(s))
    BY <2>2 DEF MadeOf
  <2>4. \A k \in 1..Len(s) : FALSE
    BY <1>1
  <2> QED
    BY <2>2, <2>3, <2>4
<1>2. CASE n # 0
  <2> DEFINE f == CHOOSE f : Joins(s, n, f)
             Good(m) == /\ f[m] \in Seq(S)
                        /\ MadeOf(f[m], s, m)
                        /\ \A k \in 1..m : Within(s[k], f[m])
             B == {m \in Nat : m \in 1..n /\ ~Good(m)}
  <2>1. n \in Nat /\ \A k \in 1..n : s[k] \in Seq(S)
    OBVIOUS
  <2>2. Joins(s, n, f)
    BY <2>1, JoinsExist
  <2> HIDE DEF f
  <2>3. ASSUME B # {}  PROVE FALSE
    <3>0. B \subseteq Nat
      OBVIOUS
    <3> HIDE DEF B
    <3>1. PICK m \in B : \A k \in B : m <= k
      BY <2>3, <3>0, SmallestIndex
    <3> USE DEF B
    <3>2. m \in 1..n /\ m \in Nat /\ ~Good(m)
      BY <3>1
    <3>3. CASE m = 1
      <4>1. f[1] = s[1]
        BY <2>2, <3>2, <3>3 DEF Joins
      <4>2. s[1] \in Seq(S)
        BY <2>1, <3>2, <3>3
      <4>3. MadeOf(f[1], s, 1)
        BY <4>1 DEF MadeOf
      <4> QED
        BY <3>2, <3>3, <4>1, <4>2, <4>3, WithinItself
    <3>4. CASE m # 1
      <4> DEFINE p == m - 1
      <4>1. p \in 1..n /\ p \in Nat /\ p < m
        BY <3>2, <3>4
      <4>2. Good(p)
        BY <3>1, <3>2, <4>1
      <4>3. f[m] = f[p] \o s[m]
        BY <2>2, <3>2, <3>4 DEF Joins
      <4>4. s[m] \in Seq(S) /\ f[p] \in Seq(S)
        BY <2>1, <3>2, <4>2
      <4> DEFINE a == f[p]  b == s[m]  r == f[m]
      <4>5. /\ f[m] \in Seq(S) /\ Within(s[m], f[m])
            /\ \A c \in Seq(S) : Within(c, f[p]) => Within(c, f[m])
            /\ \A j \in 1..Len(f[m]) : \/ \E l \in 1..Len(f[p]) : f[m][j] = f[p][l]
                                       \/ \E l \in 1..Len(s[m]) : f[m][j] = s[m][l]
        <5>1. a \in Seq(S) /\ b \in Seq(S) /\ r = a \o b
          BY <4>3, <4>4
        <5> HIDE DEF a, b, r
        <5>2. Follows(a, b, r, S)
          BY <5>1, JoinWithin
        <5> QED
          BY <5>2 DEF Follows, a, b, r
      <4>6. ASSUME NEW k \in 1..m  PROVE Within(s[k], f[m])
        <5>1. CASE k = m
          BY <4>5, <5>1
        <5>2. CASE k # m
          <6>1. k \in 1..p /\ k \in 1..n
            BY <3>2, <5>2
          <6> QED
            BY <2>1, <4>2, <4>5, <6>1
        <5> QED
          BY <5>1, <5>2
      <4>7. MadeOf(f[m], s, m)
        <5> SUFFICES ASSUME NEW j \in 1..Len(f[m])
                     PROVE  \E k \in 1..m : \E l \in 1..Len(s[k]) : f[m][j] = s[k][l]
          BY DEF MadeOf
        <5>1. CASE \E l \in 1..Len(f[p]) : f[m][j] = f[p][l]
          <6>1. PICK l \in 1..Len(f[p]) : f[m][j] = f[p][l]
            BY <5>1
          <6>2. PICK k \in 1..p : \E h \in 1..Len(s[k]) : f[p][l] = s[k][h]
            BY <4>2 DEF MadeOf
          <6>3. k \in 1..m
            BY <3>2
          <6> QED
            BY <6>1, <6>2, <6>3
        <5>2. CASE \E l \in 1..Len(s[m]) : f[m][j] = s[m][l]
          BY <3>2, <5>2
        <5> QED
          BY <4>5, <5>1, <5>2
      <4> HIDE DEF p
      <4> QED
        BY <3>2, <4>5, <4>6, <4>7
    <3> QED
      BY <3>3, <3>4
  <2>4. Good(n)
    BY <1>2, <2>1, <2>3
  <2>5. FlattenSeq(s) = f[n]
    BY <1>2, FlattenIsTable DEF f
  <2> QED
    BY <2>4, <2>5
<1> QED
  BY <1>1, <1>2

(* Every element of a finite set is somewhere in its sequence.             *)
LEMMA SetToSeqFacts ==
  ASSUME NEW S, IsFiniteSet(S)
  PROVE  /\ SetToSeq(S) \in Seq(S)
         /\ \A x \in S : \E k \in 1..Len(SetToSeq(S)) : SetToSeq(S)[k] = x
<1> DEFINE n == Cardinality(S)
           q == SetToSeq(S)
<1>1. n \in Nat /\ ExistsBijection(1..n, S)
  BY FS_CardinalityType
<1>2. PICK b \in [1..n -> S] : IsInjective(b)
  BY <1>1 DEF ExistsBijection, Bijection, Injection
<1>3. q \in [1..n -> S] /\ IsInjective(q)
  BY <1>2 DEF SetToSeq
<1> HIDE DEF q
<1>4. q \in Seq(S) /\ Len(q) = n
  BY <1>1, <1>3
<1>5. q \in Injection(1..n, S)
  BY <1>3 DEF Injection
<1>6. q \in Surjection(1..n, S)
  <2>1. IsFiniteSet(1..n) /\ Cardinality(1..n) = n
    BY <1>1, FS_Interval
  <2> QED
    BY <1>5, <2>1, FS_Injection
<1>7. \A x \in S : \E k \in 1..n : q[k] = x
  BY <1>6 DEF Surjection
<1> QED
  BY <1>4, <1>7 DEF q

-----------------------------------------------------------------------------
(* The weight of a list, what its elements weigh together, and the order   *)
(* of its elements, when it is laid out piece by piece.                    *)

Total(w, q) == SumFunctionOnSet([k \in 1..Len(q) |-> w[q[k]]], 1..Len(q))

LEMMA SumExtends ==
  ASSUME NEW n \in Nat, NEW f, \A k \in 1..(n + 1) : f[k] \in Int
  PROVE  /\ SumFunctionOnSet(f, 1..n) \in Int
         /\ SumFunctionOnSet(f, 1..(n + 1)) = SumFunctionOnSet(f, 1..n) + f[n + 1]
<1>1. IsFiniteSet(1..(n + 1)) /\ IsFiniteSet(1..n)
  BY FS_Interval
<1>2. (1..(n + 1)) \ {n + 1} = 1..n /\ n + 1 \in 1..(n + 1)
  OBVIOUS
<1>3. \A k \in 1..n : f[k] \in Int
  OBVIOUS
<1>4. SumFunctionOnSet(f, 1..n) \in Int
  BY <1>1, <1>3, SumInt
<1>5. SumFunctionOnSet(f, 1..(n + 1)) = f[n + 1] + SumFunctionOnSet(f, (1..(n + 1)) \ {n + 1})
  <2> DEFINE T == 1..(n + 1)
  <2> HIDE DEF T
  <2>1. IsFiniteSet(T) /\ n + 1 \in T /\ \A k \in T : f[k] \in Int
    BY <1>1 DEF T
  <2>2. SumFunctionOnSet(f, T) = f[n + 1] + SumFunctionOnSet(f, T \ {n + 1})
    BY <2>1, SumTakes
  <2> QED
    BY <2>2 DEF T
<1>6. f[n + 1] \in Int
  OBVIOUS
<1>7. SumFunctionOnSet(f, (1..(n + 1)) \ {n + 1}) = SumFunctionOnSet(f, 1..n)
  BY <1>2
<1> QED
  BY <1>4, <1>5, <1>6, <1>7

LEMMA TotalInt ==
  ASSUME NEW S, NEW w, \A x \in S : w[x] \in Int, NEW q \in Seq(S)
  PROVE  Total(w, q) \in Int
<1> DEFINE f == [k \in 1..Len(q) |-> w[q[k]]]
<1>1. IsFiniteSet(1..Len(q))
  <2>1. Len(q) \in Nat
    OBVIOUS
  <2> QED
    BY <2>1, FS_Interval
<1>2. \A k \in 1..Len(q) : f[k] \in Int
  OBVIOUS
<1> HIDE DEF f
<1>3. SumFunctionOnSet(f, 1..Len(q)) \in Int
  BY <1>1, <1>2, SumInt
<1> QED
  BY <1>3 DEF Total, f

LEMMA SumInTwo ==
  ASSUME NEW l \in Nat, NEW n \in Nat, NEW h, NEW g,
         \A k \in 1..(l + n) : h[k] \in Int, \A k \in 1..n : g[k] = h[l + k]
  PROVE  SumFunctionOnSet(h, 1..(l + n)) = SumFunctionOnSet(h, 1..l) + SumFunctionOnSet(g, 1..n)
<1> DEFINE Good(m) == SumFunctionOnSet(h, 1..(l + m))
                        = SumFunctionOnSet(h, 1..l) + SumFunctionOnSet(g, 1..m)
           B == {m \in Nat : m <= n /\ ~Good(m)}
<1>1. ASSUME B # {}  PROVE FALSE
  <2>0. B \subseteq Nat
    OBVIOUS
  <2> HIDE DEF B
  <2>1. PICK m \in B : \A k \in B : m <= k
    BY <1>1, <2>0, SmallestIndex
  <2> USE DEF B
  <2>2. SumFunctionOnSet(h, 1..l) \in Int
    <3>1. IsFiniteSet(1..l) /\ \A k \in 1..l : h[k] \in Int
      BY FS_Interval
    <3> QED
      BY <3>1, SumInt
  <2>3. CASE m = 0
    <3>1. 1..(l + 0) = 1..l /\ 1..0 = {}
      OBVIOUS
    <3>2. SumFunctionOnSet(g, 1..0) = 0
      BY <3>1, SumEmpty
    <3> QED
      BY <2>1, <2>2, <2>3, <3>1, <3>2
  <2>4. CASE m # 0
    <3> DEFINE p == m - 1
    <3>1. p \in Nat /\ m = p + 1 /\ p < m /\ m <= n
      BY <2>1, <2>4
    <3>2. Good(p)
      BY <2>1, <3>1
    <3>3. SumFunctionOnSet(h, 1..((l + p) + 1)) = SumFunctionOnSet(h, 1..(l + p)) + h[(l + p) + 1]
      <4>1. l + p \in Nat /\ \A k \in 1..((l + p) + 1) : h[k] \in Int
        BY <3>1
      <4> QED
        BY <4>1, SumExtends
    <3>4. /\ SumFunctionOnSet(g, 1..p) \in Int
          /\ SumFunctionOnSet(g, 1..(p + 1)) = SumFunctionOnSet(g, 1..p) + g[p + 1]
      <4>1. \A k \in 1..(p + 1) : g[k] \in Int
        BY <3>1
      <4> QED
        BY <3>1, <4>1, SumExtends
    <3>5. g[p + 1] = h[(l + p) + 1] /\ h[(l + p) + 1] \in Int /\ (l + p) + 1 = l + m
      BY <3>1
    <3> HIDE DEF p
    <3>6. Good(m)
      BY <2>2, <3>1, <3>2, <3>3, <3>4, <3>5
    <3> QED
      BY <2>1, <3>6
  <2> QED
    BY <2>3, <2>4
<1> QED
  BY <1>1

LEMMA TotalJoins ==
  ASSUME NEW S, NEW w, \A x \in S : w[x] \in Int, NEW a \in Seq(S), NEW b \in Seq(S)
  PROVE  Total(w, a \o b) = Total(w, a) + Total(w, b)
<1> DEFINE r == a \o b
           l == Len(a)
           n == Len(b)
           h == [k \in 1..Len(r) |-> w[r[k]]]
           f == [k \in 1..l |-> w[a[k]]]
           g == [k \in 1..n |-> w[b[k]]]
<1>1. /\ r \in Seq(S) /\ Len(r) = l + n /\ l \in Nat /\ n \in Nat
      /\ \A i \in 1..(l + n) : r[i] = IF i <= l THEN a[i] ELSE b[i - l]
  BY ConcatProperties
<1>2. \A i \in 1..l : r[i] = a[i] /\ i \in 1..Len(r)
  BY <1>1
<1>3. \A i \in 1..n : r[l + i] = b[i] /\ l + i \in 1..Len(r)
  <2> SUFFICES ASSUME NEW i \in 1..n  PROVE r[l + i] = b[i] /\ l + i \in 1..Len(r)
    OBVIOUS
  <2>1. l + i \in 1..(l + n) /\ ~(l + i <= l) /\ (l + i) - l = i
    BY <1>1
  <2> QED
    BY <1>1, <2>1
<1>4. \A i \in 1..Len(r) : r[i] \in S
  BY <1>1
<1> HIDE DEF r
<1>5. \A k \in 1..(l + n) : h[k] \in Int
  BY <1>1, <1>4
<1>6. (\A k \in 1..l : h[k] = f[k]) /\ \A k \in 1..n : g[k] = h[l + k]
  BY <1>2, <1>3
<1>7. Total(w, r) = SumFunctionOnSet(h, 1..(l + n))
  BY <1>1 DEF Total
<1>8. Total(w, a) = SumFunctionOnSet(f, 1..l) /\ Total(w, b) = SumFunctionOnSet(g, 1..n)
  BY DEF Total
<1> HIDE DEF h, f, g, l, n
<1>9. SumFunctionOnSet(h, 1..(l + n)) = SumFunctionOnSet(h, 1..l) + SumFunctionOnSet(g, 1..n)
  BY <1>1, <1>5, <1>6, SumInTwo
<1>10. SumFunctionOnSet(h, 1..l) = SumFunctionOnSet(f, 1..l)
  <2>1. IsFiniteSet(1..l)
    BY <1>1, FS_Interval
  <2> QED
    BY <1>6, <2>1, SumAgrees
<1> QED
  BY <1>7, <1>8, <1>9, <1>10 DEF r

LEMMA FlattenTable ==
  ASSUME NEW S, NEW s \in Seq(Seq(S)), Len(s) # 0
  PROVE  \E f : /\ f[1] = s[1] /\ FlattenSeq(s) = f[Len(s)]
                /\ \A m \in 1..Len(s) : f[m] \in Seq(S) /\ (m # 1 => f[m] = f[m - 1] \o s[m])
<1> DEFINE n == Len(s)
           f == CHOOSE f : Joins(s, n, f)
           B == {m \in Nat : m \in 1..n /\ ~(f[m] \in Seq(S))}
<1>1. n \in Nat /\ n # 0 /\ \A k \in 1..n : s[k] \in Seq(S)
  OBVIOUS
<1>2. Joins(s, n, f)
  BY <1>1, JoinsExist
<1>3. FlattenSeq(s) = f[n]
  BY FlattenIsTable
<1> HIDE DEF f
<1>4. \A m \in 1..n : f[m] = IF m = 1 THEN s[m] ELSE f[m - 1] \o s[m]
  BY <1>2 DEF Joins
<1>5. ASSUME B # {}  PROVE FALSE
  <2>0. B \subseteq Nat
    OBVIOUS
  <2> HIDE DEF B
  <2>1. PICK m \in B : \A k \in B : m <= k
    BY <1>5, <2>0, SmallestIndex
  <2> USE DEF B
  <2>2. m \in 1..n /\ f[m] \notin Seq(S) /\ m # 1
    BY <1>1, <1>4, <2>1
  <2>3. m - 1 \in 1..n /\ m - 1 \in Nat /\ m - 1 < m
    BY <1>1, <2>2
  <2>4. f[m - 1] \in Seq(S)
    BY <2>1, <2>3
  <2>5. f[m - 1] \o s[m] \in Seq(S)
    BY <1>1, <2>2, <2>4, ConcatProperties
  <2> QED
    BY <1>4, <2>2, <2>5
<1>6. f[1] = s[1]
  BY <1>1, <1>4
<1>7. ASSUME NEW m \in 1..n  PROVE f[m] \in Seq(S) /\ (m # 1 => f[m] = f[m - 1] \o s[m])
  <2>1. m \in Nat
    BY <1>1
  <2>2. m \notin B
    BY <1>5
  <2> QED
    BY <1>4, <2>1, <2>2
<1> HIDE DEF B
<1> QED
  BY <1>3, <1>6, <1>7

LEMMA TotalShort ==
  ASSUME NEW S, NEW w, \A x \in S : w[x] \in Int
  PROVE  /\ Total(w, <<>>) = 0
         /\ \A x \in S : Total(w, <<x>>) = w[x]
         /\ \A x, y \in S : Total(w, <<x, y>>) = w[x] + w[y]
<1>1. Total(w, <<>>) = 0
  <2>1. 1..Len(<<>>) = {}
    OBVIOUS
  <2> QED
    BY <2>1, SumEmpty DEF Total
<1>2. ASSUME NEW x \in S  PROVE Total(w, <<x>>) = w[x]
  <2> DEFINE f == [k \in 1..1 |-> w[<<x>>[k]]]
  <2>1. Total(w, <<x>>) = SumFunctionOnSet(f, 1..1)
    BY DEF Total
  <2>2. f[1] = w[x] /\ \A k \in 1..(0 + 1) : f[k] \in Int
    OBVIOUS
  <2> HIDE DEF f
  <2>3. SumFunctionOnSet(f, 1..(0 + 1)) = SumFunctionOnSet(f, 1..0) + f[0 + 1]
    BY <2>2, SumExtends
  <2>4. SumFunctionOnSet(f, 1..0) = 0
    <3>1. 1..0 = {}
      OBVIOUS
    <3> QED
      BY <3>1, SumEmpty
  <2>5. w[x] \in Int
    OBVIOUS
  <2> QED
    BY <2>1, <2>2, <2>3, <2>4, <2>5
<1>3. ASSUME NEW x \in S, NEW y \in S  PROVE Total(w, <<x, y>>) = w[x] + w[y]
  <2> DEFINE f == [k \in 1..2 |-> w[<<x, y>>[k]]]
  <2>1. Total(w, <<x, y>>) = SumFunctionOnSet(f, 1..2)
    BY DEF Total
  <2>2. f[1] = w[x] /\ f[2] = w[y] /\ w[x] \in Int /\ w[y] \in Int
    OBVIOUS
  <2> HIDE DEF f
  <2>3. SumFunctionOnSet(f, 1..(0 + 1)) = SumFunctionOnSet(f, 1..0) + f[0 + 1]
    <3>1. \A k \in 1..(0 + 1) : f[k] \in Int
      BY <2>2
    <3> QED
      BY <3>1, SumExtends
  <2>4. SumFunctionOnSet(f, 1..(1 + 1)) = SumFunctionOnSet(f, 1..1) + f[1 + 1]
    <3>1. \A k \in 1..(1 + 1) : f[k] \in Int
      BY <2>2
    <3> QED
      BY <3>1, SumExtends
  <2>5. SumFunctionOnSet(f, 1..0) = 0
    <3>1. 1..0 = {}
      OBVIOUS
    <3> QED
      BY <3>1, SumEmpty
  <2> QED
    BY <2>1, <2>2, <2>3, <2>4, <2>5
<1> QED
  BY <1>1, <1>2, <1>3

(* A list laid out piece by piece weighs what its pieces weigh.            *)
LEMMA TotalFlatten ==
  ASSUME NEW S, NEW w, \A x \in S : w[x] \in Int, NEW s \in Seq(Seq(S))
  PROVE  Total(w, FlattenSeq(s))
           = SumFunctionOnSet([k \in 1..Len(s) |-> Total(w, s[k])], 1..Len(s))
<1> DEFINE n == Len(s)
           g == [k \in 1..n |-> Total(w, s[k])]
<1>1. CASE n = 0
  <2>1. s = <<>> /\ FlattenSeq(s) = s /\ 1..n = {}
    BY <1>1 DEF FlattenSeq
  <2> QED
    BY <2>1, TotalShort, SumEmpty
<1>2. CASE n # 0
  <2>1. PICK f : /\ f[1] = s[1] /\ FlattenSeq(s) = f[n]
                 /\ \A m \in 1..n : f[m] \in Seq(S) /\ (m # 1 => f[m] = f[m - 1] \o s[m])
    BY <1>2, FlattenTable
  <2> DEFINE Good(m) == Total(w, f[m]) = SumFunctionOnSet(g, 1..m)
             B == {m \in Nat : m \in 1..n /\ ~Good(m)}
  <2>2. n \in Nat /\ \A k \in 1..n : s[k] \in Seq(S)
    OBVIOUS
  <2>3. \A k \in 1..n : g[k] = Total(w, s[k]) /\ g[k] \in Int
    BY <2>2, TotalInt
  <2> HIDE DEF g
  <2>4. ASSUME B # {}  PROVE FALSE
    <3>0. B \subseteq Nat
      OBVIOUS
    <3> HIDE DEF B
    <3>1. PICK m \in B : \A k \in B : m <= k
      BY <2>4, <3>0, SmallestIndex
    <3> USE DEF B
    <3> DEFINE p == m - 1
    <3>2. m \in 1..n /\ p \in Nat /\ m = p + 1 /\ p < m
      BY <2>2, <3>1
    <3>3. /\ SumFunctionOnSet(g, 1..p) \in Int
          /\ SumFunctionOnSet(g, 1..(p + 1)) = SumFunctionOnSet(g, 1..p) + g[p + 1]
      <4>1. \A k \in 1..(p + 1) : g[k] \in Int
        BY <2>2, <2>3, <3>2
      <4> QED
        BY <3>2, <4>1, SumExtends
    <3>4. CASE m = 1
      <4>1. 1..p = {}
        BY <3>2, <3>4
      <4>2. SumFunctionOnSet(g, 1..p) = 0
        BY <4>1, SumEmpty
      <4>3. Total(w, f[m]) = g[m] /\ g[m] \in Int
        BY <2>1, <2>3, <3>2, <3>4
      <4> HIDE DEF p
      <4> QED
        BY <3>1, <3>2, <3>3, <4>2, <4>3
    <3>5. CASE m # 1
      <4>1. p \in 1..n
        BY <2>2, <3>2, <3>5
      <4>2. Good(p)
        BY <3>1, <3>2, <4>1
      <4>3. f[m] = f[p] \o s[m] /\ f[p] \in Seq(S) /\ s[m] \in Seq(S)
        BY <2>1, <2>2, <3>2, <3>5, <4>1
      <4>4. Total(w, f[p] \o s[m]) = Total(w, f[p]) + Total(w, s[m])
        BY <4>3, TotalJoins
      <4>5. g[m] = Total(w, s[m])
        BY <2>3, <3>2
      <4> HIDE DEF p
      <4> QED
        BY <3>1, <3>2, <3>3, <4>2, <4>3, <4>4, <4>5
    <3> QED
      BY <3>4, <3>5
  <2>5. Good(n)
    BY <1>2, <2>2, <2>4
  <2> QED
    BY <2>1, <2>5 DEF g
<1> QED
  BY <1>1, <1>2

(* Its elements come in the order of their pieces.                         *)
LEMMA FlattenOrder ==
  ASSUME NEW S, NEW s \in Seq(Seq(S)),
         NEW i \in 1..Len(FlattenSeq(s)), NEW j \in 1..Len(FlattenSeq(s)), i < j
  PROVE  \E a, b \in 1..Len(s) :
           /\ a <= b
           /\ \E l \in 1..Len(s[a]) : FlattenSeq(s)[i] = s[a][l]
           /\ \E l \in 1..Len(s[b]) : FlattenSeq(s)[j] = s[b][l]
<1> DEFINE n == Len(s)
           In(x, q) == \E l \in 1..Len(q) : x = q[l]
           Placed(r, m) == \A x \in 1..Len(r) : \E a \in 1..m : In(r[x], s[a])
           Placed2(r, m) == \A x, y \in 1..Len(r) : x < y =>
                             \E a, b \in 1..m : a <= b /\ In(r[x], s[a]) /\ In(r[y], s[b])
<1>1. n # 0
  <2>1. CASE n = 0
    <3>1. s = <<>> /\ FlattenSeq(s) = s
      BY <2>1 DEF FlattenSeq
    <3> QED
      BY <3>1
  <2> QED
    BY <2>1
<1>2. PICK f : /\ f[1] = s[1] /\ FlattenSeq(s) = f[n]
               /\ \A m \in 1..n : f[m] \in Seq(S) /\ (m # 1 => f[m] = f[m - 1] \o s[m])
  BY <1>1, FlattenTable
<1>3. n \in Nat /\ \A k \in 1..n : s[k] \in Seq(S)
  OBVIOUS
<1> DEFINE Good(m) == Placed(f[m], m) /\ Placed2(f[m], m)
           B == {m \in Nat : m \in 1..n /\ ~Good(m)}
<1>4. ASSUME B # {}  PROVE FALSE
  <2>0. B \subseteq Nat
    OBVIOUS
  <2> HIDE DEF B
  <2>1. PICK m \in B : \A k \in B : m <= k
    BY <1>4, <2>0, SmallestIndex
  <2> USE DEF B
  <2>2. m \in 1..n /\ m \in Nat /\ ~Good(m)
    BY <2>1
  <2>3. CASE m = 1
    <3>1. \A x \in 1..Len(f[1]) : In(f[1][x], s[1])
      BY <1>2
    <3> HIDE DEF In
    <3> QED
      BY <2>2, <2>3, <3>1
  <2>4. CASE m # 1
    <3> DEFINE p == m - 1
    <3>1. p \in 1..n /\ p \in Nat /\ p < m /\ p + 1 = m
      BY <1>3, <2>2, <2>4
    <3>2. Good(p)
      <4> HIDE DEF Placed, Placed2, p
      <4> QED
        BY <2>1, <3>1
    <3> DEFINE u == f[p]  v == s[m]  r == f[m]  l == Len(u)
    <3>3. u \in Seq(S) /\ v \in Seq(S) /\ r = u \o v
      BY <1>2, <1>3, <2>2, <2>4, <3>1
    <3>4. Placed(u, p) /\ Placed2(u, p)
      BY <3>2
    <3> HIDE DEF u, v, r, p
    <3>5. /\ Len(r) = l + Len(v) /\ l \in Nat /\ Len(v) \in Nat
          /\ \A x \in 1..(l + Len(v)) : r[x] = IF x <= l THEN u[x] ELSE v[x - l]
      BY <3>3, ConcatProperties
    <3>6. \A x \in 1..Len(r) : x <= l => x \in 1..l /\ r[x] = u[x]
      BY <3>5
    <3>7. \A x \in 1..Len(r) : ~(x <= l) => In(r[x], v)
      <4> SUFFICES ASSUME NEW x \in 1..Len(r), ~(x <= l)  PROVE In(r[x], v)
        OBVIOUS
      <4>1. x - l \in 1..Len(v) /\ r[x] = v[x - l]
        BY <3>5
      <4> QED
        BY <4>1
    <3>8. v = s[m] /\ r = f[m] /\ m \in 1..m /\ \A a \in 1..p : a \in 1..m /\ a <= m
      BY <2>2, <3>1 DEF v, r
    <3> HIDE DEF In
    <3>9. Placed(r, m)
      <4> SUFFICES ASSUME NEW x \in 1..Len(r)  PROVE \E a \in 1..m : In(r[x], s[a])
        OBVIOUS
      <4> QED
        BY <3>4, <3>6, <3>7, <3>8
    <3>10. Placed2(r, m)
      <4> SUFFICES ASSUME NEW x \in 1..Len(r), NEW y \in 1..Len(r), x < y
                   PROVE  \E a, b \in 1..m : a <= b /\ In(r[x], s[a]) /\ In(r[y], s[b])
        OBVIOUS
      <4>1. CASE y <= l
        <5>1. x <= l
          BY <3>5, <4>1
        <5>2. x \in 1..l /\ y \in 1..l /\ r[x] = u[x] /\ r[y] = u[y]
          BY <3>6, <4>1, <5>1
        <5>3. PICK a \in 1..p, b \in 1..p : a <= b /\ In(u[x], s[a]) /\ In(u[y], s[b])
          BY <3>4, <5>2
        <5> QED
          BY <3>8, <5>2, <5>3
      <4>2. CASE ~(y <= l) /\ x <= l
        <5>1. PICK a \in 1..p : In(u[x], s[a])
          BY <3>4, <3>6, <4>2
        <5>2. a \in 1..m /\ a <= m /\ In(r[x], s[a]) /\ In(r[y], s[m])
          BY <3>6, <3>7, <3>8, <4>2, <5>1
        <5> QED
          BY <3>8, <5>2
      <4>3. CASE ~(y <= l) /\ ~(x <= l)
        <5>1. In(r[x], s[m]) /\ In(r[y], s[m]) /\ m <= m
          BY <2>2, <3>7, <3>8, <4>3
        <5> QED
          BY <3>8, <5>1
      <4> QED
        BY <4>1, <4>2, <4>3
    <3> QED
      BY <2>2, <3>8, <3>9, <3>10
  <2> QED
    BY <2>3, <2>4
<1>5. Good(n)
  <2> HIDE DEF Placed, Placed2
  <2>1. n \in 1..n
    BY <1>1, <1>3
  <2> QED
    BY <1>3, <1>4, <2>1
<1> HIDE DEF In
<1>6. \E a, b \in 1..n : a <= b /\ In(FlattenSeq(s)[i], s[a]) /\ In(FlattenSeq(s)[j], s[b])
  BY <1>2, <1>5
<1> QED
  BY <1>6 DEF In

(* Pieces of one element each are that list.                               *)
LEMMA FlattenSingles ==
  ASSUME NEW S, NEW x \in Seq(S), NEW s \in Seq(Seq(S)), Len(s) = Len(x),
         \A k \in 1..Len(s) : s[k] = <<x[k]>>
  PROVE  FlattenSeq(s) = x
<1> DEFINE n == Len(s)
<1>1. n \in Nat
  OBVIOUS
<1>2. CASE n = 0
  <2>1. s = <<>> /\ FlattenSeq(s) = s
    BY <1>2 DEF FlattenSeq
  <2>2. x = <<>>
    <3>1. Len(x) = 0 /\ x \in Seq(S)
      BY <1>2
    <3> QED
      BY ONLY <3>1
  <2> QED
    BY <2>1, <2>2
<1>3. CASE n # 0
  <2>1. PICK f : /\ f[1] = s[1] /\ FlattenSeq(s) = f[n]
                 /\ \A m \in 1..n : f[m] \in Seq(S) /\ (m # 1 => f[m] = f[m - 1] \o s[m])
    <3>1. s \in Seq(Seq(S)) /\ Len(s) # 0
      BY <1>3
    <3> QED
      BY ONLY <3>1, FlattenTable
  <2> DEFINE Good(m) == Len(f[m]) = m /\ \A j \in 1..m : f[m][j] = x[j]
             B == {m \in Nat : m \in 1..n /\ ~Good(m)}
  <2>2. ASSUME B # {}  PROVE FALSE
    <3>0. B \subseteq Nat
      OBVIOUS
    <3> HIDE DEF B
    <3>1. PICK m \in B : \A k \in B : m <= k
      BY <2>2, <3>0, SmallestIndex
    <3> USE DEF B
    <3>2. m \in 1..n /\ m \in Nat /\ ~Good(m)
      BY <3>1
    <3>3. CASE m = 1
      <4>1. f[1] = <<x[1]>>
        BY <2>1, <3>2, <3>3
      <4>2. Len(<<x[1]>>) = 1 /\ <<x[1]>>[1] = x[1]
        OBVIOUS
      <4> QED
        BY <3>2, <3>3, <4>1, <4>2
    <3>4. CASE m # 1
      <4> DEFINE p == m - 1
      <4>1. p \in 1..n /\ p \in Nat /\ p < m /\ m = p + 1
        BY <1>1, <3>2, <3>4
      <4>2. Good(p)
        <5> HIDE DEF Good, p
        <5> QED
          BY <3>1, <4>1
      <4> DEFINE u == f[p]  v == s[m]
      <4>3. u \in Seq(S) /\ v \in Seq(S) /\ f[m] = u \o v /\ v = <<x[m]>>
        <5>1. u \in Seq(S) /\ f[m] = u \o v
          BY <2>1, <3>2, <3>4, <4>1
        <5>2. v \in Seq(S)
          BY <3>2
        <5>3. v = <<x[m]>>
          BY <3>2
        <5> QED
          BY <5>1, <5>2, <5>3
      <4>4. Len(u) = p /\ (\A j \in 1..p : u[j] = x[j]) /\ Len(v) = 1 /\ v[1] = x[m]
        BY <4>2, <4>3
      <4> HIDE DEF u, v, p
      <4>5. /\ Len(f[m]) = p + 1
            /\ \A j \in 1..(p + 1) : f[m][j] = IF j <= p THEN u[j] ELSE v[j - p]
        BY <4>3, <4>4, ConcatProperties
      <4>6. ASSUME NEW j \in 1..m  PROVE f[m][j] = x[j]
        <5>1. CASE j = m
          <6>1. j - p = 1 /\ ~(j <= p) /\ j \in 1..(p + 1)
            BY <4>1, <5>1
          <6> QED
            BY <4>4, <4>5, <5>1, <6>1
        <5>2. CASE j # m
          <6>1. j \in 1..p /\ j <= p /\ j \in 1..(p + 1)
            BY <4>1, <5>2
          <6> QED
            BY <4>4, <4>5, <6>1
        <5> QED
          BY <5>1, <5>2
      <4> QED
        BY <3>2, <4>1, <4>5, <4>6
    <3> QED
      BY <3>3, <3>4
  <2>3. n \in 1..n /\ n \in Nat
    BY <1>1, <1>3
  <2>4. Good(n)
    <3> HIDE DEF Good
    <3> QED
      BY <2>2, <2>3
  <2>5. f[n] \in Seq(S) /\ Len(f[n]) = Len(x) /\ \A j \in 1..Len(f[n]) : f[n][j] = x[j]
    BY <2>1, <2>3, <2>4
  <2>6. f[n] = x
    BY <2>5, SeqEqual
  <2> QED
    BY <2>1, <2>6
<1> QED
  BY <1>2, <1>3

=============================================================================
