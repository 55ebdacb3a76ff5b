-------------------------- MODULE StatisticsProofs --------------------------
(***************************************************************************)
(* Facts about the operators the statistics are built from, for all tables *)
(* of any size: sums, the parts of a partition, nearest ranks and the      *)
(* first of an order.                                                      *)
(***************************************************************************)
EXTENDS Statistics, FiniteSetTheorems, WellFoundedInduction, TLAPS

-----------------------------------------------------------------------------
(* Induction over a finite set, for a set of its subsets                   *)

\* A set of naturals has a least element.
LEMMA Least ==
  ASSUME NEW S, S \subseteq Nat, S # {}
  PROVE  Min(S) \in S /\ \A x \in S : Min(S) <= x
<1>1. \A R, A, X : IsWellFoundedOn(R, A) /\ X \subseteq A /\ X # {}
                     => \E x \in X : \A y \in X : <<y, x>> \notin R
  BY WFMin
<1>2. PICK x \in S : \A y \in S : <<y, x>> \notin OpToRel(<, Nat)
  <2>1. IsWellFoundedOn(OpToRel(<, Nat), Nat)
    BY NatLessThanWellFounded
  <2> HIDE DEF IsWellFoundedOn, OpToRel
  <2> QED
    BY <1>1, <2>1
<1>3. \A y \in S : ~(y < x)
  BY <1>2 DEF OpToRel
<1>4. \A y \in S : x <= y
  BY <1>3
<1>5. Min(S) \in S /\ \A y \in S : Min(S) <= y
  BY <1>4, Zenon DEF Min
<1> QED
  BY <1>5

\* Q holds of every natural: the least one it fails of would follow one it
\* holds of.
LEMMA Naturals ==
  ASSUME NEW Q, 0 \in Q, \A n \in Nat : n \in Q => n + 1 \in Q
  PROVE  Nat \subseteq Q
<1> SUFFICES ASSUME Nat \ Q # {} PROVE FALSE
  OBVIOUS
<1>1. PICK m \in Nat \ Q : \A n \in Nat \ Q : m <= n
  <2>1. Nat \ Q \subseteq Nat
    OBVIOUS
  <2> QED
    BY <2>1, Least
<1>2. m # 0 /\ m - 1 \in Nat
  BY <1>1
<1>3. m - 1 \in Q
  BY <1>1, <1>2
<1> QED
  BY <1>1, <1>2, <1>3

\* The subsets of a finite set, and each with an element less.
LEMMA Fewer ==
  ASSUME NEW D, IsFiniteSet(D), NEW s \in SUBSET D
  PROVE  /\ IsFiniteSet(s) /\ Cardinality(s) \in Nat
         /\ Cardinality(s) = 0 <=> s = {}
         /\ \A x \in s : s \ {x} \in SUBSET D /\ Cardinality(s \ {x}) = Cardinality(s) - 1
<1>1. IsFiniteSet(s)
  BY FS_Subset
<1> QED
  BY <1>1, FS_CardinalityType, FS_EmptySet, FS_RemoveElement

\* Q holds of a finite set if it holds of {} and of each of its subsets of
\* which it holds with any element less.
LEMMA SubsetsByAll ==
  ASSUME NEW D, IsFiniteSet(D), NEW Q, {} \in Q,
         \A s \in SUBSET D : s # {} /\ (\A x \in s : s \ {x} \in Q) => s \in Q
  PROVE  SUBSET D \subseteq Q
<1> DEFINE P(n) == \A s \in SUBSET D : Cardinality(s) = n => s \in Q
<1>1. \A s \in SUBSET D : /\ Cardinality(s) \in Nat /\ (Cardinality(s) = 0 <=> s = {})
                          /\ \A x \in s : s \ {x} \in SUBSET D /\ Cardinality(s \ {x}) = Cardinality(s) - 1
  BY Fewer
<1>2. P(0)
  BY <1>1
<1>3. ASSUME NEW n \in Nat, P(n) PROVE P(n + 1)
  <2> SUFFICES ASSUME NEW s \in SUBSET D, Cardinality(s) = n + 1 PROVE s \in Q
    OBVIOUS
  <2>1. s # {}
    BY <1>1
  <2>2. \A x \in s : Cardinality(s \ {x}) = n /\ s \ {x} \in SUBSET D
    BY <1>1
  <2>3. \A x \in s : s \ {x} \in Q
    BY <1>3, <2>2
  <2> QED
    BY <2>1, <2>3
<1>4. \A n \in Nat : P(n)
  <2> DEFINE N == {n \in Nat : P(n)}
  <2> HIDE DEF P
  <2>1. 0 \in N /\ (\A n \in Nat : n \in N => n + 1 \in N) /\ (\A n \in N : P(n))
    BY <1>2, <1>3
  <2> HIDE DEF N
  <2>2. Nat \subseteq N
    BY <2>1, Naturals
  <2> QED
    BY <2>1, <2>2
<1> QED
  BY <1>1, <1>4

\* It is enough that one such element suffices.
LEMMA Subsets ==
  ASSUME NEW D, IsFiniteSet(D), NEW Q, {} \in Q,
         \A s \in SUBSET D : \A x \in s : s \ {x} \in Q => s \in Q
  PROVE  SUBSET D \subseteq Q
<1>1. ASSUME NEW s \in SUBSET D, s # {}, \A x \in s : s \ {x} \in Q PROVE s \in Q
  BY <1>1
<1> QED
  BY <1>1, SubsetsByAll

-----------------------------------------------------------------------------
(* Recursion over the subsets of a finite set                              *)

\* The element a fold takes first.
Picked(s) == CHOOSE x \in s : TRUE

LEMMA PickedIn == \A s : s # {} => Picked(s) \in s
<1> SUFFICES ASSUME NEW s, NEW y \in s PROVE Picked(s) \in s
  OBVIOUS
<1> QED
  BY DEF Picked

\* The solutions of a recursion that takes away one element at a time.
Solutions(D, V, b, R) ==
  {h \in [SUBSET D -> V] : \A s \in SUBSET D :
     h[s] = IF s = {} THEN b ELSE R[<<Picked(s), h[s \ {Picked(s)}]>>]}

\* It has one.
LEMMA Recursion ==
  ASSUME NEW D, IsFiniteSet(D), NEW V, NEW b \in V, NEW R,
         \A x \in D : \A v \in V : R[<<x, v>>] \in V
  PROVE  Solutions(D, V, b, R) # {}
<1> DEFINE Small(n) == {s \in SUBSET D : Cardinality(s) <= n}
           Solves(h, n) == \A s \in Small(n) :
                             h[s] = IF s = {} THEN b ELSE R[<<Picked(s), h[s \ {Picked(s)}]>>]
           P(n) == \E h \in [Small(n) -> V] : Solves(h, n)
<1>1. \A s \in SUBSET D : /\ Cardinality(s) \in Nat /\ (Cardinality(s) = 0 <=> s = {})
                          /\ s # {} => /\ Picked(s) \in D /\ s \ {Picked(s)} \in SUBSET D
                                       /\ Cardinality(s \ {Picked(s)}) = Cardinality(s) - 1
  BY Fewer, PickedIn
<1>2. P(0)
  <2> DEFINE h == [s \in Small(0) |-> b]
  <2>1. \A s \in Small(0) : s = {}
    <3>1. \A s \in SUBSET D : Cardinality(s) \in Nat /\ (Cardinality(s) = 0 <=> s = {})
      BY <1>1
    <3> QED
      BY <3>1
  <2>2. h \in [Small(0) -> V] /\ Solves(h, 0)
    BY <2>1
  <2> QED
    BY <2>2
<1>3. ASSUME NEW n \in Nat, P(n) PROVE P(n + 1)
  <2>1. PICK h \in [Small(n) -> V] : Solves(h, n)
    BY <1>3
  <2> DEFINE Step(s) == IF s = {} THEN b ELSE R[<<Picked(s), h[s \ {Picked(s)}]>>]
             k == [s \in Small(n + 1) |-> Step(s)]
  <2>2. \A s \in Small(n + 1) : s # {} => Picked(s) \in D /\ s \ {Picked(s)} \in Small(n)
    BY <1>1
  <2>3. \A s \in Small(n) : s \in Small(n + 1) /\ Step(s) = h[s]
    BY <1>1, <2>1
  <2>4. \A s \in Small(n) : h[s] \in V
    BY <2>1
  <2> HIDE DEF Small
  <2>5. \A s \in Small(n + 1) : Step(s) \in V
    <3> SUFFICES ASSUME NEW s \in Small(n + 1) PROVE Step(s) \in V
      OBVIOUS
    <3>1. CASE s = {}
      BY <3>1
    <3>2. CASE s # {}
      <4>1. Picked(s) \in D /\ h[s \ {Picked(s)}] \in V
        BY <2>2, <2>4, <3>2
      <4>2. R[<<Picked(s), h[s \ {Picked(s)}]>>] \in V
        BY <4>1
      <4> QED
        BY <3>2, <4>2
    <3> QED
      BY <3>1, <3>2
  <2> HIDE DEF Step
  <2>6. k \in [Small(n + 1) -> V] /\ \A s \in Small(n + 1) : k[s] = Step(s)
    BY <2>5
  <2> HIDE DEF k
  <2>7. \A s \in Small(n + 1) : s # {} => k[s \ {Picked(s)}] = h[s \ {Picked(s)}]
    BY <2>2, <2>3, <2>6
  <2>8. \A s \in Small(n + 1) :
          k[s] = IF s = {} THEN b ELSE R[<<Picked(s), k[s \ {Picked(s)}]>>]
    BY <2>6, <2>7 DEF Step
  <2> QED
    BY <2>6, <2>8
<1>4. P(Cardinality(D))
  <2> DEFINE N == {n \in Nat : P(n)}
  <2> HIDE DEF P
  <2>1. 0 \in N /\ (\A n \in Nat : n \in N => n + 1 \in N) /\ (\A n \in N : P(n))
    BY <1>2, <1>3
  <2> HIDE DEF N
  <2>2. Nat \subseteq N
    BY <2>1, Naturals
  <2>3. Cardinality(D) \in Nat
    BY FS_CardinalityType
  <2> QED
    BY <2>1, <2>2, <2>3
<1>5. Small(Cardinality(D)) = SUBSET D
  <2>1. \A s \in SUBSET D : Cardinality(s) <= Cardinality(D)
    BY FS_Subset
  <2> QED
    BY <2>1
<1> HIDE DEF Small
<1>6. PICK h \in [Small(Cardinality(D)) -> V] : \A s \in Small(Cardinality(D)) :
        h[s] = IF s = {} THEN b ELSE R[<<Picked(s), h[s \ {Picked(s)}]>>]
  BY <1>4
<1>7. h \in Solutions(D, V, b, R)
  BY <1>5, <1>6, Zenon DEF Solutions
<1> QED
  BY <1>7

-----------------------------------------------------------------------------
(* Sums                                                                    *)

\* The fold of a sum follows its recursion.
LEMMA SumFold ==
  ASSUME NEW f, IsFiniteSet(DOMAIN f), \A x \in DOMAIN f : f[x] \in Int
  PROVE  \E g : /\ \A s \in SUBSET DOMAIN f :
                     g[s] = IF s = {} THEN 0 ELSE f[Picked(s)] + g[s \ {Picked(s)}]
                /\ SumOf(f) = g[DOMAIN f]
<1>1. PICK D : D = DOMAIN f
  OBVIOUS
<1> DEFINE R == [a \in D \X Int |-> f[a[1]] + a[2]]
           Eq(g) == g = [s \in SUBSET D |-> IF s = {} THEN 0 ELSE f[Picked(s)] + g[s \ {Picked(s)}]]
           G == CHOOSE g : g = [s \in SUBSET D |->
                  IF s = {} THEN 0 ELSE f[CHOOSE x \in s : TRUE] + g[s \ {CHOOSE x \in s : TRUE}]]
<1>2. SumOf(f) = G[D]
  BY <1>1, Zenon DEF SumOf, MapThenFoldSet
<1>3. \A x \in D : \A v \in Int : R[<<x, v>>] \in Int
  BY <1>1
<1>4. \A x \in D, v \in Int : R[<<x, v>>] = f[x] + v
  OBVIOUS
<1>5. PICK h \in [SUBSET D -> Int] : \A s \in SUBSET D :
        h[s] = IF s = {} THEN 0 ELSE R[<<Picked(s), h[s \ {Picked(s)}]>>]
  <2> HIDE DEF R
  <2>1. 0 \in Int /\ IsFiniteSet(D)
    BY <1>1
  <2>2. Solutions(D, Int, 0, R) # {}
    BY <1>3, <2>1, Recursion
  <2> QED
    BY <2>2 DEF Solutions
<1>6. \A s \in SUBSET D : s # {} =>
        R[<<Picked(s), h[s \ {Picked(s)}]>>] = f[Picked(s)] + h[s \ {Picked(s)}]
  <2> HIDE DEF R
  <2>1. \A s \in SUBSET D : s # {} => Picked(s) \in D /\ s \ {Picked(s)} \in SUBSET D
    BY PickedIn
  <2> QED
    BY <1>4, <1>5, <2>1
<1> HIDE DEF R
<1>7. h = [s \in SUBSET D |-> h[s]] /\ \A s \in SUBSET D :
        h[s] = IF s = {} THEN 0 ELSE f[Picked(s)] + h[s \ {Picked(s)}]
  BY <1>5, <1>6
<1>8. Eq(h)
  BY <1>7, Zenon
<1>9. \E g : g = [s \in SUBSET D |->
        IF s = {} THEN 0 ELSE f[CHOOSE x \in s : TRUE] + g[s \ {CHOOSE x \in s : TRUE}]]
  BY <1>8, Zenon DEF Picked
<1>10. G = [s \in SUBSET D |->
        IF s = {} THEN 0 ELSE f[CHOOSE x \in s : TRUE] + G[s \ {CHOOSE x \in s : TRUE}]]
  BY <1>9, Zenon
<1> HIDE DEF G
<1>11. \A s \in SUBSET D : G[s] = IF s = {} THEN 0 ELSE f[Picked(s)] + G[s \ {Picked(s)}]
  BY <1>10, Zenon DEF Picked
<1> QED
  BY <1>1, <1>2, <1>11, Zenon

\* The part of a function that s is in the domain of.
On(f, s) == [x \in s |-> f[x]]

\* A sum takes any element first.
LEMMA SumStep ==
  ASSUME NEW D, IsFiniteSet(D), NEW f, \A x \in D : f[x] \in Int
  PROVE  /\ \A s \in SUBSET D : SumOf(On(f, s)) \in Int
         /\ SumOf(On(f, {})) = 0
         /\ \A s \in SUBSET D : \A x \in s : SumOf(On(f, s)) = f[x] + SumOf(On(f, s \ {x}))
<1>1. PICK g : \A s \in SUBSET D : g[s] = IF s = {} THEN 0 ELSE f[Picked(s)] + g[s \ {Picked(s)}]
  <2> DEFINE F == On(f, D)
  <2>1. DOMAIN F = D /\ \A x \in D : F[x] = f[x]
    BY DEF On
  <2> HIDE DEF F
  <2>2. IsFiniteSet(DOMAIN F) /\ \A x \in DOMAIN F : F[x] \in Int
    BY <2>1
  <2>3. \E g : \A s \in SUBSET DOMAIN F : g[s] = IF s = {} THEN 0 ELSE F[Picked(s)] + g[s \ {Picked(s)}]
    BY <2>2, SumFold, ZenonT(60)
  <2>4. PICK g : \A s \in SUBSET D : g[s] = IF s = {} THEN 0 ELSE F[Picked(s)] + g[s \ {Picked(s)}]
    BY <2>1, <2>3
  <2>5. \A s \in SUBSET D : s # {} => F[Picked(s)] = f[Picked(s)]
    BY <2>1, PickedIn
  <2> QED
    BY <2>4, <2>5
<1>2. \A s \in SUBSET D : /\ Cardinality(s) \in Nat /\ (Cardinality(s) = 0 <=> s = {})
                          /\ \A x \in s : s \ {x} \in SUBSET D /\ Cardinality(s \ {x}) = Cardinality(s) - 1
  BY Fewer
<1>3. ASSUME NEW E \in SUBSET D, NEW h,
             \A s \in SUBSET E : h[s] = IF s = {} THEN 0 ELSE f[Picked(s)] + h[s \ {Picked(s)}]
      PROVE  h[E] = g[E]
  <2> DEFINE Q == {s \in SUBSET E : h[s] = g[s]}
             P(n) == \A s \in SUBSET E : Cardinality(s) = n => h[s] = g[s]
  <2>1. P(0)
    BY <1>1, <1>2, <1>3
  <2>2. ASSUME NEW n \in Nat, P(n) PROVE P(n + 1)
    <3> SUFFICES ASSUME NEW s \in SUBSET E, Cardinality(s) = n + 1 PROVE h[s] = g[s]
      OBVIOUS
    <3>1. s # {} /\ Picked(s) \in s
      BY <1>2, PickedIn
    <3>2. Cardinality(s \ {Picked(s)}) = n /\ s \ {Picked(s)} \in SUBSET E
      BY <1>2, <3>1
    <3>3. h[s \ {Picked(s)}] = g[s \ {Picked(s)}]
      BY <2>2, <3>2
    <3> QED
      BY <1>1, <1>3, <3>1, <3>3
  <2>3. P(Cardinality(E))
    <3> DEFINE N == {n \in Nat : P(n)}
    <3> HIDE DEF P
    <3>1. 0 \in N /\ (\A n \in Nat : n \in N => n + 1 \in N) /\ (\A n \in N : P(n))
      BY <2>1, <2>2
    <3> HIDE DEF N
    <3>2. Nat \subseteq N
      BY <3>1, Naturals
    <3> QED
      BY <1>2, <3>1, <3>2
  <2> QED
    BY <2>3
<1>4. \A s \in SUBSET D : SumOf(On(f, s)) = g[s]
  <2> SUFFICES ASSUME NEW s \in SUBSET D PROVE SumOf(On(f, s)) = g[s]
    OBVIOUS
  <2> DEFINE F == On(f, s)
  <2>1. DOMAIN F = s /\ (\A x \in s : F[x] = f[x]) /\ IsFiniteSet(s)
    BY FS_Subset DEF On
  <2> HIDE DEF F
  <2>2. PICK h : /\ \A t \in SUBSET s : h[t] = IF t = {} THEN 0 ELSE F[Picked(t)] + h[t \ {Picked(t)}]
                 /\ SumOf(F) = h[s]
    BY <2>1, SumFold
  <2>3. \A t \in SUBSET s : t # {} => F[Picked(t)] = f[Picked(t)]
    BY <2>1, PickedIn
  <2>4. \A t \in SUBSET s : h[t] = IF t = {} THEN 0 ELSE f[Picked(t)] + h[t \ {Picked(t)}]
    BY <2>2, <2>3
  <2>5. h[s] = g[s]
    BY <1>3, <2>4
  <2> QED
    BY <2>2, <2>5 DEF F
<1> DEFINE Any(s) == g[s] \in Int /\ \A x \in s : g[s] = f[x] + g[s \ {x}]
           P(n) == \A s \in SUBSET D : Cardinality(s) <= n => Any(s)
<1>5. P(0)
  <2>1. \A s \in SUBSET D : Cardinality(s) <= 0 => s = {}
    BY <1>2
  <2>2. g[{}] = 0
    BY <1>1
  <2>3. Any({})
    BY <2>2
  <2> HIDE DEF Any
  <2> QED
    BY <2>1, <2>3
<1>6. ASSUME NEW n \in Nat, P(n) PROVE P(n + 1)
  <2> SUFFICES ASSUME NEW s \in SUBSET D, Cardinality(s) = n + 1 PROVE Any(s)
    <3> HIDE DEF Any
    <3>1. \A s \in SUBSET D : Cardinality(s) \in Nat
      BY <1>2
    <3> QED
      BY <1>6, <3>1
  <2>0. s # {} /\ Picked(s) \in s
    BY <1>2, PickedIn
  <2>1. PICK p \in s : g[s] = f[p] + g[s \ {p}]
    BY <1>1, <2>0
  <2>2. \A x \in s : Cardinality(s \ {x}) = n /\ s \ {x} \in SUBSET D /\ f[x] \in Int
    BY <1>2
  <2>3. \A x \in s : Any(s \ {x})
    <3> HIDE DEF Any
    <3> QED
      BY <1>6, <2>2
  <2>4. f[p] \in Int /\ g[s] \in Int
    <3>1. g[s \ {p}] \in Int /\ f[p] \in Int
      BY <2>2, <2>3
    <3> QED
      BY <2>1, <3>1
  <2>5. ASSUME NEW x \in s, x # p PROVE g[s] = f[x] + g[s \ {x}]
    <3>1. g[s \ {p}] = f[x] + g[(s \ {p}) \ {x}]
      BY <2>3, <2>5
    <3>2. g[s \ {x}] = f[p] + g[(s \ {x}) \ {p}]
      BY <2>3, <2>5
    <3>3. (s \ {p}) \ {x} = (s \ {x}) \ {p}
      OBVIOUS
    <3>4. g[(s \ {p}) \ {x}] \in Int /\ f[x] \in Int
      <4>1. x \in s \ {p}
        BY <2>5
      <4>0. s \ {p} \in SUBSET D /\ Cardinality(s \ {p}) = n
        BY <2>2
      <4>2. \A q \in SUBSET D : Cardinality(q) = n => \A y \in q : q \ {y} \in SUBSET D /\ Cardinality(q \ {y}) <= n
        BY <1>2
      <4>3. (s \ {p}) \ {x} \in SUBSET D /\ Cardinality((s \ {p}) \ {x}) <= n
        BY <4>0, <4>1, <4>2, Zenon
      <4> QED
        BY <1>6, <2>2, <4>3
    <3>5. g[s \ {x}] = f[p] + g[(s \ {p}) \ {x}]
      BY <3>2, <3>3, Zenon
    <3>6. PICK a : a = g[(s \ {p}) \ {x}]
      OBVIOUS
    <3>7. g[s] = f[p] + (f[x] + a) /\ g[s \ {x}] = f[p] + a
      BY <2>1, <3>1, <3>5, <3>6, Zenon
    <3> QED
      BY <2>4, <3>4, <3>6, <3>7
  <2> QED
    BY <2>1, <2>4, <2>5
<1>7. \A n \in Nat : P(n)
  <2> DEFINE N == {n \in Nat : P(n)}
  <2> HIDE DEF P
  <2>1. 0 \in N /\ (\A n \in Nat : n \in N => n + 1 \in N) /\ (\A n \in N : P(n))
    BY <1>5, <1>6
  <2> HIDE DEF N
  <2>2. Nat \subseteq N
    BY <2>1, Naturals
  <2> QED
    BY <2>1, <2>2
<1>8. \A s \in SUBSET D : g[s] \in Int /\ \A x \in s : g[s] = f[x] + g[s \ {x}]
  BY <1>2, <1>7
<1>9. \A s \in SUBSET D : \A x \in s : s \ {x} \in SUBSET D
  OBVIOUS
<1>10. g[{}] = 0
  BY <1>1
<1> QED
  BY <1>4, <1>8, <1>9, <1>10, Zenon

\* The sum over two sets that have nothing in common.
LEMMA SumAdds ==
  ASSUME NEW D, IsFiniteSet(D), NEW f, \A x \in D : f[x] \in Int,
         NEW A \in SUBSET D, NEW B \in SUBSET D, A \cap B = {}
  PROVE  SumOf(On(f, A \cup B)) = SumOf(On(f, A)) + SumOf(On(f, B))
<1> DEFINE Sum(s) == SumOf(On(f, s))
           Q == {s \in SUBSET A : Sum(s \cup B) = Sum(s) + Sum(B)}
<1>1. /\ \A s \in SUBSET D : Sum(s) \in Int
      /\ Sum({}) = 0
      /\ \A s \in SUBSET D : \A x \in s : Sum(s) = f[x] + Sum(s \ {x})
  BY SumStep
<1> HIDE DEF Sum
<1>2. {} \in Q
  <2>1. {} \cup B = B
    OBVIOUS
  <2>2. Sum({} \cup B) = Sum({}) + Sum(B)
    BY <1>1, <2>1
  <2> QED
    BY <2>2
<1>3. ASSUME NEW s \in SUBSET A, NEW x \in s, s \ {x} \in Q PROVE s \in Q
  <2>1. (s \cup B) \ {x} = (s \ {x}) \cup B /\ x \in s \cup B /\ x \in D
    OBVIOUS
  <2>2. s \cup B \in SUBSET D /\ s \in SUBSET D /\ s \ {x} \in SUBSET D
    OBVIOUS
  <2>3. Sum(s \cup B) = f[x] + Sum((s \ {x}) \cup B)
    BY <1>1, <2>1, <2>2, Zenon
  <2>4. Sum((s \ {x}) \cup B) = Sum(s \ {x}) + Sum(B)
    BY <1>3
  <2>5. Sum(s) = f[x] + Sum(s \ {x})
    BY <1>1, <2>2
  <2>6. f[x] \in Int /\ Sum(s \ {x}) \in Int /\ Sum(B) \in Int
    BY <1>1, <2>1, <2>2
  <2>7. Sum(s \cup B) = Sum(s) + Sum(B)
    BY <2>3, <2>4, <2>5, <2>6
  <2> QED
    BY <2>7
<1>4. IsFiniteSet(A)
  BY FS_Subset
<1> HIDE DEF Q
<1>5. SUBSET A \subseteq Q
  BY <1>2, <1>3, <1>4, Subsets
<1> QED
  BY <1>5 DEF Q, Sum

\* A measure of the parts of a set that have nothing in common adds up.
Measure(S, m) ==
  /\ m[{}] = 0 /\ \A A \in SUBSET S : m[A] \in Int
  /\ \A A, B \in SUBSET S : A \cap B = {} => m[A \cup B] = m[A] + m[B]

Apart(S, I, P, U) ==
  /\ \A i \in I : P[i] \in SUBSET S
  /\ \A i, j \in I : i # j => P[i] \cap P[j] = {}
  /\ U = UNION {P[i] : i \in I}

LEMMA Parts ==
  ASSUME NEW S, NEW m, Measure(S, m), NEW I, IsFiniteSet(I), NEW P, NEW U, Apart(S, I, P, U),
         NEW f, f = On(f, I), \A i \in I : f[i] = m[P[i]]
  PROVE  SumOf(f) = m[U]
<1> USE DEF Measure, Apart
<1> DEFINE All(s) == UNION {P[i] : i \in s}
           Sum(s) == SumOf(On(f, s))
           Q == {s \in SUBSET I : Sum(s) = m[All(s)]}
<1>1. \A i \in I : f[i] \in Int
  OBVIOUS
<1>2. All(I) = U
  OBVIOUS
<1>3. \A s \in SUBSET I : All(s) \in SUBSET S
  OBVIOUS
<1>4. \A s \in SUBSET I : \A i \in s :
        All(s) = P[i] \cup All(s \ {i}) /\ P[i] \cap All(s \ {i}) = {}
  OBVIOUS
<1>5. All({}) = {}
  OBVIOUS
<1> HIDE DEF All
<1>6. /\ \A s \in SUBSET I : Sum(s) \in Int
      /\ Sum({}) = 0
      /\ \A s \in SUBSET I : \A i \in s : Sum(s) = f[i] + Sum(s \ {i})
  BY <1>1, SumStep
<1> HIDE DEF Sum
<1>7. {} \in Q
  BY <1>5, <1>6
<1>8. ASSUME NEW s \in SUBSET I, NEW i \in s, s \ {i} \in Q PROVE s \in Q
  <2>1. Sum(s) = m[P[i]] + m[All(s \ {i})]
    BY <1>6, <1>8
  <2>2. s \ {i} \in SUBSET I /\ i \in I
    OBVIOUS
  <2>3. All(s \ {i}) \in SUBSET S /\ P[i] \in SUBSET S
    BY <1>3, <2>2
  <2>4. m[P[i] \cup All(s \ {i})] = m[P[i]] + m[All(s \ {i})]
    BY <1>4, <2>3, Zenon
  <2>5. All(s) = P[i] \cup All(s \ {i})
    BY <1>4
  <2>6. Sum(s) = m[All(s)]
    BY <2>1, <2>4, <2>5, Zenon
  <2> QED
    BY <2>6
<1> HIDE DEF Q
<1>9. SUBSET I \subseteq Q
  BY <1>7, <1>8, Subsets
<1>10. Sum(I) = m[All(I)]
  BY <1>9 DEF Q
<1> QED
  BY <1>2, <1>10, Zenon DEF Sum

\* So do the sizes of the parts,
LEMMA CountParts ==
  ASSUME NEW S, IsFiniteSet(S), NEW I, IsFiniteSet(I), NEW P, NEW U, Apart(S, I, P, U),
         NEW f, f = On(f, I), \A i \in I : f[i] = Cardinality(P[i])
  PROVE  SumOf(f) = Cardinality(U)
<1> DEFINE m == [A \in SUBSET S |-> Cardinality(A)]
<1>1. \A A \in SUBSET S : m[A] = Cardinality(A) /\ IsFiniteSet(A) /\ m[A] \in Int
  BY FS_Subset, FS_CardinalityType
<1>2. m[{}] = 0
  BY <1>1, FS_EmptySet
<1>3. ASSUME NEW A \in SUBSET S, NEW B \in SUBSET S, A \cap B = {}
      PROVE  m[A \cup B] = m[A] + m[B]
  <2>1. IsFiniteSet(A) /\ IsFiniteSet(B) /\ A \cup B \in SUBSET S
    BY <1>1
  <2>2. Cardinality(A \cup B) = Cardinality(A) + Cardinality(B) - Cardinality(A \cap B)
    BY <2>1, FS_Union
  <2>3. Cardinality(A \cap B) = 0
    BY <1>3, FS_EmptySet
  <2>4. m[A] \in Int /\ m[B] \in Int /\ m[A \cup B] = m[A] + m[B] - 0
    BY <1>1, <2>1, <2>2, <2>3, Zenon
  <2> QED
    BY <2>4
<1> HIDE DEF m
<1>4. Measure(S, m)
  BY <1>1, <1>2, <1>3 DEF Measure
<1>5. U \in SUBSET S /\ \A i \in I : P[i] \in SUBSET S
  BY DEF Apart
<1>6. \A i \in I : f[i] = m[P[i]]
  BY <1>1, <1>5
<1>7. SumOf(f) = m[U]
  BY <1>4, <1>6, Parts
<1> QED
  BY <1>1, <1>5, <1>7

\* and the sums over them.
LEMMA SumParts ==
  ASSUME NEW S, IsFiniteSet(S), NEW v, \A x \in S : v[x] \in Int,
         NEW I, IsFiniteSet(I), NEW P, NEW U, Apart(S, I, P, U),
         NEW f, f = On(f, I), \A i \in I : f[i] = SumOf(On(v, P[i]))
  PROVE  SumOf(f) = SumOf(On(v, U))
<1> DEFINE m == [A \in SUBSET S |-> SumOf(On(v, A))]
<1>1. \A A \in SUBSET S : m[A] = SumOf(On(v, A)) /\ m[A] \in Int
  BY SumStep
<1>2. m[{}] = 0
  BY <1>1, SumStep
<1>3. ASSUME NEW A \in SUBSET S, NEW B \in SUBSET S, A \cap B = {}
      PROVE  m[A \cup B] = m[A] + m[B]
  <2>1. SumOf(On(v, A \cup B)) = SumOf(On(v, A)) + SumOf(On(v, B))
    BY <1>3, SumAdds
  <2>2. A \cup B \in SUBSET S
    OBVIOUS
  <2> QED
    BY <1>1, <2>1, <2>2
<1> HIDE DEF m
<1>4. Measure(S, m)
  BY <1>1, <1>2, <1>3 DEF Measure
<1>5. U \in SUBSET S /\ \A i \in I : P[i] \in SUBSET S
  BY DEF Apart
<1>6. \A i \in I : f[i] = m[P[i]]
  BY <1>1, <1>5
<1>7. SumOf(f) = m[U]
  BY <1>4, <1>6, Parts
<1> QED
  BY <1>1, <1>5, <1>7

\* A product of integers is one.
LEMMA ProductIn ==
  ASSUME NEW f, IsFiniteSet(DOMAIN f), \A x \in DOMAIN f : f[x] \in Int
  PROVE  ProductOf(f) \in Int
<1>1. PICK D : D = DOMAIN f
  OBVIOUS
<1> DEFINE R == [a \in D \X Int |-> f[a[1]] * a[2]]
           Eq(g) == g = [s \in SUBSET D |-> IF s = {} THEN 1 ELSE f[Picked(s)] * g[s \ {Picked(s)}]]
           G == CHOOSE g : g = [s \in SUBSET D |->
                  IF s = {} THEN 1 ELSE f[CHOOSE x \in s : TRUE] * g[s \ {CHOOSE x \in s : TRUE}]]
<1>2. ProductOf(f) = G[D]
  BY <1>1, Zenon DEF ProductOf, MapThenFoldSet
<1>3. \A n, k \in Int : n * k \in Int
  OBVIOUS
<1>4. \A x \in D, v \in Int : R[<<x, v>>] = f[x] * v
  OBVIOUS
<1>5. \A x \in D : \A v \in Int : R[<<x, v>>] \in Int
  BY <1>1, <1>3, <1>4, Zenon
<1> HIDE DEF R
<1>6. PICK h \in [SUBSET D -> Int] : \A s \in SUBSET D :
        h[s] = IF s = {} THEN 1 ELSE R[<<Picked(s), h[s \ {Picked(s)}]>>]
  <2>1. 1 \in Int /\ IsFiniteSet(D)
    BY <1>1
  <2>2. Solutions(D, Int, 1, R) # {}
    BY <1>5, <2>1, Recursion
  <2> QED
    BY <2>2 DEF Solutions
<1>7. \A s \in SUBSET D : s # {} => Picked(s) \in D /\ s \ {Picked(s)} \in SUBSET D
  BY PickedIn
<1>8. \A s \in SUBSET D : s # {} =>
        R[<<Picked(s), h[s \ {Picked(s)}]>>] = f[Picked(s)] * h[s \ {Picked(s)}]
  <2>1. \A s \in SUBSET D : h[s] \in Int
    BY <1>6
  <2> QED
    BY <1>4, <1>7, <2>1, Zenon
<1>9. h = [s \in SUBSET D |-> h[s]] /\ \A s \in SUBSET D :
        h[s] = IF s = {} THEN 1 ELSE f[Picked(s)] * h[s \ {Picked(s)}]
  <2>1. h = [s \in SUBSET D |-> h[s]]
    BY <1>6
  <2> QED
    BY <1>6, <1>8, <2>1, Zenon
<1>10. Eq(h)
  BY <1>9, Zenon
<1>11. \E g : g = [s \in SUBSET D |->
         IF s = {} THEN 1 ELSE f[CHOOSE x \in s : TRUE] * g[s \ {CHOOSE x \in s : TRUE}]]
  BY <1>10, Zenon DEF Picked
<1>12. G = [s \in SUBSET D |->
         IF s = {} THEN 1 ELSE f[CHOOSE x \in s : TRUE] * G[s \ {CHOOSE x \in s : TRUE}]]
  BY <1>11, Zenon
<1> HIDE DEF G
<1>13. \A s \in SUBSET D : G[s] = IF s = {} THEN 1 ELSE f[Picked(s)] * G[s \ {Picked(s)}]
  BY <1>12, Zenon DEF Picked
<1> DEFINE Q == {s \in SUBSET D : G[s] \in Int}
<1>14. {} \in Q
  <2>1. G[{}] = 1
    BY <1>13, Zenon
  <2> QED
    BY <2>1
<1>15. ASSUME NEW s \in SUBSET D, \A x \in s : s \ {x} \in Q, s # {} PROVE s \in Q
  <2>1. Picked(s) \in s /\ f[Picked(s)] \in Int /\ G[s \ {Picked(s)}] \in Int
    BY <1>1, <1>7, <1>15, PickedIn
  <2>2. G[s] = f[Picked(s)] * G[s \ {Picked(s)}]
    BY <1>13, <1>15, Zenon
  <2>3. G[s] \in Int
    <3>1. PICK a, b : a = f[Picked(s)] /\ b = G[s \ {Picked(s)}]
      OBVIOUS
    <3>2. a \in Int /\ b \in Int /\ G[s] = a * b
      BY <2>1, <2>2, <3>1, Zenon
    <3> QED
      BY <3>2
  <2> QED
    BY <2>3
<1>16. D \in Q
  <2> HIDE DEF Q
  <2>1. IsFiniteSet(D)
    BY <1>1
  <2> QED
    BY <1>14, <1>15, <2>1, SubsetsByAll
<1> QED
  BY <1>2, <1>16

-----------------------------------------------------------------------------
(* Least and greatest                                                      *)

\* A finite set of integers has a least and a greatest element.
LEMMA Extremes ==
  ASSUME NEW S, IsFiniteSet(S), S \subseteq Int, S # {}
  PROVE  (\E x \in S : \A y \in S : x <= y) /\ (\E x \in S : \A y \in S : y <= x)
<1> DEFINE Low(s)  == \E x \in s : \A y \in s : x <= y
           High(s) == \E x \in s : \A y \in s : y <= x
           Q == {s \in SUBSET S : s # {} => Low(s) /\ High(s)}
<1>1. {} \in Q
  OBVIOUS
<1>2. ASSUME NEW s \in SUBSET S, NEW z \in s, s \ {z} \in Q PROVE s \in Q
  <2>1. CASE s = {z}
    BY <2>1
  <2>2. CASE s # {z}
    <3>1. PICK a \in s \ {z} : \A y \in s \ {z} : a <= y
      BY <1>2, <2>2
    <3>2. PICK b \in s \ {z} : \A y \in s \ {z} : y <= b
      BY <1>2, <2>2
    <3>3. a \in Int /\ b \in Int /\ z \in Int /\ a \in s /\ b \in s /\ z \in s
      OBVIOUS
    <3>4. Low(s)
      <4>1. CASE a <= z
        BY <3>1, <3>3, <4>1
      <4>2. CASE ~(a <= z)
        <5>1. \A y \in s : z <= y
          BY <3>1, <3>3, <4>2
        <5> QED
          BY <3>3, <5>1
      <4> QED
        BY <4>1, <4>2
    <3>5. High(s)
      <4>1. CASE z <= b
        BY <3>2, <3>3, <4>1
      <4>2. CASE ~(z <= b)
        <5>1. \A y \in s : y <= z
          BY <3>2, <3>3, <4>2
        <5> QED
          BY <3>3, <5>1
      <4> QED
        BY <4>1, <4>2
    <3> QED
      BY <3>4, <3>5
  <2> QED
    BY <2>1, <2>2
<1> HIDE DEF Q
<1>3. SUBSET S \subseteq Q
  BY <1>1, <1>2, Subsets
<1> QED
  BY <1>3 DEF Q

\* A part of a finite set, and one that lacks an element of it.
LEMMA Smaller ==
  ASSUME NEW S, IsFiniteSet(S), NEW A \in SUBSET S
  PROVE  /\ IsFiniteSet(A) /\ Cardinality(A) \in Nat /\ Cardinality(S) \in Nat
         /\ Cardinality(A) <= Cardinality(S)
         /\ A # S => Cardinality(A) < Cardinality(S)
<1>1. IsFiniteSet(A) /\ Cardinality(A) <= Cardinality(S)
      /\ (Cardinality(A) = Cardinality(S) => A = S)
  BY FS_Subset
<1>2. Cardinality(A) \in Nat /\ Cardinality(S) \in Nat
  BY <1>1, FS_CardinalityType
<1> QED
  BY <1>1, <1>2

\* A finite set has finitely many images under f, no more than itself.
LEMMA Images ==
  ASSUME NEW S, IsFiniteSet(S), NEW f, S \subseteq DOMAIN f
  PROVE  /\ IsFiniteSet({f[x] : x \in S})
         /\ Cardinality({f[x] : x \in S}) <= Cardinality(S)
<1> DEFINE T == {f[x] : x \in S}
           g == [x \in S |-> f[x]]
<1>1. g \in Surjection(S, T)
  BY DEF Surjection
<1> HIDE DEF g, T
<1>2. IsFiniteSet(T) /\ Cardinality(T) <= Cardinality(S)
  BY <1>1, FS_Surjection
<1> QED
  BY <1>2 DEF T

-----------------------------------------------------------------------------
(* The first of an order                                                   *)

StrictOrder(R, S) ==
  /\ \A x \in S : <<x, x>> \notin R
  /\ \A x, y, z \in S : <<x, y>> \in R /\ <<y, z>> \in R => <<x, z>> \in R
  /\ \A x, y \in S : x = y \/ <<x, y>> \in R \/ <<y, x>> \in R

Below(R, S, x) == {y \in S : <<y, x>> \in R}

\* Those that fewer than n are before are n, unless they are all there is.
LEMMA FirstOnes ==
  ASSUME NEW S, IsFiniteSet(S), NEW R, StrictOrder(R, S), NEW n \in Nat,
         NEW T, T = {x \in S : Cardinality(Below(R, S, x)) < n}, T # S
  PROVE  Cardinality(T) = n
<1> DEFINE c(x) == Cardinality(Below(R, S, x))
<1>1. \A x \in S : Below(R, S, x) \in SUBSET S /\ c(x) \in Nat
  BY Smaller DEF Below
<1>2. ASSUME NEW x \in S, NEW y \in S, <<x, y>> \in R PROVE c(x) < c(y)
  <2>1. Below(R, S, x) \in SUBSET Below(R, S, y)
    BY <1>2 DEF StrictOrder, Below
  <2>2. x \in Below(R, S, y) /\ x \notin Below(R, S, x)
    BY <1>2 DEF StrictOrder, Below
  <2>3. IsFiniteSet(Below(R, S, y))
    BY <1>1, Smaller
  <2> QED
    BY <2>1, <2>2, <2>3, Smaller
<1>3. T \in SUBSET S
  OBVIOUS
<1>4. \A x \in S : x \in T <=> c(x) < n
  OBVIOUS
<1> HIDE DEF c
<1>5. PICK m \in S \ T : \A y \in S \ T : <<y, m>> \notin R
  <2> DEFINE N == {c(x) : x \in S \ T}
  <2>1. N \subseteq Nat /\ N # {}
    BY <1>1, <1>3
  <2>2. PICK m \in S \ T : \A x \in S \ T : c(m) <= c(x)
    <3> HIDE DEF N
    <3>1. PICK k \in N : \A l \in N : k <= l
      BY <2>1, Least
    <3> QED
      BY <3>1 DEF N
  <2>3. \A y \in S \ T : <<y, m>> \notin R
    BY <1>1, <1>2, <2>2
  <2> QED
    BY <2>3
<1>6. T = Below(R, S, m)
  <2>1. ASSUME NEW x \in T PROVE <<x, m>> \in R
    <3>1. x \in S /\ x # m /\ c(x) < n /\ ~(c(m) < n) /\ c(x) \in Nat /\ c(m) \in Nat
      BY <1>1, <1>3, <1>4
    <3>2. <<m, x>> \notin R
      BY <1>2, <3>1
    <3> QED
      BY <3>1, <3>2 DEF StrictOrder
  <2>2. \A x \in S : <<x, m>> \in R => x \in T
    BY <1>5
  <2> QED
    BY <1>3, <2>1, <2>2 DEF Below
<1>7. Cardinality(T) \in Nat /\ n <= Cardinality(T)
  <2>1. Cardinality(T) = c(m) /\ ~(c(m) < n) /\ c(m) \in Nat
    BY <1>1, <1>4, <1>6 DEF c
  <2> QED
    BY <2>1
<1>8. T = {} => Cardinality(T) = 0
  BY FS_EmptySet
<1>9. ASSUME T # {} PROVE Cardinality(T) <= n
  <2> DEFINE N == {c(x) : x \in T}
  <2>1. N \subseteq Int /\ N # {} /\ IsFiniteSet(N)
    <3>1. IsFiniteSet(T)
      BY <1>3, Smaller
    <3> DEFINE f == [x \in T |-> c(x)]
    <3>2. IsFiniteSet({f[x] : x \in T})
      <4>1. DOMAIN f = T
        OBVIOUS
      <4> HIDE DEF f
      <4> QED
        BY <3>1, <4>1, Images
    <3>3. {f[x] : x \in T} = N
      OBVIOUS
    <3> QED
      BY <1>1, <1>3, <1>9, <3>2, <3>3
  <2>2. PICK g \in T : \A x \in T : c(x) <= c(g)
    <3> HIDE DEF N
    <3>1. PICK k \in N : \A l \in N : l <= k
      BY <2>1, Extremes
    <3> QED
      BY <3>1 DEF N
  <2>3. T \ {g} \in SUBSET Below(R, S, g)
    <3>1. ASSUME NEW x \in T, x # g PROVE <<x, g>> \in R
      <4>1. <<g, x>> \notin R
        BY <1>1, <1>2, <1>3, <2>2
      <4> QED
        BY <1>3, <3>1, <4>1 DEF StrictOrder
    <3> QED
      BY <1>3, <3>1 DEF Below
  <2>4. IsFiniteSet(Below(R, S, g)) /\ IsFiniteSet(T)
    BY <1>1, <1>3, Smaller
  <2>5. Cardinality(T \ {g}) <= c(g) /\ Cardinality(T \ {g}) = Cardinality(T) - 1
    BY <2>3, <2>4, Smaller, FS_RemoveElement DEF c
  <2>6. c(g) < n /\ c(g) \in Nat
    BY <1>1, <1>3, <1>4
  <2> QED
    BY <1>7, <2>5, <2>6
<1> QED
  BY <1>7, <1>8, <1>9

-----------------------------------------------------------------------------
(* Nearest ranks                                                           *)

AtMost(f, v) == {x \in DOMAIN f : f[x] <= v}

\* The value of an index is one of the values, and grows with the index.
LEMMA RankedIs ==
  ASSUME NEW f, IsFiniteSet(DOMAIN f), \A x \in DOMAIN f : f[x] \in Int,
         NEW i \in Nat, i < Cardinality(DOMAIN f)
  PROVE  /\ Ranked(f, i) \in {f[x] : x \in DOMAIN f}
         /\ Cardinality({x \in DOMAIN f : f[x] < Ranked(f, i)}) <= i
         /\ i < Cardinality(AtMost(f, Ranked(f, i)))
<1> DEFINE D == DOMAIN f
           V == {f[x] : x \in D}
           Reached == {v \in V : i < Cardinality(AtMost(f, v))}
<1>1. V \subseteq Int /\ IsFiniteSet(V) /\ V # {}
  <2>1. D # {}
    BY FS_EmptySet, FS_CardinalityType
  <2>2. IsFiniteSet(V)
    BY Images
  <2> QED
    BY <2>1, <2>2
<1>2. Reached # {}
  <2>1. PICK v \in V : \A u \in V : u <= v
    <3> HIDE DEF V
    <3> QED
      BY <1>1, Extremes
  <2>2. AtMost(f, v) = D
    BY <2>1 DEF AtMost
  <2> QED
    BY <2>1, <2>2
<1>3. PICK v \in Reached : \A u \in Reached : v <= u
  <2>1. Reached \subseteq Int /\ IsFiniteSet(Reached)
    BY <1>1, FS_Subset
  <2> HIDE DEF Reached
  <2> QED
    BY <1>2, <2>1, Extremes
<1>4. v \in V /\ i < Cardinality(AtMost(f, v)) /\ v \in Int
  BY <1>1, <1>3
<1>5. Cardinality({x \in D : f[x] < v}) <= i
  <2> DEFINE L == {x \in D : f[x] < v}
             U == {u \in V : u < v}
  <2>1. IsFiniteSet(L) /\ Cardinality(L) \in Nat
    BY Smaller
  <2>2. CASE U = {}
    <3>1. L = {}
      BY <2>2
    <3> QED
      BY <3>1, FS_EmptySet
  <2>3. CASE U # {}
    <3>1. PICK u \in U : \A y \in U : y <= u
      <4>1. U \subseteq Int /\ IsFiniteSet(U)
        BY <1>1, FS_Subset
      <4> HIDE DEF U
      <4> QED
        BY <2>3, <4>1, Extremes
    <3>2. u \in V /\ u \in Int /\ u < v
      BY <1>1, <3>1
    <3>3. AtMost(f, u) = L
      <4>1. \A x \in D : f[x] \in V /\ f[x] \in Int
        OBVIOUS
      <4>2. \A x \in D : f[x] < v => f[x] <= u
        BY <3>1, <4>1
      <4>3. \A x \in D : f[x] <= u => f[x] < v
        BY <1>4, <3>2, <4>1
      <4> QED
        BY <4>2, <4>3 DEF AtMost
    <3>4. ~(i < Cardinality(AtMost(f, u)))
      <4>1. u \notin Reached
        BY <1>3, <1>4, <3>2
      <4> QED
        BY <3>2, <4>1
    <3> QED
      BY <2>1, <3>3, <3>4
  <2> QED
    BY <2>2, <2>3
<1>6. \E u \in V : Cardinality({x \in D : f[x] < u}) <= i /\ i < Cardinality({x \in D : f[x] <= u})
  BY <1>4, <1>5 DEF AtMost
<1>7. /\ Ranked(f, i) \in V
      /\ Cardinality({x \in D : f[x] < Ranked(f, i)}) <= i
      /\ i < Cardinality({x \in D : f[x] <= Ranked(f, i)})
  BY <1>6, Zenon DEF Ranked
<1> QED
  BY <1>7 DEF AtMost

LEMMA RankedGrows ==
  ASSUME NEW f, IsFiniteSet(DOMAIN f), \A x \in DOMAIN f : f[x] \in Int,
         NEW i \in Nat, NEW j \in Nat, i <= j, j < Cardinality(DOMAIN f)
  PROVE  Ranked(f, i) <= Ranked(f, j)
<1>1. Cardinality(DOMAIN f) \in Nat
  BY FS_CardinalityType
<1>2. PICK a, b : a = Ranked(f, i) /\ b = Ranked(f, j)
  OBVIOUS
<1>3. /\ a \in Int /\ Cardinality({x \in DOMAIN f : f[x] < a}) <= i
      /\ b \in Int /\ j < Cardinality(AtMost(f, b))
  <2>1. i < Cardinality(DOMAIN f)
    BY <1>1
  <2>2. Ranked(f, i) \in {f[x] : x \in DOMAIN f} /\ Cardinality({x \in DOMAIN f : f[x] < a}) <= i
    BY <1>2, <2>1, RankedIs
  <2>3. Ranked(f, j) \in {f[x] : x \in DOMAIN f} /\ j < Cardinality(AtMost(f, b))
    BY <1>2, RankedIs
  <2> QED
    BY <1>2, <2>2, <2>3
<1>4. ASSUME b < a PROVE FALSE
  <2> DEFINE L == {x \in DOMAIN f : f[x] < a}
  <2>1. AtMost(f, b) \in SUBSET L
    BY <1>3, <1>4 DEF AtMost
  <2>2. IsFiniteSet(L) /\ Cardinality(L) \in Nat
    BY Smaller
  <2>3. Cardinality(AtMost(f, b)) <= Cardinality(L) /\ Cardinality(AtMost(f, b)) \in Nat
    BY <2>1, <2>2, Smaller
  <2> QED
    BY <1>3, <2>2, <2>3
<1> QED
  BY <1>2, <1>3, <1>4

\* A quantile by nearest rank (Percentile) of at least one value is one of the
\* values, for any fraction: nothing is interpolated and no index is out of range.
THEOREM PercentileIs ==
  ASSUME NEW f, IsFiniteSet(DOMAIN f), \A x \in DOMAIN f : f[x] \in Int, DOMAIN f # {},
         NEW num \in Nat, NEW den \in Nat \ {0}
  PROVE  Percentile(f, num, den) \in {f[x] : x \in DOMAIN f}
<1>1. PICK n : n = Cardinality(DOMAIN f)
  OBVIOUS
<1>2. n \in Nat /\ n # 0
  BY <1>1, FS_CardinalityType, FS_EmptySet
<1>3. (num * n) \div den \in Nat
  BY <1>2
<1>4. PICK i : i = IF (num * n) \div den < n THEN (num * n) \div den ELSE n - 1
  OBVIOUS
<1>5. i \in Nat /\ i < n
  BY <1>2, <1>3, <1>4
<1>6. Percentile(f, num, den) = Ranked(f, i)
  BY <1>1, <1>4 DEF Percentile
<1> QED
  BY <1>1, <1>5, <1>6, RankedIs

\* The quartiles that the pages show by their cells (Percentile) are in order,
\* for any number of values and whatever is equal among them.
THEOREM QuartilesInOrder ==
  ASSUME NEW f, IsFiniteSet(DOMAIN f), \A x \in DOMAIN f : f[x] \in Int, DOMAIN f # {}
  PROVE  /\ Percentile(f, 1, 4) <= Percentile(f, 1, 2)
         /\ Percentile(f, 1, 2) <= Percentile(f, 3, 4)
<1>1. PICK n : n = Cardinality(DOMAIN f)
  OBVIOUS
<1>2. n \in Nat /\ n # 0
  BY <1>1, FS_CardinalityType, FS_EmptySet
<1>3. PICK q1, q2, q3 :
        /\ q1 = IF (1 * n) \div 4 < n THEN (1 * n) \div 4 ELSE n - 1
        /\ q2 = IF (1 * n) \div 2 < n THEN (1 * n) \div 2 ELSE n - 1
        /\ q3 = IF (3 * n) \div 4 < n THEN (3 * n) \div 4 ELSE n - 1
  OBVIOUS
<1>4. q1 \in Nat /\ q2 \in Nat /\ q3 \in Nat /\ q1 <= q2 /\ q2 <= q3 /\ q3 < n /\ q2 < n
  BY <1>2, <1>3
<1>5. /\ Percentile(f, 1, 4) = Ranked(f, q1) /\ Percentile(f, 1, 2) = Ranked(f, q2)
      /\ Percentile(f, 3, 4) = Ranked(f, q3)
  BY <1>1, <1>3 DEF Percentile
<1> QED
  BY <1>1, <1>4, <1>5, RankedGrows

-----------------------------------------------------------------------------
(* Technologies                                                            *)

\* What a week says of technologies.
WeekFit(b) == b.denom \in Nat \ {0} /\ \A s \in Slug : b.counts[s] \in Nat

\* Weeks that lack postings are left out of the history.
LEMMA BaselineIs ==
  ASSUME IsFiniteSet(Posting), MinWeeks \in Nat \ {0}, NEW week, NEW lens
  PROVE  /\ IsFiniteSet(Baseline(week, lens)) /\ Cardinality(Baseline(week, lens)) \in 0..(MinWeeks - 1)
         /\ \A b \in Baseline(week, lens) : WeekFit(b)
<1>1. PICK prev : prev = PrevWeeks(week, MinWeeks - 1)
  OBVIOUS
<1> DEFINE Of_(i) == [denom |-> enrichedCount(prev[i], lens), counts |-> techCounts(prev[i], lens), at |-> i]
           J == {j \in DOMAIN prev : enrichedCount(prev[j], lens) > 0}
           f == [i \in J |-> Of_(i)]
<1>2. DOMAIN prev = 1..(MinWeeks - 1)
  BY <1>1 DEF PrevWeeks
<1>3. IsFiniteSet(J) /\ Cardinality(J) \in 0..(MinWeeks - 1)
  <2>1. IsFiniteSet(1..(MinWeeks - 1)) /\ Cardinality(1..(MinWeeks - 1)) = MinWeeks - 1
    BY FS_Interval
  <2>2. J \in SUBSET (1..(MinWeeks - 1))
    BY <1>2
  <2> HIDE DEF J
  <2>3. IsFiniteSet(J) /\ Cardinality(J) \in Nat /\ Cardinality(J) <= MinWeeks - 1
    BY <2>1, <2>2, Smaller
  <2> QED
    BY <2>3
<1>4. Baseline(week, lens) = {f[i] : i \in J}
  BY <1>1 DEF Baseline
<1>5. ASSUME NEW i \in J PROVE WeekFit(f[i])
  <2>1. PICK w : w = prev[i]
    OBVIOUS
  <2>2. enrichedCount(w, lens) \in Nat
    <3>1. {p \in swePosted(w, lens) : enriched(p)} \in SUBSET Posting
      BY DEF swePosted, SWEJobs, Stored
    <3> QED
      BY <3>1, Smaller DEF enrichedCount
  <2>3. ASSUME NEW s \in Slug PROVE techCounts(w, lens)[s] \in Nat
    <3>1. {p \in swePosted(w, lens) : Mentions(p, s)} \in SUBSET Posting
      BY DEF swePosted, SWEJobs, Stored
    <3> QED
      BY <3>1, Smaller DEF techCounts
  <2>4. enrichedCount(w, lens) > 0
    BY <2>1
  <2> QED
    BY <2>1, <2>2, <2>3, <2>4 DEF WeekFit
<1>6. DOMAIN f = J
  OBVIOUS
<1> HIDE DEF f, J
<1>7. IsFiniteSet({f[i] : i \in J}) /\ Cardinality({f[i] : i \in J}) <= Cardinality(J)
  BY <1>3, <1>6, Images
<1>8. Cardinality({f[i] : i \in J}) \in Nat
  BY <1>7, FS_CardinalityType
<1> QED
  BY <1>3, <1>4, <1>5, <1>7, <1>8

\* How far a technology moved is a number.
LEMMA MomentumIn ==
  ASSUME NEW n \in Nat, NEW denom \in Nat, NEW base, IsFiniteSet(base),
         \A b \in base : WeekFit(b), NEW s \in Slug
  PROVE  MomentumOf(n, denom, base, s) \in Int
<1> DEFINE denoms == [b \in base |-> b.denom]
<1>1. PICK whole : whole = ProductOf(denoms)
  OBVIOUS
<1> DEFINE parts == [b \in base |-> b.counts[s] * (whole \div b.denom)]
<1>2. whole \in Int
  <2>1. DOMAIN denoms = base /\ \A b \in base : denoms[b] \in Int
    BY DEF WeekFit
  <2> HIDE DEF denoms
  <2> QED
    BY <1>1, <2>1, ProductIn
<1>3. SumOf(parts) \in Int
  <2>1. \A b \in base : b.denom \in Nat \ {0} /\ b.counts[s] \in Nat
    BY DEF WeekFit
  <2>2. \A k \in Nat \ {0} : whole \div k \in Int
    BY <1>2
  <2>3. \A j \in Nat, k \in Int : j * k \in Int
    OBVIOUS
  <2>4. \A b \in base : b.counts[s] * (whole \div b.denom) \in Int
    BY <2>1, <2>2, <2>3, Zenon
  <2>5. (\A b \in base : parts[b] \in Int) /\ On(parts, base) = parts
    BY <2>4 DEF On
  <2> HIDE DEF parts
  <2>6. SumOf(On(parts, base)) \in Int
    BY <2>5, SumStep
  <2> QED
    BY <2>5, <2>6
<1>4. Cardinality(base) \in Nat
  BY FS_CardinalityType
<1>5. MomentumOf(n, denom, base, s) = n * Cardinality(base) * whole - denom * SumOf(parts)
  BY <1>1 DEF MomentumOf
<1> HIDE DEF parts
<1>6. PICK c, m : c = Cardinality(base) /\ m = SumOf(parts)
  OBVIOUS
<1>7. n * c * whole - denom * m \in Int
  BY <1>2, <1>3, <1>4, <1>6
<1> QED
  BY <1>5, <1>6, <1>7

\* No technology rises and falls, and one that may move has a full history.
LEMMA TableMoves ==
  ASSUME MinWeeks \in Nat \ {0}, NEW base, IsFiniteSet(base),
         Cardinality(base) \in 0..(MinWeeks - 1), \A b \in base : WeekFit(b),
         NEW denom \in Nat, NEW counts, \A s \in Slug : counts[s] \in Nat
  PROVE  LET table == TechTable(denom, counts, base)
         IN  /\ table.rising \cap table.falling = {}
             /\ table.rising \cup table.falling \subseteq table.eligible
             /\ table.eligible # {} => table.history = MinWeeks
<1>1. PICK table : table = TechTable(denom, counts, base)
  OBVIOUS
<1> DEFINE Moves(s) == MomentumOf(counts[s], denom, base, s)
           available == Cardinality(base) + (IF denom > 0 THEN 1 ELSE 0)
<1>2. \A s \in Slug : Moves(s) \in Int
  BY MomentumIn
<1>3. /\ \A s \in table.rising : s \in table.eligible /\ Moves(s) > 0
      /\ \A s \in table.falling : s \in table.eligible /\ Moves(s) < 0
      /\ table.history = available
      /\ \A s \in table.eligible : s \in Slug /\ ~(available < MinWeeks)
  BY <1>1 DEF TechTable, Top, Suppressed
<1> HIDE DEF Moves
<1>4. available \in Nat /\ available <= MinWeeks
  OBVIOUS
<1> QED
  BY <1>1, <1>2, <1>3, <1>4
=============================================================================
