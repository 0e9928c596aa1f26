----------------------------- MODULE ShopProofs -----------------------------
(***************************************************************************)
(* For any catalogue, any freight table and any orders: the storefront, the *)
(* quotes and the reports tell one story, and every part of the shop keeps  *)
(* its variables to their values.                                           *)
(***************************************************************************)
EXTENDS MCShop, ConnectionsProofs, FiniteSetTheorems, WellFoundedInduction

-----------------------------------------------------------------------------
(* FINITE SETS *)

LEMMA LeastOf ==
  ASSUME NEW T \in SUBSET Nat, T # {}
  PROVE  \E x \in T : \A y \in T : x <= y
<1>1. \E x \in T : \A y \in T : ~ (<<y, x>> \in OpToRel(<, Nat))
  BY NatLessThanWellFounded, WFMin, Zenon
<1>2. PICK x \in T : \A y \in T : ~ (<<y, x>> \in OpToRel(<, Nat))
  BY <1>1
<1>3. ASSUME NEW y \in T PROVE x <= y
  <2>1. x \in Nat /\ y \in Nat
    OBVIOUS
  <2>2. ~ (<<y, x>> \in OpToRel(<, Nat))
    BY <1>2
  <2>3. ~ (y < x)
    BY <2>1, <2>2 DEF OpToRel
  <2> QED
    BY <2>1, <2>3
<1> QED
  BY <1>2, <1>3

(* What holds of the empty set and of a set with one more member, holds:    *)
(* F collects the subsets of S it holds of.                                 *)
LEMMA SetsGrow ==
  ASSUME NEW S, IsFiniteSet(S), NEW F, {} \in F,
         \A t \in SUBSET S : \A x \in S \ t : t \in F => t \cup {x} \in F
  PROVE  S \in F
<1> DEFINE Sizes == {n \in Nat : \E t \in SUBSET S : Cardinality(t) = n /\ t \notin F}
<1> SUFFICES ASSUME S \notin F PROVE FALSE
  OBVIOUS
<1>1. \A t \in SUBSET S : IsFiniteSet(t) /\ Cardinality(t) \in Nat
  BY FS_Subset, FS_CardinalityType
<1>2. S \in SUBSET S /\ Cardinality(S) \in Sizes
  BY <1>1
<1>3. PICK n \in Sizes : \A k \in Sizes : n <= k
  BY <1>2, LeastOf
<1>4. PICK t \in SUBSET S : Cardinality(t) = n /\ t \notin F
  BY <1>3
<1>5. PICK x : x \in t
  BY <1>4
<1>6. Cardinality(t \ {x}) = n - 1 /\ n \in Nat
  BY <1>1, <1>3, <1>4, <1>5, FS_RemoveElement
<1>7. t \ {x} \in F
  <2>1. Cardinality(t \ {x}) \notin Sizes
    <3> HIDE DEF Sizes
    <3> QED
      BY <1>3, <1>6
  <2>2. t \ {x} \in SUBSET S /\ Cardinality(t \ {x}) \in Nat
    BY <1>1
  <2> QED
    BY <2>1, <2>2
<1>8. (t \ {x}) \cup {x} = t /\ x \in S \ (t \ {x}) /\ t \ {x} \in SUBSET S
  BY <1>5
<1> QED
  BY <1>4, <1>7, <1>8

(* Counting up to n, what holds of 0 and of the next number.                *)
LEMMA CountUp ==
  ASSUME NEW n \in Nat, NEW F, 0 \in F, \A k \in 0..(n - 1) : k \in F => k + 1 \in F
  PROVE  n \in F
<1> DEFINE Bad == {k \in 0..n : k \notin F}
<1> SUFFICES ASSUME Bad # {} PROVE FALSE
  OBVIOUS
<1>0. Bad \in SUBSET Nat
  OBVIOUS
<1>1. PICK k \in Bad : \A j \in Bad : k <= j
  <2> HIDE DEF Bad
  <2> QED
    BY <1>0, LeastOf
<1>2. k # 0 /\ k \in 0..n /\ k \notin F
  BY <1>1
<1>3. k - 1 \in 0..n /\ k - 1 \notin Bad /\ k - 1 \in 0..(n - 1)
  BY <1>1, <1>2
<1>4. (k - 1) + 1 = k /\ k - 1 \in F
  BY <1>2, <1>3
<1> QED
  BY <1>2, <1>3, <1>4

-----------------------------------------------------------------------------
(* SUMS *)

First(s) == CHOOSE x \in s : TRUE

(* A table of the sums of f over some sets.                                 *)
SumsOver(D, f, g) ==
  /\ \A s \in D : g[s] \in Int
  /\ \A s \in D : g[s] = IF s = {} THEN 0 ELSE f[First(s)] + g[s \ {First(s)}]

LEMMA FirstIs == ASSUME NEW s, s # {} PROVE First(s) \in s
BY DEF First

LEMMA SumsExist ==
  ASSUME NEW S, IsFiniteSet(S), NEW f, \A x \in S : f[x] \in Int
  PROVE  \E g : g = [s \in SUBSET S |->
                       IF s = {} THEN 0 ELSE f[First(s)] + g[s \ {First(s)}]]
                /\ SumsOver(SUBSET S, f, g)
<1> DEFINE Upto(n) == {s \in SUBSET S : Cardinality(s) <= n}
<1> DEFINE F == {n \in Nat : \E g : SumsOver(Upto(n), f, g)}
<1>1. \A s \in SUBSET S : IsFiniteSet(s) /\ Cardinality(s) \in Nat /\ Cardinality(s) <= Cardinality(S)
  BY FS_Subset, FS_CardinalityType
<1>2. 0 \in F
  <2>1. PICK g : g = [s \in SUBSET S |-> 0]
    OBVIOUS
  <2>2. \A s \in Upto(0) : s = {}
    BY <1>1, FS_EmptySet
  <2>3. SumsOver(Upto(0), f, g)
    BY <2>1, <2>2 DEF SumsOver
  <2> QED
    BY <2>3
<1>3. ASSUME NEW n \in Nat, n \in F PROVE n + 1 \in F
  <2>1. PICK g : SumsOver(Upto(n), f, g)
    BY <1>3
  <2>2. PICK h : h = [s \in SUBSET S |-> IF s \in Upto(n) THEN g[s]
                                          ELSE f[First(s)] + g[s \ {First(s)}]]
    OBVIOUS
  <2>3. ASSUME NEW s \in Upto(n + 1), s # {}
        PROVE  First(s) \in S /\ s \ {First(s)} \in Upto(n)
    <3>1. First(s) \in s
      BY <2>3, FirstIs
    <3>2. Cardinality(s \ {First(s)}) = Cardinality(s) - 1
      BY <1>1, <3>1, FS_RemoveElement
    <3> QED
      BY <1>1, <3>1, <3>2
  <2>4. ASSUME NEW s \in Upto(n + 1)
        PROVE  h[s] \in Int /\ h[s] = IF s = {} THEN 0 ELSE f[First(s)] + h[s \ {First(s)}]
    <3>1. CASE s \in Upto(n)
      <4>1. h[s] = g[s]
        BY <2>2, <3>1
      <4>2. s # {} => h[s \ {First(s)}] = g[s \ {First(s)}]
        BY <2>2, <2>3
      <4> QED
        BY <2>1, <3>1, <4>1, <4>2 DEF SumsOver
    <3>2. CASE s \notin Upto(n)
      <4>1. s # {}
        <5>1. Cardinality({}) = 0
          BY FS_EmptySet
        <5> QED
          BY <3>2, <5>1
      <4>2. s \ {First(s)} \in Upto(n) /\ First(s) \in S
        BY <2>3, <4>1
      <4>3. h[s] = f[First(s)] + g[s \ {First(s)}]
        BY <2>2, <3>2
      <4>4. h[s \ {First(s)}] = g[s \ {First(s)}] /\ g[s \ {First(s)}] \in Int
        BY <2>1, <2>2, <4>2 DEF SumsOver
      <4> QED
        BY <4>1, <4>2, <4>3, <4>4
    <3> QED
      BY <3>1, <3>2
  <2>5. SumsOver(Upto(n + 1), f, h)
    BY <2>4 DEF SumsOver
  <2> HIDE DEF Upto
  <2> QED
    BY <2>5
<1>4. Cardinality(S) \in F
  <2>1. Cardinality(S) \in Nat
    BY <1>1
  <2> HIDE DEF F
  <2> QED
    BY <1>2, <1>3, <2>1, CountUp
<1>5. Upto(Cardinality(S)) = SUBSET S
  BY <1>1
<1>6. PICK g : SumsOver(SUBSET S, f, g)
  BY <1>4, <1>5
<1>7. PICK h : h = [s \in SUBSET S |-> g[s]]
  OBVIOUS
<1>8. \A s \in SUBSET S : s \ {First(s)} \in SUBSET S
  OBVIOUS
<1>9. SumsOver(SUBSET S, f, h)
  BY <1>6, <1>7, <1>8 DEF SumsOver
<1>10. h = [s \in SUBSET S |-> IF s = {} THEN 0 ELSE f[First(s)] + h[s \ {First(s)}]]
  BY <1>7, <1>9 DEF SumsOver
<1> QED
  BY <1>9, <1>10

(* The sum of a function over a set is what any such table says.            *)
LEMMA SumIs ==
  ASSUME NEW S, NEW f, IsFiniteSet(S), \A x \in S : f[x] \in Int,
         NEW T \in SUBSET S, NEW g, SumsOver(SUBSET S, f, g)
  PROVE  SumFunctionOnSet(f, T) = g[T]
<1>1. PICK h : /\ h = CHOOSE k : k = [s \in SUBSET T |->
                        IF s = {} THEN 0
                        ELSE f[CHOOSE x \in s : TRUE] + k[s \ {CHOOSE x \in s : TRUE}]]
               /\ SumFunctionOnSet(f, T) = h[T]
  BY Zenon DEF SumFunctionOnSet, FoldFunctionOnSet, MapThenFoldSet
<1>2. IsFiniteSet(T) /\ \A x \in T : f[x] \in Int
  BY FS_Subset
<1>3. \E k : k = [s \in SUBSET T |->
                    IF s = {} THEN 0 ELSE f[First(s)] + k[s \ {First(s)}]]
  <2>1. PICK k : /\ k = [s \in SUBSET T |->
                           IF s = {} THEN 0 ELSE f[First(s)] + k[s \ {First(s)}]]
                 /\ SumsOver(SUBSET T, f, k)
    BY <1>2, SumsExist
  <2> QED
    BY <2>1
<1>4. h = [s \in SUBSET T |-> IF s = {} THEN 0 ELSE f[First(s)] + h[s \ {First(s)}]]
  BY <1>1, <1>3, Zenon DEF First
<1> DEFINE F == {s \in SUBSET T : h[s] = g[s]}
<1> DEFINE Bad == {n \in Nat : \E s \in SUBSET T : Cardinality(s) = n /\ h[s] # g[s]}
<1>5. \A s \in SUBSET T : IsFiniteSet(s) /\ Cardinality(s) \in Nat
  BY <1>2, FS_Subset, FS_CardinalityType
<1>6. Bad = {}
  <2> SUFFICES ASSUME Bad # {} PROVE FALSE
    OBVIOUS
  <2>1. PICK n \in Bad : \A k \in Bad : n <= k
    BY LeastOf
  <2>2. PICK s \in SUBSET T : Cardinality(s) = n /\ h[s] # g[s]
    BY <2>1
  <2>3. s \in SUBSET S /\ g[s] = IF s = {} THEN 0 ELSE f[First(s)] + g[s \ {First(s)}]
    BY DEF SumsOver
  <2>4. h[s] = IF s = {} THEN 0 ELSE f[First(s)] + h[s \ {First(s)}]
    BY <1>4
  <2>5. s # {}
    BY <2>2, <2>3, <2>4
  <2>6. First(s) \in s
    BY <2>5, FirstIs
  <2>7. Cardinality(s \ {First(s)}) = n - 1 /\ n \in Nat
    BY <1>5, <2>1, <2>2, <2>6, FS_RemoveElement
  <2>8. s \ {First(s)} \in SUBSET T /\ Cardinality(s \ {First(s)}) \in Nat
    BY <1>5
  <2>9. h[s \ {First(s)}] = g[s \ {First(s)}]
    BY <2>1, <2>7, <2>8
  <2> QED
    BY <2>2, <2>3, <2>4, <2>5, <2>9
<1>7. T \in SUBSET T /\ h[T] = g[T]
  BY <1>5, <1>6
<1> QED
  BY <1>1, <1>7

LEMMA SumOfNone == ASSUME NEW f PROVE SumFunctionOnSet(f, {}) = 0
<1>1. IsFiniteSet({})
  BY FS_EmptySet
<1>2. PICK g : SumsOver(SUBSET {}, f, g)
  BY <1>1, SumsExist
<1>3. SumFunctionOnSet(f, {}) = g[{}]
  BY <1>1, <1>2, SumIs
<1> QED
  BY <1>2, <1>3 DEF SumsOver

LEMMA SumInt ==
  ASSUME NEW S, NEW f, IsFiniteSet(S), \A x \in S : f[x] \in Int
  PROVE  SumFunctionOnSet(f, S) \in Int
<1>1. PICK g : SumsOver(SUBSET S, f, g)
  BY SumsExist
<1>2. S \in SUBSET S /\ g[S] \in Int
  BY <1>1 DEF SumsOver
<1>3. SumFunctionOnSet(f, S) = g[S]
  BY <1>1, <1>2, SumIs
<1> QED
  BY <1>2, <1>3

(* Any member may be taken out of a sum, not only the one chosen first.     *)
LEMMA SumWithout ==
  ASSUME NEW S, NEW f, IsFiniteSet(S), \A x \in S : f[x] \in Int, NEW x \in S
  PROVE  SumFunctionOnSet(f, S) = f[x] + SumFunctionOnSet(f, S \ {x})
<1>1. PICK g : SumsOver(SUBSET S, f, g)
  BY SumsExist
<1>2. \A t \in SUBSET S : SumFunctionOnSet(f, t) = g[t]
  BY <1>1, SumIs
<1> DEFINE Bad == {n \in Nat : \E t \in SUBSET S :
                     Cardinality(t) = n /\ \E y \in t : g[t] # f[y] + g[t \ {y}]}
<1>3. \A t \in SUBSET S : IsFiniteSet(t) /\ Cardinality(t) \in Nat
  BY FS_Subset, FS_CardinalityType
<1>4. Bad = {}
  <2> SUFFICES ASSUME Bad # {} PROVE FALSE
    OBVIOUS
  <2>1. PICK n \in Bad : \A k \in Bad : n <= k
    BY LeastOf
  <2>2. PICK t \in SUBSET S : Cardinality(t) = n /\ \E y \in t : g[t] # f[y] + g[t \ {y}]
    BY <2>1
  <2>3. PICK y \in t : g[t] # f[y] + g[t \ {y}]
    BY <2>2
  <2>4. PICK z : z = First(t)
    OBVIOUS
  <2>5. z \in t /\ g[t] = f[z] + g[t \ {z}]
    BY <1>1, <2>3, <2>4, FirstIs DEF SumsOver
  <2>6. y # z
    BY <2>3, <2>5
  <2>7. \A u \in t : Cardinality(t \ {u}) = n - 1 /\ n \in Nat
    BY <1>3, <2>2, FS_RemoveElement
  <2>8. \A u \in t : \A v \in t \ {u} : g[t \ {u}] = f[v] + g[(t \ {u}) \ {v}]
    <3> SUFFICES ASSUME NEW u \in t, NEW v \in t \ {u}, g[t \ {u}] # f[v] + g[(t \ {u}) \ {v}]
                 PROVE  FALSE
      OBVIOUS
    <3>1. t \ {u} \in SUBSET S /\ Cardinality(t \ {u}) = n - 1 /\ n - 1 \in Nat
      BY <1>3, <2>7
    <3>2. n - 1 \in Bad
      BY <3>1
    <3> QED
      BY <2>1, <2>7, <3>2
  <2>9. (t \ {z}) \ {y} = (t \ {y}) \ {z}
    OBVIOUS
  <2>10. g[t \ {z}] = f[y] + g[(t \ {z}) \ {y}] /\ g[t \ {y}] = f[z] + g[(t \ {z}) \ {y}]
    <3>1. y \in t \ {z} /\ z \in t \ {y}
      BY <2>5, <2>6
    <3>2. g[t \ {z}] = f[y] + g[(t \ {z}) \ {y}]
      BY <2>5, <2>8, <3>1
    <3>3. g[t \ {y}] = f[z] + g[(t \ {y}) \ {z}]
      BY <2>8, <3>1
    <3> QED
      BY <2>9, <3>2, <3>3
  <2>11. f[y] \in Int /\ f[z] \in Int /\ g[(t \ {z}) \ {y}] \in Int
    BY <1>1, <2>5 DEF SumsOver
  <2> QED
    BY <2>3, <2>5, <2>10, <2>11
<1>5. S \in SUBSET S /\ S \ {x} \in SUBSET S /\ g[S] = f[x] + g[S \ {x}]
  BY <1>3, <1>4
<1> QED
  BY <1>2, <1>5

LEMMA SumWith ==
  ASSUME NEW S, NEW f, IsFiniteSet(S), NEW x, x \notin S,
         \A y \in S \cup {x} : f[y] \in Int
  PROVE  SumFunctionOnSet(f, S \cup {x}) = f[x] + SumFunctionOnSet(f, S)
<1>1. IsFiniteSet(S \cup {x}) /\ (S \cup {x}) \ {x} = S
  BY FS_AddElement
<1> QED
  BY <1>1, SumWithout

LEMMA SumSame ==
  ASSUME NEW S, NEW f, NEW g, IsFiniteSet(S), \A x \in S : f[x] \in Int /\ g[x] = f[x]
  PROVE  SumFunctionOnSet(g, S) = SumFunctionOnSet(f, S)
<1> DEFINE F == {t \in SUBSET S : SumFunctionOnSet(g, t) = SumFunctionOnSet(f, t)}
<1>1. {} \in F
  BY SumOfNone
<1>2. ASSUME NEW t \in SUBSET S, NEW x \in S \ t, t \in F PROVE t \cup {x} \in F
  <2>1. IsFiniteSet(t) /\ t \cup {x} \in SUBSET S /\ x \notin t
    BY FS_Subset
  <2>2. \A y \in t \cup {x} : f[y] \in Int /\ g[y] \in Int
    BY <2>1
  <2>3. SumFunctionOnSet(f, t \cup {x}) = f[x] + SumFunctionOnSet(f, t)
    BY <2>1, <2>2, SumWith
  <2>4. SumFunctionOnSet(g, t \cup {x}) = g[x] + SumFunctionOnSet(g, t)
    BY <2>1, <2>2, SumWith
  <2> QED
    BY <1>2, <2>1, <2>3, <2>4
<1>3. S \in F
  <2> HIDE DEF F
  <2> QED
    BY <1>1, <1>2, SetsGrow
<1> QED
  BY <1>3

LEMMA SumNat ==
  ASSUME NEW S, NEW f, IsFiniteSet(S), \A x \in S : f[x] \in Nat
  PROVE  /\ SumFunctionOnSet(f, S) \in Nat
         /\ \A x \in S : f[x] <= SumFunctionOnSet(f, S)
<1> DEFINE F == {t \in SUBSET S : SumFunctionOnSet(f, t) \in Nat}
<1>1. {} \in F
  BY SumOfNone
<1>2. ASSUME NEW t \in SUBSET S, NEW x \in S \ t, t \in F PROVE t \cup {x} \in F
  <2>1. IsFiniteSet(t) /\ t \cup {x} \in SUBSET S /\ x \notin t
    BY FS_Subset
  <2>2. SumFunctionOnSet(f, t \cup {x}) = f[x] + SumFunctionOnSet(f, t)
    BY <2>1, SumWith
  <2> QED
    BY <1>2, <2>1, <2>2
<1>3. \A t \in SUBSET S : t \in F
  <2> SUFFICES ASSUME NEW t \in SUBSET S PROVE t \in F
    OBVIOUS
  <2>1. IsFiniteSet(t) /\ \A u \in SUBSET t : \A x \in t \ u : u \in F => u \cup {x} \in F
    <3> HIDE DEF F
    <3> QED
      BY <1>2, FS_Subset
  <2> HIDE DEF F
  <2> QED
    BY <1>1, <2>1, SetsGrow
<1>4. ASSUME NEW x \in S PROVE f[x] <= SumFunctionOnSet(f, S)
  <2>1. SumFunctionOnSet(f, S) = f[x] + SumFunctionOnSet(f, S \ {x})
    BY SumWithout
  <2>2. SumFunctionOnSet(f, S \ {x}) \in Nat /\ f[x] \in Nat
    BY <1>3
  <2> QED
    BY <2>1, <2>2
<1> QED
  BY <1>3, <1>4

LEMMA SumOfZeros ==
  ASSUME NEW S, NEW f, IsFiniteSet(S), \A x \in S : f[x] = 0
  PROVE  SumFunctionOnSet(f, S) = 0
<1> DEFINE F == {t \in SUBSET S : SumFunctionOnSet(f, t) = 0}
<1>1. {} \in F
  BY SumOfNone
<1>2. ASSUME NEW t \in SUBSET S, NEW x \in S \ t, t \in F PROVE t \cup {x} \in F
  <2>1. IsFiniteSet(t) /\ t \cup {x} \in SUBSET S /\ x \notin t
    BY FS_Subset
  <2>2. SumFunctionOnSet(f, t \cup {x}) = f[x] + SumFunctionOnSet(f, t)
    BY <2>1, SumWith
  <2> QED
    BY <1>2, <2>1, <2>2
<1>3. S \in F
  <2> HIDE DEF F
  <2> QED
    BY <1>1, <1>2, SetsGrow
<1> QED
  BY <1>3

(* To count is to add ones.                                                 *)
LEMMA SumOfOnes ==
  ASSUME NEW S, NEW f, IsFiniteSet(S), \A x \in S : f[x] = 1
  PROVE  SumFunctionOnSet(f, S) = Cardinality(S)
<1> DEFINE F == {t \in SUBSET S : SumFunctionOnSet(f, t) = Cardinality(t)}
<1>1. {} \in F
  BY SumOfNone, FS_EmptySet
<1>2. ASSUME NEW t \in SUBSET S, NEW x \in S \ t, t \in F PROVE t \cup {x} \in F
  <2>1. IsFiniteSet(t) /\ t \cup {x} \in SUBSET S /\ x \notin t
    BY FS_Subset
  <2>2. SumFunctionOnSet(f, t \cup {x}) = 1 + SumFunctionOnSet(f, t)
    BY <2>1, SumWith
  <2>3. Cardinality(t \cup {x}) = Cardinality(t) + 1 /\ Cardinality(t) \in Nat
    BY <2>1, FS_AddElement, FS_CardinalityType
  <2> QED
    BY <1>2, <2>1, <2>2, <2>3
<1>3. S \in F
  <2> HIDE DEF F
  <2> QED
    BY <1>1, <1>2, SetsGrow
<1> QED
  BY <1>3

LEMMA SumOfUnion ==
  ASSUME NEW A, NEW B, IsFiniteSet(A), IsFiniteSet(B), A \cap B = {},
         NEW f, \A x \in A \cup B : f[x] \in Int
  PROVE  SumFunctionOnSet(f, A \cup B) = SumFunctionOnSet(f, A) + SumFunctionOnSet(f, B)
<1> DEFINE F == {t \in SUBSET B : SumFunctionOnSet(f, A \cup t) =
                                   SumFunctionOnSet(f, A) + SumFunctionOnSet(f, t)}
<1>0. \A t \in SUBSET B : /\ IsFiniteSet(t) /\ IsFiniteSet(A \cup t)
                          /\ SumFunctionOnSet(f, t) \in Int
                          /\ SumFunctionOnSet(f, A \cup t) \in Int
  <2> SUFFICES ASSUME NEW t \in SUBSET B
               PROVE  /\ IsFiniteSet(t) /\ IsFiniteSet(A \cup t)
                      /\ SumFunctionOnSet(f, t) \in Int
                      /\ SumFunctionOnSet(f, A \cup t) \in Int
    OBVIOUS
  <2>1. IsFiniteSet(t) /\ IsFiniteSet(A \cup t)
    BY FS_Subset, FS_Union
  <2> QED
    BY <2>1, SumInt
<1>1. {} \in F
  <2>1. A \cup {} = A /\ SumFunctionOnSet(f, A) \in Int
    BY SumInt
  <2> QED
    BY <2>1, SumOfNone
<1>2. ASSUME NEW t \in SUBSET B, NEW x \in B \ t, t \in F PROVE t \cup {x} \in F
  <2>1. IsFiniteSet(t) /\ IsFiniteSet(A \cup t)
    BY <1>0
  <2>2. t \cup {x} \in SUBSET B /\ x \notin t /\ x \notin A \cup t
        /\ A \cup (t \cup {x}) = (A \cup t) \cup {x} /\ f[x] \in Int
    OBVIOUS
  <2>3. SumFunctionOnSet(f, t \cup {x}) = f[x] + SumFunctionOnSet(f, t)
    BY <2>1, <2>2, SumWith
  <2>4. SumFunctionOnSet(f, (A \cup t) \cup {x}) = f[x] + SumFunctionOnSet(f, A \cup t)
    BY <2>1, <2>2, SumWith
  <2>5. SumFunctionOnSet(f, t) \in Int /\ SumFunctionOnSet(f, A) \in Int
    BY <1>0, SumInt
  <2>6. SumFunctionOnSet(f, A \cup t) = SumFunctionOnSet(f, A) + SumFunctionOnSet(f, t)
    BY <1>2
  <2>7. SumFunctionOnSet(f, A \cup (t \cup {x})) = SumFunctionOnSet(f, (A \cup t) \cup {x})
    BY <2>2
  <2>8. SumFunctionOnSet(f, A \cup (t \cup {x})) =
          SumFunctionOnSet(f, A) + SumFunctionOnSet(f, t \cup {x})
    <3> HIDE DEF F
    <3> QED
      BY <2>2, <2>3, <2>4, <2>5, <2>6, <2>7
  <2> QED
    BY <2>2, <2>8
<1>3. B \in F
  <2> HIDE DEF F
  <2> QED
    BY <1>1, <1>2, SetsGrow
<1> QED
  BY <1>3

LEMMA SumOfSums ==
  ASSUME NEW S, NEW f, NEW g, NEW h, IsFiniteSet(S),
         \A x \in S : f[x] \in Int /\ g[x] \in Int /\ h[x] = f[x] + g[x]
  PROVE  SumFunctionOnSet(h, S) = SumFunctionOnSet(f, S) + SumFunctionOnSet(g, S)
<1> DEFINE F == {t \in SUBSET S : SumFunctionOnSet(h, t) =
                                   SumFunctionOnSet(f, t) + SumFunctionOnSet(g, t)}
<1>1. {} \in F
  BY SumOfNone
<1>2. ASSUME NEW t \in SUBSET S, NEW x \in S \ t, t \in F PROVE t \cup {x} \in F
  <2>1. IsFiniteSet(t) /\ t \cup {x} \in SUBSET S /\ x \notin t
    BY FS_Subset
  <2>2. \A y \in t \cup {x} : f[y] \in Int /\ g[y] \in Int /\ h[y] \in Int
    BY <2>1
  <2>3. SumFunctionOnSet(f, t \cup {x}) = f[x] + SumFunctionOnSet(f, t)
    BY <2>1, <2>2, SumWith
  <2>4. SumFunctionOnSet(g, t \cup {x}) = g[x] + SumFunctionOnSet(g, t)
    BY <2>1, <2>2, SumWith
  <2>5. SumFunctionOnSet(h, t \cup {x}) = h[x] + SumFunctionOnSet(h, t)
    BY <2>1, <2>2, SumWith
  <2>6. SumFunctionOnSet(f, t) \in Int /\ SumFunctionOnSet(g, t) \in Int
    BY <2>1, <2>2, SumInt
  <2> QED
    BY <1>2, <2>1, <2>2, <2>3, <2>4, <2>5, <2>6
<1>3. S \in F
  <2> HIDE DEF F
  <2> QED
    BY <1>1, <1>2, SetsGrow
<1> QED
  BY <1>3

LEMMA SumScaled ==
  ASSUME NEW S, NEW f, NEW h, NEW c \in Int, IsFiniteSet(S),
         \A x \in S : f[x] \in Int /\ h[x] = f[x] * c
  PROVE  SumFunctionOnSet(h, S) = SumFunctionOnSet(f, S) * c
<1> DEFINE F == {t \in SUBSET S : SumFunctionOnSet(h, t) = SumFunctionOnSet(f, t) * c}
<1>1. {} \in F
  BY SumOfNone
<1>2. ASSUME NEW t \in SUBSET S, NEW x \in S \ t, t \in F PROVE t \cup {x} \in F
  <2>1. IsFiniteSet(t) /\ t \cup {x} \in SUBSET S /\ x \notin t
    BY FS_Subset
  <2>2. \A y \in t \cup {x} : f[y] \in Int /\ h[y] \in Int
    BY <2>1
  <2>3. SumFunctionOnSet(f, t \cup {x}) = f[x] + SumFunctionOnSet(f, t)
    BY <2>1, <2>2, SumWith
  <2>4. SumFunctionOnSet(h, t \cup {x}) = h[x] + SumFunctionOnSet(h, t)
    BY <2>1, <2>2, SumWith
  <2>5. SumFunctionOnSet(f, t) \in Int
    BY <2>1, <2>2, SumInt
  <2>6. \A a, b \in Int : a * c + b * c = (a + b) * c
    OBVIOUS
  <2>7. f[x] \in Int /\ h[x] = f[x] * c /\ SumFunctionOnSet(h, t) = SumFunctionOnSet(f, t) * c
    BY <1>2
  <2>8. SumFunctionOnSet(h, t \cup {x}) = (f[x] + SumFunctionOnSet(f, t)) * c
    BY <2>4, <2>5, <2>6, <2>7
  <2> QED
    BY <2>1, <2>3, <2>8
<1>3. S \in F
  <2> HIDE DEF F
  <2> QED
    BY <1>1, <1>2, SetsGrow
<1> QED
  BY <1>3

Keyed(S, key, k) == {x \in S : key[x] = k}

(* Members sorted by a key: the sums of the parts add up to the whole.      *)
LEMMA SumByKey ==
  ASSUME NEW S, IsFiniteSet(S), NEW K, IsFiniteSet(K), NEW key, \A x \in S : key[x] \in K,
         NEW f, \A x \in S : f[x] \in Int,
         NEW t, \A k \in K : t[k] = SumFunctionOnSet(f, Keyed(S, key, k))
  PROVE  SumFunctionOnSet(t, K) = SumFunctionOnSet(f, S)
<1> DEFINE Of(J) == {x \in S : key[x] \in J}
<1> DEFINE F == {J \in SUBSET K : SumFunctionOnSet(t, J) = SumFunctionOnSet(f, Of(J))}
<1>0. \A k \in K : t[k] \in Int
  <2> SUFFICES ASSUME NEW k \in K PROVE t[k] \in Int
    OBVIOUS
  <2>1. IsFiniteSet(Keyed(S, key, k)) /\ Keyed(S, key, k) \in SUBSET S
    BY FS_Subset DEF Keyed
  <2>2. SumFunctionOnSet(f, Keyed(S, key, k)) \in Int
    BY <2>1, SumInt
  <2> QED
    BY <2>2
<1>1. {} \in F
  <2>1. Of({}) = {}
    OBVIOUS
  <2> QED
    BY <2>1, SumOfNone
<1>2. ASSUME NEW J \in SUBSET K, NEW k \in K \ J, J \in F PROVE J \cup {k} \in F
  <2>1. IsFiniteSet(J) /\ J \cup {k} \in SUBSET K
    BY FS_Subset
  <2>2. SumFunctionOnSet(t, J \cup {k}) = t[k] + SumFunctionOnSet(t, J)
    BY <1>0, <2>1, SumWith
  <2>3. PICK P : P = Keyed(S, key, k)
    OBVIOUS
  <2>4. IsFiniteSet(P) /\ IsFiniteSet(Of(J)) /\ Of(J) \cap P = {} /\ Of(J \cup {k}) = Of(J) \cup P
    BY <2>3, FS_Subset DEF Keyed
  <2>5. \A x \in Of(J) \cup P : f[x] \in Int
    BY <2>3 DEF Keyed
  <2>6. SumFunctionOnSet(f, Of(J) \cup P) = SumFunctionOnSet(f, Of(J)) + SumFunctionOnSet(f, P)
    <3> HIDE DEF Of
    <3> QED
      BY <2>4, <2>5, SumOfUnion
  <2>7. SumFunctionOnSet(f, Of(J)) \in Int /\ SumFunctionOnSet(f, P) \in Int
    <3> HIDE DEF Of
    <3> QED
      BY <2>4, <2>5, SumInt
  <2>8. SumFunctionOnSet(t, J) = SumFunctionOnSet(f, Of(J)) /\ t[k] = SumFunctionOnSet(f, P)
    BY <1>2, <2>3
  <2>9. SumFunctionOnSet(t, J \cup {k}) = SumFunctionOnSet(f, Of(J \cup {k}))
    <3> HIDE DEF Of, F
    <3>1. SumFunctionOnSet(f, Of(J \cup {k})) = SumFunctionOnSet(f, Of(J) \cup P)
      BY <2>4
    <3> QED
      BY <3>1, <2>2, <2>6, <2>7, <2>8
  <2> QED
    BY <2>1, <2>9
<1>3. K \in F
  <2> HIDE DEF F
  <2> QED
    BY <1>1, <1>2, SetsGrow
<1>4. Of(K) = S
  OBVIOUS
<1> QED
  BY <1>3, <1>4

Cells(m, A, B) == \A a \in A : \A b \in B : m[a][b] \in Int

Column(m, A, b) == [a \in A |-> m[a][b]]

(* Adding up a table by rows or by columns.                                 *)
LEMMA SumByColumns ==
  ASSUME NEW A, IsFiniteSet(A), NEW B, IsFiniteSet(B),
         NEW m, Cells(m, A, B),
         NEW rows, \A a \in A : rows[a] = SumFunctionOnSet(m[a], B),
         NEW cols, \A b \in B : cols[b] = SumFunctionOnSet(Column(m, A, b), A)
  PROVE  SumFunctionOnSet(rows, A) = SumFunctionOnSet(cols, B)
<1> USE DEF Cells
<1> DEFINE Col(b) == Column(m, A, b)
<1> DEFINE Cols(J) == [b \in B |-> SumFunctionOnSet(Col(b), J)]
<1> DEFINE F == {J \in SUBSET A : SumFunctionOnSet(rows, J) = SumFunctionOnSet(Cols(J), B)}
<1>0. \A a \in A : rows[a] \in Int
  BY SumInt
<1>1. {} \in F
  <2>1. \A b \in B : Cols({})[b] = 0
    BY SumOfNone
  <2>2. SumFunctionOnSet(Cols({}), B) = 0
    <3> HIDE DEF Cols
    <3> QED
      BY <2>1, SumOfZeros
  <2> QED
    BY <2>2, SumOfNone
<1>2. ASSUME NEW J \in SUBSET A, NEW a \in A \ J, J \in F PROVE J \cup {a} \in F
  <2>1. IsFiniteSet(J) /\ J \cup {a} \in SUBSET A
    BY FS_Subset
  <2>2. SumFunctionOnSet(rows, J \cup {a}) = rows[a] + SumFunctionOnSet(rows, J)
    BY <1>0, <2>1, SumWith
  <2>3. ASSUME NEW b \in B
        PROVE  /\ m[a][b] \in Int /\ Cols(J)[b] \in Int
               /\ Cols(J \cup {a})[b] = m[a][b] + Cols(J)[b]
    <3>1. \A c \in J \cup {a} : Col(b)[c] \in Int /\ Col(b)[a] = m[a][b]
      BY <2>1 DEF Column
    <3>2. SumFunctionOnSet(Col(b), J \cup {a}) = Col(b)[a] + SumFunctionOnSet(Col(b), J)
      <4> HIDE DEF Col
      <4> QED
        BY <2>1, <3>1, SumWith
    <3>3. SumFunctionOnSet(Col(b), J) \in Int
      <4> HIDE DEF Col
      <4> QED
        BY <2>1, <3>1, SumInt
    <3>4. Cols(J)[b] = SumFunctionOnSet(Col(b), J)
          /\ Cols(J \cup {a})[b] = SumFunctionOnSet(Col(b), J \cup {a})
      OBVIOUS
    <3>5. m[a][b] \in Int /\ Col(b)[a] = m[a][b]
      BY <3>1
    <3> HIDE DEF Col, Cols
    <3> QED
      BY <3>2, <3>3, <3>4, <3>5
  <2>4. SumFunctionOnSet(Cols(J \cup {a}), B) =
          SumFunctionOnSet(m[a], B) + SumFunctionOnSet(Cols(J), B)
    <3> DEFINE one == m[a]
    <3> DEFINE few == Cols(J)
    <3> DEFINE more == Cols(J \cup {a})
    <3>1. \A b \in B : one[b] \in Int /\ few[b] \in Int /\ more[b] = one[b] + few[b]
      <4> HIDE DEF Cols
      <4> QED
        BY <2>3
    <3> HIDE DEF one, few, more, F
    <3>2. SumFunctionOnSet(more, B) =
            SumFunctionOnSet(one, B) + SumFunctionOnSet(few, B)
      BY <3>1, SumOfSums
    <3> QED
      BY <3>2 DEF one, few, more
  <2> HIDE DEF Cols
  <2>5. SumFunctionOnSet(rows, J) = SumFunctionOnSet(Cols(J), B) /\ rows[a] = SumFunctionOnSet(m[a], B)
    BY <1>2
  <2>6. SumFunctionOnSet(rows, J \cup {a}) = SumFunctionOnSet(Cols(J \cup {a}), B)
    <3> HIDE DEF F
    <3> QED
      BY <2>2, <2>4, <2>5
  <2> QED
    BY <2>1, <2>6
<1>3. A \in F
  <2> HIDE DEF F
  <2> QED
    BY <1>1, <1>2, SetsGrow
<1>4. \A b \in B : Cols(A)[b] = cols[b] /\ cols[b] \in Int
  <2> SUFFICES ASSUME NEW b \in B PROVE Cols(A)[b] = cols[b] /\ cols[b] \in Int
    OBVIOUS
  <2>1. \A a \in A : Col(b)[a] \in Int
    BY DEF Column
  <2>2. SumFunctionOnSet(Col(b), A) \in Int
    <3> HIDE DEF Col
    <3> QED
      BY <2>1, SumInt
  <2> QED
    BY <2>2
<1>5. SumFunctionOnSet(Cols(A), B) = SumFunctionOnSet(cols, B)
  <2> HIDE DEF Cols
  <2> QED
    BY <1>4, SumSame
<1> HIDE DEF Cols
<1> QED
  BY <1>3, <1>5

-----------------------------------------------------------------------------
(* RANKS *)

(* R orders X strictly and leaves no two of it untold.                      *)
Ordered(R, X) ==
  /\ \A x \in X : <<x, x>> \notin R
  /\ \A x, y, z \in X : <<x, y>> \in R /\ <<y, z>> \in R => <<x, z>> \in R
  /\ \A x, y \in X : x # y => <<x, y>> \in R \/ <<y, x>> \in R

Rank(R, X, x) == Cardinality({y \in X : <<y, x>> \in R})

LEMMA RankTyped ==
  ASSUME NEW X, IsFiniteSet(X), NEW R, Ordered(R, X), NEW x \in X
  PROVE  Rank(R, X, x) \in 0..(Cardinality(X) - 1)
<1>1. PICK Y : Y = {y \in X : <<y, x>> \in R}
  OBVIOUS
<1>2. Y \in SUBSET X /\ Y # X
  BY <1>1 DEF Ordered
<1>3. Cardinality(Y) \in Nat /\ Cardinality(X) \in Nat /\ Cardinality(Y) < Cardinality(X)
  BY <1>2, FS_Subset, FS_CardinalityType
<1>4. Rank(R, X, x) = Cardinality(Y)
  BY <1>1 DEF Rank
<1> QED
  BY <1>3, <1>4

LEMMA RanksAscend ==
  ASSUME NEW X, IsFiniteSet(X), NEW R, Ordered(R, X), NEW x \in X, NEW y \in X,
         <<x, y>> \in R
  PROVE  Rank(R, X, x) < Rank(R, X, y)
<1>1. PICK A, B : A = {z \in X : <<z, x>> \in R} /\ B = {z \in X : <<z, y>> \in R}
  OBVIOUS
<1>2. A \in SUBSET B
  BY <1>1 DEF Ordered
<1>3. x \in B /\ x \notin A
  BY <1>1 DEF Ordered
<1>4. IsFiniteSet(B) /\ A # B
  BY <1>1, <1>3, FS_Subset
<1>5. Cardinality(A) \in Nat /\ Cardinality(B) \in Nat /\ Cardinality(A) < Cardinality(B)
  BY <1>2, <1>4, FS_Subset, FS_CardinalityType
<1> QED
  BY <1>1, <1>5 DEF Rank

LEMMA OneOfARank ==
  ASSUME NEW X, IsFiniteSet(X), NEW R, Ordered(R, X), NEW x \in X, NEW y \in X,
         Rank(R, X, x) = Rank(R, X, y)
  PROVE  x = y
<1> SUFFICES ASSUME x # y PROVE FALSE
  OBVIOUS
<1>1. <<x, y>> \in R \/ <<y, x>> \in R
  BY DEF Ordered
<1>2. Rank(R, X, x) < Rank(R, X, y) \/ Rank(R, X, y) < Rank(R, X, x)
  BY <1>1, RanksAscend
<1>3. Rank(R, X, x) \in Int /\ Rank(R, X, y) \in Int
  BY RankTyped
<1> QED
  BY <1>2, <1>3

LEMMA EveryRankTaken ==
  ASSUME NEW X, IsFiniteSet(X), NEW R, Ordered(R, X), NEW m \in 0..(Cardinality(X) - 1)
  PROVE  \E x \in X : Rank(R, X, x) = m
<1>1. PICK f : f = [x \in X |-> Rank(R, X, x)]
  OBVIOUS
<1>2. Cardinality(X) \in Nat
  BY FS_CardinalityType
<1>3. PICK T : T = 0..(Cardinality(X) - 1)
  OBVIOUS
<1>4. IsFiniteSet(T) /\ Cardinality(T) = Cardinality(X)
  <2>1. 0 \in Int /\ Cardinality(X) - 1 \in Int
    BY <1>2
  <2>2. IsFiniteSet(T) /\ Cardinality(T) = IF 0 > Cardinality(X) - 1 THEN 0
                                           ELSE Cardinality(X) - 1 - 0 + 1
    BY <1>3, <2>1, FS_Interval
  <2> QED
    BY <1>2, <2>2
<1>5. f \in [X -> T]
  BY <1>1, <1>3, RankTyped
<1>6. \A x, y \in X : f[x] = f[y] => x = y
  BY <1>1, OneOfARank
<1>7. f \in Injection(X, T)
  BY <1>5, <1>6 DEF Injection, IsInjective
<1>8. f \in Surjection(X, T)
  BY <1>4, <1>7, FS_Injection
<1>9. \E x \in X : f[x] = m
  BY <1>3, <1>8 DEF Surjection
<1> QED
  BY <1>1, <1>9

(* A listing of X: nothing twice, and nothing behind what it goes ahead of. *)
Lists(f, R, X) ==
  /\ f \in [1..Cardinality(X) -> X]
  /\ \A i, j \in 1..Cardinality(X) : i < j => f[i] # f[j] /\ <<f[j], f[i]>> \notin R

(* It has the member of rank i - 1 in place i.                              *)
LEMMA ListedByRank ==
  ASSUME NEW X, IsFiniteSet(X), NEW R, Ordered(R, X), NEW f, Lists(f, R, X)
  PROVE  /\ \A i \in 1..Cardinality(X) : Rank(R, X, f[i]) = i - 1
         /\ \A x \in X : \E i \in 1..Cardinality(X) : f[i] = x
<1> USE DEF Lists
<1>1. PICK n : n = Cardinality(X) /\ n \in Nat
  BY FS_CardinalityType
<1>2. \A i, j \in 1..n : f[i] = f[j] => i = j
  <2> SUFFICES ASSUME NEW i \in 1..n, NEW j \in 1..n, f[i] = f[j], i # j PROVE FALSE
    OBVIOUS
  <2>1. i < j \/ j < i
    BY <1>1
  <2> QED
    BY <1>1, <2>1
<1>3. IsFiniteSet(1..n) /\ Cardinality(1..n) = n
  BY <1>1, FS_Interval
<1>4. f \in Injection(1..n, X)
  BY <1>1, <1>2 DEF Injection, IsInjective
<1>5. f \in Surjection(1..n, X)
  BY <1>1, <1>3, <1>4, FS_Injection
<1>6. \A x \in X : \E i \in 1..n : f[i] = x
  BY <1>5 DEF Surjection
<1>7. \A i, j \in 1..n : i < j => <<f[i], f[j]>> \in R
  BY <1>1, <1>2 DEF Ordered
<1>8. ASSUME NEW i \in 1..n PROVE Rank(R, X, f[i]) = i - 1
  <2>1. PICK A : A = {y \in X : <<y, f[i]>> \in R}
    OBVIOUS
  <2>2. PICK g : g = [k \in 1..(i - 1) |-> f[k]]
    OBVIOUS
  <2>3. \A k \in 1..(i - 1) : k \in 1..n /\ k < i
    BY <1>1
  <2>4. g \in [1..(i - 1) -> A]
    BY <1>1, <1>7, <2>1, <2>2, <2>3
  <2>5. \A k, m \in 1..(i - 1) : g[k] = g[m] => k = m
    BY <1>2, <2>2, <2>3
  <2>6. ASSUME NEW y \in A PROVE \E k \in 1..(i - 1) : g[k] = y
    <3>1. PICK k \in 1..n : f[k] = y
      BY <1>6, <2>1
    <3>2. <<f[k], f[i]>> \in R /\ f[i] \in X
      BY <1>1, <2>1, <3>1
    <3>3. k # i /\ ~(i < k)
      BY <1>1, <3>1, <3>2 DEF Ordered
    <3>4. k \in 1..(i - 1)
      BY <1>1, <3>3
    <3> QED
      BY <2>2, <3>1, <3>4
  <2>7. g \in Injection(1..(i - 1), A) /\ g \in Surjection(1..(i - 1), A)
    BY <2>4, <2>5, <2>6 DEF Injection, Surjection, IsInjective
  <2>8. IsFiniteSet(1..(i - 1)) /\ Cardinality(1..(i - 1)) = i - 1
    <3>1. i - 1 \in Int /\ 1 \in Int /\ i - 1 >= 0
      BY <1>1
    <3>2. IsFiniteSet(1..(i - 1)) /\ Cardinality(1..(i - 1)) = IF 1 > i - 1 THEN 0 ELSE i - 1 - 1 + 1
      BY <3>1, FS_Interval
    <3> QED
      BY <3>1, <3>2
  <2>9. Cardinality(A) = i - 1
    BY <2>7, <2>8, FS_Surjection
  <2> QED
    BY <2>1, <2>9 DEF Rank
<1> QED
  BY <1>1, <1>6, <1>8

(* Hence two such listings are one.                                         *)
LEMMA OneListing ==
  ASSUME NEW X, IsFiniteSet(X), NEW R, Ordered(R, X),
         NEW f, NEW g, Lists(f, R, X), Lists(g, R, X)
  PROVE  f = g
<1>1. PICK D : D = 1..Cardinality(X)
  OBVIOUS
<1>2. \A i \in D : Rank(R, X, f[i]) = i - 1
  BY <1>1, ListedByRank
<1>3. \A i \in D : Rank(R, X, g[i]) = i - 1
  BY <1>1, ListedByRank
<1>4. f \in [D -> X] /\ g \in [D -> X]
  BY <1>1 DEF Lists
<1>5. \A i \in D : f[i] = g[i]
  BY <1>2, <1>3, <1>4, OneOfARank
<1>6. f = [i \in D |-> f[i]] /\ g = [i \in D |-> g[i]]
  BY <1>4
<1>7. [i \in D |-> f[i]] = [i \in D |-> g[i]]
  BY <1>5
<1> QED
  BY <1>6, <1>7, Zenon

-----------------------------------------------------------------------------
(* DIVISION AND PAGES *)

LEMMA Quotient ==
  ASSUME NEW a \in Int, NEW g \in Nat \ {0}
  PROVE  a \div g \in Int /\ g * (a \div g) <= a /\ a < g * (a \div g) + g
OBVIOUS

LEMMA QuotientsAscend ==
  ASSUME NEW a \in Int, NEW b \in Int, NEW g \in Nat \ {0}, a <= b
  PROVE  a \div g <= b \div g
OBVIOUS

LEMMA Multiples ==
  ASSUME NEW a \in Int, NEW b \in Int, NEW g \in Nat \ {0}
  PROVE  /\ a * g = g * a /\ a * g \in Int
         /\ a < b => a * g + g <= b * g
         /\ a * g < b * g => a < b
<1>1. a * g = g * a /\ a * g \in Int
  OBVIOUS
<1>2. ASSUME a < b PROVE a * g + g <= b * g
  BY <1>2
<1>3. ASSUME a * g < b * g PROVE a < b
  BY <1>3
<1> QED
  BY <1>1, <1>2, <1>3

(* A day later is the same period or the next.                              *)
LEMMA NextQuotient ==
  ASSUME NEW a \in Int, NEW g \in Nat \ {0}
  PROVE  (a + 1) \div g <= (a \div g) + 1
<1>1. PICK q, r : q = a \div g /\ r = (a + 1) \div g
  OBVIOUS
<1>2. q \in Int /\ r \in Int /\ a < g * q + g /\ g * r <= a + 1
  BY <1>1, Quotient
<1>3. g * r <= g * (q + 1)
  <2>1. g * (q + 1) = g * q + g /\ g * r \in Int /\ g * q \in Int
    BY <1>2
  <2> QED
    BY <1>2, <2>1
<1>4. r <= q + 1
  <2>1. ~ (q + 1 < r)
    <3> SUFFICES ASSUME q + 1 < r PROVE FALSE
      OBVIOUS
    <3>1. (q + 1) * g + g <= r * g /\ r * g = g * r /\ (q + 1) * g = g * (q + 1)
      BY <1>2, Multiples
    <3>2. g * r \in Int /\ g * (q + 1) \in Int
      BY <1>2
    <3> QED
      BY <1>3, <3>1, <3>2
  <2> QED
    BY <1>2, <2>1
<1> QED
  BY <1>1, <1>4

(* What stands in place i, counted from 0, is on a page, not past the last, *)
(* and on no other.                                                         *)
LEMMA OnAPage ==
  ASSUME NEW i \in Nat, NEW g \in Nat \ {0}, NEW n \in Nat, i < n
  PROVE  \E k \in 1..((n + g - 1) \div g) : (k - 1) * g <= i /\ i < k * g
<1>1. PICK q : q = (n + g - 1) \div g
  OBVIOUS
<1>2. q \in Int /\ n + g - 1 < g * q + g
  BY <1>1, Quotient
<1>3. i < q * g
  <2>1. q * g = g * q /\ q * g \in Int
    BY <1>2, Multiples
  <2>2. PICK m : m = g * q
    OBVIOUS
  <2>3. n + g - 1 < m + g /\ m \in Int
    BY <1>2, <2>1, <2>2
  <2>4. i < m
    BY <2>3
  <2> QED
    BY <2>1, <2>2, <2>4
<1> DEFINE Past == {k \in Nat : i < k * g}
<1>4. q \in Past
  <2>1. ~ (q < 0)
    <3> SUFFICES ASSUME q < 0 PROVE FALSE
      OBVIOUS
    <3>1. q * g + g <= 0 * g /\ q * g \in Int
      BY <1>2, Multiples
    <3> QED
      BY <1>3, <3>1
  <2> QED
    BY <1>2, <1>3, <2>1
<1>5. PICK k \in Past : \A j \in Past : k <= j
  <2>1. Past \in SUBSET Nat
    OBVIOUS
  <2> HIDE DEF Past
  <2> QED
    BY <1>4, <2>1, LeastOf
<1>6. k \in Nat /\ i < k * g /\ k <= q
  BY <1>4, <1>5
<1>7. k # 0
  BY <1>6
<1>8. k - 1 \in Nat /\ k - 1 \notin Past
  <2> HIDE DEF Past
  <2> QED
    BY <1>5, <1>6, <1>7
<1>9. (k - 1) * g <= i
  <2>1. ~(i < (k - 1) * g) /\ (k - 1) * g \in Int
    BY <1>8
  <2> QED
    BY <2>1
<1> QED
  BY <1>1, <1>2, <1>6, <1>7, <1>9

LEMMA OnOnePage ==
  ASSUME NEW i \in Int, NEW g \in Nat \ {0}, NEW k \in Int, NEW n \in Int,
         (k - 1) * g <= i, i < k * g, (n - 1) * g <= i, i < n * g
  PROVE  k = n
<1>1. (k - 1) * g \in Int /\ (n - 1) * g \in Int /\ k * g \in Int /\ n * g \in Int
  OBVIOUS
<1>2. (k - 1) * g < n * g /\ (n - 1) * g < k * g
  BY <1>1
<1>3. k - 1 < n /\ n - 1 < k
  BY <1>2, Multiples
<1> QED
  BY <1>3

-----------------------------------------------------------------------------
(* THE CATALOGUE *)

(* No two products share a slug, nor two categories; a product is filed     *)
(* under categories there are; and what an edit settled on is a slug.       *)
SlugsApart ==
  /\ \A p \in Stored : product[p].slug \in Slugs /\ product[p].cats \in SUBSET Filed
  /\ \A p, q \in Stored : product[p].slug = product[q].slug => p = q
  /\ \A g, h \in Filed : category[g] = category[h] => g = h
  /\ \A c \in Clerks : draft[c].what # "none" => draft[c].slug \in NameSlugs

CatalogueInv == CatalogueTypeOK /\ SlugsApart

LEMMA NoSlugIsNone == NoSlug \notin Slugs /\ NoSlug \notin NameSlugs
<1>1. NoSlug \notin NameSlugs
  BY CatalogueAssumption DEF NoSlug, NameSlugs
<1>2. \A p : IdOf(p) # NoSlug
  BY DEF IdOf, NoSlug
<1> QED
  BY <1>1, <1>2 DEF Slugs

LEMMA NameSlugsAreSlugs == NameSlugs \in SUBSET Slugs
BY DEF Slugs

LEMMA CatalogueInitial == CatalogueInit => CatalogueInv
<1> SUFFICES ASSUME CatalogueInit PROVE CatalogueInv
  OBVIOUS
<1>1. Cardinality(Products) \in Nat
  BY CatalogueAssumption, FS_CardinalityType
<1>2. CatalogueTypeOK
  BY <1>1 DEF CatalogueInit, CatalogueTypeOK, NoProduct, NoDraft, ProductRows, Drafts
<1>3. Stored = {} /\ Filed = {} /\ \A c \in Clerks : draft[c].what = "none"
  BY DEF CatalogueInit, Stored, Filed, NoProduct, NoDraft
<1> QED
  BY <1>2, <1>3 DEF CatalogueInv, SlugsApart

LEMMA ClockTyped == Clock \in 0..Cardinality(Products)
<1>1. Stored \in SUBSET Products
  BY DEF Stored
<1>2. IsFiniteSet(Products) /\ IsFiniteSet(Stored) /\ Cardinality(Stored) <= Cardinality(Products)
  BY <1>1, CatalogueAssumption, FS_Subset
<1>3. Cardinality(Stored) \in Nat /\ Cardinality(Products) \in Nat
  BY <1>2, FS_CardinalityType
<1> QED
  BY <1>2, <1>3 DEF Clock

(* A free suffix makes a slug.                                              *)
LEMMA SlugChosen ==
  ASSUME NEW name \in Names, NEW taken, NextAvailableSlug(name, taken) # NoSlug
  PROVE  NextAvailableSlug(name, taken) \in NameSlugs
<1>1. PICK free : free = {n \in 1..MaxSuffix : <<name, n>> \notin taken}
  OBVIOUS
<1>2. free # {} /\ NextAvailableSlug(name, taken) =
        <<name, CHOOSE n \in free : \A k \in free : n <= k>>
  BY <1>1 DEF NextAvailableSlug
<1>3. free \in SUBSET Nat
  BY <1>1, CatalogueAssumption
<1>4. \E n \in free : \A k \in free : n <= k
  BY <1>2, <1>3, LeastOf
<1>5. (CHOOSE n \in free : \A k \in free : n <= k) \in free
  BY <1>4
<1>6. PICK m : m = CHOOSE n \in free : \A k \in free : n <= k
  OBVIOUS
<1>7. m \in 1..MaxSuffix /\ NextAvailableSlug(name, taken) = <<name, m>>
  BY <1>1, <1>2, <1>5, <1>6
<1> QED
  BY <1>7 DEF NameSlugs

LEMMA ChooseSlugStep ==
  ASSUME CatalogueInv, NEW c \in Clerks, NEW name \in Names,
         ChooseProductSlug(c, name) \/ ChooseCategorySlug(c, name)
  PROVE  CatalogueInv'
<1>1. PICK what \in {"product", "category"}, s \in NameSlugs :
        draft' = [draft EXCEPT ![c] = [what |-> what, slug |-> s]]
  BY SlugChosen DEF ChooseProductSlug, ChooseCategorySlug
<1>2. UNCHANGED <<product, category>>
  BY DEF ChooseProductSlug, ChooseCategorySlug
<1>3. draft' \in [Clerks -> Drafts] /\ \A b \in Clerks : draft'[b].what # "none" => draft'[b].slug \in NameSlugs
  BY <1>1 DEF CatalogueInv, CatalogueTypeOK, SlugsApart, Drafts
<1>4. CatalogueTypeOK'
  BY <1>2, <1>3 DEF CatalogueInv, CatalogueTypeOK
<1>5. Stored' = Stored /\ Filed' = Filed
  BY <1>2 DEF Stored, Filed
<1> QED
  BY <1>2, <1>3, <1>4, <1>5 DEF CatalogueInv, SlugsApart

(* An edit that ends leaves the other drafts alone.                         *)
LEMMA DraftEnds ==
  ASSUME CatalogueInv, NEW c \in Clerks, draft' = [draft EXCEPT ![c] = NoDraft]
  PROVE  /\ draft' \in [Clerks -> Drafts]
         /\ \A b \in Clerks : draft'[b].what # "none" => draft'[b].slug \in NameSlugs
BY DEF CatalogueInv, CatalogueTypeOK, SlugsApart, Drafts, NoDraft

LEMMA DraftsStay ==
  ASSUME CatalogueInv, UNCHANGED draft
  PROVE  /\ draft' \in [Clerks -> Drafts]
         /\ \A b \in Clerks : draft'[b].what # "none" => draft'[b].slug \in NameSlugs
BY DEF CatalogueInv, CatalogueTypeOK, SlugsApart

LEMMA StoreProductStep ==
  ASSUME CatalogueInv, NEW p \in Products, NEW s \in Slugs, NEW price \in Prices,
         NEW status \in Statuses, NEW cats \in SUBSET Filed,
         ProductSlugFree(s, {}), StoreProduct(p, s, price, status, cats),
         draft' \in [Clerks -> Drafts],
         \A b \in Clerks : draft'[b].what # "none" => draft'[b].slug \in NameSlugs
  PROVE  CatalogueInv'
<1>1. PICK row : row = [status |-> status, slug |-> s, price |-> price, created |-> Clock,
                        cats |-> cats]
  OBVIOUS
<1>2. product' = [product EXCEPT ![p] = row] /\ UNCHANGED category /\ p \notin Stored
  BY <1>1 DEF StoreProduct
<1>3. row \in ProductRows
  <2>1. cats \in SUBSET Categories
    BY DEF Filed
  <2> QED
    BY <1>1, <2>1, ClockTyped DEF ProductRows
<1>4. product' \in [Products -> ProductRows] /\ \A q \in Products : product'[q] =
        IF q = p THEN row ELSE product[q]
  BY <1>2, <1>3 DEF CatalogueInv, CatalogueTypeOK
<1>5. CatalogueTypeOK'
  BY <1>2, <1>4 DEF CatalogueInv, CatalogueTypeOK
<1>6. Stored' = Stored \cup {p} /\ Filed' = Filed
  BY <1>1, <1>2, <1>4 DEF Stored, Filed, Statuses
<1>7. \A q \in Stored : product[q].slug # s /\ q # p
  BY <1>2 DEF ProductSlugFree
<1>8. \A q \in Stored : product'[q] = product[q]
  BY <1>4, <1>7 DEF Stored
<1>9. product'[p].slug = s /\ product'[p].cats = cats
  BY <1>1, <1>4
<1> QED
  BY <1>2, <1>5, <1>6, <1>7, <1>8, <1>9 DEF CatalogueInv, SlugsApart

LEMMA InsertProductStep ==
  ASSUME CatalogueInv, NEW c \in Clerks, InsertProduct(c)
  PROVE  CatalogueInv'
<1>1. draft[c].slug \in Slugs
  BY NameSlugsAreSlugs DEF InsertProduct, CatalogueInv, SlugsApart
<1>2. /\ draft' \in [Clerks -> Drafts]
      /\ \A b \in Clerks : draft'[b].what # "none" => draft'[b].slug \in NameSlugs
  BY DraftEnds DEF InsertProduct
<1>3. CASE ProductSlugFree(draft[c].slug, {})
  <2>1. PICK p \in Products, price \in Prices, cats \in CategoryLists :
          StoreProduct(p, draft[c].slug, price, "DRAFT", cats)
    BY <1>3 DEF InsertProduct
  <2>2. cats \in SUBSET Filed /\ "DRAFT" \in Statuses
    BY DEF CategoryLists, Statuses
  <2> QED
    BY <1>1, <1>2, <1>3, <2>1, <2>2, StoreProductStep
<1>4. CASE ~ProductSlugFree(draft[c].slug, {})
  <2>1. UNCHANGED <<product, category>>
    BY <1>4 DEF InsertProduct
  <2>2. Stored' = Stored /\ Filed' = Filed
    BY <2>1 DEF Stored, Filed
  <2> QED
    BY <1>2, <2>1, <2>2 DEF CatalogueInv, CatalogueTypeOK, SlugsApart
<1> QED
  BY <1>3, <1>4

LEMMA CreateProductStep ==
  ASSUME CatalogueInv, NEW p \in Products, NEW s \in Slugs, CreateProductAs(p, s)
  PROVE  CatalogueInv'
<1>1. PICK price \in Prices : StoreProduct(p, s, price, "ACTIVE", {})
  BY DEF CreateProductAs
<1>2. {} \in SUBSET Filed /\ "ACTIVE" \in Statuses /\ ProductSlugFree(s, {})
  BY DEF Statuses, CreateProductAs
<1>3. /\ draft' \in [Clerks -> Drafts]
      /\ \A b \in Clerks : draft'[b].what # "none" => draft'[b].slug \in NameSlugs
  BY DraftsStay DEF CreateProductAs
<1> QED
  BY <1>1, <1>2, <1>3, StoreProductStep

(* One row of a product there is changes, and keeps its slug to itself.     *)
LEMMA ProductEdited ==
  ASSUME CatalogueInv, NEW p \in Stored, NEW row \in ProductRows,
         row.status # "none", row.slug \in Slugs, row.cats \in SUBSET Filed,
         ProductSlugFree(row.slug, {p}),
         product' = [product EXCEPT ![p] = row], UNCHANGED <<category, draft>>
  PROVE  CatalogueInv'
<1>1. p \in Products
  BY DEF Stored
<1>2. product' \in [Products -> ProductRows] /\ \A q \in Products : product'[q] =
        IF q = p THEN row ELSE product[q]
  BY <1>1 DEF CatalogueInv, CatalogueTypeOK
<1>3. CatalogueTypeOK'
  BY <1>2 DEF CatalogueInv, CatalogueTypeOK
<1>4. Stored' = Stored /\ Filed' = Filed
  BY <1>1, <1>2 DEF Stored, Filed
<1>5. \A q \in Stored : product'[q] = IF q = p THEN row ELSE product[q]
  BY <1>2 DEF Stored
<1>6. \A q \in Stored : q # p => product[q].slug # row.slug
  BY DEF ProductSlugFree
<1> QED
  BY <1>3, <1>4, <1>5, <1>6 DEF CatalogueInv, SlugsApart

LEMMA EditProductStep ==
  ASSUME CatalogueInv, NEW p \in Products, UpdateProduct(p) \/ ArchiveProduct(p)
  PROVE  CatalogueInv'
<1>1. p \in Stored /\ UNCHANGED <<category, draft>>
  BY DEF UpdateProduct, ArchiveProduct
<1>2. PICK row : row = product[p]
  OBVIOUS
<1>3. /\ row \in ProductRows /\ row.status # "none" /\ row.slug \in Slugs
      /\ row.cats \in SUBSET Filed /\ product \in [Products -> ProductRows]
  BY <1>1, <1>2 DEF CatalogueInv, CatalogueTypeOK, SlugsApart, Stored
<1>4. ProductSlugFree(row.slug, {p})
  BY <1>1, <1>2 DEF CatalogueInv, SlugsApart, ProductSlugFree
<1>5. Filed \in SUBSET Categories
  BY DEF Filed
<1> DEFINE Edited == \E new : /\ new \in ProductRows /\ new.status # "none" /\ new.slug \in Slugs
                              /\ new.cats \in SUBSET Filed /\ ProductSlugFree(new.slug, {p})
                              /\ product' = [product EXCEPT ![p] = new]
<1>6. Edited
  <2>1. ASSUME NEW s \in Slugs, ProductSlugFree(s, {p}),
               product' = [product EXCEPT ![p].slug = s]
        PROVE  Edited
    <3>1. PICK new : new = [row EXCEPT !.slug = s]
      OBVIOUS
    <3>2. product' = [product EXCEPT ![p] = new]
      BY <1>2, <1>3, <2>1, <3>1
    <3>3. new \in ProductRows /\ new.status = row.status /\ new.slug = s /\ new.cats = row.cats
      BY <1>3, <3>1 DEF ProductRows
    <3> QED
      BY <1>3, <2>1, <3>2, <3>3
  <2>2. ASSUME NEW status \in Statuses, product' = [product EXCEPT ![p].status = status]
        PROVE  Edited
    <3>1. PICK new : new = [row EXCEPT !.status = status]
      OBVIOUS
    <3>2. product' = [product EXCEPT ![p] = new]
      BY <1>2, <1>3, <2>2, <3>1
    <3>3. new \in ProductRows /\ new.status # "none" /\ new.slug = row.slug /\ new.cats = row.cats
      BY <1>3, <3>1 DEF ProductRows, Statuses
    <3> QED
      BY <1>3, <1>4, <3>2, <3>3
  <2>3. ASSUME NEW price \in Prices, product' = [product EXCEPT ![p].price = price]
        PROVE  Edited
    <3>1. PICK new : new = [row EXCEPT !.price = price]
      OBVIOUS
    <3>2. product' = [product EXCEPT ![p] = new]
      BY <1>2, <1>3, <2>3, <3>1
    <3>3. new \in ProductRows /\ new.status = row.status /\ new.slug = row.slug
          /\ new.cats = row.cats
      BY <1>3, <3>1 DEF ProductRows
    <3> QED
      BY <1>3, <1>4, <3>2, <3>3
  <2>4. ASSUME NEW cats \in CategoryLists, product' = [product EXCEPT ![p].cats = cats]
        PROVE  Edited
    <3>1. PICK new : new = [row EXCEPT !.cats = cats]
      OBVIOUS
    <3>2. product' = [product EXCEPT ![p] = new]
      BY <1>2, <1>3, <2>4, <3>1
    <3>3. new \in ProductRows /\ new.status = row.status /\ new.slug = row.slug /\ new.cats = cats
      BY <1>3, <1>5, <3>1 DEF ProductRows, CategoryLists
    <3> QED
      BY <1>3, <1>4, <3>2, <3>3 DEF CategoryLists
  <2>5. ArchiveProduct(p) => \E status \in Statuses : product' = [product EXCEPT ![p].status = status]
    BY DEF ArchiveProduct, Statuses
  <2> QED
    BY <2>1, <2>2, <2>3, <2>4, <2>5 DEF UpdateProduct
<1>7. PICK new : /\ new \in ProductRows /\ new.status # "none" /\ new.slug \in Slugs
                 /\ new.cats \in SUBSET Filed /\ ProductSlugFree(new.slug, {p})
                 /\ product' = [product EXCEPT ![p] = new]
  BY <1>6
<1> QED
  BY <1>1, <1>7, ProductEdited

(* A category gets a slug no other has.                                     *)
LEMMA CategoryStored ==
  ASSUME CatalogueInv, NEW g \in Categories, NEW s \in NameSlugs, CategorySlugFree(s, {g}),
         category' = [category EXCEPT ![g] = s], UNCHANGED product,
         draft' \in [Clerks -> Drafts],
         \A b \in Clerks : draft'[b].what # "none" => draft'[b].slug \in NameSlugs
  PROVE  CatalogueInv'
<1>1. category' \in [Categories -> NameSlugs \cup {NoSlug}]
      /\ \A h \in Categories : category'[h] = IF h = g THEN s ELSE category[h]
  BY DEF CatalogueInv, CatalogueTypeOK
<1>2. CatalogueTypeOK'
  BY <1>1 DEF CatalogueInv, CatalogueTypeOK
<1>3. Stored' = Stored /\ Filed' = Filed \cup {g}
  BY <1>1, NoSlugIsNone DEF Stored, Filed
<1>4. \A h \in Filed \cup {g} : category'[h] = IF h = g THEN s ELSE category[h]
  BY <1>1 DEF Filed
<1>5. \A h \in Filed : h # g => category[h] # s
  BY DEF CategorySlugFree
<1> QED
  BY <1>2, <1>3, <1>4, <1>5 DEF CatalogueInv, SlugsApart

LEMMA StoreCategoryStep ==
  ASSUME CatalogueInv, NEW g \in Categories, NEW s \in NameSlugs,
         CreateCategoryAs(g, s) \/ UpdateCategory(g, s)
  PROVE  CatalogueInv'
<1>1. category' = [category EXCEPT ![g] = s] /\ UNCHANGED product
  BY DEF CreateCategoryAs, UpdateCategory
<1>2. CategorySlugFree(s, {g})
  BY DEF CreateCategoryAs, UpdateCategory, CategorySlugFree
<1>3. /\ draft' \in [Clerks -> Drafts]
      /\ \A b \in Clerks : draft'[b].what # "none" => draft'[b].slug \in NameSlugs
  BY DraftsStay DEF CreateCategoryAs, UpdateCategory
<1> QED
  BY <1>1, <1>2, <1>3, CategoryStored

LEMMA InsertCategoryStep ==
  ASSUME CatalogueInv, NEW c \in Clerks, InsertCategory(c)
  PROVE  CatalogueInv'
<1>1. draft[c].slug \in NameSlugs /\ UNCHANGED product
  BY DEF InsertCategory, CatalogueInv, SlugsApart
<1>2. /\ draft' \in [Clerks -> Drafts]
      /\ \A b \in Clerks : draft'[b].what # "none" => draft'[b].slug \in NameSlugs
  BY DraftEnds DEF InsertCategory
<1>3. CASE UNCHANGED category
  <2>1. Stored' = Stored /\ Filed' = Filed
    BY <1>1, <1>3 DEF Stored, Filed
  <2> QED
    BY <1>1, <1>2, <1>3, <2>1 DEF CatalogueInv, CatalogueTypeOK, SlugsApart
<1>4. CASE \E g \in Categories \ Filed :
             CategorySlugFree(draft[c].slug, {}) /\ category' = [category EXCEPT ![g] = draft[c].slug]
  <2>1. PICK g \in Categories : /\ CategorySlugFree(draft[c].slug, {})
                                /\ category' = [category EXCEPT ![g] = draft[c].slug]
    BY <1>4
  <2>2. CategorySlugFree(draft[c].slug, {g})
    BY <2>1 DEF CategorySlugFree
  <2> QED
    BY <1>1, <1>2, <2>1, <2>2, CategoryStored
<1> QED
  BY <1>3, <1>4 DEF InsertCategory

LEMMA RemoveCategoryStep ==
  ASSUME CatalogueInv, NEW g \in Categories, RemoveCategory(g)
  PROVE  CatalogueInv'
<1>1. category' \in [Categories -> NameSlugs \cup {NoSlug}]
      /\ \A h \in Categories : category'[h] = IF h = g THEN NoSlug ELSE category[h]
  BY DEF CatalogueInv, CatalogueTypeOK, RemoveCategory
<1>2. ASSUME NEW p \in Products
      PROVE  /\ product'[p] \in ProductRows
             /\ product'[p].status = product[p].status /\ product'[p].slug = product[p].slug
             /\ product'[p].cats = product[p].cats \ {g}
  <2>1. product'[p] = [product[p] EXCEPT !.cats = @ \ {g}] /\ product[p] \in ProductRows
    BY DEF CatalogueInv, CatalogueTypeOK, RemoveCategory
  <2> QED
    BY <2>1 DEF ProductRows
<1>3. product' \in [Products -> ProductRows]
  <2>1. product' = [p \in Products |-> [product[p] EXCEPT !.cats = @ \ {g}]]
    BY DEF RemoveCategory
  <2>2. \A p \in Products : [product[p] EXCEPT !.cats = @ \ {g}] \in ProductRows
    BY <1>2, <2>1
  <2> QED
    BY <2>1, <2>2
<1>4. /\ draft' \in [Clerks -> Drafts]
      /\ \A b \in Clerks : draft'[b].what # "none" => draft'[b].slug \in NameSlugs
  BY DraftsStay DEF RemoveCategory
<1>5. CatalogueTypeOK'
  BY <1>1, <1>3, <1>4 DEF CatalogueTypeOK
<1>6. Filed' = Filed \ {g} /\ Stored' = Stored
  BY <1>1, <1>2 DEF Filed, Stored
<1>7. \A h \in Filed \ {g} : category'[h] = category[h]
  BY <1>1 DEF Filed
<1>8. \A p \in Stored : product'[p].slug = product[p].slug /\ product'[p].cats = product[p].cats \ {g}
  BY <1>2 DEF Stored
<1> QED
  BY <1>4, <1>5, <1>6, <1>7, <1>8 DEF CatalogueInv, SlugsApart

LEMMA CatalogueStep ==
  ASSUME CatalogueInv, [CatalogueNext]_catalogueVars
  PROVE  CatalogueInv'
<1>1. CASE UNCHANGED catalogueVars
  <2>1. UNCHANGED <<product, category, draft>>
    BY <1>1 DEF catalogueVars
  <2>2. Stored' = Stored /\ Filed' = Filed
    BY <2>1 DEF Stored, Filed
  <2> QED
    BY <2>1, <2>2 DEF CatalogueInv, CatalogueTypeOK, SlugsApart
<1>2. CASE ProductRoute
  BY <1>2, InsertProductStep, ChooseSlugStep, EditProductStep, CreateProductStep DEF ProductRoute
<1>3. CASE CategoryRoute
  BY <1>3, InsertCategoryStep, ChooseSlugStep, RemoveCategoryStep, StoreCategoryStep DEF CategoryRoute
<1> QED
  BY <1>1, <1>2, <1>3 DEF CatalogueNext

(* The catalogue's part of TypeOK and the slugs apart.                      *)
LEMMA CatalogueHeld == CatalogueSpec => []CatalogueInv
<1> QED
  BY CatalogueInitial, CatalogueStep, PTL DEF CatalogueSpec

LEMMA PricesTyped ==
  ASSUME CatalogueInv, NEW p \in Stored
  PROVE  p \in Products /\ p \in Nat /\ product[p].price \in Nat /\ product[p].created \in Nat
<1>1. p \in Products /\ product[p] \in ProductRows
  BY DEF CatalogueInv, CatalogueTypeOK, Stored
<1>2. Cardinality(Products) \in Nat
  BY CatalogueAssumption, FS_CardinalityType
<1>3. product[p].price \in Prices \cup {0} /\ product[p].created \in 0..Cardinality(Products)
  BY <1>1 DEF ProductRows
<1>4. product[p].price \in Nat
  <2>1. \A x \in Prices \cup {0} : x \in Nat
    BY CatalogueAssumption
  <2> QED
    BY <1>3, <2>1, Zenon
<1>5. product[p].created \in Nat
  BY <1>2, <1>3
<1> QED
  BY <1>1, <1>4, <1>5, CatalogueAssumption

(* The number beside a category counts the list behind its slug.            *)
LEMMA CountsAgree ==
  ASSUME CatalogueInv, NEW g \in Filed
  PROVE  ProductCount(g) = Cardinality(Matching(FALSE, category[g], Nat))
<1>1. ASSUME NEW p \in Stored
      PROVE  g \in product[p].cats <=> \E h \in product[p].cats : category[h] = category[g]
  BY DEF CatalogueInv, SlugsApart
<1>2. category[g] # NoSlug
  BY DEF Filed
<1>3. {p \in Stored : g \in product[p].cats /\ product[p].status = "ACTIVE"}
        = Matching(FALSE, category[g], Nat)
  BY <1>1, <1>2, PricesTyped DEF Matching, Visible
<1> QED
  BY <1>3 DEF ProductCount

LEMMA OneNamed ==
  ASSUME CatalogueInv, NEW p \in Matching(FALSE, NoSlug, Nat), NEW s, Named(s) = {p}
  PROVE  FoundBySlug(s, FALSE) = {{p}}
<1>1. {p} \cap Visible(FALSE) = {p}
  BY DEF Matching
<1>2. \A x : x \in {{q} \cap Visible(FALSE) : q \in {p}} <=> x = {p}
  BY <1>1
<1>3. FoundBySlug(s, FALSE) = {{q} \cap Visible(FALSE) : q \in {p}}
  BY DEF FoundBySlug
<1> QED
  BY <1>2, <1>3

(* A slug that is no other product's id names the one product that has it.  *)
LEMMA SlugOpensOne ==
  ASSUME CatalogueInv, NEW p \in Matching(FALSE, NoSlug, Nat),
         product[p].slug \notin {IdOf(q) : q \in Stored \ {p}}
  PROVE  FoundBySlug(product[p].slug, FALSE) = {{p}}
<1>1. p \in Stored
  BY DEF Matching, Visible
<1>2. \A q \in Stored \ {p} : product[p].slug # IdOf(q) /\ product[p].slug # product[q].slug
  BY <1>1 DEF CatalogueInv, SlugsApart
<1>3. Named(product[p].slug) = {p}
  BY <1>1, <1>2 DEF Named
<1> QED
  BY <1>3, OneNamed

(* So does an id that is no other product's slug.                           *)
LEMMA IdOpensOne ==
  ASSUME CatalogueInv, NEW p \in Matching(FALSE, NoSlug, Nat),
         IdOf(p) \notin {product[q].slug : q \in Stored \ {p}}
  PROVE  FoundBySlug(IdOf(p), FALSE) = {{p}}
<1>1. p \in Stored
  BY DEF Matching, Visible
<1>2. \A q \in Stored \ {p} : IdOf(p) # IdOf(q) /\ IdOf(p) # product[q].slug
  BY DEF IdOf
<1>3. Named(IdOf(p)) = {p}
  BY <1>1, <1>2 DEF Named
<1> QED
  BY <1>3, OneNamed

Precedes(sort, S) == {a \in S \X S : Before(sort, a[1], a[2])}

(* ORDER BY with the id leaves no two products untold.                      *)
LEMMA SortOrders ==
  ASSUME CatalogueInv, NEW sort \in Sorts, NEW S \in SUBSET Stored
  PROVE  Ordered(Precedes(sort, S), S)
<1>1. PICK key : key = [p \in S |-> IF sort = "newest" THEN - product[p].created
                                    ELSE IF sort = "price_asc" THEN product[p].price
                                    ELSE - product[p].price]
  OBVIOUS
<1>2. \A p \in S : key[p] \in Int /\ p \in Int
  BY <1>1, PricesTyped
<1>3. ASSUME NEW p \in S, NEW q \in S
      PROVE  <<p, q>> \in Precedes(sort, S) <=> key[p] < key[q] \/ (key[p] = key[q] /\ p < q)
  <2>1. <<p, q>> \in Precedes(sort, S) <=> Before(sort, p, q)
    BY DEF Precedes
  <2>2. /\ product[p].price \in Nat /\ product[p].created \in Nat
        /\ product[q].price \in Nat /\ product[q].created \in Nat
    BY PricesTyped
  <2>3. CASE sort = "newest"
    <3>1. key[p] = - product[p].created /\ key[q] = - product[q].created
      BY <1>1, <2>3
    <3>2. Before(sort, p, q) <=> \/ product[p].created > product[q].created
                                 \/ product[p].created = product[q].created /\ p < q
      BY <2>3 DEF Before
    <3> QED
      BY <2>1, <2>2, <3>1, <3>2
  <2>4. CASE sort = "price_asc"
    <3>1. key[p] = product[p].price /\ key[q] = product[q].price
      BY <1>1, <2>4
    <3>2. Before(sort, p, q) <=> \/ product[p].price < product[q].price
                                 \/ product[p].price = product[q].price /\ p < q
      BY <2>4 DEF Before
    <3> QED
      BY <2>1, <2>2, <3>1, <3>2
  <2>5. CASE sort = "price_desc"
    <3>1. key[p] = - product[p].price /\ key[q] = - product[q].price
      BY <1>1, <2>5
    <3>2. Before(sort, p, q) <=> \/ product[p].price > product[q].price
                                 \/ product[p].price = product[q].price /\ p < q
      BY <2>5 DEF Before
    <3> QED
      BY <2>1, <2>2, <3>1, <3>2
  <2> QED
    BY <2>3, <2>4, <2>5 DEF Sorts
<1> QED
  BY <1>2, <1>3 DEF Ordered

LEMMA AnswersList ==
  ASSUME NEW sort, NEW S, IsFiniteSet(S), NEW f \in Answers(sort, S)
  PROVE  Lists(f, Precedes(sort, S), S)
<1>1. PICK D : D = 1..Cardinality(S)
  OBVIOUS
<1>2. f \in [D -> S] /\ \A i, j \in D : i < j => f[i] # f[j] /\ ~Before(sort, f[j], f[i])
  BY <1>1 DEF Answers
<1> QED
  BY <1>1, <1>2 DEF Lists, Precedes

(* However the database breaks a tie there is nothing left to break, so     *)
(* pages cut from answers of their own still fit together.                  *)
LEMMA PagesFit ==
  ASSUME CatalogueInv, NEW sort \in Sorts, NEW S \in SUBSET Stored
  PROVE  PagesCover(sort, S)
<1> DEFINE pages == 1..LastPage(S)
<1> SUFFICES ASSUME NEW answer \in [pages -> Answers(sort, S)]
             PROVE  /\ UNION {Page(answer[n], n) : n \in pages} = S
                    /\ \A n, k \in pages : n # k => Page(answer[n], n) \cap Page(answer[k], k) = {}
  BY DEF PagesCover
<1>1. IsFiniteSet(S) /\ Cardinality(S) \in Nat
  <2>1. S \in SUBSET Products
    BY DEF Stored
  <2> QED
    BY <2>1, CatalogueAssumption, FS_Subset, FS_CardinalityType
<1>2. PICK N, R : N = Cardinality(S) /\ R = Precedes(sort, S)
  OBVIOUS
<1>3. Ordered(R, S)
  BY <1>2, SortOrders
<1>4. \A n \in pages : Lists(answer[n], R, S)
  BY <1>1, <1>2, AnswersList
<1>5. PICK f : \A n \in pages : answer[n] = f
  <2>1. \A n, k \in pages : answer[n] = answer[k]
    <3> HIDE DEF pages
    <3> QED
      BY <1>1, <1>3, <1>4, OneListing
  <2>2. PICK f : f = answer[CHOOSE n \in pages : TRUE]
    OBVIOUS
  <2>3. \A n \in pages : (CHOOSE k \in pages : TRUE) \in pages
    BY Zenon
  <2> QED
    BY <2>1, <2>2, <2>3
<1>6. PerPage \in Nat \ {0} /\ N \in Nat
  BY <1>1, <1>2, CatalogueAssumption
<1>7. LastPage(S) = (N + PerPage - 1) \div PerPage
  BY <1>2 DEF LastPage
<1>8. ASSUME NEW n \in pages
      PROVE  /\ f \in [1..N -> S]
             /\ \A x : x \in Page(answer[n], n) <=>
                  \E i \in 1..N : f[i] = x /\ (n - 1) * PerPage < i /\ i <= n * PerPage
             /\ \A x \in S : \E i \in 1..N : f[i] = x
             /\ \A i, j \in 1..N : f[i] = f[j] => i = j
  <2>1. answer[n] = f /\ Lists(f, R, S)
    BY <1>4, <1>5
  <2>2. f \in [1..N -> S]
    BY <1>2, <2>1 DEF Lists
  <2>3. \A x \in S : \E i \in 1..N : f[i] = x
    BY <1>1, <1>2, <1>3, <2>1, ListedByRank
  <2>4. \A i \in 1..N : Rank(R, S, f[i]) = i - 1
    BY <1>1, <1>2, <1>3, <2>1, ListedByRank
  <2>5. \A i, j \in 1..N : f[i] = f[j] => i = j
    <3> SUFFICES ASSUME NEW i \in 1..N, NEW j \in 1..N, f[i] = f[j] PROVE i = j
      OBVIOUS
    <3>1. i - 1 = j - 1 /\ i \in Int /\ j \in Int
      BY <1>6, <2>4
    <3> QED
      BY <3>1
  <2>6. \A x : x \in Page(answer[n], n) <=>
          \E i \in 1..N : f[i] = x /\ (n - 1) * PerPage < i /\ i <= n * PerPage
    <3>1. DOMAIN f = 1..N
      BY <2>2
    <3> QED
      BY <2>1, <3>1 DEF Page
  <2> QED
    BY <2>2, <2>3, <2>5, <2>6
<1>9. ASSUME NEW x \in S
      PROVE  \E n \in pages : x \in Page(answer[n], n)
  <2>1. PICK i \in 1..N : Lists(answer[1], R, S) /\ 1 \in pages => f[i] = x
    <3>1. N # 0
      BY <1>1, <1>2, FS_EmptySet
    <3>2. CASE 1 \in pages
      BY <1>8, <3>2
    <3>3. CASE 1 \notin pages
      BY <1>6, <3>1, <3>3
    <3> QED
      BY <3>2, <3>3
  <2>2. i - 1 \in Nat /\ i - 1 < N /\ i \in Int
    BY <1>6
  <2>3. PICK n \in pages : (n - 1) * PerPage <= i - 1 /\ i - 1 < n * PerPage
    BY <1>6, <1>7, <2>2, OnAPage
  <2>4. 1 \in pages /\ n \in Int
    <3>1. pages \in SUBSET Int /\ 1 <= n /\ n <= LastPage(S)
      OBVIOUS
    <3>2. LastPage(S) \in Int
      BY <1>6, <1>7
    <3> QED
      BY <3>1, <3>2
  <2>5. f[i] = x
    BY <1>4, <2>1, <2>4
  <2>6. (n - 1) * PerPage \in Int /\ n * PerPage \in Int
    BY <1>6, <2>4
  <2>7. (n - 1) * PerPage < i /\ i <= n * PerPage
    BY <2>2, <2>3, <2>6
  <2> QED
    BY <1>8, <2>5, <2>7
<1>10. \A n \in pages : Page(answer[n], n) \in SUBSET S
  <2> SUFFICES ASSUME NEW n \in pages, NEW x \in Page(answer[n], n) PROVE x \in S
    OBVIOUS
  <2>1. PICK i \in 1..N : f[i] = x
    BY <1>8
  <2> QED
    BY <1>8, <2>1
<1>11. UNION {Page(answer[n], n) : n \in pages} = S
  <2> HIDE DEF pages
  <2> QED
    BY <1>9, <1>10
<1>12. ASSUME NEW n \in pages, NEW k \in pages, NEW x \in Page(answer[n], n) \cap Page(answer[k], k)
       PROVE  n = k
  <2>1. PICK i \in 1..N : f[i] = x /\ (n - 1) * PerPage < i /\ i <= n * PerPage
    BY <1>8
  <2>2. PICK j \in 1..N : f[j] = x /\ (k - 1) * PerPage < j /\ j <= k * PerPage
    BY <1>8
  <2>3. i = j /\ i \in Int /\ n \in Int /\ k \in Int
    BY <1>6, <1>8, <2>1, <2>2
  <2>4. /\ (n - 1) * PerPage \in Int /\ n * PerPage \in Int
        /\ (k - 1) * PerPage \in Int /\ k * PerPage \in Int
    BY <1>6, <2>3
  <2>5. /\ i - 1 \in Int /\ (n - 1) * PerPage <= i - 1 /\ i - 1 < n * PerPage
        /\ (k - 1) * PerPage <= i - 1 /\ i - 1 < k * PerPage
    BY <2>1, <2>2, <2>3, <2>4
  <2> QED
    BY <1>6, <2>3, <2>5, OnOnePage
<1> QED
  BY <1>11, <1>12

LEMMA StorefrontHolds == CatalogueInv => StorefrontAgrees
<1> SUFFICES ASSUME CatalogueInv PROVE StorefrontAgrees
  OBVIOUS
<1>1. Matching(TRUE, NoSlug, Nat) \in SUBSET Stored
  BY DEF Matching, Visible
<1> QED
  BY <1>1, CountsAgree, SlugOpensOne, IdOpensOne, PagesFit DEF StorefrontAgrees

(* In every order of edits the number beside a category is the length of    *)
(* its list, a product's slug opens that product and no other unless it is  *)
(* another's id, its id does unless it is another's slug, and the pages of  *)
(* a list hold each product once (products.service.ts,                      *)
(* categories.service.ts).                                                  *)
THEOREM StorefrontTellsOneStory == CatalogueSpec => []StorefrontAgrees
<1> QED
  BY CatalogueHeld, StorefrontHolds, PTL

-----------------------------------------------------------------------------
(* THE REPORTS *)

LEMMA UnitsTyped ==
  ASSUME order \in [OrderIds -> PlacedRows], NEW w \in Wares
  PROVE  /\ UnitsOf(w) \in [OrderIds -> Nat]
         /\ \A o \in OrderIds : UnitsOf(w)[o] = order[o].units[w]
<1>1. \A o \in OrderIds : order[o].units[w] \in 0..PerOrder
  BY DEF PlacedRows
<1> QED
  BY <1>1, ReportsAssumption DEF UnitsOf

LEMMA OrdersFinite ==
  ASSUME NEW S \in SUBSET OrderIds
  PROVE  IsFiniteSet(S) /\ Cardinality(S) \in Nat
BY ReportsAssumption, FS_Subset, FS_CardinalityType

LEMMA ReportsInitial == ReportsInit => ReportsTypeOK
<1> SUFFICES ASSUME ReportsInit PROVE ReportsTypeOK
  OBVIOUS
<1>1. NoOrderYet \in PlacedRows
  BY ReportsAssumption DEF NoOrderYet, PlacedRows, OrderStatuses, Instants
<1> QED
  BY <1>1, ReportsAssumption DEF ReportsInit, ReportsTypeOK, Instants

LEMMA ReportsRows ==
  ASSUME ReportsTypeOK
  PROVE  /\ order \in [OrderIds -> PlacedRows] /\ now \in Instants
         /\ onShelf \in [Wares -> Nat] /\ listed \in SUBSET Wares
BY DEF ReportsTypeOK

LEMMA InsertDoes ==
  ASSUME ReportsTypeOK, NEW o \in OrderIds, NEW status \in {"CREATED", "PAID"},
         NEW at \in Instants, NEW units, NEW freight \in Carriage,
         Insert(o, status, at, units, freight)
  PROVE  /\ order' \in [OrderIds -> PlacedRows] /\ UNCHANGED <<now, listed>>
         /\ units \in [Wares -> 0..PerOrder]
<1>1. PICK row : row = [status |-> status, paidAt |-> at, units |-> units, freight |-> freight]
  OBVIOUS
<1>2. units \in [Wares -> 0..PerOrder]
  BY DEF Insert, Basket
<1>3. row \in PlacedRows
  BY <1>1, <1>2 DEF PlacedRows, OrderStatuses
<1>4. order' = [order EXCEPT ![o] = row] /\ UNCHANGED <<now, listed>>
  BY <1>1 DEF Insert
<1> QED
  BY <1>2, <1>3, <1>4, ReportsRows

(* What leaves the shelf was on it.                                         *)
LEMMA TakenFromShelf ==
  ASSUME ReportsTypeOK, NEW units \in [Wares -> 0..PerOrder],
         \A w \in Wares : MayTake(w, units[w]),
         onShelf' = [w \in Wares |-> onShelf[w] - units[w]]
  PROVE  onShelf' \in [Wares -> Nat]
<1>1. ASSUME NEW w \in Wares PROVE onShelf[w] - units[w] \in Nat
  <2>1. onShelf[w] \in Nat /\ units[w] \in Nat /\ units[w] <= onShelf[w]
    BY ReportsRows, ReportsAssumption DEF MayTake
  <2> QED
    BY <2>1
<1> QED
  BY <1>1

LEMMA PlaceOrderOfStep ==
  ASSUME ReportsTypeOK, NEW o \in OrderIds, NEW units \in [Wares -> 0..PerOrder],
         NEW freight \in Carriage, PlaceOrderOf(o, units, freight)
  PROVE  ReportsTypeOK'
<1>1. 0 \in Instants /\ Insert(o, "CREATED", 0, units, freight)
  BY ReportsAssumption DEF PlaceOrderOf, Instants
<1>2. order' \in [OrderIds -> PlacedRows] /\ UNCHANGED <<now, listed>>
  BY <1>1, InsertDoes
<1>3. onShelf' \in [Wares -> Nat]
  BY TakenFromShelf DEF PlaceOrderOf
<1> QED
  BY <1>2, <1>3, ReportsRows DEF ReportsTypeOK

LEMMA ImportOrderStep ==
  ASSUME ReportsTypeOK, NEW o \in OrderIds, NEW units \in [Wares -> 0..PerOrder],
         NEW freight \in Carriage, NEW status \in {"CREATED", "PAID"}, NEW at \in Instants,
         ImportOrder(o, units, freight, status, at)
  PROVE  ReportsTypeOK'
<1>1. order' \in [OrderIds -> PlacedRows] /\ UNCHANGED <<now, listed>>
  BY InsertDoes DEF ImportOrder
<1>2. PICK taken \in [Wares -> 0..PerOrder] :
        /\ \A w \in Wares : taken[w] <= units[w] /\ MayTake(w, taken[w])
        /\ onShelf' = [w \in Wares |-> onShelf[w] - taken[w]]
  BY DEF ImportOrder
<1>3. onShelf' \in [Wares -> Nat]
  BY <1>2, TakenFromShelf
<1> QED
  BY <1>1, <1>3, ReportsRows DEF ReportsTypeOK

LEMMA RecountStep ==
  ASSUME ReportsTypeOK, NEW w \in Wares, NEW n \in 0..Stocked, Recount(w, n)
  PROVE  ReportsTypeOK'
<1>1. onShelf' \in [Wares -> Nat]
  BY ReportsRows, ReportsAssumption DEF Recount
<1> QED
  BY <1>1, ReportsRows DEF ReportsTypeOK, Recount

(* An order moves on: another status, and for a payment its instant.        *)
LEMMA OrderMoves ==
  ASSUME ReportsTypeOK, NEW o \in OrderIds,
         PayOrder(o) \/ ForwardOrder(o) \/ UndoOrder(o)
  PROVE  order' \in [OrderIds -> PlacedRows]
<1>1. order[o] \in PlacedRows /\ now \in Instants
  BY ReportsRows
<1>2. CASE PayOrder(o)
  <2>1. PICK row : row = [order[o] EXCEPT !.status = "PAID", !.paidAt = now]
    OBVIOUS
  <2>2. row \in PlacedRows
    BY <1>1, <2>1 DEF PlacedRows, OrderStatuses
  <2>3. order' = [order EXCEPT ![o] = row]
    BY <1>2, <2>1, ReportsRows DEF PayOrder
  <2> QED
    BY <2>2, <2>3, ReportsRows
<1>3. CASE ForwardOrder(o) \/ UndoOrder(o)
  <2>1. PICK status \in OrderStatuses : order' = [order EXCEPT ![o].status = status]
    BY <1>3 DEF ForwardOrder, UndoOrder, OrderStatuses
  <2>2. PICK row : row = [order[o] EXCEPT !.status = status]
    OBVIOUS
  <2>3. row \in PlacedRows
    BY <1>1, <2>2 DEF PlacedRows
  <2>4. order' = [order EXCEPT ![o] = row]
    BY <2>1, <2>2, ReportsRows
  <2> QED
    BY <2>3, <2>4, ReportsRows
<1> QED
  BY <1>2, <1>3

LEMMA MoveStep ==
  ASSUME ReportsTypeOK, NEW o \in OrderIds,
         PayOrder(o) \/ ForwardOrder(o) \/ UndoOrder(o)
  PROVE  ReportsTypeOK'
<1>1. order' \in [OrderIds -> PlacedRows]
  BY OrderMoves
<1>2. UNCHANGED <<now, listed>>
  BY DEF PayOrder, ForwardOrder, UndoOrder
<1>3. onShelf' \in [Wares -> Nat]
  <2>1. \A w \in Wares : onShelf[w] \in Nat /\ order[o].units[w] \in Nat
    BY ReportsRows, UnitsTyped
  <2>2. \A w \in Wares : onShelf[w] + order[o].units[w] \in Nat
    BY <2>1
  <2>3. \/ UNCHANGED onShelf
        \/ onShelf' = [w \in Wares |-> onShelf[w] + order[o].units[w]]
    BY DEF PayOrder, ForwardOrder, UndoOrder
  <2> QED
    BY <2>2, <2>3, ReportsRows
<1> QED
  BY <1>1, <1>2, <1>3, ReportsRows DEF ReportsTypeOK

LEMMA ReportsStep ==
  ASSUME ReportsTypeOK, [ReportsNext]_reportVars
  PROVE  ReportsTypeOK'
<1>1. CASE UNCHANGED reportVars
  BY <1>1 DEF reportVars, ReportsTypeOK
<1>2. CASE ReportTick
  <2>1. now' \in Instants /\ UNCHANGED <<order, onShelf, listed>>
    BY <1>2, ReportsRows, ReportsAssumption DEF ReportTick, Instants
  <2> QED
    BY <2>1, ReportsRows DEF ReportsTypeOK
<1>3. CASE \E w \in Wares : Delist(w) \/ Relist(w)
  <2>1. listed' \in SUBSET Wares /\ UNCHANGED <<now, order, onShelf>>
    BY <1>3, ReportsRows DEF Delist, Relist
  <2> QED
    BY <2>1, ReportsRows DEF ReportsTypeOK
<1> QED
  BY <1>1, <1>2, <1>3, RecountStep, MoveStep, PlaceOrderOfStep, ImportOrderStep DEF ReportsNext

(* The reports' part of TypeOK.                                             *)
LEMMA ReportsHeld == ReportsSpec => []ReportsTypeOK
<1> QED
  BY ReportsInitial, ReportsStep, PTL DEF ReportsSpec

AllTime == [from |-> 0, to |-> Horizon + 1]

LEMMA WindowTyped ==
  ASSUME NEW window \in Windows
  PROVE  /\ window.from \in Nat /\ window.to \in Nat /\ window.from < window.to
         /\ window.from <= Horizon /\ window.to <= Horizon + 1
BY ReportsAssumption DEF Windows

LEMMA RowTyped ==
  ASSUME ReportsTypeOK, NEW o \in OrderIds
  PROVE  /\ order[o].paidAt \in Nat /\ order[o].paidAt <= Horizon
         /\ order[o].freight \in Nat
         /\ \A w \in Wares : order[o].units[w] \in Nat
<1>1. order[o] \in PlacedRows
  BY ReportsRows
<1>2. /\ order[o].paidAt \in Instants /\ order[o].freight \in Carriage \cup {0}
      /\ \A w \in Wares : order[o].units[w] \in 0..PerOrder
  BY <1>1 DEF PlacedRows
<1>3. \A x \in Carriage \cup {0} : x \in Nat
  BY ReportsAssumption
<1>4. order[o].freight \in Nat
  BY <1>2, <1>3, Zenon
<1> QED
  BY <1>2, <1>4, ReportsAssumption DEF Instants

LEMMA SoldIn ==
  ASSUME NEW window
  PROVE  /\ SoldInWindow(window) \in SUBSET OrderIds /\ IsFiniteSet(SoldInWindow(window))
         /\ \A o \in OrderIds : o \in SoldInWindow(window) <=>
              /\ order[o].status \in SOLD_STATUSES
              /\ window.from <= order[o].paidAt /\ order[o].paidAt < window.to
<1>1. SoldInWindow(window) \in SUBSET OrderIds
  BY DEF SoldInWindow
<1>2. IsFiniteSet(SoldInWindow(window))
  BY <1>1, OrdersFinite
<1> QED
  BY <1>1, <1>2 DEF SoldInWindow

LEMMA SoldEver ==
  ASSUME ReportsTypeOK
  PROVE  SoldInWindow(AllTime) = {o \in OrderIds : order[o].status \in SOLD_STATUSES}
<1>1. ASSUME NEW o \in OrderIds
      PROVE  AllTime.from <= order[o].paidAt /\ order[o].paidAt < AllTime.to
  BY RowTyped, ReportsAssumption DEF AllTime
<1> QED
  BY <1>1 DEF SoldInWindow

LEMMA UnitsSoldTyped ==
  ASSUME ReportsTypeOK, NEW w \in Wares, NEW window
  PROVE  UnitsSold(w, window) \in Nat
<1>1. IsFiniteSet(SoldInWindow(window)) /\ \A o \in SoldInWindow(window) : UnitsOf(w)[o] \in Nat
  BY SoldIn, UnitsTyped, ReportsRows
<1> QED
  BY <1>1, SumNat DEF UnitsSold

(* A product is on one list of a period or the other.                       *)
LEMMA OneListOrTheOther ==
  ASSUME ReportsTypeOK, NEW window \in Windows, NEW w \in listed, onShelf[w] > 0
  PROVE  (w \in UnsoldProducts(window)) # (\E r \in ProductSales(window) : r.ware = w)
<1>1. w \in Wares
  BY ReportsRows
<1>2. w \in UnsoldProducts(window) <=> \A o \in SoldInWindow(window) : order[o].units[w] = 0
  BY DEF UnsoldProducts
<1>3. (\E r \in ProductSales(window) : r.ware = w)
        <=> \E o \in SoldInWindow(window) : order[o].units[w] > 0
  <2>1. PICK sold : sold = {v \in Wares : \E o \in SoldInWindow(window) : order[o].units[v] > 0}
    OBVIOUS
  <2>2. \A r \in ProductSales(window) : r.ware \in sold
    BY <2>1 DEF ProductSales
  <2>3. ASSUME w \in sold PROVE \E r \in ProductSales(window) : r.ware = w
    <3>1. PICK r : r = [ware |-> w, units |-> UnitsSold(w, window),
                        revenue |-> UnitsSold(w, window) * UnitPrice(w)]
      OBVIOUS
    <3>2. r \in ProductSales(window) /\ r.ware = w
      BY <2>1, <2>3, <3>1 DEF ProductSales
    <3> QED
      BY <3>2
  <2> QED
    BY <1>1, <2>1, <2>2, <2>3
<1>4. \A o \in SoldInWindow(window) : order[o].units[w] \in Nat
  BY <1>1, SoldIn, RowTyped
<1>5. PICK found \in BOOLEAN : found <=> \E r \in ProductSales(window) : r.ware = w
  OBVIOUS
<1>6. w \in UnsoldProducts(window) <=> ~found
  BY <1>2, <1>3, <1>4, <1>5
<1> QED
  BY <1>5, <1>6, Zenon

LEMMA GreatestOf ==
  ASSUME NEW S \in SUBSET Nat, NEW n \in Nat, \A x \in S : x <= n, S # {}
  PROVE  Max(S) \in S
<1>1. PICK T : T = {n - x : x \in S}
  OBVIOUS
<1>2. T \in SUBSET Nat /\ T # {}
  <2>1. \A x \in S : n - x \in Nat
    OBVIOUS
  <2> QED
    BY <1>1, <2>1
<1>3. PICK t \in T : \A y \in T : t <= y
  BY <1>2, LeastOf
<1>4. PICK m \in S : t = n - m
  BY <1>1
<1>5. ASSUME NEW x \in S PROVE m >= x
  <2>1. n - x \in T /\ x \in Nat /\ m \in Nat
    BY <1>1
  <2>2. n - m <= n - x
    BY <1>3, <1>4, <2>1
  <2> QED
    BY <2>1, <2>2
<1>6. \E x \in S : \A y \in S : x >= y
  BY <1>5
<1> QED
  BY <1>6 DEF Max

(* What has not moved in a period last sold outside it.                     *)
LEMMA LastSaleElsewhere ==
  ASSUME ReportsTypeOK, NEW window \in Windows, NEW w \in listed, w \in UnsoldProducts(window)
  PROVE  ~(window.from <= LastSoldAt(w) /\ LastSoldAt(w) < window.to)
<1>1. CASE SalesOf(w) = {}
  <2>1. LastSoldAt(w) = -1
    BY <1>1 DEF LastSoldAt
  <2> QED
    BY <2>1, WindowTyped
<1>2. CASE SalesOf(w) # {}
  <2>1. PICK S : S = {order[o].paidAt : o \in SalesOf(w)}
    OBVIOUS
  <2>2. SalesOf(w) \in SUBSET OrderIds
    BY DEF SalesOf
  <2>3. S \in SUBSET Nat /\ S # {} /\ \A x \in S : x <= Horizon
    BY <1>2, <2>1, <2>2, RowTyped
  <2>4. LastSoldAt(w) \in S
    BY <1>2, <2>1, <2>3, GreatestOf, ReportsAssumption DEF LastSoldAt
  <2>5. PICK o \in SalesOf(w) : LastSoldAt(w) = order[o].paidAt
    BY <2>1, <2>4
  <2>6. o \in OrderIds /\ order[o].status \in SOLD_STATUSES /\ order[o].units[w] > 0
    BY <2>5 DEF SalesOf
  <2>7. o \notin SoldInWindow(window)
    BY <2>6 DEF UnsoldProducts
  <2> QED
    BY <2>5, <2>6, <2>7, SoldIn
<1> QED
  BY <1>1, <1>2

(* Two periods that meet part the sales of the period they make.            *)
LEMMA SalesOfBoth ==
  ASSUME ReportsTypeOK, NEW w1 \in Windows, NEW w2 \in Windows, w1.to = w2.from,
         NEW both, both = [from |-> w1.from, to |-> w2.to]
  PROVE  /\ both \in Windows
         /\ SoldInWindow(both) = SoldInWindow(w1) \cup SoldInWindow(w2)
         /\ SoldInWindow(w1) \cap SoldInWindow(w2) = {}
<1>1. both \in Windows /\ both.from = w1.from /\ both.to = w2.to
  BY WindowTyped DEF Windows
<1>2. ASSUME NEW o \in OrderIds
      PROVE  /\ o \in SoldInWindow(both) <=> o \in SoldInWindow(w1) \/ o \in SoldInWindow(w2)
             /\ ~(o \in SoldInWindow(w1) /\ o \in SoldInWindow(w2))
  BY <1>1, SoldIn, WindowTyped, RowTyped
<1> QED
  BY <1>1, <1>2, SoldIn

(* What sells in neither of two periods that meet sells in neither half of  *)
(* the period they make together.                                           *)
LEMMA StillOverBoth ==
  ASSUME ReportsTypeOK, NEW w1 \in Windows, NEW w2 \in Windows, w1.to = w2.from
  PROVE  UnsoldProducts([from |-> w1.from, to |-> w2.to])
           = UnsoldProducts(w1) \cap UnsoldProducts(w2)
<1>1. PICK both : both = [from |-> w1.from, to |-> w2.to]
  OBVIOUS
<1>2. SoldInWindow(both) = SoldInWindow(w1) \cup SoldInWindow(w2)
  BY <1>1, SalesOfBoth
<1>3. \A w : w \in UnsoldProducts(both) <=> w \in UnsoldProducts(w1) /\ w \in UnsoldProducts(w2)
  BY <1>2 DEF UnsoldProducts
<1> QED
  BY <1>1, <1>3

LEMMA SoldOrUnsoldHolds == ReportsTypeOK => SoldOrUnsold
BY OneListOrTheOther, LastSaleElsewhere, StillOverBoth DEF SoldOrUnsold

(* Whatever short imports and recounts do to the shelf, a listed product in *)
(* stock is on exactly one of a period's two lists, what does not move      *)
(* there last sold outside the period, and the lists of two periods that    *)
(* meet make the list of both (reports.service.ts: productSales,            *)
(* unsoldCandidates).                                                       *)
THEOREM SoldOrStandingStill == ReportsSpec => []SoldOrUnsold
<1> QED
  BY ReportsHeld, SoldOrUnsoldHolds, PTL

-----------------------------------------------------------------------------
(* THE SCREENS *)

(* What each order charges for each product.                                *)
Charges == [o \in OrderIds |-> [w \in Wares |-> order[o].units[w] * UnitPrice(w)]]

LEMMA ChargesTyped ==
  ASSUME ReportsTypeOK, NEW o \in OrderIds
  PROVE  /\ \A w \in Wares : /\ Charges[o][w] \in Int
                             /\ Charges[o][w] = UnitsOf(w)[o] * UnitPrice(w)
         /\ ItemsSubtotal[o] = SumFunctionOnSet(Charges[o], Wares)
         /\ ItemsSubtotal[o] \in Int /\ FreightOf[o] \in Int
<1>1. Charges[o] = [w \in Wares |-> order[o].units[w] * UnitPrice(w)]
  BY DEF Charges
<1>2. ASSUME NEW w \in Wares
      PROVE  Charges[o][w] \in Int /\ Charges[o][w] = UnitsOf(w)[o] * UnitPrice(w)
  <2>1. order[o].units[w] \in Nat /\ UnitPrice(w) \in Nat /\ UnitsOf(w)[o] = order[o].units[w]
    BY RowTyped, ReportsAssumption DEF UnitPrice, UnitsOf
  <2> QED
    BY <1>1, <2>1
<1>3. ItemsSubtotal[o] = SumFunctionOnSet(Charges[o], Wares)
  BY <1>1 DEF ItemsSubtotal
<1>4. ItemsSubtotal[o] \in Int
  BY <1>2, <1>3, SumInt, ReportsAssumption
<1>5. FreightOf[o] \in Int
  BY RowTyped DEF FreightOf
<1> QED
  BY <1>2, <1>3, <1>4, <1>5

LEMMA BucketsAscend ==
  ASSUME NEW a \in Int, NEW b \in Int
  PROVE  /\ BucketOf(a) \in Int
         /\ a <= b => BucketOf(a) <= BucketOf(b)
         /\ BucketOf(a + 1) <= BucketOf(a) + 1
<1>1. a - Behind \in Int /\ b - Behind \in Int /\ Granule \in Nat \ {0}
  BY ReportsAssumption
<1>2. BucketOf(a) \in Int
  BY <1>1, Quotient DEF BucketOf
<1>3. ASSUME a <= b PROVE BucketOf(a) <= BucketOf(b)
  <2>1. a - Behind <= b - Behind
    BY <1>3, ReportsAssumption
  <2> QED
    BY <1>1, <2>1, QuotientsAscend DEF BucketOf
<1>4. BucketOf(a + 1) <= BucketOf(a) + 1
  <2>1. (a - Behind + 1) \div Granule <= ((a - Behind) \div Granule) + 1
    BY <1>1, NextQuotient
  <2>2. a + 1 - Behind = a - Behind + 1
    BY ReportsAssumption
  <2>3. /\ BucketOf(a + 1) = (a - Behind + 1) \div Granule
        /\ BucketOf(a) = (a - Behind) \div Granule
    BY <2>2, ReportsAssumption DEF BucketOf
  <2> QED
    BY <2>1, <2>3, Zenon
<1> QED
  BY <1>2, <1>3, <1>4

LEMMA SeriesTyped ==
  ASSUME NEW window \in Windows
  PROVE  IsFiniteSet(Series(window)) /\ Series(window) \in SUBSET Int
<1>1. window.from \in Int /\ window.to - 1 \in Int
  BY WindowTyped
<1>2. BucketOf(window.from) \in Int /\ BucketOf(window.to - 1) \in Int
  BY <1>1, BucketsAscend
<1> QED
  BY <1>2, FS_Interval DEF Series

(* A sale of the window falls in one of its bars.                           *)
LEMMA SaleHasBar ==
  ASSUME ReportsTypeOK, NEW window \in Windows, NEW o \in SoldInWindow(window)
  PROVE  BucketOf(order[o].paidAt) \in Series(window)
<1>1. /\ window.from \in Int /\ window.to - 1 \in Int /\ order[o].paidAt \in Int
      /\ window.from <= order[o].paidAt /\ order[o].paidAt <= window.to - 1
  BY WindowTyped, SoldIn, RowTyped
<1>2. /\ BucketOf(window.from) <= BucketOf(order[o].paidAt)
      /\ BucketOf(order[o].paidAt) <= BucketOf(window.to - 1)
      /\ BucketOf(window.from) \in Int /\ BucketOf(order[o].paidAt) \in Int
      /\ BucketOf(window.to - 1) \in Int
  BY <1>1, BucketsAscend
<1> QED
  BY <1>2 DEF Series

SalesIn(window, b) == {o \in SoldInWindow(window) : BucketOf(order[o].paidAt) = b}

Takings(window, b) ==
  SumFunctionOnSet(ItemsSubtotal, SalesIn(window, b)) + SumFunctionOnSet(FreightOf, SalesIn(window, b))

LEMMA BarIs ==
  ASSUME NEW window, NEW b \in Series(window)
  PROVE  /\ DOMAIN Revenue(window) = Series(window)
         /\ Revenue(window)[b].items = SumFunctionOnSet(ItemsSubtotal, SalesIn(window, b))
         /\ Revenue(window)[b].count = Cardinality(SalesIn(window, b))
         /\ Revenue(window)[b].revenue = Takings(window, b)
BY DEF Revenue, SalesIn, Takings

LEMMA BarsHoldSales ==
  ASSUME ReportsTypeOK, NEW window \in Windows
  PROVE  LET bars == Revenue(window)
         IN  /\ SumFunction([b \in DOMAIN bars |-> bars[b].items])
                  = SumFunctionOnSet(ItemsSubtotal, SoldInWindow(window))
             /\ SumFunction([b \in DOMAIN bars |-> bars[b].count])
                  = Cardinality(SoldInWindow(window))
<1>1. PICK bars : bars = Revenue(window)
  OBVIOUS
<1>2. PICK S, K : S = SoldInWindow(window) /\ K = Series(window)
  OBVIOUS
<1>3. S \in SUBSET OrderIds /\ IsFiniteSet(S) /\ IsFiniteSet(K)
  BY <1>2, SoldIn, SeriesTyped
<1>4. DOMAIN bars = K
  BY <1>1, <1>2 DEF Revenue
<1>5. PICK key : key = [o \in S |-> BucketOf(order[o].paidAt)]
  OBVIOUS
<1>6. \A o \in S : key[o] \in K
  BY <1>2, <1>5, SaleHasBar
<1>7. \A b \in K : Keyed(S, key, b) = SalesIn(window, b)
  BY <1>2, <1>5 DEF SalesIn, Keyed
<1>8. PICK items, counts : /\ items = [b \in K |-> bars[b].items]
                           /\ counts = [b \in K |-> bars[b].count]
  OBVIOUS
<1>9. SumFunctionOnSet(items, K) = SumFunctionOnSet(ItemsSubtotal, S)
  <2>1. \A b \in K : items[b] = SumFunctionOnSet(ItemsSubtotal, Keyed(S, key, b))
    BY <1>1, <1>2, <1>7, <1>8, BarIs
  <2>2. \A o \in S : ItemsSubtotal[o] \in Int
    BY <1>3, ChargesTyped
  <2> QED
    BY <1>3, <1>6, <2>1, <2>2, SumByKey
<1>10. SumFunctionOnSet(counts, K) = Cardinality(S)
  <2>1. PICK one : one = [o \in S |-> 1]
    OBVIOUS
  <2>2. \A o \in S : one[o] = 1 /\ one[o] \in Int
    BY <2>1
  <2>3. ASSUME NEW b \in K
        PROVE  counts[b] = SumFunctionOnSet(one, Keyed(S, key, b))
    <3>1. PICK T : T = SalesIn(window, b)
      OBVIOUS
    <3>2. T = Keyed(S, key, b) /\ IsFiniteSet(T) /\ \A o \in T : one[o] = 1
      BY <1>3, <1>7, <2>2, <3>1, FS_Subset DEF Keyed
    <3>3. SumFunctionOnSet(one, T) = Cardinality(T)
      BY <3>2, SumOfOnes
    <3>4. counts[b] = Cardinality(T)
      BY <1>1, <1>2, <1>8, <3>1, BarIs
    <3> QED
      BY <3>2, <3>3, <3>4
  <2>4. SumFunctionOnSet(counts, K) = SumFunctionOnSet(one, S)
    BY <1>3, <1>6, <2>2, <2>3, SumByKey
  <2>5. SumFunctionOnSet(one, S) = Cardinality(S)
    BY <1>3, <2>2, SumOfOnes
  <2> QED
    BY <2>4, <2>5
<1>11. /\ SumFunction([b \in DOMAIN bars |-> bars[b].items]) = SumFunctionOnSet(items, K)
       /\ SumFunction([b \in DOMAIN bars |-> bars[b].count]) = SumFunctionOnSet(counts, K)
  <2>1. DOMAIN items = K /\ DOMAIN counts = K
    BY <1>8
  <2>2. SumFunction(items) = SumFunctionOnSet(items, K) /\ SumFunction(counts) = SumFunctionOnSet(counts, K)
    BY <2>1, Zenon DEF SumFunction
  <2>3. /\ [b \in DOMAIN bars |-> bars[b].items] = items
        /\ [b \in DOMAIN bars |-> bars[b].count] = counts
    BY <1>4, <1>8
  <2> QED
    BY <2>2, <2>3
<1> QED
  BY <1>1, <1>2, <1>9, <1>10, <1>11

-----------------------------------------------------------------------------
(* THE LIST BY PRODUCT *)

Sold(window) == {w \in Wares : \E o \in SoldInWindow(window) : order[o].units[w] > 0}

SalesRow(w, window) ==
  [ware |-> w, units |-> UnitsSold(w, window),
   revenue |-> UnitsSold(w, window) * UnitPrice(w)]

LEMMA SalesRows ==
  ASSUME NEW window
  PROVE  /\ Sold(window) \in SUBSET Wares
         /\ \A w \in Sold(window) : SalesRow(w, window) \in ProductSales(window)
         /\ \A r \in ProductSales(window) : r.ware \in Sold(window) /\ r = SalesRow(r.ware, window)
<1>1. ProductSales(window) = {SalesRow(w, window) : w \in Sold(window)}
  BY DEF ProductSales, SalesRow, Sold
<1>2. \A w \in Wares : SalesRow(w, window).ware = w
  BY DEF SalesRow
<1>3. Sold(window) \in SUBSET Wares
  BY DEF Sold
<1>4. \A w \in Sold(window) : SalesRow(w, window) \in ProductSales(window)
  BY <1>1
<1>5. ASSUME NEW r \in ProductSales(window)
      PROVE  r.ware \in Sold(window) /\ r = SalesRow(r.ware, window)
  <2>1. PICK w \in Sold(window) : r = SalesRow(w, window)
    BY <1>1
  <2>2. r.ware = w
    BY <1>2, <1>3, <2>1
  <2> QED
    BY <2>1, <2>2
<1> QED
  BY <1>3, <1>4, <1>5

(* There are no more rows than products.                                    *)
LEMMA RowsFinite ==
  ASSUME NEW window
  PROVE  /\ IsFiniteSet(ProductSales(window)) /\ IsFiniteSet(Wares)
         /\ Cardinality(ProductSales(window)) \in Nat /\ Cardinality(Wares) \in Nat
         /\ Cardinality(ProductSales(window)) <= Cardinality(Wares)
<1>1. PICK rows, f : rows = ProductSales(window) /\ f = [r \in rows |-> r.ware]
  OBVIOUS
<1>2. f \in [rows -> Wares]
  <2>1. \A r \in rows : r.ware \in Wares
    BY <1>1, SalesRows
  <2> QED
    BY <1>1, <2>1
<1>3. \A r, q \in rows : f[r] = f[q] => r = q
  <2> SUFFICES ASSUME NEW r \in rows, NEW q \in rows, f[r] = f[q] PROVE r = q
    OBVIOUS
  <2>1. r.ware = q.ware
    BY <1>1
  <2>2. r = SalesRow(r.ware, window) /\ q = SalesRow(q.ware, window)
    BY <1>1, SalesRows
  <2>3. SalesRow(r.ware, window) = SalesRow(q.ware, window)
    BY <2>1
  <2> QED
    BY <2>2, <2>3, Zenon
<1>4. f \in Injection(rows, Wares)
  BY <1>2, <1>3 DEF Injection, IsInjective
<1>5. IsFiniteSet(Wares)
  BY ReportsAssumption
<1>6. IsFiniteSet(rows) /\ Cardinality(rows) <= Cardinality(Wares)
  BY <1>4, <1>5, FS_Injection
<1> QED
  BY <1>1, <1>5, <1>6, FS_CardinalityType

Above(rows) ==
  {a \in rows \X rows : a[1].units > a[2].units \/ (a[1].units = a[2].units /\ a[1].ware < a[2].ware)}

LEMMA RowsOrdered ==
  ASSUME ReportsTypeOK, NEW window
  PROVE  Ordered(Above(ProductSales(window)), ProductSales(window))
<1>1. PICK rows : rows = ProductSales(window)
  OBVIOUS
<1>2. ASSUME NEW r \in rows PROVE r.units \in Int /\ r.ware \in Int
  <2>1. r.ware \in Wares /\ r = SalesRow(r.ware, window)
    BY <1>1, SalesRows
  <2>2. UnitsSold(r.ware, window) \in Nat
    BY <2>1, UnitsSoldTyped
  <2>3. SalesRow(r.ware, window).units = UnitsSold(r.ware, window)
    BY DEF SalesRow
  <2>4. r.units = UnitsSold(r.ware, window)
    BY <2>1, <2>3, Zenon
  <2>5. \A w \in Wares : w \in Int
    BY ReportsAssumption
  <2> QED
    BY <2>1, <2>2, <2>4, <2>5
<1>3. ASSUME NEW r \in rows, NEW q \in rows, r.ware = q.ware PROVE r = q
  <2>1. r = SalesRow(r.ware, window) /\ q = SalesRow(q.ware, window)
    BY <1>1, SalesRows
  <2>2. SalesRow(r.ware, window) = SalesRow(q.ware, window)
    BY <1>3
  <2> QED
    BY <2>1, <2>2, Zenon
<1>4. ASSUME NEW r \in rows, NEW q \in rows
      PROVE  <<r, q>> \in Above(rows) <=> r.units > q.units \/ (r.units = q.units /\ r.ware < q.ware)
  BY DEF Above
<1>5. PICK R : R = Above(rows)
  OBVIOUS
<1>6. \A r \in rows : <<r, r>> \notin R
  BY <1>2, <1>4, <1>5
<1>7. \A r, q, s \in rows : <<r, q>> \in R /\ <<q, s>> \in R => <<r, s>> \in R
  BY <1>2, <1>4, <1>5
<1>8. \A r, q \in rows : r # q => <<r, q>> \in R \/ <<q, r>> \in R
  BY <1>2, <1>3, <1>4, <1>5
<1> QED
  BY <1>1, <1>5, <1>6, <1>7, <1>8 DEF Ordered

(* Page after page the list is whole.                                       *)
LEMMA SalesPagesCover ==
  ASSUME ReportsTypeOK, NEW window
  PROVE  UNION {SalesPage(ProductSales(window), n) : n \in 1..Cardinality(Wares)}
           = ProductSales(window)
<1>1. PICK rows, R : rows = ProductSales(window) /\ R = Above(rows)
  OBVIOUS
<1>2. IsFiniteSet(rows) /\ Ordered(R, rows)
  BY <1>1, RowsFinite, RowsOrdered
<1>3. PICK n, m, g : n = Cardinality(rows) /\ m = Cardinality(Wares) /\ g = PageSize
  OBVIOUS
<1>4. n \in Nat /\ m \in Nat /\ n <= m /\ g \in Nat \ {0}
  BY <1>1, <1>3, RowsFinite, ReportsAssumption
<1>5. ASSUME NEW r \in rows, NEW k
      PROVE  r \in SalesPage(rows, k) <=> (k - 1) * g <= Rank(R, rows, r) /\ Rank(R, rows, r) < k * g
  <2>1. {q \in rows : q.units > r.units \/ (q.units = r.units /\ q.ware < r.ware)}
          = {q \in rows : <<q, r>> \in R}
    BY <1>1 DEF Above
  <2>2. Cardinality({q \in rows : q.units > r.units \/ (q.units = r.units /\ q.ware < r.ware)})
          = Rank(R, rows, r)
    BY <2>1, Zenon DEF Rank
  <2> QED
    BY <1>3, <2>2 DEF SalesPage
<1>6. ASSUME NEW r \in rows PROVE \E k \in 1..m : r \in SalesPage(rows, k)
  <2>1. PICK i : i = Rank(R, rows, r)
    OBVIOUS
  <2>2. i \in Nat /\ i < n
    BY <1>2, <1>3, <1>4, <2>1, RankTyped
  <2>3. PICK k \in 1..((n + g - 1) \div g) : (k - 1) * g <= i /\ i < k * g
    BY <1>4, <2>2, OnAPage
  <2>4. (n + g - 1) \div g \in Int
    BY <1>4, Quotient
  <2>5. k \in Int /\ k >= 1
    BY <2>4
  <2>6. k <= m
    <3> SUFFICES ASSUME n < k PROVE FALSE
      BY <1>4, <2>5
    <3>1. n <= k - 1 /\ k - 1 \in Nat /\ n * g \in Int /\ (k - 1) * g \in Int
      BY <1>4, <2>5
    <3>2. n <= n * g
      BY <1>4
    <3>3. n * g <= (k - 1) * g
      <4>1. CASE n = k - 1
        BY <3>1, <4>1
      <4>2. CASE n < k - 1
        BY <1>4, <3>1, <4>2, Multiples
      <4> QED
        BY <1>4, <3>1, <4>1, <4>2
    <3> QED
      BY <1>4, <2>2, <2>3, <3>1, <3>2, <3>3
  <2>7. k \in 1..m /\ r \in SalesPage(rows, k)
    BY <1>4, <1>5, <2>1, <2>3, <2>5, <2>6
  <2> QED
    BY <2>7
<1>7. \A k : SalesPage(rows, k) \in SUBSET rows
  BY DEF SalesPage
<1>8. UNION {SalesPage(rows, k) : k \in 1..m} = rows
  BY <1>6, <1>7
<1> QED
  BY <1>1, <1>3, <1>8

LEMMA SumOfOne ==
  ASSUME NEW f, NEW x, f[x] \in Int
  PROVE  SumFunctionOnSet(f, {x}) = f[x]
<1>1. IsFiniteSet({}) /\ {} \cup {x} = {x} /\ \A y \in {} \cup {x} : f[y] \in Int
  BY FS_EmptySet
<1>2. SumFunctionOnSet(f, {} \cup {x}) = f[x] + SumFunctionOnSet(f, {})
  BY <1>1, SumWith
<1> QED
  BY <1>1, <1>2, SumOfNone

(* The money of the list is the money of the sales.                         *)
LEMMA ListHoldsSales ==
  ASSUME ReportsTypeOK, NEW window
  PROVE  SumFunction([r \in ProductSales(window) |-> r.revenue])
           = SumFunctionOnSet(ItemsSubtotal, SoldInWindow(window))
<1>1. PICK rows, S : rows = ProductSales(window) /\ S = SoldInWindow(window)
  OBVIOUS
<1>2. S \in SUBSET OrderIds /\ IsFiniteSet(S) /\ IsFiniteSet(rows) /\ IsFiniteSet(Wares)
  BY <1>1, SoldIn, RowsFinite
<1>3. PICK f, key, t : /\ f = [r \in rows |-> r.revenue] /\ key = [r \in rows |-> r.ware]
                       /\ t = [w \in Wares |-> UnitsSold(w, window) * UnitPrice(w)]
  OBVIOUS
<1>4. \A w \in Wares : UnitsSold(w, window) \in Int /\ UnitPrice(w) \in Int /\ t[w] \in Int
                       /\ t[w] = UnitsSold(w, window) * UnitPrice(w)
  <2> SUFFICES ASSUME NEW w \in Wares
               PROVE  UnitsSold(w, window) \in Int /\ UnitPrice(w) \in Int /\ t[w] \in Int
                      /\ t[w] = UnitsSold(w, window) * UnitPrice(w)
    OBVIOUS
  <2>1. UnitsSold(w, window) \in Int /\ UnitPrice(w) \in Int
    BY UnitsSoldTyped, ReportsAssumption DEF UnitPrice
  <2> QED
    BY <1>3, <2>1
<1>5. ASSUME NEW r \in rows
      PROVE  r.ware \in Sold(window) /\ r.ware \in Wares /\ key[r] = r.ware /\ f[r] = t[r.ware]
  <2>1. r.ware \in Sold(window) /\ r.ware \in Wares /\ r = SalesRow(r.ware, window)
    BY <1>1, SalesRows
  <2>2. SalesRow(r.ware, window).revenue = UnitsSold(r.ware, window) * UnitPrice(r.ware)
    BY DEF SalesRow
  <2>3. r.revenue = UnitsSold(r.ware, window) * UnitPrice(r.ware)
    BY <2>1, <2>2, Zenon
  <2> QED
    BY <1>3, <1>4, <2>1, <2>3
<1>6. ASSUME NEW w \in Wares PROVE t[w] = SumFunctionOnSet(f, Keyed(rows, key, w))
  <2>1. CASE w \in Sold(window)
    <3>1. PICK r : r = SalesRow(w, window)
      OBVIOUS
    <3>2. r \in rows /\ r.ware = w
      BY <1>1, <2>1, <3>1, SalesRows DEF SalesRow
    <3>3. \A q \in rows : q.ware = w => q = r
      BY <1>1, <3>1, SalesRows
    <3>4. Keyed(rows, key, w) = {r}
      BY <1>5, <3>2, <3>3 DEF Keyed
    <3>5. f[r] = t[w] /\ f[r] \in Int
      BY <1>4, <1>5, <3>2
    <3> QED
      BY <3>4, <3>5, SumOfOne
  <2>2. CASE w \notin Sold(window)
    <3>1. Keyed(rows, key, w) = {}
      BY <1>5, <2>2 DEF Keyed
    <3>2. \A o \in S : UnitsOf(w)[o] = 0
      <4> SUFFICES ASSUME NEW o \in S PROVE UnitsOf(w)[o] = 0
        OBVIOUS
      <4>1. o \in OrderIds /\ ~(order[o].units[w] > 0)
        BY <1>1, <1>2, <2>2 DEF Sold
      <4>2. order[o].units[w] \in Nat
        BY <4>1, RowTyped
      <4> QED
        BY <4>1, <4>2 DEF UnitsOf
    <3>3. UnitsSold(w, window) = 0
      BY <1>1, <1>2, <3>2, SumOfZeros DEF UnitsSold
    <3>4. t[w] = 0
      BY <1>4, <3>3
    <3> QED
      BY <3>1, <3>4, SumOfNone
  <2> QED
    BY <2>1, <2>2
<1>7. SumFunctionOnSet(t, Wares) = SumFunctionOnSet(f, rows)
  <2>1. \A r \in rows : key[r] \in Wares /\ f[r] \in Int
    BY <1>4, <1>5
  <2> QED
    BY <1>2, <1>6, <2>1, SumByKey
<1>8. SumFunctionOnSet(ItemsSubtotal, S) = SumFunctionOnSet(t, Wares)
  <2>1. PICK m : m = Charges
    OBVIOUS
  <2>2. \A o \in S : ItemsSubtotal[o] = SumFunctionOnSet(m[o], Wares)
    BY <1>2, <2>1, ChargesTyped
  <2>4. Cells(m, S, Wares)
    BY <1>2, <2>1, ChargesTyped DEF Cells
  <2>3. ASSUME NEW w \in Wares PROVE t[w] = SumFunctionOnSet(Column(m, S, w), S)
    <3>1. PICK h : h = Column(m, S, w)
      OBVIOUS
    <3>2. \A o \in S : UnitsOf(w)[o] \in Int /\ h[o] = UnitsOf(w)[o] * UnitPrice(w)
      <4> SUFFICES ASSUME NEW o \in S
                   PROVE  UnitsOf(w)[o] \in Int /\ h[o] = UnitsOf(w)[o] * UnitPrice(w)
        OBVIOUS
      <4>1. o \in OrderIds /\ m[o][w] = UnitsOf(w)[o] * UnitPrice(w)
        BY <1>2, <2>1, ChargesTyped
      <4>2. UnitsOf(w)[o] \in Int
        BY <4>1, ReportsRows, UnitsTyped
      <4> QED
        BY <3>1, <4>1, <4>2 DEF Column
    <3>3. SumFunctionOnSet(h, S) = SumFunctionOnSet(UnitsOf(w), S) * UnitPrice(w)
      BY <1>2, <1>4, <3>2, SumScaled
    <3>4. UnitsSold(w, window) = SumFunctionOnSet(UnitsOf(w), S)
      BY <1>1 DEF UnitsSold
    <3>5. t[w] = SumFunctionOnSet(h, S)
      BY <1>4, <3>3, <3>4
    <3> QED
      BY <3>1, <3>5
  <2> QED
    BY <1>2, <2>2, <2>3, <2>4, SumByColumns
<1>9. SumFunction(f) = SumFunctionOnSet(f, rows)
  <2>1. DOMAIN f = rows
    BY <1>3
  <2> QED
    BY <2>1, Zenon DEF SumFunction
<1> QED
  BY <1>1, <1>3, <1>7, <1>8, <1>9

-----------------------------------------------------------------------------
(* PERIODS THAT MEET *)

LEMMA SalesInBar ==
  ASSUME ReportsTypeOK, NEW window, NEW b
  PROVE  /\ SalesIn(window, b) \in SUBSET OrderIds /\ IsFiniteSet(SalesIn(window, b))
         /\ SumFunctionOnSet(ItemsSubtotal, SalesIn(window, b)) \in Int
         /\ SumFunctionOnSet(FreightOf, SalesIn(window, b)) \in Int
<1>1. PICK S : S = SalesIn(window, b)
  OBVIOUS
<1>2. S \in SUBSET OrderIds
  BY <1>1, SoldIn DEF SalesIn
<1>3. IsFiniteSet(S) /\ \A o \in S : ItemsSubtotal[o] \in Int /\ FreightOf[o] \in Int
  BY <1>2, OrdersFinite, ChargesTyped
<1> QED
  BY <1>1, <1>2, <1>3, SumInt

(* Where a period has no bar it has no takings.                             *)
LEMMA BarOrNothing ==
  ASSUME ReportsTypeOK, NEW window \in Windows, NEW b
  PROVE  (IF b \in Series(window) THEN Revenue(window)[b].revenue ELSE 0) = Takings(window, b)
<1>1. CASE b \in Series(window)
  BY <1>1, BarIs
<1>2. CASE b \notin Series(window)
  <2>1. SalesIn(window, b) = {}
    BY <1>2, SaleHasBar DEF SalesIn
  <2>2. Takings(window, b) = 0
    BY <2>1, SumOfNone DEF Takings
  <2> QED
    BY <1>2, <2>2
<1> QED
  BY <1>1, <1>2

LEMMA SumOfBoth ==
  ASSUME ReportsTypeOK, NEW A \in SUBSET OrderIds, NEW B \in SUBSET OrderIds, A \cap B = {},
         NEW f, \A o \in OrderIds : f[o] \in Int
  PROVE  SumFunctionOnSet(f, A \cup B) = SumFunctionOnSet(f, A) + SumFunctionOnSet(f, B)
<1>1. IsFiniteSet(A) /\ IsFiniteSet(B) /\ \A o \in A \cup B : f[o] \in Int
  BY OrdersFinite
<1> QED
  BY <1>1, SumOfUnion

LEMMA MeetingPeriods ==
  ASSUME ReportsTypeOK, NEW w1 \in Windows, NEW w2 \in Windows, w1.to = w2.from
  PROVE  PeriodsAddUp(w1, w2)
<1>1. PICK both : both = [from |-> w1.from, to |-> w2.to]
  OBVIOUS
<1>2. both \in Windows /\ both.from = w1.from /\ both.to = w2.to
  BY <1>1, WindowTyped DEF Windows
<1>3. PICK A, B : A = SoldInWindow(w1) /\ B = SoldInWindow(w2)
  OBVIOUS
<1>4. A \in SUBSET OrderIds /\ B \in SUBSET OrderIds
  BY <1>3, SoldIn
<1>5. SoldInWindow(both) = A \cup B /\ A \cap B = {}
  BY <1>1, <1>3, SalesOfBoth
<1>6. ASSUME NEW w \in Wares
      PROVE  UnitsSold(w, both) = UnitsSold(w, w1) + UnitsSold(w, w2)
  <2>1. \A o \in OrderIds : UnitsOf(w)[o] \in Int
    BY UnitsTyped, ReportsRows
  <2>2. SumFunctionOnSet(UnitsOf(w), A \cup B) =
          SumFunctionOnSet(UnitsOf(w), A) + SumFunctionOnSet(UnitsOf(w), B)
    BY <1>4, <1>5, <2>1, SumOfBoth
  <2> QED
    BY <1>3, <1>5, <2>2 DEF UnitsSold
<1>7. Series(both) = Series(w1) \cup Series(w2)
  <2>1. PICK a, b, c, d : /\ a = BucketOf(w1.from) /\ b = BucketOf(w1.to - 1)
                          /\ c = BucketOf(w2.from) /\ d = BucketOf(w2.to - 1)
    OBVIOUS
  <2>2. /\ w1.from \in Int /\ w1.to - 1 \in Int /\ w2.from \in Int /\ w2.to - 1 \in Int
        /\ w1.from <= w1.to - 1 /\ w1.to - 1 <= w2.from /\ w2.from <= w2.to - 1
        /\ (w1.to - 1) + 1 = w2.from
    BY WindowTyped
  <2>3. a \in Int /\ b \in Int /\ c \in Int /\ d \in Int
    BY <2>1, <2>2, BucketsAscend
  <2>4. a <= b /\ b <= c /\ c <= d
    BY <2>1, <2>2, BucketsAscend
  <2>5. c <= b + 1
    <3>1. BucketOf((w1.to - 1) + 1) <= BucketOf(w1.to - 1) + 1
      BY <2>2, BucketsAscend
    <3> QED
      BY <2>1, <2>2, <3>1
  <2>6. a..d = (a..b) \cup (c..d)
    BY <2>3, <2>4, <2>5
  <2>7. Series(both) = a..d /\ Series(w1) = a..b /\ Series(w2) = c..d
    BY <1>2, <2>1 DEF Series
  <2> QED
    BY <2>6, <2>7
<1>8. ASSUME NEW b \in Series(both)
      PROVE  Revenue(both)[b].revenue =
               (IF b \in Series(w1) THEN Revenue(w1)[b].revenue ELSE 0)
                 + (IF b \in Series(w2) THEN Revenue(w2)[b].revenue ELSE 0)
  <2>1. PICK S, T : S = SalesIn(w1, b) /\ T = SalesIn(w2, b)
    OBVIOUS
  <2>2. S \in SUBSET OrderIds /\ T \in SUBSET OrderIds
    BY <2>1, SalesInBar
  <2>3. SalesIn(both, b) = S \cup T /\ S \cap T = {}
    BY <1>3, <1>5, <2>1 DEF SalesIn
  <2>4. \A o \in OrderIds : ItemsSubtotal[o] \in Int /\ FreightOf[o] \in Int
    BY ChargesTyped
  <2>5. /\ SumFunctionOnSet(ItemsSubtotal, S \cup T) =
             SumFunctionOnSet(ItemsSubtotal, S) + SumFunctionOnSet(ItemsSubtotal, T)
        /\ SumFunctionOnSet(FreightOf, S \cup T) =
             SumFunctionOnSet(FreightOf, S) + SumFunctionOnSet(FreightOf, T)
    BY <2>2, <2>3, <2>4, SumOfBoth
  <2>6. /\ SumFunctionOnSet(ItemsSubtotal, S) \in Int /\ SumFunctionOnSet(ItemsSubtotal, T) \in Int
        /\ SumFunctionOnSet(FreightOf, S) \in Int /\ SumFunctionOnSet(FreightOf, T) \in Int
    BY <2>1, SalesInBar
  <2>7. Takings(both, b) = Takings(w1, b) + Takings(w2, b)
    BY <2>1, <2>3, <2>5, <2>6 DEF Takings
  <2>8. Revenue(both)[b].revenue = Takings(both, b)
    BY BarIs
  <2> QED
    BY <2>7, <2>8, BarOrNothing
<1> QED
  BY <1>1, <1>6, <1>7, <1>8 DEF PeriodsAddUp

(* The tabs of the order list.                                              *)
LEMMA TabsCountSales ==
  ASSUME ReportsTypeOK
  PROVE  Cardinality(SoldInWindow(AllTime)) =
           StatusCount("PAID") + StatusCount("SHIPPED") + StatusCount("DELIVERED")
<1>1. PICK P, S, D : /\ P = {o \in OrderIds : order[o].status = "PAID"}
                     /\ S = {o \in OrderIds : order[o].status = "SHIPPED"}
                     /\ D = {o \in OrderIds : order[o].status = "DELIVERED"}
  OBVIOUS
<1>2. PICK one : one = [o \in OrderIds |-> 1]
  OBVIOUS
<1>3. /\ P \in SUBSET OrderIds /\ S \in SUBSET OrderIds /\ D \in SUBSET OrderIds
      /\ P \cap S = {} /\ (P \cup S) \cap D = {}
  BY <1>1
<1>4. \A T \in SUBSET OrderIds : SumFunctionOnSet(one, T) = Cardinality(T)
  <2> SUFFICES ASSUME NEW T \in SUBSET OrderIds PROVE SumFunctionOnSet(one, T) = Cardinality(T)
    OBVIOUS
  <2>1. IsFiniteSet(T) /\ \A o \in T : one[o] = 1
    BY <1>2, OrdersFinite
  <2> QED
    BY <2>1, SumOfOnes
<1>5. \A o \in OrderIds : one[o] \in Int
  BY <1>2
<1>6. SumFunctionOnSet(one, P \cup S) = SumFunctionOnSet(one, P) + SumFunctionOnSet(one, S)
  BY <1>3, <1>5, SumOfBoth
<1>7. SumFunctionOnSet(one, (P \cup S) \cup D) =
        SumFunctionOnSet(one, P \cup S) + SumFunctionOnSet(one, D)
  <2>1. P \cup S \in SUBSET OrderIds
    BY <1>3
  <2> QED
    BY <1>3, <1>5, <2>1, SumOfBoth
<1>8. SoldInWindow(AllTime) = (P \cup S) \cup D
  BY <1>1, SoldEver DEF SOLD_STATUSES
<1>9. Cardinality((P \cup S) \cup D) = Cardinality(P) + Cardinality(S) + Cardinality(D)
  <2>1. (P \cup S) \cup D \in SUBSET OrderIds
    BY <1>3
  <2> QED
    BY <1>3, <1>4, <1>6, <1>7, <2>1
<1> QED
  BY <1>1, <1>8, <1>9 DEF StatusCount

LEMMA ScreensAgree ==
  ASSUME ReportsTypeOK, NEW window \in Windows
  PROVE  LET bars == Revenue(window)
             rows == ProductSales(window)
             pages == UNION {SalesPage(rows, n) : n \in 1..Cardinality(Wares)}
             takings == SumFunction([b \in DOMAIN bars |-> bars[b].items])
         IN  /\ takings = SumFunctionOnSet(ItemsSubtotal, SoldInWindow(window))
             /\ takings = SumFunction([r \in pages |-> r.revenue])
             /\ SumFunction([b \in DOMAIN bars |-> bars[b].count]) =
                  Cardinality(SoldInWindow(window))
<1>1. PICK pages : pages = UNION {SalesPage(ProductSales(window), n) : n \in 1..Cardinality(Wares)}
  OBVIOUS
<1>2. pages = ProductSales(window)
  BY <1>1, SalesPagesCover
<1>3. SumFunction([r \in pages |-> r.revenue])
        = SumFunctionOnSet(ItemsSubtotal, SoldInWindow(window))
  BY <1>2, ListHoldsSales
<1> QED
  BY <1>1, <1>3, BarsHoldSales

LEMMA ScreensHold == ReportsTypeOK => ScreensReconcile
<1> SUFFICES ASSUME ReportsTypeOK PROVE ScreensReconcile
  OBVIOUS
<1>1. Cardinality(SoldInWindow([from |-> 0, to |-> Horizon + 1])) =
        StatusCount("PAID") + StatusCount("SHIPPED") + StatusCount("DELIVERED")
  BY TabsCountSales DEF AllTime
<1> QED
  BY <1>1, ScreensAgree, MeetingPeriods DEF ScreensReconcile

(* The bars of any period, the list by product page after page, periods     *)
(* that meet and the tabs of the order list tell the same sales and the     *)
(* same money (reports.service.ts, invariant 3 of the reports' spec).       *)
THEOREM ScreensTellOneStory == ReportsSpec => []ScreensReconcile
<1> QED
  BY ReportsHeld, ScreensHold, PTL

-----------------------------------------------------------------------------
(* OFFERS IN ORDER *)

Late(o) == IF o.days = Unknown THEN 1000000 ELSE o.days

LEMMA LateTyped == ASSUME NEW a \in Options PROVE Late(a) \in Nat /\ a.price \in Nat /\ a.code \in Nat
BY SMT DEF Late, Options

LEMMA AheadIs ==
  ASSUME NEW a, NEW b
  PROVE  Ahead(a, b) <=> \/ a.price < b.price
                         \/ a.price = b.price /\ Late(a) < Late(b)
                         \/ a.price = b.price /\ Late(a) = Late(b) /\ a.code < b.code
BY SMT DEF Ahead, Late

AheadIn(X) == {a \in X \X X : Ahead(a[1], a[2])}

(* Offers of a table, each with a code of its own.                          *)
Coded(X) == X \in SUBSET Options /\ \A a, b \in X : a.code = b.code => a = b

LEMMA OffersOrdered ==
  ASSUME NEW X, Coded(X)
  PROVE  Ordered(AheadIn(X), X)
<1>1. \A a \in X : Late(a) \in Nat /\ a.price \in Nat /\ a.code \in Nat
  BY LateTyped DEF Coded
<1>2. ASSUME NEW a \in X, NEW b \in X
      PROVE  <<a, b>> \in AheadIn(X) <=>
               \/ a.price < b.price
               \/ a.price = b.price /\ Late(a) < Late(b)
               \/ a.price = b.price /\ Late(a) = Late(b) /\ a.code < b.code
  BY AheadIs DEF AheadIn
<1>3. PICK R : R = AheadIn(X)
  OBVIOUS
<1>4. \A a \in X : <<a, a>> \notin R
  BY <1>1, <1>2, <1>3
<1>5. \A a, b, c \in X : <<a, b>> \in R /\ <<b, c>> \in R => <<a, c>> \in R
  BY <1>1, <1>2, <1>3
<1>6. \A a, b \in X : a # b => <<a, b>> \in R \/ <<b, a>> \in R
  BY <1>1, <1>2, <1>3 DEF Coded
<1> QED
  BY <1>3, <1>4, <1>5, <1>6 DEF Ordered

(* The offers of a set in the order a buyer sees them.                      *)
OfRank(X, n) == CHOOSE x \in X : Rank(AheadIn(X), X, x) + 1 = n

InOrder(X) == [n \in 1..Cardinality(X) |-> OfRank(X, n)]

LEMMA InOrderIs ==
  ASSUME NEW X, IsFiniteSet(X), Coded(X), NEW n \in 1..Cardinality(X)
  PROVE  InOrder(X)[n] \in X /\ Rank(AheadIn(X), X, InOrder(X)[n]) + 1 = n
<1>1. Cardinality(X) \in Nat /\ n - 1 \in 0..(Cardinality(X) - 1)
  BY FS_CardinalityType
<1>2. PICK x \in X : Rank(AheadIn(X), X, x) = n - 1
  BY <1>1, OffersOrdered, EveryRankTaken
<1>3. \E y \in X : Rank(AheadIn(X), X, y) + 1 = n
  BY <1>1, <1>2
<1>4. InOrder(X)[n] = CHOOSE y \in X : Rank(AheadIn(X), X, y) + 1 = n
  BY DEF InOrder, OfRank
<1> QED
  BY <1>3, <1>4, Zenon

Leads(offers, i, j) ==
  \/ Ahead(offers[i], offers[j])
  \/ ~Ahead(offers[j], offers[i]) /\ i < j

Place(offers, j) == Cardinality({i \in DOMAIN offers : i # j /\ Leads(offers, i, j)}) + 1

At(offers, D, n) == CHOOSE j \in D : Place(offers, j) = n

LEMMA SortIs ==
  ASSUME NEW offers, NEW D, D = DOMAIN offers
  PROVE  SortOptions(offers) =
           [n \in 1..Cardinality(D) |-> offers[At(offers, D, n)]]
BY DEF SortOptions, At, Place, Leads

(* What is sorted matters, where it stood does not.                         *)
LEMMA SortForgets ==
  ASSUME NEW offers, NEW D, D = DOMAIN offers, IsFiniteSet(D), D \in SUBSET Nat,
         NEW X, X = {offers[i] : i \in D}, X \in SUBSET Options,
         \A i, j \in D : offers[i].code = offers[j].code => i = j
  PROVE  /\ IsFiniteSet(X) /\ Coded(X)
         /\ SortOptions(offers) = InOrder(X)
<1>1. PICK R, f : R = AheadIn(X) /\ f = [i \in D |-> offers[i]]
  OBVIOUS
<1>2. f \in [D -> X] /\ \A i \in D : f[i] = offers[i]
  BY <1>1
<1>3. \A i, j \in D : f[i] = f[j] => i = j
  BY <1>2
<1>4. \A x \in X : \E i \in D : f[i] = x
  BY <1>2
<1>5. Coded(X)
  BY <1>2, <1>3, <1>4 DEF Coded
<1>6. f \in Surjection(D, X) /\ f \in Injection(D, X)
  BY <1>2, <1>3, <1>4 DEF Surjection, Injection, IsInjective
<1>7. IsFiniteSet(X) /\ Cardinality(X) = Cardinality(D)
  BY <1>6, FS_Surjection
<1>8. Ordered(R, X)
  BY <1>1, <1>5, OffersOrdered
<1>9. ASSUME NEW i \in D, NEW j \in D
      PROVE  i # j /\ Leads(offers, i, j) <=> <<f[i], f[j]>> \in R
  <2>1. \A a, b \in X : <<a, b>> \in R <=> Ahead(a, b)
    BY <1>1 DEF AheadIn
  <2>2. <<f[i], f[j]>> \in R <=> Ahead(offers[i], offers[j])
    BY <1>2, <2>1
  <2>3. <<f[j], f[i]>> \in R <=> Ahead(offers[j], offers[i])
    BY <1>2, <2>1
  <2>4. f[i] \in X /\ f[j] \in X
    BY <1>2
  <2>5. CASE i = j
    BY <1>8, <2>4, <2>5 DEF Ordered
  <2>6. CASE i # j
    <3>1. f[i] # f[j]
      BY <1>3, <2>6
    <3>2. (<<f[i], f[j]>> \in R \/ <<f[j], f[i]>> \in R)
          /\ ~(<<f[i], f[j]>> \in R /\ <<f[j], f[i]>> \in R)
      BY <1>8, <2>4, <3>1 DEF Ordered
    <3> QED
      BY <2>2, <2>3, <2>6, <3>2 DEF Leads
  <2> QED
    BY <2>5, <2>6
<1>10. ASSUME NEW j \in D PROVE Place(offers, j) = Rank(R, X, f[j]) + 1
  <2>1. PICK A, B : /\ A = {i \in D : i # j /\ Leads(offers, i, j)}
                    /\ B = {y \in X : <<y, f[j]>> \in R}
    OBVIOUS
  <2>2. PICK g : g = [i \in A |-> f[i]]
    OBVIOUS
  <2>3. A \in SUBSET D /\ \A i \in D : i \in A <=> <<f[i], f[j]>> \in R
    BY <1>9, <2>1
  <2>4. g \in [A -> B] /\ \A i, k \in A : g[i] = g[k] => i = k
    BY <1>2, <1>3, <2>1, <2>2, <2>3
  <2>5. \A y \in B : \E i \in A : g[i] = y
    <3> SUFFICES ASSUME NEW y \in B PROVE \E i \in A : g[i] = y
      OBVIOUS
    <3>1. PICK i \in D : f[i] = y
      BY <1>4, <2>1
    <3> QED
      BY <2>1, <2>2, <2>3, <3>1
  <2>6. g \in Surjection(A, B) /\ g \in Injection(A, B)
    BY <2>4, <2>5 DEF Surjection, Injection, IsInjective
  <2>7. IsFiniteSet(A)
    BY <2>3, FS_Subset
  <2>8. Cardinality(B) = Cardinality(A)
    BY <2>6, <2>7, FS_Surjection
  <2>9. Rank(R, X, f[j]) = Cardinality(B) /\ Place(offers, j) = Cardinality(A) + 1
    BY <2>1 DEF Rank, Place
  <2> QED
    BY <2>8, <2>9
<1>11. ASSUME NEW n \in 1..Cardinality(X)
       PROVE  offers[At(offers, D, n)] = InOrder(X)[n]
  <2>1. InOrder(X)[n] \in X /\ Rank(R, X, InOrder(X)[n]) + 1 = n
    BY <1>1, <1>5, <1>7, InOrderIs
  <2>2. PICK j \in D : f[j] = InOrder(X)[n]
    BY <1>4, <2>1
  <2>3. \E k \in D : Place(offers, k) = n
    BY <1>10, <2>1, <2>2
  <2>4. PICK k : k = At(offers, D, n)
    OBVIOUS
  <2>5. k \in D /\ Place(offers, k) = n
    BY <2>3, <2>4, Zenon DEF At
  <2>6. f[k] \in X /\ Rank(R, X, f[k]) + 1 = n
    BY <1>2, <1>10, <2>5
  <2>7. Rank(R, X, f[k]) = Rank(R, X, InOrder(X)[n])
    <3>1. Rank(R, X, f[k]) \in Int /\ Rank(R, X, InOrder(X)[n]) \in Int
      BY <1>7, <1>8, <2>1, <2>6, RankTyped
    <3> QED
      BY <2>1, <2>6, <3>1
  <2>8. f[k] = InOrder(X)[n]
    BY <1>7, <1>8, <2>1, <2>6, <2>7, OneOfARank
  <2> QED
    BY <1>2, <2>4, <2>5, <2>8
<1>12. SortOptions(offers) = InOrder(X)
  <2>1. SortOptions(offers) = [n \in 1..Cardinality(X) |-> offers[At(offers, D, n)]]
    <3>1. D = DOMAIN offers
      OBVIOUS
    <3>2. SortOptions(offers) = [n \in 1..Cardinality(D) |-> offers[At(offers, D, n)]]
      BY <3>1, SortIs
    <3> QED
      BY <1>7, <3>2
  <2>2. [n \in 1..Cardinality(X) |-> offers[At(offers, D, n)]]
          = [n \in 1..Cardinality(X) |-> InOrder(X)[n]]
    BY <1>11
  <2>3. InOrder(X) = [n \in 1..Cardinality(X) |-> InOrder(X)[n]]
    BY DEF InOrder
  <2> QED
    BY <2>1, <2>2, <2>3, Zenon
<1> QED
  BY <1>5, <1>7, <1>12

-----------------------------------------------------------------------------
(* THE FREIGHT TABLE *)

Rates == [upTo: Int, price: Int]

OptionRows == [code: Nat, prefixes: SUBSET Regions, days: Nat \cup {Unknown}, rates: Seq(Rates)]

(* A table that parses, in whatever order its options are listed.           *)
Parsed(options) ==
  /\ IsFiniteSet(DOMAIN options) /\ DOMAIN options \in SUBSET Nat
  /\ \A i \in DOMAIN options : options[i] \in OptionRows /\ RatesAscend(options[i].rates)
  /\ \A i, j \in DOMAIN options : options[i].code = options[j].code => i = j

LEMMA TableParsed ==
  ASSUME table \in RawTables, Parses(table)
  PROVE  Parsed(table) /\ DOMAIN table = 1..Len(table) /\ Len(table) \in Nat
<1>1. table \in Seq(OptionRows)
  BY FreightAssumption DEF OptionRows, Rates
<1>2. DOMAIN table = 1..Len(table) /\ Len(table) \in Nat /\ \A i \in DOMAIN table : table[i] \in OptionRows
  BY <1>1
<1>3. IsFiniteSet(DOMAIN table)
  BY <1>2, FS_Interval
<1> QED
  BY <1>2, <1>3 DEF Parses, Parsed

LEMMA ArticleTyped ==
  ASSUME NEW l \in Lines
  PROVE  Grams(l) \in Nat /\ Subtotal(l) \in Nat
<1>1. l.quantity \in Nat /\ l.good \in [weight: Nat \cup {Unknown}, cubic: Nat, price: Nat]
  BY FreightAssumption DEF Lines
<1>2. /\ l.good.weight \in Nat \cup {Unknown} /\ l.good.cubic \in Nat /\ l.good.price \in Nat
      /\ DefaultWeight \in Nat
  BY <1>1, FreightAssumption
<1>3. UnitGrams(l.good) \in Nat
  BY <1>2 DEF UnitGrams
<1> QED
  BY <1>1, <1>2, <1>3 DEF Grams, Subtotal

LEMMA RatesTyped ==
  ASSUME NEW rates \in Seq(Rates), RatesAscend(rates)
  PROVE  /\ DOMAIN rates = 1..Len(rates) /\ Len(rates) \in Nat
         /\ \A i \in DOMAIN rates : rates[i].upTo \in Int /\ rates[i].price \in Nat
<1>1. DOMAIN rates = 1..Len(rates) /\ Len(rates) \in Nat /\ \A i \in DOMAIN rates : rates[i] \in Rates
  OBVIOUS
<1>2. ASSUME NEW i \in DOMAIN rates PROVE rates[i].upTo \in Int /\ rates[i].price \in Nat
  <2>1. rates[i].upTo \in Int /\ rates[i].price \in Int
    BY <1>1 DEF Rates
  <2>2. rates[i].price >= 0
    BY DEF RatesAscend
  <2> QED
    BY <2>1, <2>2
<1> QED
  BY <1>1, <1>2

(* The bracket found covers the parcel and is the first that does.          *)
LEMMA BracketIs ==
  ASSUME NEW rates \in Seq(Rates), RatesAscend(rates), NEW grams \in Nat,
         Bracket(rates, grams) # 0
  PROVE  /\ Bracket(rates, grams) \in DOMAIN rates
         /\ grams <= rates[Bracket(rates, grams)].upTo
         /\ \A i \in DOMAIN rates : grams <= rates[i].upTo => Bracket(rates, grams) <= i
<1>1. PICK covering : covering = {i \in DOMAIN rates : grams <= rates[i].upTo}
  OBVIOUS
<1>2. covering # {} /\ Bracket(rates, grams) = Min(covering)
  BY <1>1 DEF Bracket
<1>3. covering \in SUBSET Nat
  BY <1>1, RatesTyped
<1>4. \E x \in covering : \A y \in covering : x <= y
  BY <1>2, <1>3, LeastOf
<1>5. Min(covering) \in covering /\ \A y \in covering : Min(covering) <= y
  BY <1>4, Zenon DEF Min
<1> QED
  BY <1>1, <1>2, <1>5

(* Brackets ascend, so the first is the tightest.                           *)
LEMMA RatesClimb ==
  ASSUME NEW rates \in Seq(Rates), RatesAscend(rates),
         NEW b \in DOMAIN rates, NEW i \in DOMAIN rates, b <= i
  PROVE  rates[b].upTo <= rates[i].upTo
<1> DEFINE F == {k \in Nat : b + k \in DOMAIN rates => rates[b].upTo <= rates[b + k].upTo}
<1>1. /\ DOMAIN rates = 1..Len(rates) /\ Len(rates) \in Nat /\ b \in Nat /\ i \in Nat
      /\ \A j \in DOMAIN rates : rates[j].upTo \in Int
  BY RatesTyped
<1>2. 0 \in F
  BY <1>1
<1>3. ASSUME NEW k \in Nat, k \in F PROVE k + 1 \in F
  <2> SUFFICES ASSUME b + (k + 1) \in DOMAIN rates
               PROVE  rates[b].upTo <= rates[b + (k + 1)].upTo
    OBVIOUS
  <2>1. PICK j : j = b + (k + 1)
    OBVIOUS
  <2>2. j \in DOMAIN rates /\ j # 1 /\ j - 1 = b + k /\ b + k \in DOMAIN rates
    BY <1>1, <2>1
  <2>3. rates[j].upTo > rates[j - 1].upTo
    BY <2>2 DEF RatesAscend
  <2>4. rates[b].upTo <= rates[b + k].upTo
    BY <1>3, <2>2
  <2>5. rates[b].upTo <= rates[j].upTo
    <3>1. rates[b].upTo \in Int /\ rates[j].upTo \in Int /\ rates[b + k].upTo \in Int
      BY <1>1, <2>2
    <3>2. rates[j].upTo > rates[b + k].upTo
      BY <2>2, <2>3
    <3> QED
      BY <2>4, <3>1, <3>2
  <2> QED
    BY <2>1, <2>5
<1>4. i - b \in F
  <2>1. i - b \in Nat
    BY <1>1
  <2>2. \A k \in 0..(i - b - 1) : k \in F => k + 1 \in F
    BY <1>3
  <2> HIDE DEF F
  <2> QED
    BY <1>2, <2>1, <2>2, CountUp
<1>5. b + (i - b) = i
  BY <1>1
<1> QED
  BY <1>4, <1>5

Offer(o, l) ==
  [code |-> o.code, days |-> o.days, by |-> "table",
   price |-> IF IsFree(l) THEN 0 ELSE o.rates[Bracket(o.rates, Grams(l))].price]

Serving(options, region, l) == {i \in DOMAIN options : Serves(options[i], region, Grams(l))}

OfferSet(options, region, l) == {Offer(options[i], l) : i \in Serving(options, region, l)}

LEMMA OfferTyped ==
  ASSUME NEW o \in OptionRows, RatesAscend(o.rates), NEW l \in Lines, NEW region,
         Serves(o, region, Grams(l))
  PROVE  Offer(o, l) \in Options /\ Offer(o, l).code = o.code
<1>1. o.code \in Nat /\ o.days \in Nat \cup {Unknown} /\ o.rates \in Seq(Rates)
  BY DEF OptionRows
<1>2. Bracket(o.rates, Grams(l)) # 0
  BY DEF Serves
<1>3. o.rates[Bracket(o.rates, Grams(l))].price \in Nat
  <2>1. Bracket(o.rates, Grams(l)) \in DOMAIN o.rates
    BY <1>1, <1>2, ArticleTyped, BracketIs
  <2> QED
    BY <1>1, <2>1, RatesTyped
<1>4. PICK price \in Nat :
        Offer(o, l) = [code |-> o.code, days |-> o.days, by |-> "table", price |-> price]
  <2>1. CASE IsFree(l)
    BY <2>1 DEF Offer
  <2>2. CASE ~IsFree(l)
    BY <1>3, <2>2 DEF Offer
  <2> QED
    BY <2>1, <2>2
<1> QED
  BY <1>1, <1>4 DEF Options

(* The table's quote is the offers that serve, in their order.              *)
LEMMA TableQuoteIs ==
  ASSUME NEW options, Parsed(options), NEW region \in Regions, NEW l \in Lines
  PROVE  /\ IsFiniteSet(OfferSet(options, region, l)) /\ Coded(OfferSet(options, region, l))
         /\ TableQuote(options, region, l) = InOrder(OfferSet(options, region, l))
<1>1. PICK D, X : D = Serving(options, region, l) /\ X = OfferSet(options, region, l)
  OBVIOUS
<1>2. PICK offers : offers = [i \in D |-> Offer(options[i], l)]
  OBVIOUS
<1>3. D \in SUBSET DOMAIN options /\ D = DOMAIN offers
  BY <1>1, <1>2 DEF Serving
<1>4. IsFiniteSet(D) /\ D \in SUBSET Nat
  BY <1>3, FS_Subset DEF Parsed
<1>5. ASSUME NEW i \in D
      PROVE  offers[i] = Offer(options[i], l) /\ offers[i] \in Options
             /\ offers[i].code = options[i].code
  <2>1. options[i] \in OptionRows /\ RatesAscend(options[i].rates)
        /\ Serves(options[i], region, Grams(l))
    BY <1>1, <1>3 DEF Parsed, Serving
  <2>2. offers[i] = Offer(options[i], l)
    BY <1>2
  <2> QED
    BY <2>1, <2>2, OfferTyped
<1>6. X = {offers[i] : i \in D} /\ X \in SUBSET Options
  <2>1. X = {Offer(options[i], l) : i \in D}
    BY <1>1 DEF OfferSet
  <2> QED
    BY <1>5, <2>1
<1>7. \A i, j \in D : offers[i].code = offers[j].code => i = j
  BY <1>3, <1>5 DEF Parsed
<1>8. TableQuote(options, region, l) = SortOptions(offers)
  <2>1. region # Unknown
    BY FreightAssumption
  <2>2. TableQuote(options, region, l) =
          SortOptions([i \in Serving(options, region, l) |-> Offer(options[i], l)])
    BY <2>1 DEF TableQuote, Serving, Offer
  <2> QED
    BY <1>1, <1>2, <2>2
<1>9. IsFiniteSet(X) /\ Coded(X) /\ SortOptions(offers) = InOrder(X)
  BY <1>3, <1>4, <1>6, <1>7, SortForgets
<1> QED
  BY <1>1, <1>8, <1>9

LEMMA InOrderTyped ==
  ASSUME NEW X, IsFiniteSet(X), Coded(X)
  PROVE  /\ DOMAIN InOrder(X) = 1..Cardinality(X)
         /\ \A n \in DOMAIN InOrder(X) : InOrder(X)[n] \in X
         /\ \A n, m \in DOMAIN InOrder(X) : InOrder(X)[n].code = InOrder(X)[m].code => n = m
<1>1. DOMAIN InOrder(X) = 1..Cardinality(X)
  BY DEF InOrder
<1>2. ASSUME NEW n \in DOMAIN InOrder(X), NEW m \in DOMAIN InOrder(X),
             InOrder(X)[n].code = InOrder(X)[m].code
      PROVE  n = m
  <2>1. InOrder(X)[n] \in X /\ InOrder(X)[m] \in X
    BY <1>1, InOrderIs
  <2>2. InOrder(X)[n] = InOrder(X)[m]
    BY <1>2, <2>1 DEF Coded
  <2>3. /\ Rank(AheadIn(X), X, InOrder(X)[n]) + 1 = n
        /\ Rank(AheadIn(X), X, InOrder(X)[m]) + 1 = m
    BY <1>1, InOrderIs
  <2> QED
    BY <2>2, <2>3
<1> QED
  BY <1>1, <1>2, InOrderIs

(* The same options listed another way.                                     *)
LEMMA ShuffleParsed ==
  ASSUME Parsed(table), NEW other \in Shuffles(table), NEW region, NEW l
  PROVE  Parsed(other) /\ OfferSet(other, region, l) = OfferSet(table, region, l)
<1>1. PICK D : D = DOMAIN table
  OBVIOUS
<1>2. PICK f \in [D -> D] : /\ \A i, j \in D : f[i] = f[j] => i = j
                            /\ other = [i \in D |-> table[f[i]]]
  BY <1>1 DEF Shuffles
<1>3. DOMAIN other = D /\ \A i \in D : f[i] \in D /\ other[i] = table[f[i]]
  BY <1>2
<1>4. IsFiniteSet(D) /\ D \in SUBSET Nat
  BY <1>1 DEF Parsed
<1>5. \A j \in D : \E i \in D : f[i] = j
  <2>1. f \in Injection(D, D)
    BY <1>2 DEF Injection, IsInjective
  <2>2. f \in Surjection(D, D)
    BY <1>4, <2>1, FS_Injection
  <2> QED
    BY <2>2 DEF Surjection
<1>6. Parsed(other)
  <2>1. ASSUME NEW i \in D PROVE other[i] \in OptionRows /\ RatesAscend(other[i].rates)
    BY <1>1, <1>3 DEF Parsed
  <2>2. ASSUME NEW i \in D, NEW j \in D, other[i].code = other[j].code PROVE i = j
    <3>1. f[i] = f[j]
      BY <1>1, <1>3, <2>2 DEF Parsed
    <3> QED
      BY <1>2, <3>1
  <2> QED
    BY <1>3, <1>4, <2>1, <2>2 DEF Parsed
<1>7. \A i \in D : i \in Serving(other, region, l) <=> f[i] \in Serving(table, region, l)
  BY <1>1, <1>3 DEF Serving
<1>8. Serving(other, region, l) \in SUBSET D /\ Serving(table, region, l) \in SUBSET D
  BY <1>1, <1>3 DEF Serving
<1>9. OfferSet(other, region, l) = OfferSet(table, region, l)
  <2>1. ASSUME NEW x \in OfferSet(other, region, l) PROVE x \in OfferSet(table, region, l)
    <3>1. PICK i \in Serving(other, region, l) : x = Offer(other[i], l)
      BY DEF OfferSet
    <3>2. f[i] \in Serving(table, region, l) /\ x = Offer(table[f[i]], l)
      BY <1>3, <1>7, <1>8, <3>1
    <3> QED
      BY <3>2 DEF OfferSet
  <2>2. ASSUME NEW x \in OfferSet(table, region, l) PROVE x \in OfferSet(other, region, l)
    <3>1. PICK j \in Serving(table, region, l) : x = Offer(table[j], l)
      BY DEF OfferSet
    <3>2. PICK i \in D : f[i] = j
      BY <1>5, <1>8
    <3>3. i \in Serving(other, region, l) /\ x = Offer(other[i], l)
      BY <1>3, <1>7, <3>1, <3>2
    <3> QED
      BY <3>3 DEF OfferSet
  <2> QED
    BY <2>1, <2>2
<1> QED
  BY <1>6, <1>9

-----------------------------------------------------------------------------
(* QUOTES AND ORDERS *)

LEMMA AscendingTyped ==
  ASSUME NEW S \in SUBSET Nat, IsFiniteSet(S)
  PROVE  /\ DOMAIN Ascending(S) = 1..Cardinality(S)
         /\ \A n \in DOMAIN Ascending(S) : Ascending(S)[n] \in S
<1>1. PICK R : R = {a \in S \X S : a[1] < a[2]}
  OBVIOUS
<1>2. \A i, j \in S : <<i, j>> \in R <=> i < j
  BY <1>1
<1>3. Ordered(R, S)
  <2>1. \A i \in S : i \in Int
    OBVIOUS
  <2> QED
    BY <1>2, <2>1 DEF Ordered
<1>4. DOMAIN Ascending(S) = 1..Cardinality(S)
  BY DEF Ascending
<1>5. ASSUME NEW m \in 0..(Cardinality(S) - 1) PROVE \E i \in S : Rank(R, S, i) = m
  <2>1. PICK T : T = S
    OBVIOUS
  <2>2. IsFiniteSet(T) /\ Ordered(R, T) /\ m \in 0..(Cardinality(T) - 1)
    BY <1>3, <2>1
  <2>3. \E i \in T : Rank(R, T, i) = m
    BY <2>2, EveryRankTaken
  <2> QED
    BY <2>1, <2>3
<1>6. ASSUME NEW n \in 1..Cardinality(S) PROVE Ascending(S)[n] \in S
  <2>1. Cardinality(S) \in Nat /\ n - 1 \in 0..(Cardinality(S) - 1)
    BY FS_CardinalityType
  <2>2. PICK i \in S : Rank(R, S, i) = n - 1
    BY <1>5, <2>1
  <2>3. {j \in S : j < i} = {j \in S : <<j, i>> \in R}
    BY <1>2
  <2>4. Cardinality({j \in S : j < i}) = n - 1
    BY <2>2, <2>3, Zenon DEF Rank
  <2>5. Cardinality({j \in S : j < i}) + 1 = n
    BY <2>1, <2>4
  <2>6. (CHOOSE k \in S : Cardinality({j \in S : j < k}) + 1 = n) \in S
    BY <2>5, Zenon
  <2>7. Ascending(S)[n] = CHOOSE k \in S : Cardinality({j \in S : j < k}) + 1 = n
    BY DEF Ascending
  <2> QED
    BY <2>6, <2>7, Zenon
<1> QED
  BY <1>4, <1>6

LEMMA CarrierQuoteTyped ==
  ASSUME carrier \in Carriers, NEW region, carrier # Unknown \/ region = Unknown
  PROVE  \A i \in DOMAIN CarrierQuote(region) : CarrierQuote(region)[i] \in Options
<1>1. CASE region = Unknown
  BY <1>1 DEF CarrierQuote
<1>2. CASE region # Unknown
  <2>1. PICK S : S = {s \in 1..Services : carrier[s] # Unknown}
    OBVIOUS
  <2>2. PICK taken : taken = Ascending(S)
    OBVIOUS
  <2>3. carrier \in [1..Services -> Fares \cup {Unknown}]
    BY <1>2 DEF Carriers
  <2>4. S \in SUBSET Nat /\ IsFiniteSet(S)
    <3>1. IsFiniteSet(1..Services) /\ 1..Services \in SUBSET Nat
      BY FreightAssumption, FS_Interval
    <3>2. S \in SUBSET (1..Services)
      BY <2>1
    <3> QED
      BY <3>1, <3>2, FS_Subset
  <2>5. \A i \in DOMAIN taken : taken[i] \in S
    BY <2>2, <2>4, AscendingTyped
  <2>6. CarrierQuote(region) = [i \in DOMAIN taken |->
          [code |-> taken[i], days |-> Unknown, by |-> "carrier", price |-> carrier[taken[i]]]]
    BY <1>2, <2>1, <2>2 DEF CarrierQuote
  <2>7. ASSUME NEW i \in DOMAIN taken PROVE taken[i] \in Nat /\ carrier[taken[i]] \in Nat
    <3>1. taken[i] \in 1..Services /\ taken[i] \in Nat /\ carrier[taken[i]] # Unknown
      BY <2>1, <2>4, <2>5
    <3>2. carrier[taken[i]] \in Fares
      BY <2>3, <3>1
    <3> QED
      BY <3>1, <3>2, FreightAssumption
  <2> QED
    BY <2>6, <2>7 DEF Options
<1> QED
  BY <1>1, <1>2

LEMMA QuoteTyped ==
  ASSUME FreightTypeOK, NEW region \in Regions \cup {Unknown}, NEW n \in DOMAIN Quote(region, line)
  PROVE  Quote(region, line)[n] \in Options
<1>1. CASE carrier = Unknown /\ region # Unknown
  <2>1. region \in Regions /\ Quote(region, line) = TableQuote(table, region, line)
    BY <1>1 DEF Quote
  <2>2. PICK X : X = OfferSet(table, region, line)
    OBVIOUS
  <2>3. IsFiniteSet(X) /\ Coded(X) /\ TableQuote(table, region, line) = InOrder(X)
    BY <2>1, <2>2, TableParsed, TableQuoteIs DEF FreightTypeOK
  <2>4. InOrder(X)[n] \in X
    BY <2>1, <2>3, InOrderTyped
  <2> QED
    BY <2>1, <2>3, <2>4 DEF Coded
<1>2. CASE ~(carrier = Unknown /\ region # Unknown)
  <2>1. Quote(region, line) = CarrierQuote(region)
    BY <1>2 DEF Quote
  <2>2. carrier # Unknown \/ region = Unknown
    BY <1>2
  <2> QED
    BY <2>1, <2>2, CarrierQuoteTyped DEF FreightTypeOK
<1> QED
  BY <1>1, <1>2

LEMMA FreightInitial == FreightInit => FreightTypeOK
<1> SUFFICES ASSUME FreightInit PROVE FreightTypeOK
  OBVIOUS
<1>1. table \in RawTables /\ Parses(table) /\ carrier \in Carriers /\ line \in Lines
  BY DEF FreightInit, Carriers
<1>2. DOMAIN shown = {}
  BY DEF FreightInit
<1>3. charged \in [code: Nat, by: {"table", "carrier"}, freight: Nat, subtotal: Nat]
  BY DEF FreightInit, NoOrder
<1> QED
  BY <1>1, <1>2, <1>3 DEF FreightTypeOK

LEMMA PlaceOrderFreight ==
  ASSUME FreightTypeOK, NEW region \in Regions \cup {Unknown}, NEW i, PlaceOrder(region, i)
  PROVE  FreightTypeOK'
<1>1. PICK fresh : fresh = Quote(region, line)
  OBVIOUS
<1>2. PICK n \in Selected(fresh, shown[i].code, shown[i].price) :
        charged' = [code |-> fresh[n].code, by |-> fresh[n].by, freight |-> fresh[n].price,
                    subtotal |-> Subtotal(line)]
  BY <1>1 DEF PlaceOrder
<1>3. n \in DOMAIN fresh
  BY DEF Selected
<1>4. fresh[n] \in Options
  BY <1>1, <1>3, QuoteTyped
<1>5. charged' \in [code: Nat, by: {"table", "carrier"}, freight: Nat, subtotal: Nat]
  <2>1. Subtotal(line) \in Nat
    BY ArticleTyped DEF FreightTypeOK
  <2>2. fresh[n].code \in Nat /\ fresh[n].by \in {"table", "carrier"} /\ fresh[n].price \in Nat
    BY <1>4 DEF Options
  <2> QED
    BY <1>2, <2>1, <2>2
<1>6. line' \in Lines
  <2>1. line' = [line EXCEPT !.quantity = 0] /\ line \in Lines /\ 0 \in 0..MaxQuantity
    BY FreightAssumption DEF PlaceOrder, FreightTypeOK
  <2> QED
    BY <2>1 DEF Lines
<1>7. UNCHANGED <<table, carrier, shown>>
  BY DEF PlaceOrder
<1>8. (\A k \in DOMAIN shown : shown[k] \in Options)'
  BY <1>7 DEF FreightTypeOK
<1>9. table' \in RawTables /\ Parses(table') /\ carrier' \in Carriers
  BY <1>7 DEF FreightTypeOK
<1> QED
  BY <1>5, <1>6, <1>8, <1>9 DEF FreightTypeOK

LEMMA FreightStep ==
  ASSUME FreightTypeOK, [FreightNext]_freightVars
  PROVE  FreightTypeOK'
<1>1. CASE UNCHANGED freightVars
  BY <1>1 DEF freightVars, FreightTypeOK
<1>2. CASE CarrierTurns
  BY <1>2 DEF CarrierTurns, FreightTypeOK
<1>3. CASE EditLine
  BY <1>3 DEF EditLine, FreightTypeOK
<1>4. ASSUME NEW region \in Regions \cup {Unknown}, QuoteForCart(region)
      PROVE  FreightTypeOK'
  <2>1. shown' = Quote(region, line) /\ UNCHANGED <<table, carrier, line, charged>>
    BY <1>4 DEF QuoteForCart
  <2>2. (\A k \in DOMAIN shown : shown[k] \in Options)'
    BY <2>1, QuoteTyped
  <2> QED
    BY <2>1, <2>2 DEF FreightTypeOK
<1> QED
  BY <1>1, <1>2, <1>3, <1>4, PlaceOrderFreight DEF FreightNext

(* The freight table stays one that parses, and every offer shown and every *)
(* order charged is well formed.                                            *)
LEMMA FreightHeld == FreightSpec => []FreightTypeOK
<1> QED
  BY FreightInitial, FreightStep, PTL DEF FreightSpec

LEMMA QuoteHolds == FreightTypeOK => QuoteIgnoresTheTypist
<1> SUFFICES ASSUME FreightTypeOK PROVE QuoteIgnoresTheTypist
  OBVIOUS
<1>1. Parsed(table) /\ line \in Lines
  BY TableParsed DEF FreightTypeOK
<1>2. ASSUME NEW region \in Regions, NEW other \in Shuffles(table)
      PROVE  TableQuote(other, region, line) = TableQuote(table, region, line)
  <2>1. Parsed(other) /\ OfferSet(other, region, line) = OfferSet(table, region, line)
    BY <1>1, ShuffleParsed
  <2> QED
    BY <1>1, <2>1, TableQuoteIs
<1>3. ASSUME NEW region \in Regions
      PROVE  LET offers == TableQuote(table, region, line)
             IN  \A i, j \in DOMAIN offers : offers[i].code = offers[j].code => i = j
  <2>1. PICK X : X = OfferSet(table, region, line)
    OBVIOUS
  <2>2. IsFiniteSet(X) /\ Coded(X) /\ TableQuote(table, region, line) = InOrder(X)
    BY <1>1, <2>1, TableQuoteIs
  <2> QED
    BY <2>2, InOrderTyped
<1>4. ASSUME NEW k \in DOMAIN table, Bracket(table[k].rates, Grams(line)) # 0,
             NEW i \in DOMAIN table[k].rates, table[k].rates[i].upTo >= Grams(line)
      PROVE  table[k].rates[Bracket(table[k].rates, Grams(line))].upTo <= table[k].rates[i].upTo
  <2>1. PICK rates, b, grams : /\ rates = table[k].rates /\ grams = Grams(line)
                               /\ b = Bracket(rates, grams)
    OBVIOUS
  <2>2. rates \in Seq(Rates) /\ RatesAscend(rates)
    <3>1. table[k] \in OptionRows /\ RatesAscend(table[k].rates)
      BY <1>1 DEF Parsed
    <3> QED
      BY <2>1, <3>1 DEF OptionRows
  <2>3. grams \in Nat
    BY <1>1, <2>1, ArticleTyped
  <2>4. rates[i].upTo \in Int /\ i \in DOMAIN rates
    BY <1>4, <2>1, <2>2, RatesTyped
  <2>5. grams <= rates[i].upTo
    BY <1>4, <2>1, <2>3, <2>4
  <2>6. b \in DOMAIN rates /\ b <= i
    BY <1>4, <2>1, <2>2, <2>3, <2>4, <2>5, BracketIs
  <2>7. rates[b].upTo <= rates[i].upTo
    BY <2>2, <2>4, <2>6, RatesClimb
  <2> QED
    BY <2>1, <2>7
<1> QED
  BY <1>2, <1>3, <1>4 DEF QuoteIgnoresTheTypist

(* However a table's options are listed a buyer sees the same offers in the *)
(* same places, each by a code of its own, for the tightest bracket that    *)
(* covers the parcel (compareOptions, parseRates).                          *)
THEOREM QuoteKeepsItsOrder == FreightSpec => []QuoteIgnoresTheTypist
<1> QED
  BY FreightHeld, QuoteHolds, PTL

-----------------------------------------------------------------------------
(* THE SHOP *)

ShopInv == CatalogueInv /\ FreightTypeOK /\ ReportsTypeOK /\ GrantInv

LEMMA ShopInitial == Init => ShopInv
BY CatalogueInitial, FreightInitial, ReportsInitial, ConnectionsInitial DEF Init, ShopInv

LEMMA ShopStep == ASSUME ShopInv, [Next]_vars PROVE ShopInv'
<1>1. [CatalogueNext]_catalogueVars
  BY DEF Next, vars
<1>2. [FreightNext]_freightVars
  BY DEF Next, vars
<1>3. [ReportsNext]_reportVars
  BY DEF Next, vars
<1>4. [ConnectionsNext]_connectionVars
  BY DEF Next, vars
<1> QED
  BY <1>1, <1>2, <1>3, <1>4, CatalogueStep, FreightStep, ReportsStep, NextStep DEF ShopInv

(* Every part of the shop keeps its variables to their values.              *)
THEOREM ShopTyped == Spec => []TypeOK
<1>1. ShopInv => TypeOK
  BY DEF ShopInv, CatalogueInv, GrantInv, HeldInv, TypeOK
<1> QED
  BY <1>1, ShopInitial, ShopStep, PTL DEF Spec

=============================================================================
