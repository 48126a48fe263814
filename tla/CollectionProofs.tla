-------------------------- MODULE CollectionProofs --------------------------
(***************************************************************************)
(* What the proofs need to know of the operators on data the modules are   *)
(* built from: least and greatest elements, and sums over finite sets.     *)
(* Where a fact has to be shown by induction, it is shown by looking at a   *)
(* least counterexample.                                                    *)
(***************************************************************************)
EXTENDS Integers, Sequences, FiniteSets, Functions, SequencesExt, FiniteSetsExt, Filter,
        FiniteSetTheorems, WellFoundedInduction, TLAPS

----------------------------------------------------------------------------
(* A set of naturals has a least element. *)
LEMMA MinIsLeast ==
  ASSUME NEW S \in SUBSET Nat, S # {}
  PROVE  Min(S) \in S /\ \A y \in S : Min(S) <= y
<1> DEFINE R == OpToRel(<, Nat)
<1>1. IsWellFoundedOn(R, Nat)
  BY NatLessThanWellFounded
<1>2. R = {ss \in Nat \X Nat : ss[1] < ss[2]}
  BY DEF OpToRel
<1> HIDE DEF R
<1>3. PICK x \in S : \A y \in S : ~ (<<y, x>> \in R)
  BY <1>1, WFMin
<1>4. \A y \in Nat : y < x => <<y, x>> \in R
  BY <1>2
<1>5. \A y \in S : ~(y < x)
  BY <1>3, <1>4
<1>6. \A y \in S : x <= y
  BY <1>5
<1>7. QED
  BY <1>6 DEF Min

(* Of two numbers. *)
LEMMA MaxOfTwo ==
  ASSUME NEW a \in Int, NEW b \in Int
  PROVE  Max({a, b}) = IF a < b THEN b ELSE a
<1>1. \E x \in {a, b} : \A y \in {a, b} : x >= y
  OBVIOUS
<1>2. Max({a, b}) \in {a, b} /\ \A y \in {a, b} : Max({a, b}) >= y
  BY <1>1 DEF Max
<1>3. QED
  BY <1>2

LEMMA MinOfTwo ==
  ASSUME NEW a \in Int, NEW b \in Int
  PROVE  Min({a, b}) = IF a < b THEN a ELSE b
<1>1. \E x \in {a, b} : \A y \in {a, b} : x <= y
  OBVIOUS
<1>2. Min({a, b}) \in {a, b} /\ \A y \in {a, b} : Min({a, b}) <= y
  BY <1>1 DEF Min
<1>3. QED
  BY <1>2

----------------------------------------------------------------------------
(* Sums.  Cells(f, S) has f[x] elements for each x of S: its cardinality   *)
(* is the sum.                                                             *)

Cells(f, S) == {c \in S \X UNION {1 .. f[y] : y \in S} : c[2] <= f[c[1]]}

LEMMA CellsOfOne ==
  ASSUME NEW f, NEW x, f[x] \in Nat
  PROVE  LET C == {x} \X (1 .. f[x])
         IN  IsFiniteSet(C) /\ Cardinality(C) = f[x]
<1>1. IsFiniteSet(1 .. f[x]) /\ Cardinality(1 .. f[x]) = f[x]
  BY FS_Interval
<1>2. IsFiniteSet({x}) /\ Cardinality({x}) = 1
  BY FS_Singleton
<1>3. \A A, B : IsFiniteSet(A) /\ IsFiniteSet(B) =>
          IsFiniteSet(A \X B) /\ Cardinality(A \X B) = Cardinality(A) * Cardinality(B)
  BY FS_Product
<1> DEFINE A == {x}
           B == 1 .. f[x]
<1>4. IsFiniteSet(A \X B) /\ Cardinality(A \X B) = Cardinality(A) * Cardinality(B)
  BY <1>1, <1>2, <1>3
<1>5. Cardinality(A) = 1 /\ Cardinality(B) = f[x]
  BY <1>1, <1>2
<1> HIDE DEF A, B
<1>6. Cardinality(A) * Cardinality(B) = f[x]
  BY <1>5
<1>7. QED
  BY <1>4, <1>6 DEF A, B

(* The cells of S are those of one element and those of the others.        *)
LEMMA CellsSplit ==
  ASSUME NEW f, NEW S, NEW x \in S, \A y \in S : f[y] \in Nat
  PROVE  /\ Cells(f, S) = Cells(f, S \ {x}) \cup ({x} \X (1 .. f[x]))
         /\ Cells(f, S \ {x}) \cap ({x} \X (1 .. f[x])) = {}
<1>1. \A T \in SUBSET S : Cells(f, T) = {c \in T \X Nat : c[2] \in 1 .. f[c[1]]}
  BY DEF Cells
<1>2. QED
  BY <1>1

LEMMA CellsFinite ==
  ASSUME NEW f, NEW S, IsFiniteSet(S), \A y \in S : f[y] \in Nat
  PROVE  IsFiniteSet(Cells(f, S)) /\ Cardinality(Cells(f, S)) \in Nat
<1>1. IsFiniteSet(UNION {1 .. f[y] : y \in S})
  <2> DEFINE I == {1 .. f[y] : y \in S}
  <2>1. \A T \in I : IsFiniteSet(T)
    BY FS_Interval
  <2>2. IsFiniteSet(I)
    <3> DEFINE g == [y \in S |-> 1 .. f[y]]
    <3>1. g \in Surjection(S, I)
      BY DEF Surjection
    <3>2. QED
      BY <3>1, FS_Surjection
  <2>3. QED
    BY <2>1, <2>2, FS_UNION
<1>2. IsFiniteSet(S \X UNION {1 .. f[y] : y \in S})
  BY <1>1, FS_Product
<1>3. Cells(f, S) \subseteq S \X UNION {1 .. f[y] : y \in S}
  BY DEF Cells
<1>4. QED
  BY <1>2, <1>3, FS_Subset, FS_CardinalityType

(* The sum over S is the number of cells.                                  *)
LEMMA SumIsCells ==
  ASSUME NEW f, NEW S, IsFiniteSet(S), \A y \in S : f[y] \in Nat
  PROVE  SumFunctionOnSet(f, S) = Cardinality(Cells(f, S))
<1> DEFINE Iter(g) == g = [s \in SUBSET S |->
                             IF s = {} THEN 0
                             ELSE LET x == CHOOSE x \in s : TRUE IN f[x] + g[s \ {x}]]
           c == CHOOSE g : Iter(g)
           h == [s \in SUBSET S |-> Cardinality(Cells(f, s))]
<1>1. SumFunctionOnSet(f, S) = c[S]
  BY DEF SumFunctionOnSet, FoldFunctionOnSet, MapThenFoldSet
<1>2. ASSUME NEW s \in SUBSET S, s # {}
      PROVE  LET x == CHOOSE x \in s : TRUE IN h[s] = f[x] + h[s \ {x}]
  <2> DEFINE x == CHOOSE x \in s : TRUE
  <2>1. x \in s
    BY <1>2
  <2> HIDE DEF x
  <2>2. s \ {x} \in SUBSET S /\ IsFiniteSet(s) /\ IsFiniteSet(s \ {x})
    BY FS_Subset
  <2>3. /\ IsFiniteSet(Cells(f, s \ {x})) /\ Cardinality(Cells(f, s \ {x})) \in Nat
    BY <2>2, CellsFinite
  <2>4. LET C == {x} \X (1 .. f[x]) IN IsFiniteSet(C) /\ Cardinality(C) = f[x] /\ f[x] \in Nat
    BY <2>1, CellsOfOne
  <2>5. /\ Cells(f, s) = Cells(f, s \ {x}) \cup ({x} \X (1 .. f[x]))
        /\ Cells(f, s \ {x}) \cap ({x} \X (1 .. f[x])) = {}
    BY <2>1, CellsSplit
  <2>6. Cardinality(Cells(f, s)) = Cardinality(Cells(f, s \ {x})) + f[x]
    <3> DEFINE C == {x} \X (1 .. f[x])
               D == Cells(f, s \ {x})
    <3>1. IsFiniteSet(C) /\ IsFiniteSet(D) /\ D \cap C = {} /\ Cardinality(C) = f[x]
      BY <2>3, <2>4, <2>5
    <3>2. Cells(f, s) = D \cup C /\ Cardinality(D) \in Nat /\ f[x] \in Nat
      BY <2>3, <2>4, <2>5
    <3> HIDE DEF C, D
    <3>3. Cardinality(D \cup C) = Cardinality(D) + Cardinality(C) - Cardinality(D \cap C)
      BY <3>1, FS_Union
    <3>4. Cardinality(D \cap C) = 0
      BY <3>1, FS_EmptySet
    <3>5. Cardinality(Cells(f, s)) = Cardinality(D) + f[x]
      BY <3>1, <3>2, <3>3, <3>4
    <3>6. QED
      BY <3>5 DEF D
  <2>7. QED
    BY <2>2, <2>3, <2>4, <2>6 DEF x
<1>3. h[{}] = 0
  <2>1. Cells(f, {}) = {}
    BY DEF Cells
  <2>2. QED
    BY <2>1, FS_EmptySet
<1> HIDE DEF h
<1>4. Iter(h)
  <2>1. h = [s \in SUBSET S |-> h[s]]
    BY DEF h
  <2>2. \A s \in SUBSET S : h[s] = IF s = {} THEN 0
                             ELSE LET x == CHOOSE x \in s : TRUE IN f[x] + h[s \ {x}]
    BY <1>2, <1>3
  <2>3. QED
    BY <2>1, <2>2
<1>5. Iter(c)
  BY <1>4
<1> HIDE DEF c
<1>6. \A s \in SUBSET S : c[s] = IF s = {} THEN 0
                             ELSE LET x == CHOOSE x \in s : TRUE IN f[x] + c[s \ {x}]
  BY <1>5
<1> HIDE DEF Iter
<1>7. \A s \in SUBSET S : c[s] = h[s]
  <2> DEFINE Bad == {s \in SUBSET S : c[s] # h[s]}
             R == StrictSubsetOrdering(S)
  <2>1. SUFFICES ASSUME Bad # {} PROVE FALSE
    OBVIOUS
  <2>2. IsWellFoundedOn(R, SUBSET S)
    BY FS_FiniteSubsetsOfFinite, FS_StrictSubsetOrderingWellFounded
  <2>3. \E s \in Bad : \A t \in Bad : ~ (<<t, s>> \in R)
    <3>1. Bad \subseteq SUBSET S
      OBVIOUS
    <3> HIDE DEF Bad, R
    <3>2. QED
      BY <2>1, <2>2, <3>1, WFMin
  <2>4. PICK s \in Bad : \A t \in Bad : ~ (<<t, s>> \in R)
    BY <2>3
  <2>5. s \in SUBSET S /\ s # {}
    BY <1>3, <1>6
  <2> DEFINE x == CHOOSE x \in s : TRUE
  <2>6. x \in s /\ c[s] = f[x] + c[s \ {x}] /\ h[s] = f[x] + h[s \ {x}]
    BY <1>2, <1>6, <2>5
  <2> HIDE DEF x
  <2>7. s \ {x} \in SUBSET S /\ <<s \ {x}, s>> \in R
    BY <2>5, <2>6 DEF StrictSubsetOrdering
  <2>8. c[s \ {x}] = h[s \ {x}]
    BY <2>4, <2>7
  <2>9. c[s] = h[s]
    BY <2>6, <2>8
  <2>10. QED
    BY <2>9
<1>8. QED
  BY <1>1, <1>7 DEF h
LEMMA SumType ==
  ASSUME NEW f, NEW S, IsFiniteSet(S), \A y \in S : f[y] \in Nat
  PROVE  SumFunctionOnSet(f, S) \in Nat
BY SumIsCells, CellsFinite

LEMMA SumEmpty ==
  ASSUME NEW f
  PROVE  SumFunctionOnSet(f, {}) = 0
<1>1. Cells(f, {}) = {}
  BY DEF Cells
<1>2. QED
  BY <1>1, SumIsCells, FS_EmptySet

(* Over two sets that share nothing.                                       *)
LEMMA SumUnion ==
  ASSUME NEW f, NEW S, NEW T, IsFiniteSet(S), IsFiniteSet(T), S \cap T = {},
         \A y \in S \cup T : f[y] \in Nat
  PROVE  SumFunctionOnSet(f, S \cup T) = SumFunctionOnSet(f, S) + SumFunctionOnSet(f, T)
<1> DEFINE C == Cells(f, S)
           D == Cells(f, T)
<1>1. Cells(f, S \cup T) = C \cup D /\ C \cap D = {}
  BY DEF Cells
<1>2. IsFiniteSet(S \cup T)
  BY FS_Union
<1>3. /\ SumFunctionOnSet(f, S) = Cardinality(C) /\ SumFunctionOnSet(f, T) = Cardinality(D)
      /\ SumFunctionOnSet(f, S \cup T) = Cardinality(C \cup D)
  BY <1>1, <1>2, SumIsCells
<1>4. /\ IsFiniteSet(C) /\ IsFiniteSet(D)
      /\ Cardinality(C) \in Nat /\ Cardinality(D) \in Nat
  BY CellsFinite
<1> HIDE DEF C, D
<1>5. Cardinality(C \cup D) = Cardinality(C) + Cardinality(D) - Cardinality(C \cap D)
  BY <1>4, FS_Union
<1>6. Cardinality(C \cap D) = 0
  BY <1>1, FS_EmptySet
<1>7. QED
  BY <1>3, <1>4, <1>5, <1>6

LEMMA SumOfOne ==
  ASSUME NEW f, NEW x, f[x] \in Nat
  PROVE  SumFunctionOnSet(f, {x}) = f[x]
<1>1. Cells(f, {x}) = {x} \X (1 .. f[x])
  BY DEF Cells
<1>2. IsFiniteSet({x}) /\ \A y \in {x} : f[y] \in Nat
  BY FS_Singleton
<1>3. SumFunctionOnSet(f, {x}) = Cardinality(Cells(f, {x}))
  BY <1>2, SumIsCells
<1>4. Cardinality({x} \X (1 .. f[x])) = f[x]
  BY CellsOfOne
<1>5. QED
  BY <1>1, <1>3, <1>4

(* An element is taken out, or put in.                                     *)
LEMMA SumRemove ==
  ASSUME NEW f, NEW S, IsFiniteSet(S), NEW x \in S, \A y \in S : f[y] \in Nat
  PROVE  /\ SumFunctionOnSet(f, S) = SumFunctionOnSet(f, S \ {x}) + f[x]
         /\ SumFunctionOnSet(f, S \ {x}) \in Nat /\ IsFiniteSet(S \ {x})
<1>1. IsFiniteSet(S \ {x}) /\ IsFiniteSet({x}) /\ S = (S \ {x}) \cup {x} /\ (S \ {x}) \cap {x} = {}
  BY FS_Subset, FS_Singleton
<1>2. SumFunctionOnSet(f, (S \ {x}) \cup {x}) = SumFunctionOnSet(f, S \ {x}) + SumFunctionOnSet(f, {x})
  BY <1>1, SumUnion
<1>3. QED
  BY <1>1, <1>2, SumOfOne, SumType

(* The sum depends on the values of the elements alone.                    *)
LEMMA SumSame ==
  ASSUME NEW f, NEW g, NEW S, IsFiniteSet(S), \A y \in S : f[y] \in Nat /\ g[y] = f[y]
  PROVE  SumFunctionOnSet(g, S) = SumFunctionOnSet(f, S)
<1>1. Cells(f, S) = Cells(g, S)
  BY DEF Cells
<1>2. QED
  BY <1>1, SumIsCells

(* One value changes.                                                      *)
LEMMA SumChange ==
  ASSUME NEW f, NEW g, NEW S, IsFiniteSet(S), NEW x \in S,
         \A y \in S : f[y] \in Nat /\ g[y] \in Nat, \A y \in S \ {x} : g[y] = f[y]
  PROVE  SumFunctionOnSet(g, S) = SumFunctionOnSet(f, S) - f[x] + g[x]
<1>1. SumFunctionOnSet(f, S) = SumFunctionOnSet(f, S \ {x}) + f[x]
  BY SumRemove
<1>2. SumFunctionOnSet(g, S) = SumFunctionOnSet(g, S \ {x}) + g[x]
  BY SumRemove
<1>3. SumFunctionOnSet(g, S \ {x}) = SumFunctionOnSet(f, S \ {x})
  BY SumRemove, SumSame
<1>4. SumFunctionOnSet(f, S \ {x}) \in Nat /\ f[x] \in Nat /\ g[x] \in Nat
  BY SumRemove
<1>5. QED
  BY <1>1, <1>2, <1>3, <1>4

LEMMA SumMonotonic ==
  ASSUME NEW f, NEW S, IsFiniteSet(S), NEW T \in SUBSET S, \A y \in S : f[y] \in Nat
  PROVE  SumFunctionOnSet(f, T) <= SumFunctionOnSet(f, S)
<1>1. IsFiniteSet(T) /\ IsFiniteSet(S \ T) /\ S = T \cup (S \ T) /\ T \cap (S \ T) = {}
  BY FS_Subset
<1>2. SumFunctionOnSet(f, T \cup (S \ T)) = SumFunctionOnSet(f, T) + SumFunctionOnSet(f, S \ T)
  BY <1>1, SumUnion
<1>3. SumFunctionOnSet(f, T) \in Nat /\ SumFunctionOnSet(f, S \ T) \in Nat
  BY <1>1, SumType
<1>4. SumFunctionOnSet(f, S) = SumFunctionOnSet(f, T) + SumFunctionOnSet(f, S \ T)
  <2>1. T \cup (S \ T) = S
    BY <1>1
  <2>2. QED
    BY <1>2, <2>1
<1>5. QED
  BY <1>3, <1>4

LEMMA SumZero ==
  ASSUME NEW f, NEW S, IsFiniteSet(S), \A y \in S : f[y] \in Nat
  PROVE  SumFunctionOnSet(f, S) = 0 <=> \A y \in S : f[y] = 0
<1>1. ASSUME SumFunctionOnSet(f, S) = 0, NEW y \in S PROVE f[y] = 0
  <2>1. /\ SumFunctionOnSet(f, S) = SumFunctionOnSet(f, S \ {y}) + f[y]
        /\ SumFunctionOnSet(f, S \ {y}) \in Nat
    BY SumRemove
  <2>2. QED
    BY <1>1, <2>1
<1>2. ASSUME \A y \in S : f[y] = 0 PROVE SumFunctionOnSet(f, S) = 0
  <2>1. Cells(f, S) = {}
    BY <1>2 DEF Cells
  <2>2. QED
    BY <2>1, SumIsCells, FS_EmptySet
<1>3. QED
  BY <1>1, <1>2

(* No value grows, and no sum does.                                        *)
LEMMA SumLess ==
  ASSUME NEW f, NEW g, NEW S, IsFiniteSet(S),
         \A y \in S : f[y] \in Nat /\ g[y] \in Nat /\ f[y] <= g[y]
  PROVE  SumFunctionOnSet(f, S) <= SumFunctionOnSet(g, S)
<1>1. Cells(f, S) \subseteq Cells(g, S)
  <2>1. ASSUME NEW c \in Cells(f, S) PROVE c \in Cells(g, S)
    <3>1. /\ c \in S \X UNION {1 .. f[y] : y \in S} /\ c[2] <= f[c[1]]
      BY DEF Cells
    <3>2. c[1] \in S /\ c[2] \in 1 .. f[c[1]] /\ c = <<c[1], c[2]>>
      BY <3>1
    <3>3. c[2] \in 1 .. g[c[1]]
      BY <3>2
    <3>4. QED
      BY <3>2, <3>3 DEF Cells
  <2>2. QED
    BY <2>1
<1>2. IsFiniteSet(Cells(g, S))
  BY CellsFinite
<1>3. Cardinality(Cells(f, S)) <= Cardinality(Cells(g, S))
  BY <1>1, <1>2, FS_Subset
<1>4. QED
  BY <1>3, SumIsCells

(* No value exceeds k.                                                     *)
LEMMA SumBounded ==
  ASSUME NEW f, NEW S, IsFiniteSet(S), NEW k \in Nat, \A y \in S : f[y] \in 0 .. k
  PROVE  SumFunctionOnSet(f, S) <= Cardinality(S) * k
<1> DEFINE K == 1 .. k
<1>1. Cells(f, S) \subseteq S \X K
  BY DEF Cells
<1>2. IsFiniteSet(K) /\ Cardinality(K) = k
  BY FS_Interval
<1> HIDE DEF K
<1>3. IsFiniteSet(S \X K) /\ Cardinality(S \X K) = Cardinality(S) * k
  BY <1>2, FS_Product
<1>4. Cardinality(Cells(f, S)) <= Cardinality(S \X K)
  BY <1>1, <1>3, FS_Subset
<1>5. SumFunctionOnSet(f, S) = Cardinality(Cells(f, S))
  BY SumIsCells
<1>6. QED
  BY <1>3, <1>4, <1>5

(* Only the elements of T count.                                           *)
LEMMA SumWhere ==
  ASSUME NEW f, NEW S, IsFiniteSet(S), NEW T \in SUBSET S, \A y \in S : f[y] \in Nat,
         \A y \in S \ T : f[y] = 0
  PROVE  SumFunctionOnSet(f, S) = SumFunctionOnSet(f, T)
<1>1. IsFiniteSet(T) /\ IsFiniteSet(S \ T) /\ T \cup (S \ T) = S /\ T \cap (S \ T) = {}
  BY FS_Subset
<1>2. SumFunctionOnSet(f, T \cup (S \ T)) = SumFunctionOnSet(f, T) + SumFunctionOnSet(f, S \ T)
  BY <1>1, SumUnion
<1>3. SumFunctionOnSet(f, S \ T) = 0 /\ SumFunctionOnSet(f, T) \in Nat
  BY <1>1, SumZero, SumType
<1>4. SumFunctionOnSet(f, T \cup (S \ T)) = SumFunctionOnSet(f, S)
  BY <1>1
<1>5. QED
  BY <1>2, <1>3, <1>4

----------------------------------------------------------------------------
(* Without.  Keeps(s, x, n, g): g tells what is left of each prefix of the *)
(* first n elements.                                                       *)

Keeps(s, x, n, g) ==
  g = [i \in 0 .. n |-> IF i = 0 THEN <<>>
                        ELSE IF s[i] = x THEN g[i - 1] ELSE Append(g[i - 1], s[i])]

LEMMA KeepsExists ==
  ASSUME NEW S, NEW s \in Seq(S), NEW x
  PROVE  \E g : Keeps(s, x, Len(s), g)
<1> DEFINE Bad == {n \in 0 .. Len(s) : ~ \E g : Keeps(s, x, n, g)}
<1>0. Len(s) \in Nat
  OBVIOUS
<1>1. SUFFICES Bad = {}
  BY <1>0
<1>2. SUFFICES ASSUME Bad # {} PROVE FALSE
  OBVIOUS
<1>3. \E m \in Bad : \A n \in Bad : m <= n
  <2>1. Bad \in SUBSET Nat
    BY <1>0
  <2> HIDE DEF Bad
  <2>2. QED
    BY <1>2, <2>1, MinIsLeast
<1>4. PICK m \in Bad : \A n \in Bad : m <= n
  BY <1>3
<1>5. m # 0
  <2> DEFINE g == [i \in 0 .. 0 |-> <<>>]
  <2>1. Keeps(s, x, 0, g)
    BY DEF Keeps
  <2>2. QED
    BY <2>1
<1>6. m - 1 \in 0 .. Len(s) /\ m \in Nat /\ ~(m <= m - 1)
  BY <1>0, <1>5
<1>7. PICK g : Keeps(s, x, m - 1, g)
  BY <1>4, <1>6
<1>8. \A i \in 0 .. m - 1 :
         g[i] = IF i = 0 THEN <<>> ELSE IF s[i] = x THEN g[i - 1] ELSE Append(g[i - 1], s[i])
  BY <1>7 DEF Keeps
<1> DEFINE last == IF s[m] = x THEN g[m - 1] ELSE Append(g[m - 1], s[m])
           h == [i \in 0 .. m |-> IF i = m THEN last ELSE g[i]]
<1>9. h[m] = last /\ \A i \in 0 .. m - 1 : h[i] = g[i]
  BY <1>6
<1>10. \A i \in 0 .. m :
         h[i] = IF i = 0 THEN <<>> ELSE IF s[i] = x THEN h[i - 1] ELSE Append(h[i - 1], s[i])
  <2> HIDE DEF h
  <2>1. ASSUME NEW i \in 0 .. m, i # m
        PROVE  h[i] = IF i = 0 THEN <<>> ELSE IF s[i] = x THEN h[i - 1] ELSE Append(h[i - 1], s[i])
    <3>1. i \in 0 .. m - 1 /\ h[i] = g[i]
      BY <1>6, <1>9, <2>1
    <3>2. i # 0 => i - 1 \in 0 .. m - 1 /\ h[i - 1] = g[i - 1]
      BY <1>6, <1>9, <3>1
    <3>3. QED
      BY <1>8, <3>1, <3>2
  <2>2. h[m - 1] = g[m - 1]
    BY <1>5, <1>6, <1>9
  <2>3. QED
    BY <1>5, <1>9, <2>1, <2>2
<1>11. h = [i \in 0 .. m |-> h[i]]
  OBVIOUS
<1> HIDE DEF h
<1>12. Keeps(s, x, m, h)
  BY <1>10, <1>11 DEF Keeps
<1>13. QED
  BY <1>4, <1>12

LEMMA WithoutKeeps ==
  ASSUME NEW S, NEW s \in Seq(S), NEW x
  PROVE  \E g : /\ Without(s, x) = g[Len(s)] /\ g[0] = <<>>
                /\ \A i \in 1 .. Len(s) :
                     g[i] = IF s[i] = x THEN g[i - 1] ELSE Append(g[i - 1], s[i])
<1> DEFINE c == CHOOSE g : Keeps(s, x, Len(s), g)
<1>1. Without(s, x) = c[Len(s)]
  BY DEF Without, Keeps
<1>2. Keeps(s, x, Len(s), c)
  BY KeepsExists
<1> HIDE DEF c
<1>3. Len(s) \in Nat
  OBVIOUS
<1>4. \A i \in 0 .. Len(s) :
         c[i] = IF i = 0 THEN <<>> ELSE IF s[i] = x THEN c[i - 1] ELSE Append(c[i - 1], s[i])
  BY <1>2 DEF Keeps
<1>5. c[0] = <<>>
  BY <1>3, <1>4
<1>6. \A i \in 1 .. Len(s) : c[i] = IF s[i] = x THEN c[i - 1] ELSE Append(c[i - 1], s[i])
  BY <1>3, <1>4
<1>7. QED
  BY <1>1, <1>5, <1>6

(* r is what is left of the first n elements of s: it has them all but x,  *)
(* and in their order.                                                     *)
LeftOf(s, x, S, n, r) ==
  /\ r \in Seq(S) /\ Len(r) <= n
  /\ \A i \in 1 .. Len(r) : r[i] # x /\ \E p \in 1 .. n : s[p] = r[i]
  /\ \A j \in 1 .. Len(r) : \A i \in 1 .. j - 1 :
        \E q \in 1 .. n : s[q] = r[j] /\ \E p \in 1 .. q - 1 : s[p] = r[i]
  /\ \A p \in 1 .. n : s[p] # x => \E i \in 1 .. Len(r) : r[i] = s[p]

LEMMA LeftOfMore ==
  ASSUME NEW S, NEW s \in Seq(S), NEW x, NEW n \in 1 .. Len(s), NEW r,
         LeftOf(s, x, S, n - 1, r)
  PROVE  LeftOf(s, x, S, n, IF s[n] = x THEN r ELSE Append(r, s[n]))
<1>1. /\ Len(s) \in Nat /\ n \in Nat /\ s[n] \in S /\ n - 1 \in Nat
      /\ r \in Seq(S) /\ Len(r) \in Nat /\ Len(r) <= n - 1
      /\ \A i \in 1 .. Len(r) : r[i] # x /\ \E p \in 1 .. n - 1 : s[p] = r[i]
      /\ \A j \in 1 .. Len(r) : \A i \in 1 .. j - 1 :
            \E q \in 1 .. n - 1 : s[q] = r[j] /\ \E p \in 1 .. q - 1 : s[p] = r[i]
      /\ \A p \in 1 .. n - 1 : s[p] # x => \E i \in 1 .. Len(r) : r[i] = s[p]
  BY DEF LeftOf
<1>2. 1 .. n = (1 .. n - 1) \cup {n}
  BY <1>1
<1>3. CASE s[n] = x
  BY <1>1, <1>2, <1>3 DEF LeftOf
<1>4. CASE s[n] # x
  <2> DEFINE t == Append(r, s[n])
  <2>1. /\ t \in Seq(S) /\ Len(t) = Len(r) + 1 /\ t[Len(r) + 1] = s[n]
        /\ \A i \in 1 .. Len(r) : t[i] = r[i]
        /\ 1 .. Len(t) = (1 .. Len(r)) \cup {Len(r) + 1}
    BY <1>1
  <2> HIDE DEF t
  <2>2. ASSUME NEW i \in 1 .. Len(t)
        PROVE  t[i] # x /\ \E p \in 1 .. n : s[p] = t[i]
    <3>1. CASE i = Len(r) + 1
      BY <1>2, <1>4, <2>1, <3>1
    <3>2. CASE i \in 1 .. Len(r)
      <4>1. t[i] = r[i] /\ r[i] # x /\ \E p \in 1 .. n - 1 : s[p] = r[i]
        BY <1>1, <2>1, <3>2
      <4>2. QED
        BY <1>2, <4>1
    <3>3. QED
      BY <2>1, <3>1, <3>2
  <2>3. ASSUME NEW j \in 1 .. Len(t), NEW i \in 1 .. j - 1
        PROVE  \E q \in 1 .. n : s[q] = t[j] /\ \E p \in 1 .. q - 1 : s[p] = t[i]
    <3>1. i \in 1 .. Len(r)
      BY <1>1, <2>1
    <3>2. CASE j = Len(r) + 1
      <4>1. t[j] = s[n] /\ t[i] = r[i]
        BY <2>1, <3>1, <3>2
      <4>2. \E p \in 1 .. n - 1 : s[p] = r[i]
        BY <1>1, <3>1
      <4>3. QED
        BY <1>1, <1>2, <4>1, <4>2
    <3>3. CASE j # Len(r) + 1
      <4>1. j \in 1 .. Len(r) /\ t[j] = r[j] /\ t[i] = r[i]
        BY <1>1, <2>1, <3>1, <3>3
      <4>2. QED
        BY <1>1, <1>2, <4>1
    <3>4. QED
      BY <3>2, <3>3
  <2>4. \A p \in 1 .. n : s[p] # x => \E i \in 1 .. Len(t) : t[i] = s[p]
    BY <1>1, <1>2, <2>1
  <2>5. Len(t) <= n
    BY <1>1, <2>1
  <2>6. LeftOf(s, x, S, n, t)
    BY <2>1, <2>2, <2>3, <2>4, <2>5 DEF LeftOf
  <2>7. QED
    BY <1>4, <2>6 DEF t
<1>5. QED
  BY <1>3, <1>4

LEMMA WithoutIsLeft ==
  ASSUME NEW S, NEW s \in Seq(S), NEW x
  PROVE  LeftOf(s, x, S, Len(s), Without(s, x))
<1>1. PICK g : /\ Without(s, x) = g[Len(s)] /\ g[0] = <<>>
               /\ \A i \in 1 .. Len(s) : g[i] = IF s[i] = x THEN g[i - 1] ELSE Append(g[i - 1], s[i])
  BY WithoutKeeps
<1> DEFINE Bad == {n \in 0 .. Len(s) : ~LeftOf(s, x, S, n, g[n])}
<1>2. Len(s) \in Nat
  OBVIOUS
<1>3. SUFFICES ASSUME Bad # {} PROVE FALSE
  BY <1>1, <1>2
<1>4. \E m \in Bad : \A n \in Bad : m <= n
  <2>1. Bad \in SUBSET Nat
    BY <1>2
  <2> HIDE DEF Bad
  <2>2. QED
    BY <1>3, <2>1, MinIsLeast
<1>5. PICK m \in Bad : \A n \in Bad : m <= n
  BY <1>4
<1>6. LeftOf(s, x, S, 0, <<>>)
  BY DEF LeftOf
<1>7. m # 0
  BY <1>1, <1>5, <1>6
<1>8. m \in 1 .. Len(s) /\ m - 1 \in 0 .. Len(s) /\ ~(m <= m - 1)
  BY <1>2, <1>5, <1>7
<1>9. LeftOf(s, x, S, m - 1, g[m - 1])
  BY <1>5, <1>8
<1>10. LeftOf(s, x, S, m, g[m])
  BY <1>1, <1>8, <1>9, LeftOfMore
<1>11. QED
  BY <1>5, <1>10

(* What dropping x from s leaves: all other elements, in their order and   *)
(* as often as they were.                                                  *)
LEMMA WithoutProperties ==
  ASSUME NEW S, NEW s \in Seq(S), NEW x
  PROVE  LET r == Without(s, x)
         IN  /\ r \in Seq(S) /\ Len(r) \in Nat /\ Len(r) <= Len(s)
             /\ Range(r) = Range(s) \ {x}
             /\ \A j \in 1 .. Len(r) : \A i \in 1 .. j - 1 :
                   \E q \in 1 .. Len(s) : s[q] = r[j] /\ \E p \in 1 .. q - 1 : s[p] = r[i]
             /\ IsInjective(s) => IsInjective(r)
<1> DEFINE r == Without(s, x)
<1>1. LeftOf(s, x, S, Len(s), r)
  BY WithoutIsLeft
<1> HIDE DEF r
<1>2. r \in Seq(S) /\ Len(r) \in Nat /\ Len(r) <= Len(s) /\ Len(s) \in Nat
      /\ DOMAIN r = 1 .. Len(r) /\ DOMAIN s = 1 .. Len(s)
  BY <1>1 DEF LeftOf
<1>3. Range(r) = Range(s) \ {x}
  <2>1. ASSUME NEW e \in Range(r) PROVE e \in Range(s) \ {x}
    <3>1. PICK i \in 1 .. Len(r) : e = r[i]
      BY <1>2 DEF Range
    <3>2. r[i] # x /\ \E p \in 1 .. Len(s) : s[p] = r[i]
      BY <1>1 DEF LeftOf
    <3>3. QED
      BY <1>2, <3>1, <3>2 DEF Range
  <2>2. ASSUME NEW e \in Range(s) \ {x} PROVE e \in Range(r)
    <3>1. PICK p \in 1 .. Len(s) : e = s[p] /\ s[p] # x
      BY <1>2 DEF Range
    <3>2. \E i \in 1 .. Len(r) : r[i] = s[p]
      BY <1>1, <3>1 DEF LeftOf
    <3>3. QED
      BY <1>2, <3>1, <3>2 DEF Range
  <2>3. QED
    BY <2>1, <2>2
<1>4. \A j \in 1 .. Len(r) : \A i \in 1 .. j - 1 :
         \E q \in 1 .. Len(s) : s[q] = r[j] /\ \E p \in 1 .. q - 1 : s[p] = r[i]
  BY <1>1 DEF LeftOf
<1>5. ASSUME IsInjective(s), NEW i \in 1 .. Len(r), NEW j \in 1 .. Len(r), i < j
      PROVE  r[i] # r[j]
  <2>1. i \in 1 .. j - 1
    BY <1>2, <1>5
  <2>2. PICK q \in 1 .. Len(s) : s[q] = r[j] /\ \E p \in 1 .. q - 1 : s[p] = r[i]
    BY <1>4, <2>1
  <2>3. PICK p \in 1 .. q - 1 : s[p] = r[i]
    BY <2>2
  <2>4. p \in 1 .. Len(s) /\ p # q
    BY <1>2
  <2>5. QED
    BY <1>2, <1>5, <2>2, <2>3, <2>4 DEF IsInjective
<1>6. IsInjective(s) => IsInjective(r)
  <2>1. \A i, j \in 1 .. Len(r) : i = j \/ i < j \/ j < i
    BY <1>2
  <2>2. QED
    BY <1>2, <1>5, <2>1 DEF IsInjective
<1>7. QED
  BY <1>2, <1>3, <1>4, <1>6 DEF r

(* A list that is not x up to k, and x from there on.                      *)
LEMMA WithoutTail ==
  ASSUME NEW S, NEW s \in Seq(S), NEW x, NEW k \in 0 .. Len(s),
         \A i \in 1 .. Len(s) : s[i] = x <=> i > k
  PROVE  Without(s, x) \in Seq(S) /\ Len(Without(s, x)) = k /\ \A i \in 1 .. k : Without(s, x)[i] = s[i]
<1>1. PICK g : /\ Without(s, x) = g[Len(s)] /\ g[0] = <<>>
               /\ \A i \in 1 .. Len(s) : g[i] = IF s[i] = x THEN g[i - 1] ELSE Append(g[i - 1], s[i])
  BY WithoutKeeps
<1> DEFINE Upto(n) == IF n <= k THEN n ELSE k
           Good(n) == g[n] \in Seq(S) /\ Len(g[n]) = Upto(n) /\ \A i \in 1 .. Upto(n) : g[n][i] = s[i]
           Bad == {n \in 0 .. Len(s) : ~Good(n)}
<1>2. Len(s) \in Nat /\ k \in Nat /\ \A i \in 1 .. Len(s) : s[i] \in S
  OBVIOUS
<1>3. SUFFICES ASSUME Bad # {} PROVE FALSE
  <2>1. Len(s) \in 0 .. Len(s) /\ Upto(Len(s)) = k
    BY <1>2
  <2>2. QED
    BY <1>1, <2>1
<1>4. \E m \in Bad : \A n \in Bad : m <= n
  <2>1. Bad \in SUBSET Nat
    BY <1>2
  <2> HIDE DEF Bad
  <2>2. QED
    BY <1>3, <2>1, MinIsLeast
<1>5. PICK m \in Bad : \A n \in Bad : m <= n
  BY <1>4
<1>6. m # 0
  <2>1. Upto(0) = 0 /\ g[0] \in Seq(S) /\ Len(g[0]) = 0
    BY <1>1, <1>2
  <2>2. Good(0)
    BY <2>1
  <2>3. QED
    BY <1>5, <2>2
<1>7. m \in 1 .. Len(s) /\ m - 1 \in 0 .. Len(s) /\ ~(m <= m - 1) /\ m \in Nat
  BY <1>2, <1>5, <1>6
<1>8. Good(m - 1)
  BY <1>5, <1>7
<1>9. Good(m)
  <2>1. CASE m > k
    BY <1>1, <1>2, <1>7, <1>8, <2>1
  <2>2. CASE m <= k
    <3>1. g[m] = Append(g[m - 1], s[m])
      <4>1. ~(m > k)
        BY <1>2, <1>7, <2>2
      <4>2. s[m] # x
        BY <1>7, <4>1
      <4>3. QED
        BY <1>1, <1>7, <4>2
    <3>2. Upto(m - 1) = m - 1
      BY <1>2, <1>7, <2>2
    <3>3. Len(g[m - 1]) = m - 1 /\ g[m - 1] \in Seq(S) /\ \A i \in 1 .. m - 1 : g[m - 1][i] = s[i]
      BY <1>8, <3>2
    <3>4. g[m] \in Seq(S) /\ Len(g[m]) = m /\ g[m][m] = s[m] /\ \A i \in 1 .. m - 1 : g[m][i] = s[i]
      <4>1. \A r \in Seq(S), e \in S :
               /\ Append(r, e) \in Seq(S) /\ Len(Append(r, e)) = Len(r) + 1
               /\ Append(r, e)[Len(r) + 1] = e /\ \A i \in 1 .. Len(r) : Append(r, e)[i] = r[i]
        OBVIOUS
      <4>2. s[m] \in S /\ (m - 1) + 1 = m
        BY <1>2, <1>7
      <4>3. QED
        BY <3>1, <3>3, <4>1, <4>2
    <3>5. QED
      BY <1>2, <1>7, <2>2, <3>4
  <2>3. QED
    BY <1>2, <1>7, <2>1, <2>2
<1>10. QED
  BY <1>5, <1>9

----------------------------------------------------------------------------
(* Lists and their elements.                                               *)

LEMMA RangeIsFinite ==
  ASSUME NEW S, NEW s \in Seq(S)
  PROVE  IsFiniteSet(Range(s))
<1>1. s \in [1 .. Len(s) -> S] /\ Len(s) \in Nat
  OBVIOUS
<1>2. IsFiniteSet(1 .. Len(s))
  BY <1>1, FS_Interval
<1>3. s \in Surjection(1 .. Len(s), Range(s))
  BY <1>1 DEF Surjection, Range
<1>4. QED
  BY <1>2, <1>3, FS_Surjection

LEMMA TailProperties ==
  ASSUME NEW S, NEW s \in Seq(S), s # <<>>
  PROVE  /\ Tail(s) \in Seq(S) /\ Len(Tail(s)) = Len(s) - 1 /\ Head(s) \in S /\ Head(s) = s[1]
         /\ \A i \in 1 .. Len(Tail(s)) : Tail(s)[i] = s[i + 1]
         /\ Range(Tail(s)) \subseteq Range(s)
         /\ IsInjective(s) => IsInjective(Tail(s)) /\ Range(Tail(s)) = Range(s) \ {Head(s)}
<1>1. /\ Tail(s) \in Seq(S) /\ Len(Tail(s)) = Len(s) - 1 /\ Head(s) = s[1] /\ Len(s) \in Nat /\ Len(s) >= 1
      /\ \A i \in 1 .. Len(s) - 1 : Tail(s)[i] = s[i + 1]
      /\ DOMAIN s = 1 .. Len(s) /\ DOMAIN Tail(s) = 1 .. Len(s) - 1 /\ Head(s) \in S
  OBVIOUS
<1>2. Range(Tail(s)) \subseteq Range(s)
  BY <1>1 DEF Range
<1>3. ASSUME IsInjective(s)
      PROVE  IsInjective(Tail(s)) /\ Range(Tail(s)) = Range(s) \ {Head(s)}
  <2>1. IsInjective(Tail(s))
    BY <1>1, <1>3 DEF IsInjective
  <2>2. ASSUME NEW i \in 1 .. Len(s) - 1 PROVE Tail(s)[i] # Head(s)
    BY <1>1, <1>3 DEF IsInjective
  <2>3. ASSUME NEW i \in 1 .. Len(s), s[i] # Head(s)
        PROVE  i - 1 \in 1 .. Len(s) - 1 /\ Tail(s)[i - 1] = s[i]
    <3>1. i # 1
      BY <1>1, <2>3
    <3>2. i - 1 \in 1 .. Len(s) - 1 /\ (i - 1) + 1 = i
      BY <1>1, <3>1
    <3>3. QED
      BY <1>1, <3>2
  <2>4. ASSUME NEW e \in Range(s) \ {Head(s)} PROVE e \in Range(Tail(s))
    <3>1. PICK i \in 1 .. Len(s) : s[i] = e
      BY <1>1 DEF Range
    <3>2. i - 1 \in 1 .. Len(s) - 1 /\ Tail(s)[i - 1] = e
      BY <2>3, <3>1
    <3>3. QED
      BY <1>1, <3>2 DEF Range
  <2>5. Head(s) \notin Range(Tail(s))
    BY <1>1, <2>2 DEF Range
  <2>6. QED
    BY <1>2, <2>1, <2>4, <2>5
<1>4. QED
  BY <1>1, <1>2, <1>3

LEMMA AppendedTo ==
  ASSUME NEW S, NEW s \in Seq(S), NEW e \in S
  PROVE  LET r == Append(s, e)
         IN  /\ r \in Seq(S) /\ Len(r) = Len(s) + 1 /\ r[Len(s) + 1] = e
             /\ \A i \in 1 .. Len(s) : r[i] = s[i]
             /\ Range(r) = Range(s) \cup {e}
             /\ IsInjective(s) /\ e \notin Range(s) => IsInjective(r)
<1> DEFINE r == Append(s, e)
<1>1. /\ r \in Seq(S) /\ Len(r) = Len(s) + 1 /\ r[Len(s) + 1] = e /\ Len(s) \in Nat
      /\ \A i \in 1 .. Len(s) : r[i] = s[i]
      /\ DOMAIN s = 1 .. Len(s) /\ DOMAIN r = 1 .. Len(s) + 1
  OBVIOUS
<1> HIDE DEF r
<1>2. \A i \in 1 .. Len(s) + 1 : i = Len(s) + 1 \/ i \in 1 .. Len(s)
  BY <1>1
<1>3. Len(s) + 1 \in 1 .. Len(s) + 1 /\ 1 .. Len(s) \subseteq 1 .. Len(s) + 1
  BY <1>1
<1>4. Range(r) = Range(s) \cup {e}
  BY <1>1, <1>2, <1>3 DEF Range
<1>5. IsInjective(s) /\ e \notin Range(s) => IsInjective(r)
  <2>1. e \notin Range(s) => \A i \in 1 .. Len(s) : s[i] # e
    BY <1>1 DEF Range
  <2>2. QED
    BY <1>1, <1>2, <2>1 DEF IsInjective
<1>6. QED
  BY <1>1, <1>4, <1>5 DEF r

LEMMA RemovedAt ==
  ASSUME NEW S, NEW s \in Seq(S), NEW i \in 1 .. Len(s)
  PROVE  LET r == RemoveAt(s, i)
         IN  /\ r \in Seq(S) /\ Len(r) = Len(s) - 1
             /\ \A j \in 1 .. Len(r) : r[j] = IF j < i THEN s[j] ELSE s[j + 1]
             /\ IsInjective(s) => IsInjective(r) /\ Range(r) = Range(s) \ {s[i]}
<1> DEFINE r == RemoveAt(s, i)
           u == SubSeq(s, 1, i - 1)
           v == SubSeq(s, i + 1, Len(s))
<1>1. Len(s) \in Nat /\ i \in Int /\ 1 <= i /\ i <= Len(s) /\ DOMAIN s = 1 .. Len(s)
  OBVIOUS
<1>2. /\ u \in Seq(S) /\ Len(u) = i - 1 /\ \A j \in 1 .. i - 1 : u[j] = s[j]
  BY <1>1
<1>3. v \in Seq(S) /\ Len(v) = Len(s) - i /\ \A j \in 1 .. Len(s) - i : v[j] = s[i + j]
  <2>1. v \in Seq(S) /\ Len(v) = IF i + 1 <= Len(s) THEN Len(s) - (i + 1) + 1 ELSE 0
    BY <1>1
  <2>2. \A j \in 1 .. Len(s) - (i + 1) + 1 : v[j] = s[(i + 1) + j - 1]
    BY <1>1
  <2>3. \A j \in 1 .. Len(s) - i : (i + 1) + j - 1 = i + j /\ j \in 1 .. Len(s) - (i + 1) + 1
    BY <1>1
  <2> HIDE DEF v
  <2>4. Len(v) = Len(s) - i
    <3>1. CASE i + 1 <= Len(s)
      BY <1>1, <2>1, <3>1
    <3>2. CASE ~(i + 1 <= Len(s))
      <4>1. Len(s) - i = 0
        BY <3>2
      <4>2. Len(v) = 0
        BY <2>1, <3>2
      <4>3. QED
        BY <4>1, <4>2
    <3>3. QED
      BY <3>1, <3>2
  <2>5. QED
    BY <2>1, <2>2, <2>3, <2>4
<1> HIDE DEF u, v
<1>4. r = u \o v
  BY DEF RemoveAt, u, v
<1>5. r \in Seq(S) /\ Len(r) = Len(s) - 1 /\ DOMAIN r = 1 .. Len(s) - 1
  <2> HIDE DEF r
  <2>1. r \in Seq(S) /\ Len(r) = Len(u) + Len(v)
    <3>1. \A a, b \in Seq(S) : a \o b \in Seq(S) /\ Len(a \o b) = Len(a) + Len(b)
      OBVIOUS
    <3>2. u \o v \in Seq(S) /\ Len(u \o v) = Len(u) + Len(v)
      BY <1>2, <1>3, <3>1
    <3>3. QED
      BY <1>4, <3>2
  <2>2. Len(r) = Len(s) - 1
    BY <1>1, <1>2, <1>3, <2>1
  <2>3. QED
    BY <2>1, <2>2
<1>6. ASSUME NEW j \in 1 .. Len(s) - 1
      PROVE  r[j] = IF j < i THEN s[j] ELSE s[j + 1]
  <2>1. r[j] = IF j <= i - 1 THEN u[j] ELSE v[j - (i - 1)]
    BY <1>1, <1>2, <1>3, <1>4
  <2>2. CASE j < i
    BY <1>1, <1>2, <2>1, <2>2
  <2>3. CASE ~(j < i)
    <3>1. j - (i - 1) \in 1 .. Len(s) - i /\ i + (j - (i - 1)) = j + 1 /\ ~(j <= i - 1)
      BY <1>1, <2>3
    <3>2. QED
      BY <1>3, <2>1, <2>3, <3>1
  <2>4. QED
    BY <2>2, <2>3
<1> HIDE DEF r
<1>7. ASSUME IsInjective(s)
      PROVE  IsInjective(r) /\ Range(r) = Range(s) \ {s[i]}
  <2> DEFINE p(j) == IF j < i THEN j ELSE j + 1
  <2>1. \A j \in 1 .. Len(s) - 1 : p(j) \in 1 .. Len(s) /\ p(j) # i /\ r[j] = s[p(j)]
    BY <1>1, <1>6
  <2>2. \A j, k \in 1 .. Len(s) - 1 : p(j) = p(k) => j = k
    BY <1>1
  <2>3. \A k \in 1 .. Len(s) : k # i => \E j \in 1 .. Len(s) - 1 : p(j) = k
    <3>1. ASSUME NEW k \in 1 .. Len(s), k < i PROVE k \in 1 .. Len(s) - 1 /\ p(k) = k
      BY <1>1, <3>1
    <3>2. ASSUME NEW k \in 1 .. Len(s), k > i PROVE k - 1 \in 1 .. Len(s) - 1 /\ p(k - 1) = k
      BY <1>1, <3>2
    <3> HIDE DEF p
    <3>3. \A k \in 1 .. Len(s) : k # i => k < i \/ k > i
      BY <1>1
    <3>4. QED
      BY <3>1, <3>2, <3>3
  <2> HIDE DEF p
  <2>4. IsInjective(r)
    BY <1>1, <1>5, <1>7, <2>1, <2>2 DEF IsInjective
  <2>5. ASSUME NEW j \in 1 .. Len(s) - 1 PROVE s[p(j)] \in Range(s) \ {s[i]}
    BY <1>1, <1>7, <2>1 DEF IsInjective, Range
  <2>6. Range(r) = {r[j] : j \in 1 .. Len(s) - 1}
    BY <1>5 DEF Range
  <2>7. ASSUME NEW k \in 1 .. Len(s), s[k] # s[i] PROVE \E j \in 1 .. Len(s) - 1 : r[j] = s[k]
    BY <2>1, <2>3, <2>7
  <2>8. Range(s) = {s[k] : k \in 1 .. Len(s)}
    BY <1>1 DEF Range
  <2>9. Range(r) \subseteq Range(s) \ {s[i]}
    BY <2>1, <2>5, <2>6
  <2>10. Range(s) \ {s[i]} \subseteq Range(r)
    BY <2>6, <2>7, <2>8
  <2>11. QED
    BY <2>4, <2>9, <2>10
<1>8. QED
  BY <1>5, <1>6, <1>7 DEF r

LEMMA InsertedAt ==
  ASSUME NEW S, NEW s \in Seq(S), NEW i \in 1 .. Len(s) + 1, NEW e \in S
  PROVE  LET r == InsertAt(s, i, e)
         IN  /\ r \in Seq(S) /\ Len(r) = Len(s) + 1
             /\ \A j \in 1 .. Len(s) + 1 :
                   r[j] = IF j < i THEN s[j] ELSE IF j = i THEN e ELSE s[j - 1]
             /\ Range(r) = Range(s) \cup {e}
             /\ IsInjective(s) /\ e \notin Range(s) => IsInjective(r)
<1> DEFINE r == InsertAt(s, i, e)
           u == SubSeq(s, 1, i - 1)
           v == SubSeq(s, i, Len(s))
<1>1. Len(s) \in Nat /\ i \in Int /\ 1 <= i /\ i <= Len(s) + 1 /\ DOMAIN s = 1 .. Len(s)
  OBVIOUS
<1>2. /\ u \in Seq(S) /\ Len(u) = i - 1 /\ \A j \in 1 .. i - 1 : u[j] = s[j]
  BY <1>1
<1>3. v \in Seq(S) /\ Len(v) = Len(s) - i + 1 /\ \A j \in 1 .. Len(s) - i + 1 : v[j] = s[i + j - 1]
  BY <1>1
<1> HIDE DEF u, v
<1>4. r = (u \o <<e>>) \o v
  BY DEF InsertAt, u, v
<1> DEFINE w == u \o <<e>>
<1>5. w \in Seq(S) /\ Len(w) = i /\ w[i] = e /\ \A j \in 1 .. i - 1 : w[j] = s[j]
  <2>1. <<e>> \in Seq(S) /\ Len(<<e>>) = 1 /\ <<e>>[1] = e
    OBVIOUS
  <2>2. w \in Seq(S) /\ Len(w) = i
    BY <1>1, <1>2, <2>1
  <2>3. \A j \in 1 .. i : w[j] = IF j <= i - 1 THEN u[j] ELSE <<e>>[j - (i - 1)]
    BY <1>1, <1>2, <2>1
  <2>4. i \in 1 .. i /\ ~(i <= i - 1) /\ i - (i - 1) = 1
    BY <1>1
  <2>5. w[i] = e
    BY <2>1, <2>3, <2>4
  <2> HIDE DEF w
  <2>6. \A j \in 1 .. i - 1 : j \in 1 .. i /\ j <= i - 1
    BY <1>1
  <2>7. QED
    BY <1>2, <2>2, <2>3, <2>5, <2>6
<1>6. r = w \o v
  BY <1>4
<1> HIDE DEF w, r
<1>7. r \in Seq(S) /\ Len(r) = Len(s) + 1 /\ DOMAIN r = 1 .. Len(s) + 1
  <2>1. r \in Seq(S) /\ Len(r) = Len(w) + Len(v)
    <3>1. \A a, b \in Seq(S) : a \o b \in Seq(S) /\ Len(a \o b) = Len(a) + Len(b)
      OBVIOUS
    <3>2. w \o v \in Seq(S) /\ Len(w \o v) = Len(w) + Len(v)
      BY <1>3, <1>5, <3>1
    <3>3. QED
      BY <1>6, <3>2
  <2>2. Len(r) = Len(s) + 1
    BY <1>1, <1>3, <1>5, <2>1
  <2>3. QED
    BY <2>1, <2>2
<1>8. ASSUME NEW j \in 1 .. Len(s) + 1
      PROVE  r[j] = IF j < i THEN s[j] ELSE IF j = i THEN e ELSE s[j - 1]
  <2>1. r[j] = IF j <= i THEN w[j] ELSE v[j - i]
    BY <1>1, <1>3, <1>5, <1>6
  <2>2. CASE j < i
    BY <1>1, <1>5, <2>1, <2>2
  <2>3. CASE j = i
    BY <1>1, <1>5, <2>1, <2>3
  <2>4. CASE j > i
    <3>1. j - i \in 1 .. Len(s) - i + 1 /\ i + (j - i) - 1 = j - 1 /\ ~(j <= i)
      BY <1>1, <2>4
    <3>2. QED
      BY <1>1, <1>3, <2>1, <2>4, <3>1
  <2>5. QED
    BY <1>1, <2>2, <2>3, <2>4
<1> DEFINE p(j) == IF j < i THEN j ELSE j - 1
<1>9. /\ \A j \in 1 .. Len(s) + 1 : j # i => p(j) \in 1 .. Len(s) /\ r[j] = s[p(j)]
      /\ \A j, k \in 1 .. Len(s) + 1 : j # i /\ k # i /\ p(j) = p(k) => j = k
      /\ r[i] = e /\ i \in 1 .. Len(s) + 1
  BY <1>1, <1>8
<1>10. \A k \in 1 .. Len(s) : \E j \in 1 .. Len(s) + 1 : j # i /\ p(j) = k
  <2>1. ASSUME NEW k \in 1 .. Len(s), k < i PROVE k \in 1 .. Len(s) + 1 /\ p(k) = k /\ k # i
    BY <1>1, <2>1
  <2>2. ASSUME NEW k \in 1 .. Len(s), ~(k < i)
        PROVE  k + 1 \in 1 .. Len(s) + 1 /\ p(k + 1) = k /\ k + 1 # i
    BY <1>1, <2>2
  <2> HIDE DEF p
  <2>3. QED
    BY <2>1, <2>2
<1> HIDE DEF p
<1>11. Range(r) = Range(s) \cup {e}
  <2>1. ASSUME NEW j \in 1 .. Len(s) + 1 PROVE r[j] \in Range(s) \cup {e}
    BY <1>1, <1>9 DEF Range
  <2>2. ASSUME NEW k \in 1 .. Len(s) PROVE \E j \in 1 .. Len(s) + 1 : r[j] = s[k]
    BY <1>9, <1>10
  <2>3. /\ Range(r) = {r[j] : j \in 1 .. Len(s) + 1}
        /\ Range(s) = {s[k] : k \in 1 .. Len(s)}
    BY <1>1, <1>7 DEF Range
  <2>4. Range(s) \cup {e} \subseteq Range(r)
    BY <1>9, <2>2, <2>3
  <2>5. QED
    BY <2>1, <2>3, <2>4
<1>12. IsInjective(s) /\ e \notin Range(s) => IsInjective(r)
  <2>1. SUFFICES ASSUME IsInjective(s), e \notin Range(s),
                        NEW j \in 1 .. Len(s) + 1, NEW k \in 1 .. Len(s) + 1, r[j] = r[k]
                 PROVE  j = k
    BY <1>7 DEF IsInjective
  <2>2. \A n \in 1 .. Len(s) + 1 : n # i => r[n] # e
    BY <1>1, <1>9, <2>1 DEF Range
  <2>3. CASE j = i
    BY <1>9, <2>1, <2>2, <2>3
  <2>4. CASE k = i
    BY <1>9, <2>1, <2>2, <2>4
  <2>5. CASE j # i /\ k # i
    <3>1. p(j) = p(k)
      BY <1>1, <1>9, <2>1, <2>5 DEF IsInjective
    <3>2. QED
      BY <1>9, <2>5, <3>1
  <2>6. QED
    BY <2>3, <2>4, <2>5
<1>13. QED
  BY <1>7, <1>8, <1>11, <1>12 DEF r
=============================================================================
