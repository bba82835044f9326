-------------------------------- MODULE Sums --------------------------------
(***************************************************************************)
(* Sums over finite sets: what SumFunctionOnSet of the community module    *)
(* Functions computes, for every finite set.  The models add up amounts    *)
(* with it; the proofs cite the lemmas below, and those about division     *)
(* that rounding, shares and calendar days need.                           *)
(*                                                                         *)
(* The provers cannot instantiate an induction theorem that takes a        *)
(* predicate, so induction is stated here over a set of naturals or of     *)
(* subsets, which is an ordinary value.                                    *)
(***************************************************************************)
EXTENDS Integers, FiniteSets, Functions, FiniteSetTheorems, WellFoundedInduction, NaturalsInduction, TLAPS

-----------------------------------------------------------------------------
(* Induction over a set *)

\* Every set of naturals has a least element.
LEMMA LeastNatural ==
  ASSUME NEW T \in SUBSET Nat, T # {}
  PROVE  \E n \in T : \A m \in T : n <= m
<1>1. PICK x \in T : \A y \in T : ~(<<y, x>> \in OpToRel(<, Nat))
  BY NatLessThanWellFounded, WFMin
<1>2. OpToRel(<, Nat) = {ss \in Nat \X Nat : ss[1] < ss[2]}
  BY DEF OpToRel
<1>3. \A y \in T : ~(<<y, x>> \in {ss \in Nat \X Nat : ss[1] < ss[2]})
  BY <1>1, <1>2, Zenon
<1>4. \A y \in T : ~(y < x)
  BY <1>3
<1> QED
  BY <1>4

\* A set of naturals with 0 and every successor has them all.
LEMMA NaturalsAll ==
  ASSUME NEW G, 0 \in G, \A n \in Nat : n \in G => n + 1 \in G
  PROVE  Nat \subseteq G
<1> SUFFICES ASSUME Nat \ G # {} PROVE FALSE
  OBVIOUS
<1>1. PICK n \in Nat \ G : \A m \in Nat \ G : n <= m
  BY LeastNatural
<1>2. n # 0 /\ n - 1 \in Nat /\ ~(n <= n - 1)
  OBVIOUS
<1>3. n - 1 \in G
  BY <1>1, <1>2
<1> QED
  BY <1>2, <1>3

\* A set of subsets of a finite set that has the empty one, and with each one
\* also that one and any further element, has them all.
LEMMA SubsetsAll ==
  ASSUME NEW U, IsFiniteSet(U), NEW G,
         {} \in G, \A s \in SUBSET U, x \in U : s \in G /\ x \notin s => s \cup {x} \in G
  PROVE  SUBSET U \subseteq G
<1> DEFINE N == {n \in Nat : \A s \in SUBSET U : Cardinality(s) = n => s \in G}
<1>1. \A s \in SUBSET U : IsFiniteSet(s) /\ Cardinality(s) \in Nat
  BY FS_Subset, FS_CardinalityType
<1>2. 0 \in N
  BY <1>1, FS_EmptySet
<1>3. ASSUME NEW n \in Nat, n \in N PROVE n + 1 \in N
  <2> SUFFICES ASSUME NEW s \in SUBSET U, Cardinality(s) = n + 1 PROVE s \in G
    OBVIOUS
  <2>1. PICK x \in s : TRUE
    BY FS_EmptySet
  <2>2. s \ {x} \in SUBSET U /\ Cardinality(s \ {x}) = n
    <3>1. Cardinality(s \ {x}) = Cardinality(s) - 1
      BY <1>1, <2>1, FS_RemoveElement
    <3> QED
      BY <3>1
  <2>3. s \ {x} \in G
    BY <1>3, <2>2
  <2>4. s = (s \ {x}) \cup {x}
    OBVIOUS
  <2> QED
    BY <2>2, <2>3, <2>4
<1> HIDE DEF N
<1>4. Nat \subseteq N
  BY <1>2, <1>3, NaturalsAll
<1> QED
  BY <1>1, <1>4 DEF N

-----------------------------------------------------------------------------
(* The recursion of SumFunctionOnSet *)

First(s) == CHOOSE x \in s : TRUE

\* g adds up f over every subset of S, in the order First takes.
Adds(f, S, g) ==
  g = [s \in SUBSET S |-> IF s = {} THEN 0 ELSE f[First(s)] + g[s \ {First(s)}]]

\* The sum is what the chosen function gives for the whole set.
LEMMA SumIsChosen ==
  ASSUME NEW f, NEW S
  PROVE  SumFunctionOnSet(f, S) = (CHOOSE g : Adds(f, S, g))[S]
BY DEF SumFunctionOnSet, FoldFunctionOnSet, MapThenFoldSet, Adds, First

\* What the equation says of one subset.
LEMMA AddsAt ==
  ASSUME NEW f, NEW S, NEW g, Adds(f, S, g)
  PROVE  /\ g[{}] = 0
         /\ \A s \in SUBSET S : s # {} => First(s) \in s /\ g[s] = f[First(s)] + g[s \ {First(s)}]
<1>1. \A s : s # {} => First(s) \in s
  BY DEF First
<1>2. \A s \in SUBSET S : g[s] = IF s = {} THEN 0 ELSE f[First(s)] + g[s \ {First(s)}]
  BY DEF Adds
<1> QED
  BY <1>1, <1>2

\* There is such a function for a finite set: it is built up by size.
LEMMA AddsExists ==
  ASSUME NEW f, NEW S, IsFiniteSet(S)
  PROVE  \E g : Adds(f, S, g)
<1> DEFINE Small(n) == {s \in SUBSET S : Cardinality(s) <= n}
           Upto(n, g) == g = [s \in Small(n) |-> IF s = {} THEN 0 ELSE f[First(s)] + g[s \ {First(s)}]]
           N == {n \in Nat : \E g : Upto(n, g)}
<1>1. \A s \in SUBSET S : IsFiniteSet(s) /\ Cardinality(s) \in Nat /\ Cardinality(s) <= Cardinality(S)
                          /\ (Cardinality(s) = 0 <=> s = {})
  BY FS_Subset, FS_CardinalityType, FS_EmptySet
<1>2. \A s \in SUBSET S : s # {} => First(s) \in s /\ s \ {First(s)} \in SUBSET S
                                    /\ Cardinality(s \ {First(s)}) = Cardinality(s) - 1
  BY <1>1, FS_RemoveElement DEF First
<1>3. 0 \in N
  <2> DEFINE h == [s \in Small(0) |-> 0]
  <2>1. \A s \in Small(0) : s = {}
    BY <1>1
  <2>2. h = [s \in Small(0) |-> IF s = {} THEN 0 ELSE f[First(s)] + h[s \ {First(s)}]]
    BY <2>1
  <2> QED
    BY <2>2
<1>4. ASSUME NEW n \in Nat, n \in N PROVE n + 1 \in N
  <2>1. PICK g : Upto(n, g)
    BY <1>4
  <2> DEFINE h == [s \in Small(n + 1) |-> IF s = {} THEN 0 ELSE f[First(s)] + g[s \ {First(s)}]]
  <2>2. \A s \in Small(n + 1) : s # {} => s \ {First(s)} \in Small(n)
    BY <1>1, <1>2
  <2>3. \A s \in Small(n) : s \in Small(n + 1)
    BY <1>1
  <2>4. \A s \in Small(n) : h[s] = g[s]
    BY <2>1, <2>3
  <2>5. \A s \in Small(n + 1) : s # {} => h[s \ {First(s)}] = g[s \ {First(s)}]
    BY <2>2, <2>4
  <2>6. h = [s \in Small(n + 1) |-> IF s = {} THEN 0 ELSE f[First(s)] + h[s \ {First(s)}]]
    BY <2>5
  <2>7. Upto(n + 1, h)
    BY <2>6
  <2> HIDE DEF h, Upto
  <2> QED
    BY <2>7
<1> HIDE DEF N
<1>5. Cardinality(S) \in N
  BY <1>1, <1>3, <1>4, NaturalsAll
<1>6. Small(Cardinality(S)) = SUBSET S
  BY <1>1
<1>7. PICK g : Upto(Cardinality(S), g)
  BY <1>5 DEF N
<1> QED
  BY <1>6, <1>7 DEF Adds

\* Functions that agree on the elements have the same sum over them.
LEMMA AddsAgree ==
  ASSUME NEW f, NEW S, NEW g, Adds(f, S, g), NEW e, NEW T, NEW h, Adds(e, T, h),
         NEW U \in (SUBSET S) \cap (SUBSET T), IsFiniteSet(U), \A x \in U : f[x] = e[x]
  PROVE  g[U] = h[U]
<1> DEFINE N == {n \in Nat : \A s \in SUBSET U : Cardinality(s) = n => g[s] = h[s]}
<1>1. \A s \in SUBSET U : IsFiniteSet(s) /\ Cardinality(s) \in Nat /\ (Cardinality(s) = 0 <=> s = {})
  BY FS_Subset, FS_CardinalityType, FS_EmptySet
<1>2. \A s \in SUBSET U, x \in U : x \in s => Cardinality(s \ {x}) = Cardinality(s) - 1
  BY <1>1, FS_RemoveElement
<1>3. 0 \in N
  BY <1>1, AddsAt
<1>4. ASSUME NEW n \in Nat, n \in N PROVE n + 1 \in N
  <2> SUFFICES ASSUME NEW s \in SUBSET U, Cardinality(s) = n + 1 PROVE g[s] = h[s]
    OBVIOUS
  <2>1. s # {} /\ s \in SUBSET S /\ s \in SUBSET T
    BY <1>1
  <2>2. /\ First(s) \in s
        /\ g[s] = f[First(s)] + g[s \ {First(s)}]
        /\ h[s] = e[First(s)] + h[s \ {First(s)}]
    BY SMTT(40), <2>1, AddsAt
  <2>3. Cardinality(s \ {First(s)}) = Cardinality(s) - 1
    BY <1>2, <2>2
  <2>4. Cardinality(s \ {First(s)}) = n
    BY <2>3
  <2>5. g[s \ {First(s)}] = h[s \ {First(s)}]
    BY <1>4, <2>4
  <2>6. f[First(s)] = e[First(s)]
    BY <2>2
  <2> QED
    BY <2>2, <2>5, <2>6
<1> HIDE DEF N
<1>5. Cardinality(U) \in N
  BY <1>1, <1>3, <1>4, NaturalsAll
<1> QED
  BY <1>5 DEF N

-----------------------------------------------------------------------------
(* What a sum is *)

\* Functions that agree on a finite set have one sum over it.
LEMMA SumSame ==
  ASSUME NEW S, IsFiniteSet(S), NEW f, NEW e, \A x \in S : f[x] = e[x]
  PROVE  SumFunctionOnSet(f, S) = SumFunctionOnSet(e, S)
<1> DEFINE g == CHOOSE k : Adds(f, S, k)
           h == CHOOSE k : Adds(e, S, k)
<1>1. Adds(f, S, g) /\ Adds(e, S, h)
  BY AddsExists
<1> HIDE DEF g, h
<1>2. g[S] = h[S]
  BY <1>1, AddsAgree
<1> QED
  BY <1>2, SumIsChosen DEF g, h

\* Nothing adds up to nothing.
LEMMA SumEmpty ==
  ASSUME NEW f
  PROVE  SumFunctionOnSet(f, {}) = 0
<1> DEFINE g == CHOOSE k : Adds(f, {}, k)
<1>1. Adds(f, {}, g)
  BY AddsExists, FS_EmptySet
<1> HIDE DEF g
<1>2. g[{}] = 0
  BY <1>1, AddsAt
<1> QED
  BY <1>2, SumIsChosen DEF g

\* A sum is its first element's amount and the sum of the rest.
LEMMA SumFirst ==
  ASSUME NEW S, IsFiniteSet(S), S # {}, NEW f
  PROVE  First(S) \in S /\ SumFunctionOnSet(f, S) = f[First(S)] + SumFunctionOnSet(f, S \ {First(S)})
<1> DEFINE R == S \ {First(S)}
           g == CHOOSE k : Adds(f, S, k)
           h == CHOOSE k : Adds(f, R, k)
<1>1. IsFiniteSet(R) /\ R \in SUBSET S
  BY FS_Subset
<1>2. Adds(f, S, g) /\ Adds(f, R, h)
  BY <1>1, AddsExists
<1> HIDE DEF g, h
<1>3. First(S) \in S /\ g[S] = f[First(S)] + g[R]
  BY <1>2, AddsAt
<1>4. R \in (SUBSET S) \cap (SUBSET R)
  BY <1>1
<1> HIDE DEF R
<1>5. g[R] = h[R]
  BY <1>1, <1>2, <1>4, AddsAgree
<1> QED
  BY <1>3, <1>5, SumIsChosen DEF g, h, R

\* A sum of integers is an integer.
LEMMA SumIntegers ==
  ASSUME NEW U, IsFiniteSet(U), NEW f, \A x \in U : f[x] \in Int
  PROVE  \A s \in SUBSET U : SumFunctionOnSet(f, s) \in Int
<1> DEFINE Sf(s) == SumFunctionOnSet(f, s)
           N == {n \in Nat : \A s \in SUBSET U : Cardinality(s) = n => Sf(s) \in Int}
<1>1. \A s \in SUBSET U : IsFiniteSet(s) /\ Cardinality(s) \in Nat /\ (Cardinality(s) = 0 <=> s = {})
  BY FS_Subset, FS_CardinalityType, FS_EmptySet
<1>2. \A s \in SUBSET U, x \in U : x \in s => Cardinality(s \ {x}) = Cardinality(s) - 1
  BY <1>1, FS_RemoveElement
<1>3. \A s \in SUBSET U : s # {} => First(s) \in s /\ Sf(s) = f[First(s)] + Sf(s \ {First(s)})
  BY <1>1, SumFirst
<1>4. Sf({}) = 0
  BY SumEmpty
<1> HIDE DEF Sf
<1>5. 0 \in N
  BY <1>1, <1>4
<1>6. ASSUME NEW n \in Nat, n \in N PROVE n + 1 \in N
  <2> SUFFICES ASSUME NEW s \in SUBSET U, Cardinality(s) = n + 1 PROVE Sf(s) \in Int
    OBVIOUS
  <2>1. First(s) \in s /\ Sf(s) = f[First(s)] + Sf(s \ {First(s)})
    BY <1>1, <1>3
  <2>2. Cardinality(s \ {First(s)}) = n
    BY <1>2, <2>1
  <2>3. Sf(s \ {First(s)}) \in Int
    BY <1>6, <2>2
  <2> QED
    BY <2>1, <2>3
<1> HIDE DEF N
<1>7. Nat \subseteq N
  BY <1>5, <1>6, NaturalsAll
<1> QED
  BY <1>1, <1>7 DEF N, Sf

\* A sum of integers is an integer, and is any element's amount and the sum of
\* the rest: the order does not matter.
LEMMA SumTakes ==
  ASSUME NEW U, IsFiniteSet(U), NEW f, \A x \in U : f[x] \in Int
  PROVE  \A s \in SUBSET U :
           /\ SumFunctionOnSet(f, s) \in Int
           /\ \A x \in s : SumFunctionOnSet(f, s) = f[x] + SumFunctionOnSet(f, s \ {x})
<1> DEFINE Sf(s) == SumFunctionOnSet(f, s)
           Good(s) == \A x \in s : Sf(s) = f[x] + Sf(s \ {x})
           N == {n \in Nat : \A s \in SUBSET U : Cardinality(s) = n => Good(s)}
<1>1. \A s \in SUBSET U : IsFiniteSet(s) /\ Cardinality(s) \in Nat /\ (Cardinality(s) = 0 <=> s = {})
  BY FS_Subset, FS_CardinalityType, FS_EmptySet
<1>2. \A s \in SUBSET U, x \in U : x \in s => Cardinality(s \ {x}) = Cardinality(s) - 1
  BY <1>1, FS_RemoveElement
<1>3. \A s \in SUBSET U : s # {} => First(s) \in s /\ Sf(s) = f[First(s)] + Sf(s \ {First(s)})
  BY <1>1, SumFirst
<1>4. \A s \in SUBSET U : Sf(s) \in Int
  BY SumIntegers
<1> HIDE DEF Sf
<1>5. 0 \in N
  BY <1>1
<1>6. ASSUME NEW n \in Nat, n \in N PROVE n + 1 \in N
  <2> SUFFICES ASSUME NEW s \in SUBSET U, Cardinality(s) = n + 1 PROVE Good(s)
    OBVIOUS
  <2> DEFINE c == First(s)
  <2>1. c \in s /\ Sf(s) = f[c] + Sf(s \ {c})
    BY <1>1, <1>3
  <2> HIDE DEF c
  <2>2. \A x \in s : s \ {x} \in SUBSET U /\ Cardinality(s \ {x}) = n
    BY <1>2
  <2>3. \A x \in s : Good(s \ {x})
    BY <1>6, <2>2
  <2>4. f[c] \in Int
    BY <2>1
  <2>5. ASSUME NEW x \in s, x # c PROVE Sf(s) = f[x] + Sf(s \ {x})
    <3>1. Sf(s \ {c}) = f[x] + Sf((s \ {c}) \ {x})
      BY <2>1, <2>3, <2>5
    <3>2. Sf(s \ {x}) = f[c] + Sf((s \ {x}) \ {c})
      BY <2>1, <2>3, <2>5
    <3>3. (s \ {c}) \ {x} = (s \ {x}) \ {c}
      OBVIOUS
    <3>4. Sf((s \ {c}) \ {x}) \in Int /\ f[x] \in Int
      BY <1>4
    <3>5. PICK r \in Int : r = Sf((s \ {c}) \ {x})
      BY <3>4
    <3>6. Sf(s) = f[c] + (f[x] + r) /\ Sf(s \ {x}) = f[c] + r
      BY <2>1, <3>1, <3>2, <3>3, <3>5
    <3> QED
      BY <2>4, <3>4, <3>6
  <2> QED
    BY <2>1, <2>4, <2>5
<1> HIDE DEF N
<1>7. Nat \subseteq N
  BY <1>5, <1>6, NaturalsAll
<1> QED
  BY <1>1, <1>4, <1>7 DEF N, Sf

\* One more element adds its amount.
LEMMA SumAdd ==
  ASSUME NEW S, IsFiniteSet(S), NEW x, x \notin S, NEW f, \A y \in S \cup {x} : f[y] \in Int
  PROVE  /\ SumFunctionOnSet(f, S) \in Int
         /\ SumFunctionOnSet(f, S \cup {x}) = f[x] + SumFunctionOnSet(f, S)
<1> DEFINE U == S \cup {x}
<1>1. IsFiniteSet(U) /\ S \in SUBSET U /\ U \in SUBSET U /\ x \in U /\ U \ {x} = S
  BY FS_AddElement
<1> HIDE DEF U
<1>2. \A s \in SUBSET U :
        /\ SumFunctionOnSet(f, s) \in Int
        /\ \A y \in s : SumFunctionOnSet(f, s) = f[y] + SumFunctionOnSet(f, s \ {y})
  BY <1>1, SumTakes DEF U
<1> QED
  BY <1>1, <1>2 DEF U

\* A sum of naturals is a natural.
LEMMA SumNaturals ==
  ASSUME NEW U, IsFiniteSet(U), NEW f, \A x \in U : f[x] \in Nat
  PROVE  \A s \in SUBSET U : SumFunctionOnSet(f, s) \in Nat
<1> DEFINE Sf(s) == SumFunctionOnSet(f, s)
           G == {s \in SUBSET U : Sf(s) \in Nat}
<1>1. Sf({}) = 0
  BY SumEmpty
<1>2. ASSUME NEW s \in SUBSET U, NEW x \in U, s \in G, x \notin s PROVE s \cup {x} \in G
  <2>1. \A y \in U : f[y] \in Int
    OBVIOUS
  <2>2. s \cup {x} \in SUBSET U /\ x \in s \cup {x} /\ (s \cup {x}) \ {x} = s
    BY <1>2
  <2>3. Sf(s \cup {x}) = f[x] + Sf((s \cup {x}) \ {x})
    BY <2>1, <2>2, SumTakes
  <2>4. Sf(s) \in Nat
    BY <1>2
  <2> QED
    BY <2>2, <2>3, <2>4
<1>3. {} \in G
  BY <1>1
<1> HIDE DEF G, Sf
<1>4. SUBSET U \subseteq G
  BY <1>2, <1>3, SubsetsAll
<1> QED
  BY <1>4 DEF G, Sf

\* Two sets apart from each other add up to both sums.
LEMMA SumUnion ==
  ASSUME NEW U, IsFiniteSet(U), NEW f, \A y \in U : f[y] \in Int
  PROVE  \A P, M \in SUBSET U : P \cap M = {} =>
           SumFunctionOnSet(f, P \cup M) = SumFunctionOnSet(f, P) + SumFunctionOnSet(f, M)
<1> DEFINE Sf(s) == SumFunctionOnSet(f, s)
           G == {s \in SUBSET U : \A P \in SUBSET U : P \cap s = {} => Sf(P \cup s) = Sf(P) + Sf(s)}
<1>0. \A s \in SUBSET U :
        /\ SumFunctionOnSet(f, s) \in Int
        /\ \A x \in s : SumFunctionOnSet(f, s) = f[x] + SumFunctionOnSet(f, s \ {x})
  BY SumTakes
<1>1. \A s \in SUBSET U : Sf(s) \in Int
  BY <1>0
<1>2. \A s \in SUBSET U : \A x \in s : Sf(s) = f[x] + Sf(s \ {x})
  BY <1>0
<1>3. Sf({}) = 0
  BY SumEmpty
<1> HIDE DEF Sf
<1>4. {} \in G
  <2>1. ASSUME NEW P \in SUBSET U PROVE Sf(P \cup {}) = Sf(P) + Sf({})
    <3>1. P \cup {} = P /\ Sf(P) \in Int
      BY <1>1
    <3> QED
      BY <1>3, <3>1
  <2> QED
    BY <2>1
<1>5. ASSUME NEW s \in SUBSET U, NEW x \in U, s \in G, x \notin s PROVE s \cup {x} \in G
  <2>1. ASSUME NEW P \in SUBSET U, P \cap (s \cup {x}) = {} PROVE Sf(P \cup (s \cup {x})) = Sf(P) + Sf(s \cup {x})
    <3>1. (P \cup (s \cup {x})) \ {x} = P \cup s /\ (s \cup {x}) \ {x} = s /\ P \cap s = {}
      BY <1>5, <2>1
    <3>2. Sf(P \cup (s \cup {x})) = f[x] + Sf((P \cup (s \cup {x})) \ {x})
      BY <1>2
    <3>3. Sf(s \cup {x}) = f[x] + Sf((s \cup {x}) \ {x})
      BY <1>2
    <3>4. PICK d \in Int, e \in Int, c \in Int : d = Sf(P) /\ e = Sf(s) /\ c = f[x]
      BY <1>1
    <3>5. Sf(P \cup s) = d + e
      BY <1>5, <3>1, <3>4
    <3>6. Sf(P \cup (s \cup {x})) = c + (d + e) /\ Sf(s \cup {x}) = c + e
      BY <3>1, <3>2, <3>3, <3>4, <3>5
    <3>7. c + (d + e) = d + (c + e)
      OBVIOUS
    <3> QED
      BY <3>4, <3>6, <3>7
  <2> QED
    BY <2>1
<1> HIDE DEF G
<1>6. SUBSET U \subseteq G
  BY <1>4, <1>5, SubsetsAll
<1> QED
  BY <1>6 DEF G, Sf

\* One division rounded down is short by less than the divisor.
LEMMA RoundedDown ==
  ASSUME NEW a \in Int, NEW W \in Nat \ {0}
  PROVE  a \div W \in Int /\ 0 <= a - W * (a \div W) /\ a - W * (a \div W) <= W - 1
OBVIOUS

\* A multiple divides exactly.
LEMMA DivisionExact ==
  ASSUME NEW n \in Int, NEW W \in Nat \ {0}
  PROVE  (n * W) \div W = n
<1>1. PICK q \in Int : q = (n * W) \div W
  BY RoundedDown
<1>2. PICK m \in Int : m = n * W /\ m = W * n
  OBVIOUS
<1>3. 0 <= m - W * q /\ m - W * q <= W - 1
  BY <1>1, <1>2, RoundedDown
<1>4. ~ q + 1 <= n
  <2> SUFFICES ASSUME q + 1 <= n PROVE FALSE
    OBVIOUS
  <2>1. W * (q + 1) <= W * n
    OBVIOUS
  <2>2. W * (q + 1) = W * q + W
    OBVIOUS
  <2> QED
    BY <1>2, <1>3, <2>1, <2>2
<1>5. ~ n + 1 <= q
  <2> SUFFICES ASSUME n + 1 <= q PROVE FALSE
    OBVIOUS
  <2>1. W * (n + 1) <= W * q
    OBVIOUS
  <2>2. W * (n + 1) = W * n + W
    OBVIOUS
  <2> QED
    BY <1>2, <1>3, <2>1, <2>2
<1> QED
  BY <1>1, <1>4, <1>5

\* Days of length d are counted in order.
LEMMA DaysInOrder ==
  ASSUME NEW d \in Nat \ {0}, NEW m \in Nat, NEW n \in Nat, m <= n
  PROVE  m \div d <= n \div d /\ m \div d \in Nat /\ n \div d \in Nat
OBVIOUS

\* Two moments of one day are less than a day apart.
LEMMA SameDayNear ==
  ASSUME NEW d \in Nat \ {0}, NEW m \in Nat, NEW n \in Nat, m \div d = n \div d
  PROVE  n < m + d
<1>1. m % d = m - d * (m \div d)
  OBVIOUS
<1>2. n % d = n - d * (n \div d)
  OBVIOUS
<1>3. m % d \in Nat /\ n % d \in Nat /\ n % d < d
  OBVIOUS
<1>4. PICK q \in Nat : q = d * (m \div d) /\ q = d * (n \div d)
  <2>1. m \div d \in Nat
    OBVIOUS
  <2>2. d * (m \div d) \in Nat
    BY <2>1
  <2> QED
    BY <2>2
<1> QED
  BY <1>1, <1>2, <1>3, <1>4

\* Several rounded down are short by less than that for each.
LEMMA ShortOfProportion ==
  ASSUME NEW U, IsFiniteSet(U), NEW w \in [U -> Nat], NEW due \in Int, NEW W \in Nat \ {0},
         NEW floor \in [U -> Int], \A g \in U : floor[g] = (due * w[g]) \div W
  PROVE  LET short == due * SumFunctionOnSet(w, U) - W * SumFunctionOnSet(floor, U)
         IN  0 <= short /\ short <= Cardinality(U) * (W - 1)
<1> DEFINE Sw(s) == SumFunctionOnSet(w, s)
           Sf(s) == SumFunctionOnSet(floor, s)
           Short(s) == due * Sw(s) - W * Sf(s)
           G == {s \in SUBSET U : 0 <= Short(s) /\ Short(s) <= Cardinality(s) * (W - 1)}
<1>1. \A s \in SUBSET U : Sw(s) \in Int /\ Sf(s) \in Int
  BY SumIntegers
<1>2. Sw({}) = 0 /\ Sf({}) = 0
  BY SumEmpty
<1>3. {} \in G
  <2>1. Short({}) = 0
    BY <1>2
  <2>2. Cardinality({}) * (W - 1) = 0
    BY FS_EmptySet
  <2> QED
    BY <2>1, <2>2
<1>4. ASSUME NEW s \in SUBSET U, NEW x \in U, s \in G, x \notin s PROVE s \cup {x} \in G
  <2>1. s \cup {x} \in SUBSET U /\ x \in s \cup {x} /\ (s \cup {x}) \ {x} = s
    BY <1>4
  <2>2. Sw(s \cup {x}) = w[x] + Sw(s) /\ Sf(s \cup {x}) = floor[x] + Sf(s)
    <3>1. \A y \in U : w[y] \in Int /\ floor[y] \in Int
      OBVIOUS
    <3>2. Sw(s \cup {x}) = w[x] + Sw((s \cup {x}) \ {x})
      BY <2>1, <3>1, SumTakes
    <3>3. Sf(s \cup {x}) = floor[x] + Sf((s \cup {x}) \ {x})
      BY <2>1, <3>1, SumTakes
    <3> QED
      BY <2>1, <3>2, <3>3
  <2>3. PICK a \in Int, b \in Int, c \in Int, d \in Int : a = w[x] /\ b = floor[x] /\ c = Sw(s) /\ d = Sf(s)
    BY <1>1
  <2>4. 0 <= due * a - W * b /\ due * a - W * b <= W - 1
    <3>1. due * a \in Int
      OBVIOUS
    <3>2. b = (due * a) \div W
      BY <2>3
    <3> QED
      BY <3>1, <3>2, RoundedDown
  <2>5. Short(s \cup {x}) = (due * a - W * b) + (due * c - W * d)
    <3>1. due * (a + c) = due * a + due * c /\ W * (b + d) = W * b + W * d
      OBVIOUS
    <3>2. Short(s \cup {x}) = due * (a + c) - W * (b + d)
      BY <2>2, <2>3
    <3>3. due * a \in Int /\ due * c \in Int /\ W * b \in Int /\ W * d \in Int
      OBVIOUS
    <3> QED
      BY <3>1, <3>2, <3>3
  <2>6. PICK n \in Nat : n = Cardinality(s)
    BY FS_Subset, FS_CardinalityType
  <2>7. Cardinality(s \cup {x}) = n + 1
    BY <1>4, <2>6, FS_Subset, FS_AddElement
  <2>8. 0 <= due * c - W * d /\ due * c - W * d <= n * (W - 1)
    BY <1>4, <2>3, <2>6
  <2>9. (n + 1) * (W - 1) = n * (W - 1) + (W - 1)
    OBVIOUS
  <2>10. PICK p \in Int, q \in Int, m \in Int : p = due * a - W * b /\ q = due * c - W * d /\ m = n * (W - 1)
    OBVIOUS
  <2>11. Short(s \cup {x}) = p + q /\ 0 <= p + q /\ p + q <= m + (W - 1)
    BY <2>4, <2>5, <2>8, <2>10
  <2>12. Cardinality(s \cup {x}) * (W - 1) = m + (W - 1)
    BY <2>7, <2>9, <2>10
  <2> QED
    BY <2>1, <2>11, <2>12
<1> HIDE DEF G
<1>5. SUBSET U \subseteq G
  BY <1>3, <1>4, SubsetsAll
<1>6. U \in G
  BY <1>5
<1> QED
  BY <1>6 DEF G

\* Two sums over one set add up element by element.
LEMMA SumPlus ==
  ASSUME NEW U, IsFiniteSet(U), NEW f, NEW g, NEW h,
         \A x \in U : f[x] \in Int /\ g[x] \in Int /\ h[x] = f[x] + g[x]
  PROVE  SumFunctionOnSet(h, U) = SumFunctionOnSet(f, U) + SumFunctionOnSet(g, U)
<1> DEFINE Sf(s) == SumFunctionOnSet(f, s)
           Sg(s) == SumFunctionOnSet(g, s)
           Sh(s) == SumFunctionOnSet(h, s)
           G == {s \in SUBSET U : Sh(s) = Sf(s) + Sg(s)}
<1>1. \A x \in U : h[x] \in Int
  OBVIOUS
<1>2. \A s \in SUBSET U : /\ Sf(s) \in Int /\ Sg(s) \in Int
                          /\ \A x \in s : /\ Sf(s) = f[x] + Sf(s \ {x}) /\ Sg(s) = g[x] + Sg(s \ {x})
                                          /\ Sh(s) = h[x] + Sh(s \ {x})
  BY <1>1, SumTakes
<1>3. Sf({}) = 0 /\ Sg({}) = 0 /\ Sh({}) = 0
  BY SumEmpty
<1> HIDE DEF Sf, Sg, Sh
<1>4. {} \in G
  BY <1>3
<1>5. ASSUME NEW s \in SUBSET U, NEW x \in U, s \in G, x \notin s PROVE s \cup {x} \in G
  <2>1. s \cup {x} \in SUBSET U /\ x \in s \cup {x} /\ (s \cup {x}) \ {x} = s
    BY <1>5
  <2>2. Sf(s \cup {x}) = f[x] + Sf(s) /\ Sg(s \cup {x}) = g[x] + Sg(s) /\ Sh(s \cup {x}) = h[x] + Sh(s)
    BY <1>2, <2>1
  <2>3. Sf(s) \in Int /\ Sg(s) \in Int /\ f[x] \in Int /\ g[x] \in Int /\ h[x] = f[x] + g[x] /\ Sh(s) = Sf(s) + Sg(s)
    BY <1>2, <1>5
  <2> QED
    BY <2>1, <2>2, <2>3
<1> HIDE DEF G
<1>6. U \in G
  BY <1>4, <1>5, SubsetsAll
<1> QED
  BY <1>6 DEF G, Sf, Sg, Sh

\* SumAdd inside a larger set: the step of an induction.
LEMMA SumInsert ==
  ASSUME NEW U, IsFiniteSet(U), NEW f, \A x \in U : f[x] \in Int, NEW s \in SUBSET U, NEW x \in U, x \notin s
  PROVE  /\ SumFunctionOnSet(f, s) \in Int
         /\ SumFunctionOnSet(f, s \cup {x}) = f[x] + SumFunctionOnSet(f, s)
<1>1. IsFiniteSet(s) /\ \A y \in s \cup {x} : f[y] \in Int
  BY FS_Subset
<1> QED
  BY <1>1, SumAdd

\* h is c times f on U.
Scales(c, f, h, U) == \A x \in U : h[x] = c * f[x]

\* A factor is taken out of a sum.
LEMMA SumScale ==
  ASSUME NEW U, IsFiniteSet(U), NEW c \in Int, NEW f, NEW h, \A x \in U : f[x] \in Int, Scales(c, f, h, U)
  PROVE  SumFunctionOnSet(h, U) = c * SumFunctionOnSet(f, U)
<1> DEFINE G == {s \in SUBSET U : SumFunctionOnSet(h, s) = c * SumFunctionOnSet(f, s)}
<1>1. \A x \in U : h[x] \in Int
  BY DEF Scales
<1>2. {} \in G
  BY SumEmpty
<1>3. ASSUME NEW s \in SUBSET U, NEW x \in U, s \in G, x \notin s PROVE s \cup {x} \in G
  <2>1. SumFunctionOnSet(f, s) \in Int /\ SumFunctionOnSet(f, s \cup {x}) = f[x] + SumFunctionOnSet(f, s)
    BY <1>3, SumInsert
  <2>2. SumFunctionOnSet(h, s \cup {x}) = h[x] + SumFunctionOnSet(h, s)
    BY <1>1, <1>3, SumInsert
  <2>3. PICK a \in Int, b \in Int : a = f[x] /\ b = SumFunctionOnSet(f, s)
    BY <2>1
  <2>4. h[x] = c * a /\ SumFunctionOnSet(h, s) = c * b
    BY <1>3, <2>3 DEF Scales
  <2>5. c * (a + b) = c * a + c * b
    OBVIOUS
  <2>6. SumFunctionOnSet(h, s \cup {x}) = c * SumFunctionOnSet(f, s \cup {x})
    BY <2>1, <2>2, <2>3, <2>4, <2>5
  <2> QED
    BY <2>6
<1> HIDE DEF G
<1>4. U \in G
  BY <1>2, <1>3, SubsetsAll
<1> QED
  BY <1>4 DEF G

\* A sum grows with its terms.
LEMMA SumLeq ==
  ASSUME NEW U, IsFiniteSet(U), NEW f, NEW g, \A x \in U : f[x] \in Int /\ g[x] \in Int /\ f[x] <= g[x]
  PROVE  SumFunctionOnSet(f, U) <= SumFunctionOnSet(g, U)
<1> DEFINE d == [x \in U |-> g[x] - f[x]]
<1>1. \A x \in U : f[x] \in Int /\ d[x] \in Nat /\ d[x] \in Int /\ g[x] = f[x] + d[x]
  OBVIOUS
<1> HIDE DEF d
<1>2. U \in SUBSET U
  OBVIOUS
<1>3. SumFunctionOnSet(f, U) \in Int
  BY <1>2, SumIntegers
<1>4. SumFunctionOnSet(d, U) \in Nat
  BY <1>1, <1>2, SumNaturals
<1>5. SumFunctionOnSet(g, U) = SumFunctionOnSet(f, U) + SumFunctionOnSet(d, U)
  BY <1>1, SumPlus
<1> QED
  BY <1>3, <1>4, <1>5

\* Terms that are zero may be left out.
LEMMA SumWithin ==
  ASSUME NEW U, IsFiniteSet(U), NEW A \in SUBSET U, NEW f, \A x \in U : f[x] \in Int, \A x \in U \ A : f[x] = 0
  PROVE  SumFunctionOnSet(f, U) = SumFunctionOnSet(f, A)
<1> DEFINE Sf(s) == SumFunctionOnSet(f, s)
           Z == [x \in U |-> 0]
<1>1. U \ A \in SUBSET U /\ A \cup (U \ A) = U /\ A \cap (U \ A) = {} /\ IsFiniteSet(U \ A)
  BY FS_Subset
<1>2. Sf(A \cup (U \ A)) = Sf(A) + Sf(U \ A)
  BY <1>1, SumUnion
<1>3. (\A x \in U \ A : f[x] \in Int) /\ Scales(0, f, f, U \ A)
  BY DEF Scales
<1>4. Sf(A) \in Int /\ Sf(U \ A) \in Int
  BY <1>1, SumIntegers
<1>5. Sf(U \ A) = 0 * Sf(U \ A)
  BY <1>1, <1>3, SumScale
<1> HIDE DEF Sf
<1>6. Sf(U \ A) = 0
  BY <1>4, <1>5
<1>7. Sf(U) = Sf(A) + Sf(U \ A)
  BY <1>1, <1>2
<1>8. Sf(U) = Sf(A)
  BY <1>4, <1>6, <1>7
<1> QED
  BY <1>8 DEF Sf

\* A sum with one term that is not zero is that term.
LEMMA SumOne ==
  ASSUME NEW U, IsFiniteSet(U), NEW x \in U, NEW f, f[x] \in Int, \A y \in U \ {x} : f[y] = 0
  PROVE  SumFunctionOnSet(f, U) = f[x]
<1>1. {x} \in SUBSET U /\ \A y \in U : f[y] \in Int
  OBVIOUS
<1>2. SumFunctionOnSet(f, U) = SumFunctionOnSet(f, {x})
  BY <1>1, SumWithin
<1>3. IsFiniteSet({}) /\ x \notin {} /\ {} \cup {x} = {x} /\ \A y \in {} \cup {x} : f[y] \in Int
  BY FS_EmptySet
<1>4. SumFunctionOnSet(f, {} \cup {x}) = f[x] + SumFunctionOnSet(f, {})
  BY <1>3, SumAdd
<1> QED
  BY <1>2, <1>3, <1>4, SumEmpty

\* A sum may be taken group by group.
LEMMA SumByGroup ==
  ASSUME NEW U, IsFiniteSet(U), NEW L, IsFiniteSet(L), NEW of, NEW f,
         \A x \in U : f[x] \in Int /\ of[x] \in L
  PROVE  SumFunctionOnSet(f, U) =
           SumFunctionOnSet([l \in L |-> SumFunctionOnSet([x \in U |-> IF of[x] = l THEN f[x] ELSE 0], U)], L)
<1> DEFINE In(l) == [x \in U |-> IF of[x] = l THEN f[x] ELSE 0]
           Part(s) == [l \in L |-> SumFunctionOnSet(In(l), s)]
           G == {s \in SUBSET U : SumFunctionOnSet(f, s) = SumFunctionOnSet(Part(s), L)}
<1>1. \A l \in L : \A x \in U : In(l)[x] \in Int
  OBVIOUS
<1>2. \A l \in L : \A s \in SUBSET U : /\ SumFunctionOnSet(In(l), s) \in Int
                                      /\ \A x \in s : SumFunctionOnSet(In(l), s) = In(l)[x] + SumFunctionOnSet(In(l), s \ {x})
  <2> TAKE l \in L
  <2> HIDE DEF In
  <2> QED
    BY <1>1, SumTakes
<1>3. {} \in G
  <2>1. \A l \in L : Part({})[l] = 0 /\ Part({})[l] \in Int
    BY SumEmpty
  <2>2. {} \in SUBSET L /\ \A l \in L : Part({})[l] \in Int
    BY <2>1
  <2>3. SumFunctionOnSet(Part({}), L) = SumFunctionOnSet(Part({}), {})
    <3> HIDE DEF Part
    <3> QED
      BY <2>1, <2>2, SumWithin
  <2> QED
    BY <2>3, SumEmpty
<1>4. ASSUME NEW s \in SUBSET U, NEW x \in U, s \in G, x \notin s PROVE s \cup {x} \in G
  <2> DEFINE T == s \cup {x}
             D == [l \in L |-> IF of[x] = l THEN f[x] ELSE 0]
  <2>1. T \in SUBSET U /\ x \in T /\ T \ {x} = s
    BY <1>4
  <2>2. SumFunctionOnSet(f, T) = f[x] + SumFunctionOnSet(f, s) /\ SumFunctionOnSet(f, s) \in Int
    BY <2>1, SumTakes
  <2>3. \A l \in L : Part(T)[l] = Part(s)[l] + D[l] /\ Part(s)[l] \in Int /\ D[l] \in Int
    <3> TAKE l \in L
    <3>1. SumFunctionOnSet(In(l), T) = In(l)[x] + SumFunctionOnSet(In(l), T \ {x})
      BY <1>2, <2>1
    <3>2. In(l)[x] = D[l] /\ D[l] \in Int
      OBVIOUS
    <3>3. SumFunctionOnSet(In(l), s) \in Int
      BY <1>2
    <3>4. Part(T)[l] = SumFunctionOnSet(In(l), T) /\ Part(s)[l] = SumFunctionOnSet(In(l), s)
      OBVIOUS
    <3>5. PICK a \in Int, b \in Int : a = D[l] /\ b = SumFunctionOnSet(In(l), s)
      BY <3>2, <3>3
    <3> HIDE DEF In, D, Part, T
    <3>6. Part(T)[l] = a + b
      BY <2>1, <3>1, <3>2, <3>4, <3>5
    <3>7. Part(s)[l] = b /\ a + b = b + a
      BY <3>4, <3>5
    <3> QED
      BY <3>5, <3>6, <3>7
  <2>4. of[x] \in L /\ D[of[x]] = f[x] /\ D[of[x]] \in Int /\ \A l \in L \ {of[x]} : D[l] = 0
    OBVIOUS
  <2> HIDE DEF D, Part
  <2>5. SumFunctionOnSet(Part(T), L) = SumFunctionOnSet(Part(s), L) + SumFunctionOnSet(D, L)
    BY <2>3, SumPlus
  <2>6. SumFunctionOnSet(D, L) = f[x]
    BY <2>4, SumOne
  <2>7. SumFunctionOnSet(Part(s), L) = SumFunctionOnSet(f, s)
    BY <1>4
  <2>8. SumFunctionOnSet(f, T) = SumFunctionOnSet(Part(T), L)
    BY <2>2, <2>5, <2>6, <2>7
  <2> QED
    BY <2>1, <2>8
<1> HIDE DEF G
<1>5. U \in G
  BY <1>3, <1>4, SubsetsAll
<1> QED
  BY <1>5 DEF G

\* The next index adds its term.
LEMMA SumNext ==
  ASSUME NEW n \in Nat, NEW f, NEW e, \A i \in 1..n : f[i] \in Int /\ e[i] = f[i], e[n + 1] \in Int
  PROVE  /\ SumFunctionOnSet(f, 1..n) \in Int
         /\ SumFunctionOnSet(e, 1..(n + 1)) = SumFunctionOnSet(f, 1..n) + e[n + 1]
<1>1. n + 1 \notin 1..n /\ (1..n) \cup {n + 1} = 1..(n + 1) /\ 1..n \in SUBSET (1..n)
  OBVIOUS
<1>2. IsFiniteSet(1..n)
  BY FS_Interval
<1>3. \A y \in (1..n) \cup {n + 1} : e[y] \in Int
  OBVIOUS
<1>4. SumFunctionOnSet(e, (1..n) \cup {n + 1}) = e[n + 1] + SumFunctionOnSet(e, 1..n)
  BY <1>1, <1>2, <1>3, SumAdd
<1>5. SumFunctionOnSet(e, 1..n) = SumFunctionOnSet(f, 1..n)
  BY <1>2, SumSame
<1>6. SumFunctionOnSet(f, 1..n) \in Int
  BY <1>1, <1>2, SumIntegers
<1>7. PICK a \in Int, b \in Int : a = SumFunctionOnSet(f, 1..n) /\ b = e[n + 1]
  BY <1>6
<1>8. SumFunctionOnSet(e, 1..(n + 1)) = b + a
  BY <1>1, <1>4, <1>5, <1>7
<1>9. b + a = a + b
  OBVIOUS
<1> QED
  BY <1>7, <1>8, <1>9

\* The image of a finite set is finite.
LEMMA ImageFinite ==
  ASSUME NEW U, IsFiniteSet(U), NEW h
  PROVE  IsFiniteSet({h[x] : x \in U})
<1> DEFINE Img(s) == {h[x] : x \in s}
           G == {s \in SUBSET U : IsFiniteSet(Img(s))}
<1>1. {} \in G
  <2>1. Img({}) = {}
    OBVIOUS
  <2> QED
    BY <2>1, FS_EmptySet
<1>2. ASSUME NEW s \in SUBSET U, NEW x \in U, s \in G, x \notin s PROVE s \cup {x} \in G
  <2>1. Img(s \cup {x}) = Img(s) \cup {h[x]}
    OBVIOUS
  <2> HIDE DEF Img
  <2>2. IsFiniteSet(Img(s) \cup {h[x]})
    BY <1>2, FS_AddElement
  <2>3. IsFiniteSet(Img(s \cup {x}))
    BY Zenon, <2>1, <2>2
  <2> QED
    BY <2>3
<1> HIDE DEF G
<1>3. U \in G
  BY <1>1, <1>2, SubsetsAll
<1> QED
  BY <1>3 DEF G

\* A sum over another index set: h names each element of U once.
LEMMA SumRename ==
  ASSUME NEW U, IsFiniteSet(U), NEW h, \A x, y \in U : h[x] = h[y] => x = y,
         NEW f, \A x \in U : f[h[x]] \in Int, NEW g, \A x \in U : g[x] = f[h[x]]
  PROVE  SumFunctionOnSet(f, {h[x] : x \in U}) = SumFunctionOnSet(g, U)
<1> DEFINE Img(s) == {h[x] : x \in s}
           G == {s \in SUBSET U : SumFunctionOnSet(f, Img(s)) = SumFunctionOnSet(g, s)}
<1>0. IsFiniteSet(Img(U))
  BY ImageFinite
<1>1. {} \in G
  <2>1. Img({}) = {}
    OBVIOUS
  <2> QED
    BY <2>1, SumEmpty
<1>2. ASSUME NEW s \in SUBSET U, NEW x \in U, s \in G, x \notin s PROVE s \cup {x} \in G
  <2>1. Img(s \cup {x}) = Img(s) \cup {h[x]} /\ h[x] \notin Img(s) /\ h[x] \in Img(U) /\ Img(s) \in SUBSET Img(U)
    BY <1>2
  <2>2. \A y \in Img(U) : f[y] \in Int
    OBVIOUS
  <2>3. \A y \in U : g[y] \in Int
    OBVIOUS
  <2> HIDE DEF Img
  <2>4. SumFunctionOnSet(f, Img(s) \cup {h[x]}) = f[h[x]] + SumFunctionOnSet(f, Img(s))
    BY <1>0, <2>1, <2>2, SumInsert
  <2>5. SumFunctionOnSet(g, s \cup {x}) = g[x] + SumFunctionOnSet(g, s)
    BY <1>2, <2>3, SumInsert
  <2>6. SumFunctionOnSet(f, Img(s \cup {x})) = SumFunctionOnSet(g, s \cup {x})
    BY <1>2, <2>1, <2>4, <2>5
  <2> QED
    BY <2>6
<1> HIDE DEF G
<1>3. U \in G
  BY <1>1, <1>2, SubsetsAll
<1> QED
  BY <1>3 DEF G

\* The sum over a table is the sum of its rows' sums, and of its columns'.
LEMMA SumSwap ==
  ASSUME NEW U, IsFiniteSet(U), NEW L, IsFiniteSet(L), NEW F, \A u \in U : \A l \in L : F[u][l] \in Int
  PROVE  SumFunctionOnSet([u \in U |-> SumFunctionOnSet(F[u], L)], U) =
           SumFunctionOnSet([l \in L |-> SumFunctionOnSet([u \in U |-> F[u][l]], U)], L)
<1> DEFINE Row == [u \in U |-> SumFunctionOnSet(F[u], L)]
           Of(l) == [u \in U |-> F[u][l]]
           Col(s) == [l \in L |-> SumFunctionOnSet(Of(l), s)]
           G == {s \in SUBSET U : SumFunctionOnSet(Row, s) = SumFunctionOnSet(Col(s), L)}
<1>1. \A u \in U : Row[u] \in Int
  <2> TAKE u \in U
  <2>1. SumFunctionOnSet(F[u], L) \in Int
    BY SumIntegers
  <2> QED
    BY <2>1
<1>2. \A l \in L : \A s \in SUBSET U : \A x \in U \ s :
        /\ SumFunctionOnSet(Of(l), s) \in Int
        /\ SumFunctionOnSet(Of(l), s \cup {x}) = F[x][l] + SumFunctionOnSet(Of(l), s)
  <2> TAKE l \in L
  <2>1. \A u \in U : Of(l)[u] \in Int /\ Of(l)[u] = F[u][l]
    OBVIOUS
  <2> HIDE DEF Of
  <2> TAKE s \in SUBSET U
  <2> TAKE x \in U \ s
  <2> QED
    BY <2>1, SumInsert
<1>3. {} \in G
  <2>1. \A l \in L : Col({})[l] = 0 /\ Col({})[l] \in Int
    BY SumEmpty
  <2>2. {} \in SUBSET L
    OBVIOUS
  <2>3. SumFunctionOnSet(Col({}), L) = SumFunctionOnSet(Col({}), {})
    <3> HIDE DEF Col
    <3> QED
      BY <2>1, <2>2, SumWithin
  <2> QED
    BY <2>3, SumEmpty
<1>4. ASSUME NEW s \in SUBSET U, NEW x \in U, s \in G, x \notin s PROVE s \cup {x} \in G
  <2>1. \A l \in L : Col(s \cup {x})[l] = F[x][l] + Col(s)[l] /\ Col(s)[l] \in Int /\ F[x][l] \in Int
    <3> HIDE DEF Of
    <3> QED
      BY <1>2, <1>4
  <2> HIDE DEF Col, Row
  <2>2. SumFunctionOnSet(Col(s \cup {x}), L) = SumFunctionOnSet(F[x], L) + SumFunctionOnSet(Col(s), L)
    BY <2>1, SumPlus
  <2>3. SumFunctionOnSet(Row, s \cup {x}) = Row[x] + SumFunctionOnSet(Row, s)
    BY <1>1, <1>4, SumInsert
  <2>4. Row[x] = SumFunctionOnSet(F[x], L)
    BY DEF Row
  <2>5. SumFunctionOnSet(Row, s) = SumFunctionOnSet(Col(s), L)
    BY <1>4
  <2>6. SumFunctionOnSet(Row, s \cup {x}) = SumFunctionOnSet(Col(s \cup {x}), L)
    BY <2>2, <2>3, <2>4, <2>5
  <2> QED
    BY <2>6
<1> HIDE DEF G
<1>5. U \in G
  BY <1>3, <1>4, SubsetsAll
<1> QED
  BY <1>5 DEF G

\* A sum over pairs is taken first component by first component.
LEMMA SumPairs ==
  ASSUME NEW D, IsFiniteSet(D), NEW I, \A b \in D : IsFiniteSet(I[b]),
         NEW f, \A b \in D : \A i \in I[b] : f[<<b, i>>] \in Int
  PROVE  SumFunctionOnSet(f, UNION {{<<b, i>> : i \in I[b]} : b \in D}) =
           SumFunctionOnSet([b \in D |-> SumFunctionOnSet([i \in I[b] |-> f[<<b, i>>]], I[b])], D)
<1> DEFINE In(b) == {<<b, i>> : i \in I[b]}
           All(s) == UNION {In(b) : b \in s}
           Row == [b \in D |-> SumFunctionOnSet([i \in I[b] |-> f[<<b, i>>]], I[b])]
           G == {s \in SUBSET D : IsFiniteSet(All(s)) /\ SumFunctionOnSet(f, All(s)) = SumFunctionOnSet(Row, s)}
<1>1. \A b \in D : /\ IsFiniteSet(In(b)) /\ Row[b] \in Int
                   /\ SumFunctionOnSet(f, In(b)) = Row[b]
  <2> SUFFICES ASSUME NEW b \in D
               PROVE  IsFiniteSet(In(b)) /\ Row[b] \in Int /\ SumFunctionOnSet(f, In(b)) = Row[b]
    OBVIOUS
  <2> DEFINE h == [i \in I[b] |-> <<b, i>>]
             g == [i \in I[b] |-> f[<<b, i>>]]
  <2>1. \A i, j \in I[b] : h[i] = h[j] => i = j
    OBVIOUS
  <2>2. \A i \in I[b] : f[h[i]] \in Int /\ g[i] = f[h[i]] /\ g[i] \in Int
    OBVIOUS
  <2>3. {h[i] : i \in I[b]} = In(b)
    OBVIOUS
  <2>4. Row[b] = SumFunctionOnSet(g, I[b])
    OBVIOUS
  <2> HIDE DEF h, g, Row, In
  <2>5. SumFunctionOnSet(f, {h[i] : i \in I[b]}) = SumFunctionOnSet(g, I[b])
    BY <2>1, <2>2, SumRename
  <2>6. SumFunctionOnSet(g, I[b]) \in Int
    BY <2>2, SumIntegers
  <2>7. IsFiniteSet({h[i] : i \in I[b]})
    BY ImageFinite
  <2> QED
    BY <2>3, <2>4, <2>5, <2>6, <2>7
<1>2. {} \in G
  <2>1. All({}) = {}
    OBVIOUS
  <2> QED
    BY <2>1, SumEmpty, FS_EmptySet
<1>3. ASSUME NEW s \in SUBSET D, NEW x \in D, s \in G, x \notin s PROVE s \cup {x} \in G
  <2>1. All(s \cup {x}) = All(s) \cup In(x) /\ All(s) \cap In(x) = {}
    BY <1>3
  <2>2. \A p \in All(s) \cup In(x) : f[p] \in Int
    OBVIOUS
  <2>3. IsFiniteSet(All(s)) /\ IsFiniteSet(In(x)) /\ SumFunctionOnSet(f, All(s)) = SumFunctionOnSet(Row, s)
    BY <1>1, <1>3
  <2> HIDE DEF All, In, Row
  <2>4. IsFiniteSet(All(s) \cup In(x))
    BY <2>3, FS_Union
  <2>5. SumFunctionOnSet(f, All(s) \cup In(x)) = SumFunctionOnSet(f, All(s)) + SumFunctionOnSet(f, In(x))
    <3>1. All(s) \in SUBSET (All(s) \cup In(x)) /\ In(x) \in SUBSET (All(s) \cup In(x))
      OBVIOUS
    <3> QED
      BY <2>1, <2>2, <2>4, <3>1, SumUnion
  <2>6. SumFunctionOnSet(Row, s \cup {x}) = Row[x] + SumFunctionOnSet(Row, s) /\ SumFunctionOnSet(Row, s) \in Int
    BY <1>1, <1>3, SumInsert
  <2>7. SumFunctionOnSet(f, In(x)) = Row[x] /\ Row[x] \in Int
    BY <1>1
  <2>8. SumFunctionOnSet(f, All(s \cup {x})) = SumFunctionOnSet(Row, s \cup {x})
    <3>1. SumFunctionOnSet(f, All(s \cup {x})) = SumFunctionOnSet(f, All(s)) + SumFunctionOnSet(f, In(x))
      BY Zenon, <2>1, <2>5
    <3>2. PICK a \in Int, b \in Int : a = Row[x] /\ b = SumFunctionOnSet(Row, s)
      BY <2>6, <2>7
    <3> QED
      BY <2>3, <2>6, <2>7, <3>1, <3>2
  <2>9. IsFiniteSet(All(s \cup {x}))
    BY Zenon, <2>1, <2>4
  <2> QED
    BY <2>8, <2>9
<1> HIDE DEF G
<1>4. D \in G
  BY <1>2, <1>3, SubsetsAll
<1> QED
  BY <1>4 DEF G

=============================================================================
