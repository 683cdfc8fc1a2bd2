------------------------------- MODULE Positions -------------------------------
(***************************************************************************)
(* The last position of a sequence with a property, and the sum over a set *)
(* of positions, for the proofs about the audit trail, the stock movements *)
(* and the quotes.                                                         *)
(***************************************************************************)
EXTENDS Integers, FiniteSetsExt, FiniteSetTheorems, WellFoundedInduction, TLAPS

\* A set of numbers has a least one.
LEMMA LeastNumber ==
  ASSUME NEW S \in SUBSET Nat, S # {}
  PROVE  \E n \in S : \A m \in S : m >= n
<1> DEFINE R == OpToRel(<, Nat)
<1>1. PICK n \in S : \A m \in S : ~ (<<m, n>> \in R)
  BY NatLessThanWellFounded, WFMin
<1>2. ASSUME NEW m \in S PROVE m >= n
  <2>1. m \in Nat /\ n \in Nat
    OBVIOUS
  <2>2. <<m, n>> \in R <=> m < n
    BY <2>1 DEF OpToRel
  <2> HIDE DEF R
  <2>3. QED
    BY <1>1, <2>1, <2>2
<1>3. QED
  BY <1>2

\* A set of numbers up to n has a greatest one.
LEMMA GreatestNumber ==
  ASSUME NEW n \in Nat, NEW S \in SUBSET (0..n), S # {}
  PROVE  Max(S) \in S /\ \A y \in S : Max(S) >= y
<1> DEFINE T == {n - x : x \in S}
<1>1. T \in SUBSET Nat /\ T # {}
  <2>1. \A x \in S : x \in Nat /\ n - x \in Nat
    OBVIOUS
  <2>2. PICK x \in S : TRUE
    OBVIOUS
  <2>3. n - x \in T
    BY <2>2
  <2>4. QED
    BY <2>1, <2>3
<1>2. PICK t \in T : \A u \in T : u >= t
  <2> HIDE DEF T
  <2> QED BY <1>1, LeastNumber
<1>3. PICK x \in S : t = n - x
  OBVIOUS
<1>4. n - t \in S /\ \A y \in S : n - t >= y
  <2>1. x \in Nat /\ n - t = x
    BY <1>3
  <2>2. ASSUME NEW y \in S PROVE x >= y
    <3>1. n - y \in T /\ y \in Nat
      OBVIOUS
    <3> HIDE DEF T
    <3>2. n - y >= n - x
      BY <1>2, <1>3, <3>1
    <3>3. QED
      BY <2>1, <3>1, <3>2
  <2>3. QED
    BY <2>1, <2>2
<1>5. QED
  BY <1>4 DEF Max

\* A set of positions has a last one.
LEMMA LastPosition ==
  ASSUME NEW n \in Nat, NEW S \in SUBSET (1..n), S # {}
  PROVE  Max(S) \in S /\ \A y \in S : Max(S) >= y
<1>1. S \in SUBSET (0..n)
  OBVIOUS
<1>2. QED
  BY <1>1, GreatestNumber

\* The greatest element of a set is the one that is greatest.
LEMMA GreatestIsMax ==
  ASSUME NEW S \in SUBSET Int, NEW m \in S, \A y \in S : m >= y
  PROVE  Max(S) = m
<1>1. Max(S) \in S /\ \A y \in S : Max(S) >= y
  BY DEF Max
<1> DEFINE x == Max(S)
<1>2. x \in Int /\ m \in Int /\ x >= m /\ m >= x
  BY <1>1
<1> HIDE DEF x
<1>3. x = m
  BY <1>2
<1>4. QED
  BY <1>3 DEF x
-----------------------------------------------------------------------------
(* Sums over a finite set, taken one member after the other.  What holds   *)
(* for every finite set is shown by a smallest counterexample.             *)

\* Among finite sets there is a smallest one.
LEMMA SmallestSet ==
  ASSUME NEW X, X # {}, \A s \in X : IsFiniteSet(s)
  PROVE  \E s \in X : \A t \in X : Cardinality(t) >= Cardinality(s)
<1> DEFINE T == {Cardinality(s) : s \in X}
<1>1. T \in SUBSET Nat /\ T # {}
  BY FS_CardinalityType
<1>2. PICK n \in T : \A u \in T : u >= n
  <2> HIDE DEF T
  <2> QED BY <1>1, LeastNumber
<1>3. PICK s \in X : Cardinality(s) = n
  OBVIOUS
<1>4. ASSUME NEW t \in X PROVE Cardinality(t) >= Cardinality(s)
  <2>1. Cardinality(t) \in T
    OBVIOUS
  <2> HIDE DEF T
  <2>2. QED
    BY <1>2, <1>3, <2>1
<1>5. QED
  BY <1>4

\* The member the sum takes first.
Some(s) == CHOOSE x \in s : TRUE

\* g holds the sum of f over every subset of S.
SumsUp(f, g, S) ==
    g = [s \in SUBSET S |-> IF s = {} THEN 0 ELSE f[Some(s)] + g[s \ {Some(s)}]]

LEMMA SomeIsMember == \A s : s # {} => Some(s) \in s
  BY DEF Some

\* The community module's sum in these terms.
LEMMA SumUnfolds ==
  ASSUME NEW f, NEW S
  PROVE  SumFunctionOnSet(f, S) = (CHOOSE g : SumsUp(f, g, S))[S]
  BY DEF SumFunctionOnSet, FoldFunctionOnSet, MapThenFoldSet, SumsUp, Some

\* The part of a set without one of its members is smaller.
LEMMA Smaller ==
  ASSUME NEW s, IsFiniteSet(s), NEW x \in s
  PROVE  /\ IsFiniteSet(s \ {x})
         /\ Cardinality(s) \in Nat /\ Cardinality(s \ {x}) = Cardinality(s) - 1
         /\ ~ Cardinality(s \ {x}) >= Cardinality(s)
<1>1. Cardinality(s) \in Nat /\ IsFiniteSet(s \ {x}) /\ Cardinality(s \ {x}) = Cardinality(s) - 1
  BY FS_CardinalityType, FS_RemoveElement
<1>2. QED
  BY <1>1

LEMMA SumsAgree ==
  ASSUME NEW f, NEW g, NEW h, NEW A, NEW B, SumsUp(f, g, A), SumsUp(f, h, B),
         NEW S, IsFiniteSet(S), S \subseteq A, S \subseteq B
  PROVE  g[S] = h[S]
<1> DEFINE X == {s \in SUBSET S : g[s] # h[s]}
<1>1. SUFFICES ASSUME X # {} PROVE FALSE
  OBVIOUS
<1>2. \A s \in X : IsFiniteSet(s)
  BY FS_Subset
<1>3. PICK s \in X : \A t \in X : Cardinality(t) >= Cardinality(s)
  <2> HIDE DEF X
  <2> QED BY <1>1, <1>2, SmallestSet
<1>4. /\ g[s] = IF s = {} THEN 0 ELSE f[Some(s)] + g[s \ {Some(s)}]
      /\ h[s] = IF s = {} THEN 0 ELSE f[Some(s)] + h[s \ {Some(s)}]
  <2>1. s \in SUBSET A /\ s \in SUBSET B
    OBVIOUS
  <2>2. QED
    BY <2>1 DEF SumsUp
<1>5. s # {} /\ Some(s) \in s
  BY <1>4, SomeIsMember
<1>6. s \ {Some(s)} \notin X
  BY <1>2, <1>3, <1>5, Smaller
<1>7. g[s \ {Some(s)}] = h[s \ {Some(s)}]
  BY <1>6
<1>8. QED
  BY <1>4, <1>5, <1>7

LEMMA SumExists ==
  ASSUME NEW f, NEW S, IsFiniteSet(S)
  PROVE  \E g : SumsUp(f, g, S)
<1> DEFINE X == {s \in SUBSET S : ~ \E g : SumsUp(f, g, s)}
<1>1. SUFFICES ASSUME X # {} PROVE FALSE
  OBVIOUS
<1>2. \A s \in SUBSET S : IsFiniteSet(s)
  BY FS_Subset
<1>3. PICK s \in X : \A t \in X : Cardinality(t) >= Cardinality(s)
  <2>1. \A t \in X : IsFiniteSet(t)
    BY <1>2
  <2> HIDE DEF X
  <2>2. QED
    BY <1>1, <2>1, SmallestSet
<1> DEFINE G(t) == CHOOSE g : SumsUp(f, g, t)
           h == [t \in SUBSET s |->
                   IF t = {} THEN 0 ELSE f[Some(t)] + G(t \ {Some(t)})[t \ {Some(t)}]]
<1>4. ASSUME NEW t \in SUBSET s, t # s PROVE SumsUp(f, G(t), t)
  <2>1. PICK x \in s : x \notin t
    BY <1>4
  <2>2. t \in SUBSET (s \ {x}) /\ IsFiniteSet(s \ {x})
    BY <1>2, <2>1
  <2>3. Cardinality(t) <= Cardinality(s \ {x})
    BY <2>2, FS_Subset
  <2>4. Cardinality(t) \in Nat
    BY <1>2, FS_CardinalityType
  <2>5. t \notin X
    BY <1>2, <1>3, <2>3, <2>4, Smaller
  <2>6. QED
    BY <2>5
<1>5. ASSUME NEW t \in SUBSET s, t # {} PROVE h[t \ {Some(t)}] = G(t \ {Some(t)})[t \ {Some(t)}]
  <2> DEFINE u == t \ {Some(t)}
  <2>1. Some(t) \in t
    BY <1>5, SomeIsMember
  <2>2. u \in SUBSET s /\ u # s
    BY <2>1
  <2>3. SumsUp(f, G(u), u)
    BY <1>4, <2>2
  <2>4. G(u)[u] = IF u = {} THEN 0 ELSE f[Some(u)] + G(u)[u \ {Some(u)}]
    <3> HIDE DEF u, G
    <3> QED BY <2>3 DEF SumsUp
  <2>5. h[u] = IF u = {} THEN 0 ELSE f[Some(u)] + G(u \ {Some(u)})[u \ {Some(u)}]
    BY <2>2
  <2>6. ASSUME u # {} PROVE G(u)[u \ {Some(u)}] = G(u \ {Some(u)})[u \ {Some(u)}]
    <3> DEFINE v == u \ {Some(u)}
    <3>1. v \in SUBSET s /\ v # s /\ v \subseteq u
      BY <2>2
    <3>2. SumsUp(f, G(v), v)
      BY <1>4, <3>1
    <3>3. IsFiniteSet(v)
      BY <1>2, <3>1
    <3> HIDE DEF u, v, G
    <3>4. G(u)[v] = G(v)[v]
      BY <2>3, <3>1, <3>2, <3>3, SumsAgree
    <3>5. QED
      BY <3>4 DEF v
  <2>7. QED
    BY <2>4, <2>5, <2>6
<1>6. SumsUp(f, h, s)
  <2>1. h = [t \in SUBSET s |-> IF t = {} THEN 0 ELSE f[Some(t)] + h[t \ {Some(t)}]]
    <3> DEFINE k == [t \in SUBSET s |-> IF t = {} THEN 0 ELSE f[Some(t)] + h[t \ {Some(t)}]]
    <3>1. \A t \in SUBSET s : h[t] = k[t]
      <4> TAKE t \in SUBSET s
      <4>1. CASE t = {}
        BY <4>1
      <4>2. CASE t # {}
        <5>1. h[t] = f[Some(t)] + G(t \ {Some(t)})[t \ {Some(t)}]
          BY <4>2
        <5>2. k[t] = f[Some(t)] + h[t \ {Some(t)}]
          BY <4>2
        <5>3. QED
          BY <1>5, <4>2, <5>1, <5>2
      <4>3. QED
        BY <4>1, <4>2
    <3>2. h = [t \in SUBSET s |-> h[t]] /\ k = [t \in SUBSET s |-> k[t]]
      OBVIOUS
    <3> HIDE DEF h, k
    <3>3. h = k
      BY <3>1, <3>2
    <3>4. QED
      BY <3>3 DEF k
  <2> HIDE DEF h
  <2>2. QED
    BY <2>1 DEF SumsUp
<1>7. QED
  BY <1>6

\* One member after the other: the equation of the sum.
LEMMA SumEquation ==
  ASSUME NEW f, NEW S, IsFiniteSet(S)
  PROVE  SumFunctionOnSet(f, S) =
           IF S = {} THEN 0 ELSE f[Some(S)] + SumFunctionOnSet(f, S \ {Some(S)})
<1> DEFINE G(t) == CHOOSE g : SumsUp(f, g, t)
<1>1. SumsUp(f, G(S), S)
  BY SumExists
<1>2. G(S)[S] = IF S = {} THEN 0 ELSE f[Some(S)] + G(S)[S \ {Some(S)}]
  <2> HIDE DEF G
  <2> QED BY <1>1 DEF SumsUp
<1>3. SumFunctionOnSet(f, S) = G(S)[S]
  BY SumUnfolds
<1>4. CASE S # {}
  <2> DEFINE T == S \ {Some(S)}
  <2>1. IsFiniteSet(T)
    BY FS_RemoveElement
  <2>2. SumsUp(f, G(T), T)
    BY <2>1, SumExists
  <2>3. SumFunctionOnSet(f, T) = G(T)[T]
    BY SumUnfolds
  <2> HIDE DEF G, T
  <2>4. T \subseteq S
    BY DEF T
  <2>5. G(S)[T] = G(T)[T]
    BY <1>1, <2>1, <2>2, <2>4, SumsAgree
  <2>6. G(S)[S] = f[Some(S)] + G(S)[T]
    BY <1>2, <1>4 DEF T
  <2>7. QED
    BY <1>3, <1>4, <2>3, <2>5, <2>6 DEF T
<1>5. CASE S = {}
  BY <1>2, <1>3, <1>5
<1>6. QED
  BY <1>4, <1>5

\* A sum of integers is one.
LEMMA SumType ==
  ASSUME NEW f, NEW S, IsFiniteSet(S), \A x \in S : f[x] \in Int
  PROVE  SumFunctionOnSet(f, S) \in Int
<1> DEFINE X == {s \in SUBSET S : SumFunctionOnSet(f, s) \notin Int}
<1>1. SUFFICES ASSUME X # {} PROVE FALSE
  OBVIOUS
<1>2. \A s \in X : IsFiniteSet(s)
  BY FS_Subset
<1>3. PICK s \in X : \A t \in X : Cardinality(t) >= Cardinality(s)
  <2> HIDE DEF X
  <2> QED BY <1>1, <1>2, SmallestSet
<1>4. SumFunctionOnSet(f, s) =
        IF s = {} THEN 0 ELSE f[Some(s)] + SumFunctionOnSet(f, s \ {Some(s)})
  BY <1>2, SumEquation
<1>5. s # {} /\ Some(s) \in s
  BY <1>4, SomeIsMember
<1>6. s \ {Some(s)} \notin X
  BY <1>2, <1>3, <1>5, Smaller
<1>7. SumFunctionOnSet(f, s \ {Some(s)}) \in Int
  BY <1>6
<1>8. QED
  BY <1>4, <1>5, <1>7

\* Whichever member is taken out first, the sum is the same.
LEMMA SumRemove ==
  ASSUME NEW f, NEW S, IsFiniteSet(S), \A x \in S : f[x] \in Int, NEW y \in S
  PROVE  SumFunctionOnSet(f, S) = f[y] + SumFunctionOnSet(f, S \ {y})
<1> DEFINE Bad(s) == \E z \in s : SumFunctionOnSet(f, s) # f[z] + SumFunctionOnSet(f, s \ {z})
           X == {s \in SUBSET S : Bad(s)}
<1>1. SUFFICES ASSUME X # {} PROVE FALSE
  OBVIOUS
<1>2. \A s \in SUBSET S : IsFiniteSet(s) /\ SumFunctionOnSet(f, s) \in Int
  BY FS_Subset, SumType
<1>3. PICK s \in X : \A t \in X : Cardinality(t) >= Cardinality(s)
  <2>1. \A t \in X : IsFiniteSet(t)
    BY <1>2
  <2> HIDE DEF X
  <2>2. QED
    BY <1>1, <2>1, SmallestSet
<1>4. PICK z \in s : SumFunctionOnSet(f, s) # f[z] + SumFunctionOnSet(f, s \ {z})
  OBVIOUS
<1> DEFINE x == Some(s)
<1>5. x \in s
  BY <1>4, SomeIsMember
<1>6. SumFunctionOnSet(f, s) = f[x] + SumFunctionOnSet(f, s \ {x})
  BY <1>2, <1>4, SumEquation
<1>7. x # z
  BY <1>4, <1>6
<1>8. s \ {x} \notin X /\ s \ {z} \notin X
  <2>1. IsFiniteSet(s)
    BY <1>2
  <2> HIDE DEF X, x
  <2>2. QED
    BY <2>1, <1>3, <1>5, Smaller
<1> HIDE DEF x
<1>9. SumFunctionOnSet(f, s \ {x}) = f[z] + SumFunctionOnSet(f, (s \ {x}) \ {z})
  BY <1>4, <1>5, <1>7, <1>8
<1>10. SumFunctionOnSet(f, s \ {z}) = f[x] + SumFunctionOnSet(f, (s \ {z}) \ {x})
  BY <1>4, <1>5, <1>7, <1>8
<1>11. (s \ {x}) \ {z} = (s \ {z}) \ {x}
  OBVIOUS
<1>12. f[x] \in Int /\ f[z] \in Int /\ SumFunctionOnSet(f, (s \ {x}) \ {z}) \in Int
  BY <1>2, <1>4, <1>5
<1> DEFINE rest == SumFunctionOnSet(f, (s \ {x}) \ {z})
<1>13. /\ SumFunctionOnSet(f, s) = f[x] + (f[z] + rest)
       /\ SumFunctionOnSet(f, s \ {z}) = f[x] + rest
  BY <1>6, <1>9, <1>10, <1>11
<1>14. rest \in Int
  BY <1>12
<1> HIDE DEF rest
<1>15. QED
  BY <1>4, <1>12, <1>13, <1>14

\* Another member adds what the function has there.
LEMMA SumAdd ==
  ASSUME NEW f, NEW S, IsFiniteSet(S), NEW y, y \notin S, \A x \in S \cup {y} : f[x] \in Int
  PROVE  SumFunctionOnSet(f, S \cup {y}) = SumFunctionOnSet(f, S) + f[y]
<1> DEFINE T == S \cup {y}
<1>1. IsFiniteSet(T)
  BY FS_AddElement
<1>2. T \ {y} = S /\ y \in T /\ \A x \in T : f[x] \in Int
  OBVIOUS
<1>3. SumFunctionOnSet(f, S) \in Int /\ f[y] \in Int
  BY SumType
<1> HIDE DEF T
<1>4. SumFunctionOnSet(f, T) = f[y] + SumFunctionOnSet(f, T \ {y})
  BY <1>1, <1>2, SumRemove
<1>5. SumFunctionOnSet(f, T) = f[y] + SumFunctionOnSet(f, S)
  BY <1>2, <1>4, Zenon
<1>6. QED
  BY <1>3, <1>5 DEF T

LEMMA SumEmpty == \A f : SumFunctionOnSet(f, {}) = 0
  BY SumEquation, FS_EmptySet

\* Only the values at the members count.
LEMMA SumSame ==
  ASSUME NEW f, NEW g, NEW S, IsFiniteSet(S), \A x \in S : f[x] = g[x]
  PROVE  SumFunctionOnSet(f, S) = SumFunctionOnSet(g, S)
<1> DEFINE X == {s \in SUBSET S : SumFunctionOnSet(f, s) # SumFunctionOnSet(g, s)}
<1>1. SUFFICES ASSUME X # {} PROVE FALSE
  OBVIOUS
<1>2. \A s \in X : IsFiniteSet(s)
  BY FS_Subset
<1>3. PICK s \in X : \A t \in X : Cardinality(t) >= Cardinality(s)
  <2> HIDE DEF X
  <2> QED BY <1>1, <1>2, SmallestSet
<1>4. /\ SumFunctionOnSet(f, s) =
            IF s = {} THEN 0 ELSE f[Some(s)] + SumFunctionOnSet(f, s \ {Some(s)})
      /\ SumFunctionOnSet(g, s) =
            IF s = {} THEN 0 ELSE g[Some(s)] + SumFunctionOnSet(g, s \ {Some(s)})
  BY <1>2, SumEquation
<1>5. s # {} /\ Some(s) \in s
  BY <1>4, SomeIsMember
<1>6. s \ {Some(s)} \notin X
  BY <1>2, <1>3, <1>5, Smaller
<1>7. SumFunctionOnSet(f, s \ {Some(s)}) = SumFunctionOnSet(g, s \ {Some(s)})
  BY <1>6
<1>8. QED
  BY <1>4, <1>5, <1>7

\* More members sum up to no less, where nothing is below zero.
LEMMA SumMonotone ==
  ASSUME NEW f, NEW S, IsFiniteSet(S), \A x \in S : f[x] \in Nat, NEW T \in SUBSET S
  PROVE  0 <= SumFunctionOnSet(f, T) /\ SumFunctionOnSet(f, T) <= SumFunctionOnSet(f, S)
<1> DEFINE Bad(s) == \E t \in SUBSET s : ~ (SumFunctionOnSet(f, t) <= SumFunctionOnSet(f, s))
           X == {s \in SUBSET S : Bad(s)}
           Z == {s \in SUBSET S : ~ 0 <= SumFunctionOnSet(f, s)}
<1>1. \A s \in SUBSET S : IsFiniteSet(s) /\ SumFunctionOnSet(f, s) \in Int
  BY FS_Subset, SumType
<1>2. Z = {}
  <2>1. SUFFICES ASSUME Z # {} PROVE FALSE
    OBVIOUS
  <2>2. PICK s \in Z : \A t \in Z : Cardinality(t) >= Cardinality(s)
    <3>1. \A t \in Z : IsFiniteSet(t)
      BY <1>1
    <3> HIDE DEF Z
    <3>2. QED
      BY <2>1, <3>1, SmallestSet
  <2>3. SumFunctionOnSet(f, s) =
          IF s = {} THEN 0 ELSE f[Some(s)] + SumFunctionOnSet(f, s \ {Some(s)})
    BY <1>1, SumEquation
  <2>4. s # {} /\ Some(s) \in s
    BY <2>3, SomeIsMember
  <2>5. s \ {Some(s)} \notin Z
    BY <1>1, <2>2, <2>4, Smaller
  <2>6. QED
    BY <1>1, <2>3, <2>4, <2>5
<1>3. X = {}
  <2>1. SUFFICES ASSUME X # {} PROVE FALSE
    OBVIOUS
  <2>2. PICK s \in X : \A t \in X : Cardinality(t) >= Cardinality(s)
    <3>1. \A t \in X : IsFiniteSet(t)
      BY <1>1
    <3> HIDE DEF X
    <3>2. QED
      BY <2>1, <3>1, SmallestSet
  <2>3. PICK t \in SUBSET s : ~ (SumFunctionOnSet(f, t) <= SumFunctionOnSet(f, s))
    OBVIOUS
  <2>4. PICK y \in s : y \notin t
    BY <1>1, <2>3
  <2>5. SumFunctionOnSet(f, s) = f[y] + SumFunctionOnSet(f, s \ {y})
    BY <1>1, SumRemove
  <2>6. s \ {y} \notin X /\ t \in SUBSET (s \ {y})
    BY <1>1, <2>2, <2>4, Smaller
  <2>7. SumFunctionOnSet(f, t) <= SumFunctionOnSet(f, s \ {y})
    BY <2>6
  <2>8. QED
    BY <1>1, <2>3, <2>5, <2>7
<1>4. QED
  BY <1>2, <1>3
=============================================================================
