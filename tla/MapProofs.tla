----------------------------- MODULE MapProofs -----------------------------
(* What the map operations of Maps return and preserve, and what the sum of *)
(* a function is.                                                           *)
EXTENDS Integers, Maps, FiniteSetTheorems, TLAPS

\* make(map[K]T) is a map over any key and value sets.
LEMMA EmptyIsMap ==
    ASSUME NEW K, NEW T
    PROVE  IsMap(EmptyMap, K, T) /\ DOMAIN EmptyMap = {}
  BY DEF IsMap, EmptyMap

\* m[k] = v binds k, keeps every other binding and stays a map.
LEMMA PutIsMap ==
    ASSUME NEW K, NEW T, NEW f, IsMap(f, K, T), NEW k \in K, NEW v \in T
    PROVE  /\ IsMap(Put(f, k, v), K, T)
           /\ DOMAIN Put(f, k, v) = DOMAIN f \cup {k}
           /\ Put(f, k, v)[k] = v
           /\ \A x \in DOMAIN f : x # k => Put(f, k, v)[x] = f[x]
  BY DEF IsMap, Put

\* delete(m, k) unbinds k, keeps every other binding and stays a map.
LEMMA DropIsMap ==
    ASSUME NEW K, NEW T, NEW f, IsMap(f, K, T), NEW k
    PROVE  /\ IsMap(Drop(f, k), K, T)
           /\ DOMAIN Drop(f, k) = DOMAIN f \ {k}
           /\ \A x \in DOMAIN f \ {k} : Drop(f, k)[x] = f[x]
  BY DEF IsMap, Drop, Restrict

\* Assigning through the pointer stored at k keeps the keys and the other
\* bindings.
LEMMA UpdateIsMap ==
    ASSUME NEW K, NEW T, NEW f, IsMap(f, K, T), NEW k \in DOMAIN f,
           NEW v \in T
    PROVE  /\ IsMap([f EXCEPT ![k] = v], K, T)
           /\ DOMAIN [f EXCEPT ![k] = v] = DOMAIN f
           /\ [f EXCEPT ![k] = v][k] = v
           /\ \A x \in DOMAIN f : x # k => [f EXCEPT ![k] = v][x] = f[x]
  BY DEF IsMap

\* The value stored at a key of a map has the map's value type.
LEMMA MapValue ==
    ASSUME NEW K, NEW T, NEW f, IsMap(f, K, T), NEW k \in DOMAIN f
    PROVE  k \in K /\ f[k] \in T
  BY DEF IsMap

-----------------------------------------------------------------------------
(***************************************************************************)
(* Sums.  SumFunctionOnSet(f, S) is defined by recursion over the subsets  *)
(* of S; what it computes is shown by least counterexamples.               *)
(***************************************************************************)

\* A set of natural numbers has a least one.
LEMMA LeastNumber ==
    ASSUME NEW T \in SUBSET Nat, T # {}
    PROVE  \E n \in T : \A m \in T : n <= m
<1>1. PICK R : R = OpToRel(<, Nat)
  OBVIOUS
<1>2. IsWellFoundedOn(R, Nat)
  BY <1>1, NatLessThanWellFounded
<1>3. \E x \in T : \A y \in T : ~ (<<y, x>> \in R)
  BY <1>2, WFMin
<1>4. \A x, y \in Nat : x < y => <<x, y>> \in R
  BY <1>1 DEF OpToRel
<1>5. PICK x \in T : \A y \in T : ~ (<<y, x>> \in R)
  BY <1>3
<1>6. \A y \in T : ~ (y < x)
  BY <1>4, <1>5
<1>7. \A y \in T : x <= y
  BY <1>6
<1> QED BY <1>7

\* The smallest of the finite sets that D holds, if it holds any.
LEMMA LeastSet ==
    ASSUME NEW D, D # {}, \A s \in D : IsFiniteSet(s)
    PROVE  \E s \in D : \A t \in D : Cardinality(s) <= Cardinality(t)
<1> DEFINE T == {Cardinality(s) : s \in D}
<1>1. T \in SUBSET Nat /\ T # {}
  BY FS_CardinalityType
<1>2. PICK n \in T : \A m \in T : n <= m
  <2> HIDE DEF T
  <2> QED BY <1>1, LeastNumber
<1> QED BY <1>2

\* The element that is added next, and the sum of f over s in terms of the
\* sum g over what is left.
Next1(s) == CHOOSE x \in s : TRUE

SumStep(f, g, s) == IF s = {} THEN 0 ELSE f[Next1(s)] + g[s \ {Next1(s)}]

\* g gives the sum of f over every subset of S with n elements or less.
SumsUpTo(g, f, S, n) ==
    /\ DOMAIN g = {s \in SUBSET S : Cardinality(s) <= n}
    /\ \A s \in DOMAIN g : g[s] = SumStep(f, g, s)

\* g gives the sum of f over every subset of S.
AreSums(g, f, S) == g = [s \in SUBSET S |-> SumStep(f, g, s)]

\* The next element is one of the set.
LEMMA Next1In == ASSUME NEW s, s # {} PROVE Next1(s) \in s
  BY DEF Next1

\* What is left is smaller.
LEMMA Smaller ==
    ASSUME NEW s, IsFiniteSet(s), NEW x \in s
    PROVE  /\ IsFiniteSet(s \ {x}) /\ s \ {x} \subseteq s
           /\ Cardinality(s) \in Nat /\ Cardinality(s \ {x}) \in Nat
           /\ Cardinality(s \ {x}) = Cardinality(s) - 1
  BY FS_RemoveElement, FS_CardinalityType

\* There are such sums for the subsets of every size.
LEMMA SumsUpToExist ==
    ASSUME NEW f, NEW S, IsFiniteSet(S), NEW n \in Nat
    PROVE  \E g : SumsUpTo(g, f, S, n)
<1> DEFINE T == {k \in Nat : ~\E g : SumsUpTo(g, f, S, k)}
<1>1. SUFFICES ASSUME T # {} PROVE FALSE
  OBVIOUS
<1>2. PICK k \in T : \A m \in T : k <= m
  <2>1. T \in SUBSET Nat
    OBVIOUS
  <2> HIDE DEF T
  <2> QED BY <1>1, <2>1, LeastNumber
<1>f. \A s \in SUBSET S : IsFiniteSet(s) /\ Cardinality(s) \in Nat
  BY FS_Subset, FS_CardinalityType
<1>3. k # 0
  <2>1. ASSUME k = 0 PROVE FALSE
    <3> DEFINE D == {s \in SUBSET S : Cardinality(s) <= 0}
               g == [s \in D |-> 0]
    <3>1. \A s \in D : s = {}
      BY <1>f, FS_EmptySet
    <3>2. SumsUpTo(g, f, S, 0)
      BY <3>1 DEF SumsUpTo, SumStep
    <3> QED BY <2>1, <3>2
  <2> QED BY <2>1
<1>4. k \in Nat /\ ~\E g : SumsUpTo(g, f, S, k)
  OBVIOUS
<1>5. k - 1 \in Nat /\ ~(k <= k - 1)
  BY <1>3, <1>4
<1>6. PICK g : SumsUpTo(g, f, S, k - 1)
  BY <1>2, <1>5
<1> DEFINE D == {s \in SUBSET S : Cardinality(s) <= k}
           h == [s \in D |-> SumStep(f, g, s)]
<1>7. \A s \in D : s # {} => /\ s \ {Next1(s)} \in DOMAIN g
                             /\ s \ {Next1(s)} \in D
  <2> SUFFICES ASSUME NEW s \in D, s # {}
               PROVE  /\ s \ {Next1(s)} \in DOMAIN g
                      /\ s \ {Next1(s)} \in D
    OBVIOUS
  <2>1. Next1(s) \in s
    BY Next1In
  <2>2. Cardinality(s \ {Next1(s)}) = Cardinality(s) - 1
    BY <1>f, <2>1, Smaller
  <2>3. Cardinality(s \ {Next1(s)}) <= k - 1 /\ Cardinality(s \ {Next1(s)}) <= k
    BY <1>4, <1>f, <2>2
  <2> QED BY <1>6, <2>3 DEF SumsUpTo
<1>8. \A s \in DOMAIN g : s \in D /\ h[s] = g[s]
  <2>1. \A s \in DOMAIN g : s \in D
    BY <1>4, <1>6, <1>f DEF SumsUpTo
  <2> QED BY <1>6, <2>1 DEF SumsUpTo
<1>9. \A s \in D : h[s] = SumStep(f, h, s)
  BY <1>7, <1>8 DEF SumStep
<1>10. SumsUpTo(h, f, S, k)
  BY <1>9 DEF SumsUpTo
<1> QED BY <1>4, <1>10

\* There is a function that gives the sums, and it is what is defined.
LEMMA SumsExist ==
    ASSUME NEW f, NEW S, IsFiniteSet(S)
    PROVE  \E g : AreSums(g, f, S)
<1>1. Cardinality(S) \in Nat
  BY FS_CardinalityType
<1>2. PICK g : SumsUpTo(g, f, S, Cardinality(S))
  BY <1>1, SumsUpToExist
<1>3. \A s \in SUBSET S : Cardinality(s) <= Cardinality(S)
  BY FS_Subset
<1>4. DOMAIN g = SUBSET S
  BY <1>2, <1>3 DEF SumsUpTo
<1> DEFINE h == [s \in SUBSET S |-> SumStep(f, g, s)]
<1>5. \A s \in SUBSET S : s # {} => s \ {Next1(s)} \in SUBSET S
  OBVIOUS
<1>6. \A s \in SUBSET S : h[s] = g[s]
  BY <1>2, <1>4 DEF SumsUpTo
<1>7. \A s \in SUBSET S : SumStep(f, h, s) = SumStep(f, g, s)
  BY <1>5, <1>6 DEF SumStep
<1>8. AreSums(h, f, S)
  BY <1>7 DEF AreSums
<1> QED BY <1>8

\* SumFunction takes what it returns from such sums.
LEMMA SumIsChosen ==
    ASSUME NEW f, NEW S
    PROVE  SumFunctionOnSet(f, S) = (CHOOSE g : AreSums(g, f, S))[S]
  BY DEF SumFunctionOnSet, FoldFunctionOnSet, MapThenFoldSet, AreSums,
         SumStep, Next1

\* e gives the elements of R, which are among those of S, the amounts of f.
SameAmounts(e, R, f, S) ==
    /\ IsFiniteSet(S) /\ R \subseteq S
    /\ \A x \in R : e[x] = f[x]

\* Two functions that give the sums of the same amounts agree.
LEMMA SumsAgree ==
    ASSUME NEW f, NEW e, NEW S, NEW R, SameAmounts(e, R, f, S),
           NEW g, AreSums(g, f, S), NEW h, AreSums(h, e, R)
    PROVE  \A s \in SUBSET R : h[s] = g[s]
<1> USE DEF SameAmounts
<1> DEFINE D == {s \in SUBSET R : h[s] # g[s]}
<1>1. SUFFICES ASSUME D # {} PROVE FALSE
  OBVIOUS
<1>f. \A s \in D : IsFiniteSet(s)
  BY FS_Subset
<1>2. PICK s \in D : \A t \in D : Cardinality(s) <= Cardinality(t)
  <2> HIDE DEF D
  <2> QED BY <1>1, <1>f, LeastSet
<1>3. /\ s \in SUBSET R /\ s \in SUBSET S
      /\ h[s] = SumStep(e, h, s) /\ g[s] = SumStep(f, g, s)
  BY DEF AreSums
<1>4. s # {}
  BY <1>2, <1>3 DEF SumStep
<1>5. Next1(s) \in s
  BY <1>4, Next1In
<1>6. s \ {Next1(s)} \notin D
  <2>1. /\ Cardinality(s) \in Nat
        /\ Cardinality(s \ {Next1(s)}) = Cardinality(s) - 1
    BY <1>f, <1>5, Smaller
  <2>2. ~(Cardinality(s) <= Cardinality(s \ {Next1(s)}))
    BY <2>1
  <2> QED BY <1>2, <2>2
<1>7. h[s \ {Next1(s)}] = g[s \ {Next1(s)}]
  BY <1>3, <1>6
<1>8. e[Next1(s)] = f[Next1(s)]
  BY <1>3, <1>5
<1> QED BY <1>2, <1>3, <1>7, <1>8 DEF SumStep

\* The sum over a set is that of a function that gives the sums of more.
LEMMA SumIs ==
    ASSUME NEW f, NEW e, NEW S, NEW R, SameAmounts(e, R, f, S),
           NEW g, AreSums(g, f, S)
    PROVE  SumFunctionOnSet(e, R) = g[R]
<1>1. IsFiniteSet(R)
  BY FS_Subset DEF SameAmounts
<1>2. PICK h : h = CHOOSE k : AreSums(k, e, R)
  OBVIOUS
<1>3. AreSums(h, e, R)
  BY <1>1, <1>2, SumsExist
<1>4. \A s \in SUBSET R : h[s] = g[s]
  BY <1>3, SumsAgree
<1> QED BY <1>2, <1>4, SumIsChosen

\* Nothing adds up to zero, and only the amounts in the set count.
LEMMA SumOfNone ==
    ASSUME NEW f
    PROVE  SumFunctionOnSet(f, {}) = 0
<1>1. IsFiniteSet({})
  BY FS_EmptySet
<1>2. PICK g : AreSums(g, f, {})
  BY <1>1, SumsExist
<1>3. SumFunctionOnSet(f, {}) = g[{}]
  BY <1>1, <1>2, SumIs DEF SameAmounts
<1> QED BY <1>2, <1>3 DEF AreSums, SumStep

\* The sum depends on the values alone.
LEMMA SumOfSame ==
    ASSUME NEW f, NEW e, NEW S, IsFiniteSet(S), \A x \in S : e[x] = f[x]
    PROVE  SumFunctionOnSet(e, S) = SumFunctionOnSet(f, S)
<1>1. PICK g : AreSums(g, f, S)
  BY SumsExist
<1>2. SumFunctionOnSet(f, S) = g[S]
  BY <1>1, SumIs DEF SameAmounts
<1>3. SumFunctionOnSet(e, S) = g[S]
  BY <1>1, SumIs DEF SameAmounts
<1> QED BY <1>2, <1>3

\* The sum is that without the element chosen first, and this one.
LEMMA SumUnfolds ==
    ASSUME NEW f, NEW S, IsFiniteSet(S), S # {}
    PROVE  SumFunctionOnSet(f, S) =
              f[Next1(S)] + SumFunctionOnSet(f, S \ {Next1(S)})
<1>1. PICK g : AreSums(g, f, S)
  BY SumsExist
<1>2. SumFunctionOnSet(f, S) = g[S]
  BY <1>1, SumIs DEF SameAmounts
<1>3. PICK R : R = S \ {Next1(S)}
  OBVIOUS
<1>4. R \subseteq S
  BY <1>3
<1>5. SumFunctionOnSet(f, R) = g[R]
  BY <1>1, <1>4, SumIs DEF SameAmounts
<1> QED BY <1>1, <1>2, <1>3, <1>5 DEF AreSums, SumStep

\* A sum of integers is an integer.
LEMMA SumIsInt ==
    ASSUME NEW f, NEW S, IsFiniteSet(S), \A x \in S : f[x] \in Int
    PROVE  SumFunctionOnSet(f, S) \in Int
<1> DEFINE D == {s \in SUBSET S : SumFunctionOnSet(f, s) \notin Int}
<1>1. SUFFICES ASSUME D # {} PROVE FALSE
  OBVIOUS
<1>f. \A s \in D : IsFiniteSet(s)
  BY FS_Subset
<1>2. PICK s \in D : \A t \in D : Cardinality(s) <= Cardinality(t)
  <2> HIDE DEF D
  <2> QED BY <1>1, <1>f, LeastSet
<1>3. s \in SUBSET S /\ SumFunctionOnSet(f, s) \notin Int /\ IsFiniteSet(s)
  BY <1>f
<1>4. s # {}
  BY <1>3, SumOfNone
<1>5. PICK x : x = Next1(s)
  OBVIOUS
<1>6. x \in s
  BY <1>4, <1>5, Next1In
<1>7. SumFunctionOnSet(f, s) = f[x] + SumFunctionOnSet(f, s \ {x})
  BY <1>3, <1>4, <1>5, SumUnfolds
<1>8. s \ {x} \notin D
  <2>1. /\ Cardinality(s) \in Nat
        /\ Cardinality(s \ {x}) = Cardinality(s) - 1
    BY <1>3, <1>6, Smaller
  <2>2. ~(Cardinality(s) <= Cardinality(s \ {x}))
    BY <2>1
  <2> QED BY <1>2, <2>2
<1>9. SumFunctionOnSet(f, s \ {x}) \in Int
  BY <1>3, <1>8
<1> QED BY <1>3, <1>6, <1>7, <1>9

\* Any element can be taken out of a sum.
LEMMA SumWithout ==
    ASSUME NEW f, NEW S, IsFiniteSet(S), \A x \in S : f[x] \in Int, NEW z \in S
    PROVE  SumFunctionOnSet(f, S) = f[z] + SumFunctionOnSet(f, S \ {z})
<1> DEFINE Right(s, x) ==
              SumFunctionOnSet(f, s) = f[x] + SumFunctionOnSet(f, s \ {x})
           D == {s \in SUBSET S : \E x \in s : ~Right(s, x)}
<1>1. SUFFICES ASSUME D # {} PROVE FALSE
  OBVIOUS
<1>f. \A s \in D : IsFiniteSet(s)
  BY FS_Subset
<1>2. PICK s \in D : \A t \in D : Cardinality(s) <= Cardinality(t)
  <2> HIDE DEF D
  <2> QED BY <1>1, <1>f, LeastSet
<1>3. s \in SUBSET S /\ IsFiniteSet(s) /\ s # {}
  BY <1>f
<1>4. PICK x \in s : ~Right(s, x)
  OBVIOUS
<1>5. PICK y : y = Next1(s)
  OBVIOUS
<1>6. y \in s
  BY <1>3, <1>5, Next1In
<1>7. Right(s, y)
  BY <1>3, <1>5, SumUnfolds
<1>8. x # y
  BY <1>4, <1>7
<1>9. \A w \in s : s \ {w} \in SUBSET S /\ s \ {w} \notin D
  <2> SUFFICES ASSUME NEW w \in s
               PROVE  s \ {w} \in SUBSET S /\ s \ {w} \notin D
    OBVIOUS
  <2>1. /\ Cardinality(s) \in Nat
        /\ Cardinality(s \ {w}) = Cardinality(s) - 1
    BY <1>3, Smaller
  <2>2. ~(Cardinality(s) <= Cardinality(s \ {w}))
    BY <2>1
  <2> QED BY <1>2, <1>3, <2>2
<1>10. Right(s \ {y}, x) /\ Right(s \ {x}, y)
  BY <1>4, <1>6, <1>8, <1>9
<1>11. PICK r : r = (s \ {y}) \ {x}
  OBVIOUS
<1>12. r = (s \ {x}) \ {y}
  BY <1>11
<1>13. f[x] \in Int /\ f[y] \in Int
  BY <1>3, <1>4, <1>6
<1>14. SumFunctionOnSet(f, r) \in Int
  <2>1. r \in SUBSET S /\ IsFiniteSet(r)
    BY <1>3, <1>11, FS_Subset
  <2> QED BY <2>1, SumIsInt
<1>15. /\ SumFunctionOnSet(f, s) = f[y] + SumFunctionOnSet(f, s \ {y})
       /\ SumFunctionOnSet(f, s \ {y}) = f[x] + SumFunctionOnSet(f, r)
       /\ SumFunctionOnSet(f, s \ {x}) = f[y] + SumFunctionOnSet(f, r)
  BY <1>7, <1>10, <1>11, <1>12
<1>16. SumFunctionOnSet(f, s) = f[x] + SumFunctionOnSet(f, s \ {x})
  <2> HIDE DEF Right, D
  <2> QED BY <1>13, <1>14, <1>15
<1> QED BY <1>4, <1>16

\* e is the map f of integers with one more key, z.
OneMoreKey(f, e, z) ==
    /\ IsFiniteSet(DOMAIN f) /\ \A x \in DOMAIN f : f[x] \in Int
    /\ z \notin DOMAIN f /\ DOMAIN e = DOMAIN f \cup {z} /\ e[z] \in Int
    /\ \A x \in DOMAIN f : e[x] = f[x]

\* It adds up to that much more.
LEMMA SumOfOneMoreKey ==
    ASSUME NEW f, NEW e, NEW z, OneMoreKey(f, e, z)
    PROVE  /\ SumFunction(f) \in Int
           /\ SumFunction(e) = SumFunction(f) + e[z]
<1> USE DEF OneMoreKey
<1>1. PICK S : S = DOMAIN f
  OBVIOUS
<1>2. PICK R : R = DOMAIN e
  OBVIOUS
<1>3. IsFiniteSet(R) /\ \A x \in R : e[x] \in Int
  BY <1>1, <1>2, FS_AddElement
<1>4. z \in R /\ R \ {z} = S
  BY <1>1, <1>2
<1>5. SumFunctionOnSet(e, R) = e[z] + SumFunctionOnSet(e, S)
  BY <1>3, <1>4, SumWithout
<1>6. SumFunctionOnSet(e, S) = SumFunctionOnSet(f, S)
  BY <1>1, SumOfSame
<1>7. SumFunctionOnSet(f, S) \in Int
  BY <1>1, SumIsInt
<1> QED BY <1>1, <1>2, <1>5, <1>6, <1>7 DEF SumFunction

\* A map with no keys adds up to zero.
LEMMA SumOfNoKeys ==
    ASSUME NEW f, DOMAIN f = {}
    PROVE  SumFunction(f) = 0
  BY SumOfNone DEF SumFunction

\* The elements of S that f sends to i, and to some element of J.
Fibre(S, f, i) == {x \in S : f[x] = i}

SentTo(S, f, J) == {x \in S : f[x] \in J}

\* How many there are for each i.
FibreSizes(S, f, J) == [i \in J |-> Cardinality(Fibre(S, f, i))]

\* One more place to send them to.
LEMMA OneMoreFibre ==
    ASSUME NEW S, IsFiniteSet(S), NEW f, NEW J, NEW z \in J
    PROVE  Cardinality(SentTo(S, f, J))
               = Cardinality(SentTo(S, f, J \ {z})) + Cardinality(Fibre(S, f, z))
<1>1. PICK A, B : A = SentTo(S, f, J \ {z}) /\ B = Fibre(S, f, z)
  OBVIOUS
<1>2. A \subseteq S /\ B \subseteq S /\ A \cap B = {} /\ A \cup B = SentTo(S, f, J)
  BY <1>1 DEF SentTo, Fibre
<1>3. IsFiniteSet(A) /\ IsFiniteSet(B)
  BY <1>2, FS_Subset
<1>4. Cardinality(A \cup B)
        = Cardinality(A) + Cardinality(B) - Cardinality(A \cap B)
  BY <1>3, FS_Union
<1>5. Cardinality(A \cap B) = 0
  BY <1>2, FS_EmptySet
<1>6. Cardinality(A) \in Nat /\ Cardinality(B) \in Nat
  BY <1>3, FS_CardinalityType
<1>7. Cardinality(A \cup B) = Cardinality(A) + Cardinality(B)
  <2>1. PICK a, b, c, d : /\ a = Cardinality(A) /\ b = Cardinality(B)
                          /\ c = Cardinality(A \cap B)
                          /\ d = Cardinality(A \cup B)
    OBVIOUS
  <2>2. a \in Nat /\ b \in Nat /\ c = 0 /\ d = a + b - c
    BY <1>4, <1>5, <1>6, <2>1
  <2>3. d = a + b
    BY <2>2
  <2> QED BY <2>1, <2>3
<1> QED BY <1>1, <1>2, <1>7

\* A finite set has as many elements as there are, added up, at the places a
\* function sends them to.
LEMMA SumOfFibres ==
    ASSUME NEW S, IsFiniteSet(S), NEW f, NEW I, IsFiniteSet(I)
    PROVE  Cardinality(SentTo(S, f, I)) = SumFunction(FibreSizes(S, f, I))
<1> DEFINE D == {J \in SUBSET I : Cardinality(SentTo(S, f, J))
                                    # SumFunction(FibreSizes(S, f, J))}
<1>1. SUFFICES ASSUME D # {} PROVE FALSE
  OBVIOUS
<1>2. \A J \in SUBSET I : IsFiniteSet(J)
  BY FS_Subset
<1>3. PICK J \in D : \A K \in D : Cardinality(J) <= Cardinality(K)
  <2>1. \A K \in D : IsFiniteSet(K)
    BY <1>2
  <2> HIDE DEF D
  <2> QED BY <1>1, <2>1, LeastSet
<1>4. /\ J \in SUBSET I
      /\ Cardinality(SentTo(S, f, J)) # SumFunction(FibreSizes(S, f, J))
  OBVIOUS
<1>5. J # {}
  <2>1. ASSUME J = {} PROVE FALSE
    <3>1. SentTo(S, f, J) = {} /\ DOMAIN FibreSizes(S, f, J) = {}
      BY <2>1 DEF SentTo, FibreSizes
    <3>2. Cardinality(SentTo(S, f, J)) = 0
      BY <3>1, FS_EmptySet
    <3>3. PICK g : g = FibreSizes(S, f, J)
      OBVIOUS
    <3>4. SumFunction(g) = 0
      BY <3>1, <3>3, SumOfNoKeys
    <3> QED BY <1>4, <3>2, <3>3, <3>4
  <2> QED BY <2>1
<1>6. PICK z : z \in J
  BY <1>5
<1>7. PICK K : K = J \ {z}
  OBVIOUS
<1>8. /\ K \in SUBSET I /\ IsFiniteSet(K) /\ IsFiniteSet(J)
      /\ Cardinality(K) = Cardinality(J) - 1 /\ Cardinality(J) \in Nat
  BY <1>2, <1>4, <1>6, <1>7, FS_RemoveElement, FS_CardinalityType
<1>9. Cardinality(SentTo(S, f, K)) = SumFunction(FibreSizes(S, f, K))
  <2>1. ~(Cardinality(J) <= Cardinality(K))
    BY <1>8
  <2>2. K \notin D
    BY <1>3, <2>1
  <2> QED BY <1>8, <2>2
<1>10. PICK g, h : g = FibreSizes(S, f, K) /\ h = FibreSizes(S, f, J)
  OBVIOUS
<1>11. \A i : Cardinality(Fibre(S, f, i)) \in Nat
  <2>1. ASSUME NEW i PROVE Cardinality(Fibre(S, f, i)) \in Nat
    <3>1. Fibre(S, f, i) \subseteq S
      BY DEF Fibre
    <3> QED BY <3>1, FS_Subset, FS_CardinalityType
  <2> QED BY <2>1
<1>12. OneMoreKey(g, h, z)
  BY <1>6, <1>7, <1>8, <1>10, <1>11 DEF OneMoreKey, FibreSizes
<1>13. SumFunction(h) = SumFunction(g) + h[z]
  BY <1>12, SumOfOneMoreKey
<1>14. h[z] = Cardinality(Fibre(S, f, z))
  BY <1>6, <1>10 DEF FibreSizes
<1>15. Cardinality(SentTo(S, f, J))
         = Cardinality(SentTo(S, f, K)) + Cardinality(Fibre(S, f, z))
  BY <1>6, <1>7, OneMoreFibre
<1> QED BY <1>4, <1>9, <1>10, <1>13, <1>14, <1>15
=============================================================================
