------------------------------ MODULE SumTheorems ------------------------------
(***************************************************************************)
(* What the sums of the community modules, which are folds in an order     *)
(* that CHOOSE picks, are worth: they do not depend on the order, change   *)
(* with one summand by what that changes, and may be taken by groups.      *)
(*                                                                         *)
(* The inductions are over sets: a set of numbers that has 0 and with each *)
(* number the next has them all, by the well-foundedness of < on Nat.      *)
(***************************************************************************)
EXTENDS Integers, FiniteSets, Functions, FiniteSetTheorems, WellFoundedInduction, TLAPS

-----------------------------------------------------------------------------
(* Induction. *)

\* A set with 0 and, with each number in it, the next one has all natural numbers.
LEMMA SetInduction ==
  ASSUME NEW P, 0 \in P, \A n \in Nat : n \in P => n + 1 \in P
  PROVE  Nat \subseteq P
<1> DEFINE T == {n \in Nat : n \notin P}
<1>1. SUFFICES ASSUME T # {} PROVE FALSE
  OBVIOUS
<1>2. IsWellFoundedOn({ss \in Nat \X Nat : ss[1] < ss[2]}, Nat)
  BY NatLessThanWellFounded DEF OpToRel
<1>3. PICK R : R = {ss \in Nat \X Nat : ss[1] < ss[2]}
  OBVIOUS
<1>4. PICK n \in T : \A m \in T : <<m, n>> \notin R
  BY <1>1, <1>2, <1>3, WFMin
<1>5. \A m \in T : ~(m < n)
  BY <1>3, <1>4
<1>6. n - 1 \in Nat /\ n - 1 \notin T
  BY <1>5
<1>7. QED
  BY <1>6

\* A set of subsets of a finite set that has the empty one, and every other one if it has
\* those with one element less, has all subsets.
LEMMA SubsetInduction ==
  ASSUME NEW S, IsFiniteSet(S), NEW P, {} \in P,
         \A s \in SUBSET S : s # {} /\ (\A x \in s : s \ {x} \in P) => s \in P
  PROVE  SUBSET S \subseteq P
<1> DEFINE Q == {n \in Nat : \A s \in SUBSET S : Cardinality(s) = n => s \in P}
<1>1. \A s \in SUBSET S : IsFiniteSet(s) /\ Cardinality(s) \in Nat
  BY FS_Subset, FS_CardinalityType
<1>2. 0 \in Q
  BY <1>1, FS_EmptySet
<1>3. ASSUME NEW n \in Nat, n \in Q PROVE n + 1 \in Q
  <2>1. SUFFICES ASSUME NEW s \in SUBSET S, Cardinality(s) = n + 1 PROVE s \in P
    OBVIOUS
  <2>2. s # {}
    BY <2>1, FS_EmptySet
  <2>3. ASSUME NEW x \in s PROVE s \ {x} \in P
    <3>1. Cardinality(s \ {x}) = n
      BY <1>1, <2>1, FS_RemoveElement
    <3>2. QED
      BY <1>3, <3>1
  <2>4. QED
    BY <2>2, <2>3
<1> HIDE DEF Q
<1>4. Nat \subseteq Q
  BY <1>2, <1>3, SetInduction
<1>5. QED
  BY <1>1, <1>4 DEF Q

-----------------------------------------------------------------------------
(* The iteration that a sum is. *)

First(s) == CHOOSE x \in s : TRUE

\* The sums of w over the subsets of S.
Iterates(g, w, S) ==
  g = [s \in SUBSET S |-> IF s = {} THEN 0 ELSE w[First(s)] + g[s \ {First(s)}]]

\* A set with an element has a first one.
LEMMA FirstIn == \A s : s # {} => First(s) \in s
BY DEF First

\* The iteration over a finite set exists: up to n elements for every n.
LEMMA IterationExists ==
  ASSUME NEW S, IsFiniteSet(S), NEW w
  PROVE  \E g : Iterates(g, w, S)
<1> DEFINE Up(n) == {s \in SUBSET S : Cardinality(s) <= n}
           P == {n \in Nat : \E g : g = [s \in Up(n) |->
                   IF s = {} THEN 0 ELSE w[First(s)] + g[s \ {First(s)}]]}
<1>1. \A s \in SUBSET S : IsFiniteSet(s) /\ Cardinality(s) \in Nat
  BY FS_Subset, FS_CardinalityType
<1>2. 0 \in P
  <2>1. \A s \in Up(0) : s = {}
    BY <1>1, FS_EmptySet
  <2> HIDE DEF Up
  <2> DEFINE g == [s \in Up(0) |-> 0]
  <2>2. g = [s \in Up(0) |-> IF s = {} THEN 0 ELSE w[First(s)] + g[s \ {First(s)}]]
    BY <2>1
  <2>3. QED
    BY <2>2
<1>3. ASSUME NEW n \in Nat, n \in P PROVE n + 1 \in P
  <2>1. PICK g : g = [s \in Up(n) |-> IF s = {} THEN 0 ELSE w[First(s)] + g[s \ {First(s)}]]
    BY <1>3
  <2>2. \A s \in Up(n) : s \in Up(n + 1)
    BY <1>1
  <2>3. ASSUME NEW s \in Up(n + 1), s # {} PROVE s \ {First(s)} \in Up(n)
    <3>1. First(s) \in s
      BY <2>3, FirstIn
    <3>2. Cardinality(s \ {First(s)}) = Cardinality(s) - 1
      BY <1>1, <3>1, FS_RemoveElement
    <3>3. QED
      BY <1>1, <2>3, <3>2
  <2>4. {} \in Up(n)
    BY FS_EmptySet
  <2>5. n + 1 \in Nat
    OBVIOUS
  <2> DEFINE h == [s \in Up(n + 1) |->
                     IF s \in Up(n) THEN g[s] ELSE w[First(s)] + g[s \ {First(s)}]]
  <2> HIDE DEF Up
  <2>6. ASSUME NEW s \in Up(n + 1)
        PROVE  h[s] = IF s = {} THEN 0 ELSE w[First(s)] + h[s \ {First(s)}]
    <3>1. CASE s = {}
      BY <2>1, <2>2, <2>4, <3>1
    <3>2. CASE s # {}
      <4>1. s \ {First(s)} \in Up(n) /\ s \ {First(s)} \in Up(n + 1)
        BY <2>2, <2>3, <2>6, <3>2
      <4>2. h[s \ {First(s)}] = g[s \ {First(s)}]
        BY <4>1
      <4>3. h[s] = w[First(s)] + g[s \ {First(s)}]
        BY <2>1, <2>6, <3>2
      <4>4. QED
        BY <3>2, <4>2, <4>3
    <3>3. QED
      BY <3>1, <3>2
  <2>7. h = [s \in Up(n + 1) |-> h[s]]
    OBVIOUS
  <2> HIDE DEF h
  <2>8. h = [s \in Up(n + 1) |-> IF s = {} THEN 0 ELSE w[First(s)] + h[s \ {First(s)}]]
    BY <2>6, <2>7
  <2>9. QED
    BY <2>5, <2>8
<1>4. Nat \subseteq P
  <2> HIDE DEF P
  <2>1. QED
    BY <1>2, <1>3, SetInduction
<1>5. Cardinality(S) \in P
  BY <1>1, <1>4
<1>6. Up(Cardinality(S)) = SUBSET S
  BY <1>1, FS_Subset
<1>7. QED
  BY <1>5, <1>6 DEF Iterates

\* A sum is the last value of the iteration.
LEMMA SumIterates ==
  ASSUME NEW S, IsFiniteSet(S), NEW w
  PROVE  \E g : Iterates(g, w, S) /\ SumFunctionOnSet(w, S) = g[S]
<1>1. SumFunctionOnSet(w, S) = (CHOOSE g : Iterates(g, w, S))[S]
  BY DEF SumFunctionOnSet, FoldFunctionOnSet, MapThenFoldSet, Iterates, First
<1>2. QED
  BY <1>1, IterationExists

\* What one step of the iteration adds.
LEMMA IterationStep ==
  ASSUME NEW S, NEW w, NEW g, Iterates(g, w, S)
  PROVE  /\ g[{}] = 0
         /\ \A s \in SUBSET S : s # {} => g[s] = w[First(s)] + g[s \ {First(s)}]
<1>1. \A s \in SUBSET S : g[s] = IF s = {} THEN 0 ELSE w[First(s)] + g[s \ {First(s)}]
  BY DEF Iterates
<1>2. QED
  BY <1>1

\* Two iterations agree on a set on which their summands do.
LEMMA IterationsAgree ==
  ASSUME NEW S, NEW T, NEW w, NEW v, NEW g, NEW h, Iterates(g, w, S), Iterates(h, v, T),
         NEW U, IsFiniteSet(U), U \subseteq S, U \subseteq T, \A x \in U : w[x] = v[x]
  PROVE  g[U] = h[U]
<1> DEFINE P == {s \in SUBSET U : g[s] = h[s]}
<1>1. g[{}] = 0 /\ \A s \in SUBSET S : s # {} => g[s] = w[First(s)] + g[s \ {First(s)}]
  BY IterationStep
<1>2. h[{}] = 0 /\ \A s \in SUBSET T : s # {} => h[s] = v[First(s)] + h[s \ {First(s)}]
  BY IterationStep
<1>3. {} \in P
  BY <1>1, <1>2
<1>4. ASSUME NEW s \in SUBSET U, s # {}, \A x \in s : s \ {x} \in P PROVE s \in P
  <2>1. First(s) \in s
    BY <1>4, FirstIn
  <2>2. g[s] = w[First(s)] + g[s \ {First(s)}] /\ h[s] = v[First(s)] + h[s \ {First(s)}]
    BY <1>4, <1>1, <1>2
  <2>3. g[s \ {First(s)}] = h[s \ {First(s)}] /\ w[First(s)] = v[First(s)]
    BY <1>4, <2>1
  <2>4. QED
    BY <2>2, <2>3
<1> HIDE DEF P
<1>5. SUBSET U \subseteq P
  BY <1>3, <1>4, SubsetInduction
<1>6. QED
  BY <1>5 DEF P

-----------------------------------------------------------------------------
(* Sums. *)

\* Nothing adds up to 0.
LEMMA SumNothing == \A w : SumFunctionOnSet(w, {}) = 0
<1>1. SUFFICES ASSUME NEW w PROVE SumFunctionOnSet(w, {}) = 0
  OBVIOUS
<1>2. PICK g : Iterates(g, w, {}) /\ SumFunctionOnSet(w, {}) = g[{}]
  BY FS_EmptySet, SumIterates
<1>3. QED
  BY <1>2, IterationStep

\* Sums of the same summands are the same.
LEMMA SumSame ==
  ASSUME NEW S, IsFiniteSet(S), NEW w, NEW v, \A x \in S : w[x] = v[x]
  PROVE  SumFunctionOnSet(w, S) = SumFunctionOnSet(v, S)
<1>1. PICK g : Iterates(g, w, S) /\ SumFunctionOnSet(w, S) = g[S]
  BY SumIterates
<1>2. PICK h : Iterates(h, v, S) /\ SumFunctionOnSet(v, S) = h[S]
  BY SumIterates
<1>3. g[S] = h[S]
  BY <1>1, <1>2, IterationsAgree
<1>4. QED
  BY <1>1, <1>2, <1>3

\* Every value of an iteration over integers is one, and is natural over naturals.
LEMMA IterationType ==
  ASSUME NEW S, IsFiniteSet(S), NEW w, NEW g, Iterates(g, w, S), NEW N,
         N = Int \/ N = Nat, \A x \in S : w[x] \in N
  PROVE  \A s \in SUBSET S : g[s] \in N
<1> DEFINE P == {s \in SUBSET S : g[s] \in N}
<1>1. g[{}] = 0 /\ \A s \in SUBSET S : s # {} => g[s] = w[First(s)] + g[s \ {First(s)}]
  BY IterationStep
<1>2. {} \in P
  BY <1>1
<1>3. ASSUME NEW s \in SUBSET S, s # {}, \A x \in s : s \ {x} \in P PROVE s \in P
  <2>1. First(s) \in s
    BY <1>3, FirstIn
  <2>2. g[s] = w[First(s)] + g[s \ {First(s)}]
    BY <1>1, <1>3
  <2>3. w[First(s)] \in N /\ g[s \ {First(s)}] \in N
    BY <1>3, <2>1
  <2>4. QED
    BY <2>2, <2>3
<1> HIDE DEF P
<1>4. SUBSET S \subseteq P
  BY <1>2, <1>3, SubsetInduction
<1>5. QED
  BY <1>4 DEF P

\* The sum of integers is one, and of natural numbers is natural.
LEMMA SumType ==
  ASSUME NEW S, IsFiniteSet(S), NEW w
  PROVE  /\ (\A x \in S : w[x] \in Int) => SumFunctionOnSet(w, S) \in Int
         /\ (\A x \in S : w[x] \in Nat) => SumFunctionOnSet(w, S) \in Nat
<1>1. PICK g : Iterates(g, w, S) /\ SumFunctionOnSet(w, S) = g[S]
  BY SumIterates
<1>2. ASSUME NEW N, N = Int \/ N = Nat, \A x \in S : w[x] \in N
      PROVE  SumFunctionOnSet(w, S) \in N
  BY <1>1, <1>2, IterationType
<1>3. QED
  BY <1>2

\* The order does not matter: any element may be taken last.
LEMMA SumRemove ==
  ASSUME NEW S, IsFiniteSet(S), NEW w, \A y \in S : w[y] \in Int, NEW x \in S
  PROVE  SumFunctionOnSet(w, S) = SumFunctionOnSet(w, S \ {x}) + w[x]
<1>1. PICK g : Iterates(g, w, S) /\ SumFunctionOnSet(w, S) = g[S]
  BY SumIterates
<1>2. PICK h : Iterates(h, w, S \ {x}) /\ SumFunctionOnSet(w, S \ {x}) = h[S \ {x}]
  BY FS_RemoveElement, SumIterates
<1>3. g[S \ {x}] = h[S \ {x}]
  BY <1>1, <1>2, FS_RemoveElement, IterationsAgree
<1>4. \A s \in SUBSET S : g[s] \in Int
  BY <1>1, IterationType
<1>5. \A s \in SUBSET S : s # {} => g[s] = w[First(s)] + g[s \ {First(s)}]
  BY <1>1, IterationStep
<1> DEFINE P == {s \in SUBSET S : \A y \in s : g[s] = g[s \ {y}] + w[y]}
<1>6. {} \in P
  OBVIOUS
<1>7. ASSUME NEW s \in SUBSET S, s # {}, \A y \in s : s \ {y} \in P PROVE s \in P
  <2>1. SUFFICES ASSUME NEW y \in s PROVE g[s] = g[s \ {y}] + w[y]
    OBVIOUS
  <2>2. PICK p \in s : p = First(s)
    BY <1>7, FirstIn
  <2>3. g[s] = w[p] + g[s \ {p}] /\ w[p] \in Int /\ w[y] \in Int
    BY <1>5, <1>7, <2>2
  <2>4. CASE p = y
    BY <1>4, <2>3, <2>4
  <2>5. CASE p # y
    <3>1. s \ {p} \in P /\ y \in s \ {p} /\ s \ {y} \in P /\ p \in s \ {y}
      BY <1>7, <2>5
    <3>2. g[s \ {p}] = g[(s \ {p}) \ {y}] + w[y] /\ g[s \ {y}] = g[(s \ {y}) \ {p}] + w[p]
      BY <3>1
    <3>3. (s \ {p}) \ {y} = (s \ {y}) \ {p}
      OBVIOUS
    <3>4. PICK n \in Int : n = g[(s \ {p}) \ {y}]
      BY <1>4
    <3>5. g[s \ {p}] = n + w[y] /\ g[s \ {y}] = n + w[p]
      BY <3>2, <3>3, <3>4
    <3>6. QED
      BY <2>3, <3>5
  <2>6. QED
    BY <2>4, <2>5
<1> HIDE DEF P
<1>8. SUBSET S \subseteq P
  BY <1>6, <1>7, SubsetInduction
<1>9. g[S] = g[S \ {x}] + w[x]
  BY <1>8 DEF P
<1>10. QED
  BY <1>1, <1>2, <1>3, <1>9

\* One summand more.
LEMMA SumAdd ==
  ASSUME NEW S, IsFiniteSet(S), NEW x, x \notin S, NEW w, \A y \in S \cup {x} : w[y] \in Int
  PROVE  SumFunctionOnSet(w, S \cup {x}) = SumFunctionOnSet(w, S) + w[x]
<1>1. IsFiniteSet(S \cup {x}) /\ (S \cup {x}) \ {x} = S
  BY FS_AddElement
<1>2. QED
  BY <1>1, SumRemove

\* One summand changed.
LEMMA SumChange ==
  ASSUME NEW S, IsFiniteSet(S), NEW w, NEW v, NEW x \in S, NEW d \in Int,
         \A y \in S : w[y] \in Int, \A y \in S \ {x} : v[y] = w[y], v[x] = w[x] + d
  PROVE  SumFunctionOnSet(v, S) = SumFunctionOnSet(w, S) + d
<1>1. SumFunctionOnSet(v, S) = SumFunctionOnSet(v, S \ {x}) + v[x]
  <2>1. \A y \in S : v[y] \in Int
    OBVIOUS
  <2>2. QED
    BY <2>1, SumRemove
<1>2. SumFunctionOnSet(w, S) = SumFunctionOnSet(w, S \ {x}) + w[x]
  BY SumRemove
<1>3. IsFiniteSet(S \ {x})
  BY FS_RemoveElement
<1>4. SumFunctionOnSet(v, S \ {x}) = SumFunctionOnSet(w, S \ {x})
  BY <1>3, SumSame
<1>5. SumFunctionOnSet(w, S \ {x}) \in Int /\ w[x] \in Int
  BY <1>3, SumType
<1>6. QED
  BY <1>1, <1>2, <1>4, <1>5

\* One summand that grows, or is new.
LEMMA SumGrow ==
  ASSUME NEW S, IsFiniteSet(S), NEW w, NEW v, NEW k, NEW d \in Nat,
         \A x \in S : w[x] \in Int, \A x \in S \ {k} : v[x] = w[x],
         k \in S => v[k] = w[k] + d, k \notin S => v[k] = d
  PROVE  SumFunctionOnSet(v, S \cup {k}) = SumFunctionOnSet(w, S) + d
<1>1. CASE k \in S
  <2>1. v[k] = w[k] + d
    BY <1>1
  <2>2. SumFunctionOnSet(v, S) = SumFunctionOnSet(w, S) + d
    BY <1>1, <2>1, SumChange
  <2>3. S \cup {k} = S
    BY <1>1
  <2>4. QED
    BY <2>2, <2>3
<1>2. CASE k \notin S
  <2>1. v[k] = d /\ \A x \in S : v[x] = w[x]
    BY <1>2
  <2>2. \A x \in S \cup {k} : v[x] \in Int
    BY <2>1
  <2>3. SumFunctionOnSet(v, S \cup {k}) = SumFunctionOnSet(v, S) + v[k]
    BY <1>2, <2>2, SumAdd
  <2>4. SumFunctionOnSet(v, S) = SumFunctionOnSet(w, S)
    BY <2>1, SumSame
  <2>5. QED
    BY <2>1, <2>3, <2>4
<1>3. QED
  BY <1>1, <1>2

\* A list of summands with one more at its end.
LEMMA SumAppend ==
  ASSUME NEW n \in Nat, NEW w \in [1 .. n -> Int], NEW v \in [1 .. (n + 1) -> Int],
         \A i \in 1 .. n : v[i] = w[i]
  PROVE  SumFunction(v) = SumFunction(w) + v[n + 1]
<1>1. IsFiniteSet(1 .. n)
  BY FS_Interval
<1>2. PICK S : S = 1 .. n
  OBVIOUS
<1>3. 1 .. (n + 1) = S \cup {n + 1} /\ n + 1 \notin S
  BY <1>2
<1>4. SumFunctionOnSet(v, S \cup {n + 1}) = SumFunctionOnSet(w, S) + v[n + 1]
  <2>1. PICK k : k = n + 1
    OBVIOUS
  <2>2. \A x \in S \cup {k} : v[x] \in Int
    BY <1>3, <2>1
  <2>3. SumFunctionOnSet(v, S \cup {k}) = SumFunctionOnSet(v, S) + v[k]
    BY <1>1, <1>2, <1>3, <2>1, <2>2, SumAdd
  <2>4. SumFunctionOnSet(v, S) = SumFunctionOnSet(w, S)
    BY <1>1, <1>2, SumSame
  <2>5. QED
    BY <2>1, <2>3, <2>4
<1>5. SumFunction(v) = SumFunctionOnSet(v, 1 .. (n + 1)) /\ SumFunction(w) = SumFunctionOnSet(w, 1 .. n)
  BY DEF SumFunction
<1>6. QED
  BY <1>2, <1>3, <1>4, <1>5

\* The sum of zeros.
LEMMA SumZeros ==
  ASSUME NEW S, IsFiniteSet(S), NEW w, \A x \in S : w[x] = 0
  PROVE  SumFunctionOnSet(w, S) = 0
<1> DEFINE P == {s \in SUBSET S : SumFunctionOnSet(w, s) = 0}
<1>1. {} \in P
  BY SumNothing
<1>2. ASSUME NEW s \in SUBSET S, s # {}, \A x \in s : s \ {x} \in P PROVE s \in P
  <2>1. PICK x : x \in s
    BY <1>2
  <2>2. IsFiniteSet(s) /\ \A y \in s : w[y] \in Int
    BY FS_Subset
  <2>3. SumFunctionOnSet(w, s) = SumFunctionOnSet(w, s \ {x}) + w[x]
    BY <2>1, <2>2, SumRemove
  <2>4. SumFunctionOnSet(w, s \ {x}) = 0 /\ w[x] = 0
    BY <1>2, <2>1
  <2>5. QED
    BY <2>3, <2>4
<1> HIDE DEF P
<1>3. SUBSET S \subseteq P
  BY <1>1, <1>2, SubsetInduction
<1>4. QED
  BY <1>3 DEF P

\* Summands may be summed by groups first: those of group t, for every t.
LEMMA SumByGroups ==
  ASSUME NEW S, IsFiniteSet(S), NEW T, IsFiniteSet(T), NEW w, \A x \in S : w[x] \in Int,
         NEW c, \A x \in S : c[x] \in T
  PROVE  SumFunctionOnSet([t \in T |-> SumFunctionOnSet(w, {x \in S : c[x] = t})], T)
           = SumFunctionOnSet(w, S)
<1> DEFINE G(s, t) == {x \in s : c[x] = t}
           B(s) == [t \in T |-> SumFunctionOnSet(w, G(s, t))]
           P == {s \in SUBSET S : SumFunctionOnSet(B(s), T) = SumFunctionOnSet(w, s)}
<1>1. \A s \in SUBSET S : IsFiniteSet(s)
  BY FS_Subset
<1>2. \A s \in SUBSET S : \A t \in T : B(s)[t] \in Int
  <2>1. ASSUME NEW s \in SUBSET S, NEW t \in T PROVE SumFunctionOnSet(w, G(s, t)) \in Int
    <3>1. IsFiniteSet(G(s, t)) /\ \A x \in G(s, t) : w[x] \in Int
      BY <1>1
    <3> HIDE DEF G
    <3>2. QED
      BY <3>1, SumType
  <2>2. QED
    BY <2>1
<1>3. {} \in P
  <2>1. \A t \in T : G({}, t) = {}
    OBVIOUS
  <2> HIDE DEF G
  <2>2. \A t \in T : B({})[t] = 0
    BY <2>1, SumNothing
  <2> HIDE DEF B
  <2>3. SumFunctionOnSet(B({}), T) = 0
    BY <2>2, SumZeros
  <2>4. QED
    BY <2>3, SumNothing
<1>4. ASSUME NEW s \in SUBSET S, s # {}, \A x \in s : s \ {x} \in P PROVE s \in P
  <2>1. PICK x : x \in s
    BY <1>4
  <2>2. PICK u \in SUBSET S : u = s \ {x}
    OBVIOUS
  <2>3. SumFunctionOnSet(B(u), T) = SumFunctionOnSet(w, u)
    BY <1>4, <2>1, <2>2
  <2>4. PICK k \in T : k = c[x]
    BY <2>1
  <2>5. /\ x \in G(s, k) /\ G(u, k) = G(s, k) \ {x}
        /\ \A t \in T \ {k} : G(u, t) = G(s, t)
        /\ IsFiniteSet(G(s, k)) /\ \A y \in G(s, k) : w[y] \in Int
    BY <1>1, <2>1, <2>2, <2>4
  <2> HIDE DEF G
  <2>6. SumFunctionOnSet(w, G(s, k)) = SumFunctionOnSet(w, G(u, k)) + w[x]
    BY <2>5, SumRemove
  <2>7. /\ B(s)[k] = B(u)[k] + w[x]
        /\ \A t \in T \ {k} : B(s)[t] = B(u)[t]
    BY <2>5, <2>6
  <2>8. w[x] \in Int /\ B(u)[k] \in Int
    BY <1>2, <2>1
  <2> HIDE DEF B
  <2>9. SumFunctionOnSet(B(s), T) = SumFunctionOnSet(B(u), T) + w[x]
    BY <1>2, <2>7, <2>8, SumChange
  <2>10. SumFunctionOnSet(w, s) = SumFunctionOnSet(w, u) + w[x]
    BY <1>1, <2>1, <2>2, SumRemove
  <2>11. QED
    BY <2>3, <2>9, <2>10
<1> HIDE DEF P
<1>5. SUBSET S \subseteq P
  BY <1>3, <1>4, SubsetInduction
<1>6. QED
  BY <1>5 DEF P
=============================================================================
