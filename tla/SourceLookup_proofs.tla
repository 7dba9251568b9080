------------------------- MODULE SourceLookup_proofs -------------------------
(***************************************************************************)
(* Theorems of module SourceLookup, for any executables, any number of     *)
(* reports and any address.                                                *)
(*                                                                         *)
(* A red-black tree is described here by what the code does not keep: u    *)
(* has for each node the nodes of its subtree, h the number of black nodes *)
(* on every way down from it, and R the order of the nodes.  Tree, Sorted  *)
(* and Heights say that u, R and h agree with the pointers and colours; a  *)
(* rotation changes u and h at two nodes and R nowhere.  Induction is over *)
(* the size of the subtrees, and the loops of the code, functions that     *)
(* call themselves in the model, are shown to exist along the same size.   *)
(*                                                                         *)
(* The loop of AddrRangeMap_Add keeps Balancing: a tree with levels whose  *)
(* only red node below a red one may be the current node, which is higher  *)
(* after every pass.  Good is what holds between two calls.                *)
(***************************************************************************)
EXTENDS SourceLookup, Sequences, SumTheorems, TLAPS

-----------------------------------------------------------------------------
(* Loops: functions that call themselves. *)

\* What a loop finds that goes from x to next[x] until it stops.
Goes(f, N, stop, next, last) == f = [x \in N |-> IF x \in stop THEN last[x] ELSE f[next[x]]]

\* A loop that comes closer to its end with every pass has a result.
LEMMA LoopExists ==
  ASSUME NEW N, NEW stop, NEW next, NEW last, NEW rank, NEW K \in Nat,
         \A x \in N : rank[x] \in 0 .. K,
         \A x \in N : x \notin stop => next[x] \in N /\ rank[next[x]] < rank[x]
  PROVE  \E f : Goes(f, N, stop, next, last)
<1> DEFINE Up(n) == {x \in N : rank[x] < n}
           P == {n \in Nat : \E f : Goes(f, Up(n), stop, next, last)}
<1>1. 0 \in P
  <2>1. \A x : x \notin Up(0)
    OBVIOUS
  <2> HIDE DEF Up
  <2> DEFINE f == [x \in Up(0) |-> 0]
  <2>2. Goes(f, Up(0), stop, next, last)
    BY <2>1 DEF Goes
  <2>3. QED
    BY <2>2
<1>2. ASSUME NEW n \in Nat, n \in P PROVE n + 1 \in P
  <2>1. PICK f : f = [x \in Up(n) |-> IF x \in stop THEN last[x] ELSE f[next[x]]]
    BY <1>2 DEF Goes
  <2>2. \A x \in Up(n) : x \in Up(n + 1)
    OBVIOUS
  <2>3. \A x \in Up(n + 1) : x \notin stop => next[x] \in Up(n)
    OBVIOUS
  <2>4. \A x \in Up(n) : x \notin stop => next[x] \in Up(n)
    OBVIOUS
  <2>5. n + 1 \in Nat
    OBVIOUS
  <2> HIDE DEF Up
  <2> DEFINE g == [x \in Up(n + 1) |-> IF x \in stop THEN last[x] ELSE f[next[x]]]
  <2>6. ASSUME NEW x \in Up(n) PROVE g[x] = f[x]
    BY <2>1, <2>2
  <2>7. ASSUME NEW x \in Up(n + 1)
        PROVE  g[x] = IF x \in stop THEN last[x] ELSE g[next[x]]
    <3>1. CASE x \in stop
      BY <3>1
    <3>2. CASE x \notin stop
      <4>1. g[next[x]] = f[next[x]]
        BY <2>3, <2>6, <3>2
      <4>2. g[x] = f[next[x]]
        BY <3>2
      <4>3. QED
        BY <3>2, <4>1, <4>2
    <3>3. QED
      BY <3>1, <3>2
  <2>8. g = [x \in Up(n + 1) |-> g[x]]
    OBVIOUS
  <2> HIDE DEF g
  <2>9. g = [x \in Up(n + 1) |-> IF x \in stop THEN last[x] ELSE g[next[x]]]
    BY <2>7, <2>8
  <2>10. QED
    BY <2>5, <2>9 DEF Goes
<1>3. Nat \subseteq P
  <2> HIDE DEF P
  <2>1. QED
    BY <1>1, <1>2, SetInduction
<1>4. Up(K + 1) = N
  OBVIOUS
<1>5. K + 1 \in P
  BY <1>3
<1> HIDE DEF Up
<1>6. QED
  BY <1>4, <1>5

\* The passes of the loop that balances a tree.
Passes(f, K, start) == f = [k \in 0 .. K |-> IF k = 0 THEN start ELSE Rebalance(f[k - 1])]

\* The loop that balances a tree can be run for any number of passes.
LEMMA PassesExist ==
  ASSUME NEW K \in Nat, NEW start
  PROVE  \E f : Passes(f, K, start)
<1> DEFINE P == {n \in Nat : \E f : Passes(f, n, start)}
<1>1. 0 \in P
  <2> DEFINE f == [k \in 0 .. 0 |-> start]
  <2>1. f = [k \in 0 .. 0 |-> IF k = 0 THEN start ELSE Rebalance(f[k - 1])]
    OBVIOUS
  <2>2. QED
    BY <2>1 DEF Passes
<1>2. ASSUME NEW n \in Nat, n \in P PROVE n + 1 \in P
  <2>1. PICK f : f = [k \in 0 .. n |-> IF k = 0 THEN start ELSE Rebalance(f[k - 1])]
    BY <1>2 DEF Passes
  <2> DEFINE g == [k \in 0 .. n + 1 |-> IF k <= n THEN f[k] ELSE Rebalance(f[n])]
  <2>2. ASSUME NEW k \in 0 .. n + 1
        PROVE  g[k] = IF k = 0 THEN start ELSE Rebalance(g[k - 1])
    <3>1. CASE k = 0
      BY <2>1, <3>1
    <3>2. CASE k # 0 /\ k <= n
      <4>1. k - 1 \in 0 .. n + 1 /\ k - 1 <= n /\ k \in 0 .. n
        BY <3>2
      <4>2. g[k] = f[k] /\ g[k - 1] = f[k - 1]
        BY <3>2, <4>1
      <4>3. f[k] = Rebalance(f[k - 1])
        BY <2>1, <3>2, <4>1
      <4>4. QED
        BY <3>2, <4>2, <4>3
    <3>3. CASE k = n + 1
      <4>1. k - 1 = n /\ n \in 0 .. n + 1 /\ ~(k <= n)
        BY <3>3
      <4>2. g[k] = Rebalance(f[n]) /\ g[k - 1] = f[n]
        BY <4>1
      <4>3. QED
        BY <3>3, <4>2
    <3>4. QED
      BY <3>1, <3>2, <3>3
  <2>3. g = [k \in 0 .. n + 1 |-> g[k]]
    OBVIOUS
  <2> HIDE DEF g
  <2>4. g = [k \in 0 .. n + 1 |-> IF k = 0 THEN start ELSE Rebalance(g[k - 1])]
    BY <2>2, <2>3
  <2>5. n + 1 \in Nat
    OBVIOUS
  <2>6. QED
    BY <2>4, <2>5 DEF Passes
<1>3. Nat \subseteq P
  <2> HIDE DEF P
  <2>1. QED
    BY <1>1, <1>2, SetInduction
<1>4. QED
  BY <1>3

-----------------------------------------------------------------------------
(* A tree. *)

Color(map, x)    == map.node[x].color
Low(map, x)      == map.node[x].lowAddr
High(map, x)     == map.node[x].highAddr

Fields(N) == [color : {"red", "black"}, lowAddr : Addr, highAddr : Addr,
              parent : N \cup {Null}, child : [Side -> N \cup {Null}]]
Maps(N)   == [root : N \cup {Null}, node : [N -> Fields(N)]]

\* Parents and children of x agree.
Linked(map, x) ==
  /\ \A s \in Side : Child(map, x, s) # Null => Parent(map, Child(map, x, s)) = x
  /\ Parent(map, x) = Null <=> x = map.root
  /\ Parent(map, x) # Null => \E s \in Side : Child(map, Parent(map, x), s) = x

\* u has for each node the nodes of its subtree.
Under(u, c) == IF c = Null THEN {} ELSE u[c]
Spans(map, u, x) ==
  LET a == Under(u, Child(map, x, "left"))
      b == Under(u, Child(map, x, "right"))
  IN u[x] = {x} \cup a \cup b /\ x \notin a /\ x \notin b /\ a \cap b = {}

Tree(N, map, u) ==
  /\ IsFiniteSet(N) /\ Null \notin N
  /\ map \in Maps(N) /\ u \in [N -> SUBSET N]
  /\ N # {} => map.root \in N /\ u[map.root] = N
  /\ \A x \in N : Linked(map, x) /\ Spans(map, u, x)

\* The fields of the nodes have their types.
LEMMA FieldTypes ==
  ASSUME NEW N, NEW map \in Maps(N)
  PROVE  /\ Node(map) = N /\ map.root \in N \cup {Null}
         /\ map = [root |-> map.root, node |-> map.node]
         /\ \A x \in N : /\ Parent(map, x) \in N \cup {Null}
                         /\ \A s \in Side : Child(map, x, s) \in N \cup {Null}
                         /\ Color(map, x) \in {"red", "black"}
                         /\ Low(map, x) \in Addr /\ High(map, x) \in Addr
                         /\ map.node[x] \in Fields(N)
BY DEF Maps, Fields, Node, Parent, Child, Color, Low, High

\* The two sides.
LEMMA Sides ==
  /\ "left" \in Side /\ "right" \in Side /\ Other("left") = "right" /\ Other("right") = "left"
  /\ \A s \in Side : Other(s) \in Side /\ Other(s) # s /\ Other(Other(s)) = s
                     /\ \A r \in Side : r = s \/ r = Other(s)
BY DEF Side, Other

\* What is under a node, by either side.
LEMMA SpansSides ==
  ASSUME NEW map, NEW u, NEW x, NEW s \in Side
  PROVE  Spans(map, u, x) <=>
           LET a == Under(u, Child(map, x, s))
               b == Under(u, Child(map, x, Other(s)))
           IN u[x] = {x} \cup a \cup b /\ x \notin a /\ x \notin b /\ a \cap b = {}
<1>1. CASE s = "left"
  BY <1>1, Sides DEF Spans
<1>2. CASE s = "right"
  BY <1>2, Sides DEF Spans
<1>3. QED
  BY <1>1, <1>2 DEF Side

\* A node, its parent and its children.
LEMMA Family ==
  ASSUME NEW N, NEW map, NEW u, Tree(N, map, u), NEW x \in N
  PROVE  /\ x \in u[x] /\ u[x] \subseteq N
         /\ IsFiniteSet(u[x]) /\ Cardinality(u[x]) \in Nat
         /\ Cardinality(u[x]) >= 1 /\ Cardinality(u[x]) <= Cardinality(N)
         /\ \A s \in Side : Child(map, x, s) # Null =>
              LET c == Child(map, x, s) IN
              /\ c \in N /\ c # x /\ c # Child(map, x, Other(s)) /\ Parent(map, c) = x
              /\ c \in u[x] /\ u[c] \subseteq u[x] /\ x \notin u[c]
              /\ Cardinality(u[c]) < Cardinality(u[x])
<1>1. Spans(map, u, x) /\ Linked(map, x)
  BY DEF Tree
<1>2. u[x] \subseteq N /\ x \in u[x]
  BY <1>1 DEF Tree, Spans
<1>3. \A y \in N : IsFiniteSet(u[y]) /\ Cardinality(u[y]) \in Nat /\ Cardinality(u[y]) <= Cardinality(N)
                   /\ Cardinality(N) \in Nat
  <2>1. \A y \in N : u[y] \subseteq N
    BY DEF Tree
  <2>2. QED
    BY <2>1, FS_Subset, FS_CardinalityType DEF Tree
<1>4. Cardinality(u[x]) # 0
  BY <1>2, <1>3, FS_EmptySet
<1>5. ASSUME NEW s \in Side, Child(map, x, s) # Null
      PROVE  LET c == Child(map, x, s) IN
              /\ c \in N /\ c # x /\ c # Child(map, x, Other(s)) /\ Parent(map, c) = x
              /\ c \in u[x] /\ u[c] \subseteq u[x] /\ x \notin u[c]
              /\ Cardinality(u[c]) < Cardinality(u[x])
  <2>1. PICK c : c = Child(map, x, s)
    OBVIOUS
  <2>2. c \in N
    BY <1>5, <2>1, FieldTypes DEF Tree
  <2>3. c \in u[c]
    BY <2>2 DEF Tree, Spans
  <2>4. Parent(map, c) = x
    BY <1>1, <1>5, <2>1 DEF Linked
  <2>5. u[c] \subseteq u[x] /\ x \notin u[c] /\ (Child(map, x, Other(s)) # Null =>
          u[c] \cap u[Child(map, x, Other(s))] = {})
    <3>1. PICK a, b : a = Under(u, c) /\ b = Under(u, Child(map, x, Other(s)))
      OBVIOUS
    <3>2. u[x] = {x} \cup a \cup b /\ x \notin a /\ a \cap b = {}
      BY <1>1, <2>1, <3>1, SpansSides
    <3>3. a = u[c] /\ (Child(map, x, Other(s)) # Null => b = u[Child(map, x, Other(s))])
      BY <1>5, <2>1, <3>1 DEF Under
    <3>4. QED
      BY <3>2, <3>3
  <2>6. c # x /\ c \in u[x] /\ c # Child(map, x, Other(s))
    BY <1>5, <2>1, <2>3, <2>5
  <2>7. Cardinality(u[c]) < Cardinality(u[x])
    <3>1. u[c] \subseteq u[x] \ {x}
      BY <2>5
    <3>2. IsFiniteSet(u[x] \ {x}) /\ Cardinality(u[x] \ {x}) = Cardinality(u[x]) - 1
      BY <1>2, <1>3, FS_RemoveElement
    <3>3. Cardinality(u[c]) <= Cardinality(u[x] \ {x})
      BY <3>1, <3>2, FS_Subset
    <3>4. QED
      BY <1>3, <2>2, <3>2, <3>3
  <2>8. QED
    BY <2>1, <2>2, <2>4, <2>5, <2>6, <2>7
<1>6. QED
  BY <1>2, <1>3, <1>4, <1>5

\* A node that is not the root is a child of its parent.
LEMMA Upward ==
  ASSUME NEW N, NEW map, NEW u, Tree(N, map, u), NEW x \in N, Parent(map, x) # Null
  PROVE  LET p == Parent(map, x) IN
         /\ p \in N /\ p # x /\ u[x] \subseteq u[p] /\ p \notin u[x]
         /\ Cardinality(u[x]) < Cardinality(u[p])
         /\ \E s \in Side : Child(map, p, s) = x
<1>1. PICK p : p = Parent(map, x)
  OBVIOUS
<1>2. p \in N
  BY <1>1, FieldTypes DEF Tree
<1>3. PICK s \in Side : Child(map, p, s) = x
  BY <1>1 DEF Tree, Linked
<1>4. x # Null
  BY DEF Tree
<1>5. QED
  BY <1>1, <1>2, <1>3, <1>4, Family

\* A property of nodes that a node has if its children have it is one of all nodes.
LEMMA UpInduction ==
  ASSUME NEW N, NEW map, NEW u, Tree(N, map, u), NEW P,
         \A x \in N : (\A s \in Side : Child(map, x, s) # Null => Child(map, x, s) \in P) => x \in P
  PROVE  N \subseteq P
<1> DEFINE Q == {n \in Nat : \A x \in N : Cardinality(u[x]) <= n => x \in P}
<1>1. 0 \in Q
  <2>1. \A x \in N : Cardinality(u[x]) \in Nat /\ Cardinality(u[x]) >= 1
    BY Family
  <2>2. QED
    BY <2>1
<1>2. ASSUME NEW n \in Nat, n \in Q PROVE n + 1 \in Q
  <2>1. SUFFICES ASSUME NEW x \in N, Cardinality(u[x]) <= n + 1 PROVE x \in P
    OBVIOUS
  <2>2. ASSUME NEW s \in Side, Child(map, x, s) # Null PROVE Child(map, x, s) \in P
    <3>1. PICK c : c = Child(map, x, s)
      OBVIOUS
    <3>2. c \in N /\ Cardinality(u[c]) < Cardinality(u[x])
      BY <2>2, <3>1, Family
    <3>3. Cardinality(u[c]) \in Nat /\ Cardinality(u[x]) \in Nat
      BY <3>2, Family
    <3>4. Cardinality(u[c]) <= n
      BY <2>1, <3>2, <3>3
    <3>5. QED
      BY <1>2, <3>1, <3>2, <3>4
  <2>3. QED
    BY <2>2
<1>3. Nat \subseteq Q
  <2> HIDE DEF Q
  <2>1. QED
    BY <1>1, <1>2, SetInduction
<1>4. \A x \in N : Cardinality(u[x]) \in Nat
  BY Family
<1>5. QED
  BY <1>3, <1>4

\* A property of nodes that the root has, and a node if its parent has it, is one of all.
LEMMA DownInduction ==
  ASSUME NEW N, NEW map, NEW u, Tree(N, map, u), NEW P, N # {} => map.root \in P,
         \A x \in N : Parent(map, x) \in P /\ Parent(map, x) # Null => x \in P
  PROVE  N \subseteq P
<1> DEFINE Q == {n \in Nat : \A x \in N : Cardinality(N) - Cardinality(u[x]) <= n => x \in P}
<1>1. \A x \in N : /\ Cardinality(u[x]) \in Nat /\ Cardinality(N) \in Nat
                   /\ Cardinality(u[x]) <= Cardinality(N)
  BY Family, FS_CardinalityType DEF Tree
<1>2. ASSUME NEW x \in N, Parent(map, x) # Null
      PROVE  Parent(map, x) \in N /\ Cardinality(u[x]) < Cardinality(u[Parent(map, x)])
  BY <1>2, Upward
<1>3. \A x \in N : Parent(map, x) = Null => x \in P
  BY DEF Tree, Linked
<1>4. 0 \in Q
  <2>1. SUFFICES ASSUME NEW x \in N, Cardinality(N) - Cardinality(u[x]) <= 0 PROVE x \in P
    OBVIOUS
  <2>2. CASE Parent(map, x) # Null
    <3>1. PICK p : p = Parent(map, x)
      OBVIOUS
    <3>2. p \in N /\ Cardinality(u[x]) < Cardinality(u[p])
      BY <1>2, <2>2, <3>1
    <3>3. QED
      BY <1>1, <2>1, <3>2
  <2>3. QED
    BY <1>3, <2>2
<1>5. ASSUME NEW n \in Nat, n \in Q PROVE n + 1 \in Q
  <2>1. SUFFICES ASSUME NEW x \in N, Cardinality(N) - Cardinality(u[x]) <= n + 1 PROVE x \in P
    OBVIOUS
  <2>2. CASE Parent(map, x) # Null
    <3>1. PICK p : p = Parent(map, x)
      OBVIOUS
    <3>2. p \in N /\ Cardinality(u[x]) < Cardinality(u[p])
      BY <1>2, <2>2, <3>1
    <3>3. Cardinality(N) - Cardinality(u[p]) <= n
      BY <1>1, <2>1, <3>2
    <3>4. p \in P
      BY <1>5, <3>2, <3>3
    <3>5. QED
      BY <2>2, <3>1, <3>4
  <2>3. QED
    BY <1>3, <2>2
<1>6. Nat \subseteq Q
  <2> HIDE DEF Q
  <2>1. QED
    BY <1>4, <1>5, SetInduction
<1>7. \A x \in N : Cardinality(N) - Cardinality(u[x]) \in Nat
  BY <1>1
<1>8. QED
  BY <1>6, <1>7

\* A subtree has with a node what is under it and, but for its own root, the parent.
LEMMA Subtree ==
  ASSUME NEW N, NEW map, NEW u, Tree(N, map, u)
  PROVE  \A w \in N : \A c \in u[w] :
           /\ u[c] \subseteq u[w]
           /\ c # w => Parent(map, c) # Null /\ Parent(map, c) \in u[w]
<1> DEFINE P == {w \in N : \A c \in u[w] :
                   /\ u[c] \subseteq u[w]
                   /\ c # w => Parent(map, c) # Null /\ Parent(map, c) \in u[w]}
<1>1. ASSUME NEW w \in N, \A s \in Side : Child(map, w, s) # Null => Child(map, w, s) \in P
      PROVE  w \in P
  <2>1. ASSUME NEW c \in u[w]
        PROVE  u[c] \subseteq u[w] /\ (c # w => Parent(map, c) # Null /\ Parent(map, c) \in u[w])
    <3>1. CASE c = w
      BY <3>1
    <3>2. CASE c # w
      <4>1. PICK s \in Side : Child(map, w, s) # Null /\ c \in u[Child(map, w, s)]
        <5>1. Spans(map, u, w)
          BY DEF Tree
        <5>2. c \in Under(u, Child(map, w, "left")) \/ c \in Under(u, Child(map, w, "right"))
          BY <2>1, <3>2, <5>1 DEF Spans
        <5>3. QED
          BY <5>2, Sides DEF Under
      <4>2. PICK d : d = Child(map, w, s)
        OBVIOUS
      <4>3. d \in P /\ c \in u[d] /\ u[d] \subseteq u[w] /\ Parent(map, d) = w /\ w \in N /\ w # Null
        BY <1>1, <4>1, <4>2, Family DEF Tree
      <4>4. u[c] \subseteq u[d] /\ (c # d => Parent(map, c) # Null /\ Parent(map, c) \in u[d])
        BY <4>3
      <4>5. w \in u[w]
        BY Family
      <4>6. QED
        BY <4>3, <4>4, <4>5
    <3>3. QED
      BY <3>1, <3>2
  <2>2. QED
    BY <2>1
<1> HIDE DEF P
<1>2. N \subseteq P
  BY <1>1, UpInduction
<1>3. QED
  BY <1>2 DEF P

-----------------------------------------------------------------------------
(* Rotations. *)

\* Every node comes in R before those on its right, and behind those on its left.
Beside(R, z, x, s) == IF s = "left" THEN <<z, x>> \in R ELSE <<x, z>> \in R
Sorted(N, map, u, R) == \A x \in N, s \in Side : \A z \in Under(u, Child(map, x, s)) : Beside(R, z, x, s)

Transitive(R, N) == \A a, b, c \in N : <<a, b>> \in R /\ <<b, c>> \in R => <<a, c>> \in R

\* To be beside a node on one side is to have it on the other, and goes on.
LEMMA BesideFacts ==
  ASSUME NEW N, NEW R, Transitive(R, N), NEW s \in Side, NEW a \in N, NEW b \in N
  PROVE  /\ Beside(R, a, b, s) <=> Beside(R, b, a, Other(s))
         /\ \A c \in N : Beside(R, a, b, s) /\ Beside(R, b, c, s) => Beside(R, a, c, s)
<1>1. CASE s = "left"
  BY <1>1, Sides DEF Beside, Transitive
<1>2. CASE s = "right"
  BY <1>2, Sides DEF Beside, Transitive
<1>3. QED
  BY <1>1, <1>2 DEF Side

\* What a rotation changes: x, its child y on the other side, the child of y between them and
\* the parent of x.
LEMMA RotateEffect ==
  ASSUME NEW N, NEW map \in Maps(N), NEW x \in N, NEW side \in Side,
         NEW y \in N, y = Child(map, x, Other(side)),
         NEW new, new = Rotate(map, x, side)
  PROVE  /\ new \in Maps(N)
         /\ new.root = IF Parent(map, x) = Null THEN y ELSE map.root
         /\ \A z \in N :
              /\ Color(new, z) = Color(map, z) /\ Low(new, z) = Low(map, z)
              /\ High(new, z) = High(map, z)
              /\ Parent(new, z) = IF z = y THEN Parent(map, x) ELSE IF z = x THEN y
                                  ELSE IF z = Child(map, y, side) THEN x ELSE Parent(map, z)
              /\ \A s \in Side :
                   Child(new, z, s) =
                     IF z = x /\ s = Other(side) THEN Child(map, y, side)
                     ELSE IF z = y /\ s = side THEN x
                     ELSE IF z = Parent(map, x) /\ Child(map, z, s) = x THEN y
                     ELSE Child(map, z, s)
<1>1. PICK inner, up : inner = Child(map, y, side) /\ up = Parent(map, x)
  OBVIOUS
<1>2. Node(map) = N /\ inner \in N \cup {Null} /\ up \in N \cup {Null}
  BY <1>1, FieldTypes
<1>3. new = [root |-> IF up = Null THEN y ELSE map.root,
             node |-> [z \in N |-> Turned(map, x, side, z)]]
  BY <1>1, <1>2 DEF Rotate
<1>4. ASSUME NEW z \in N
      PROVE  /\ new.node[z] \in Fields(N)
             /\ Color(new, z) = Color(map, z) /\ Low(new, z) = Low(map, z)
             /\ High(new, z) = High(map, z)
             /\ Parent(new, z) = IF z = y THEN up ELSE IF z = x THEN y ELSE IF z = inner THEN x
                                 ELSE Parent(map, z)
             /\ \A s \in Side :
                  Child(new, z, s) = IF z = x /\ s = Other(side) THEN inner
                                     ELSE IF z = y /\ s = side THEN x
                                     ELSE IF z = up /\ Child(map, z, s) = x THEN y
                                     ELSE Child(map, z, s)
  <2>1. PICK r : r = map.node[z]
    OBVIOUS
  <2>2. PICK p : p = TurnedParent(map, x, side, z)
    OBVIOUS
  <2>3. PICK f : f = [s \in Side |-> TurnedChild(map, x, side, z, s)]
    OBVIOUS
  <2>4. r \in Fields(N) /\ r.parent = Parent(map, z) /\ \A s \in Side : r.child[s] = Child(map, z, s)
    BY <2>1, FieldTypes DEF Parent, Child
  <2>5. p = IF z = y THEN up ELSE IF z = x THEN y ELSE IF z = inner THEN x ELSE Parent(map, z)
    BY <1>1, <2>2 DEF TurnedParent
  <2>6. ASSUME NEW s \in Side
        PROVE  TurnedChild(map, x, side, z, s) =
                 IF z = x /\ s = Other(side) THEN inner
                 ELSE IF z = y /\ s = side THEN x
                 ELSE IF z = up /\ Child(map, z, s) = x THEN y
                 ELSE Child(map, z, s)
    BY <1>1 DEF TurnedChild
  <2>7. p \in N \cup {Null}
    BY <1>2, <2>4, <2>5, FieldTypes
  <2>8. \A s \in Side : TurnedChild(map, x, side, z, s) \in N \cup {Null}
    BY <1>2, <2>6, FieldTypes
  <2>9. f \in [Side -> N \cup {Null}]
    BY <2>3, <2>8
  <2>10. new.node[z] = Turned(map, x, side, z)
    BY <1>3
  <2>11. new.node[z] = [r EXCEPT !.parent = p, !.child = f]
    BY <2>1, <2>2, <2>3, <2>10 DEF Turned
  <2>12. PICK q : q = new.node[z]
    OBVIOUS
  <2>13. q \in Fields(N) /\ q.color = r.color /\ q.lowAddr = r.lowAddr /\ q.highAddr = r.highAddr
         /\ q.parent = p /\ q.child = f
    BY <2>4, <2>7, <2>9, <2>11, <2>12 DEF Fields
  <2>14. \A s \in Side : Child(new, z, s) = TurnedChild(map, x, side, z, s)
    BY <2>3, <2>12, <2>13 DEF Child
  <2>15. Parent(new, z) = p
    BY <2>12, <2>13 DEF Parent
  <2>16. Color(new, z) = Color(map, z) /\ Low(new, z) = Low(map, z) /\ High(new, z) = High(map, z)
    BY <2>1, <2>12, <2>13 DEF Color, Low, High
  <2>17. QED
    BY <2>5, <2>6, <2>12, <2>13, <2>14, <2>15, <2>16
<1>5. new \in Maps(N)
  <2>1. PICK n : n = [z \in N |-> Turned(map, x, side, z)]
    OBVIOUS
  <2>2. n \in [N -> Fields(N)]
    BY <1>3, <1>4, <2>1
  <2>3. QED
    BY <1>2, <1>3, <2>1, <2>2, FieldTypes DEF Maps
<1>6. new.root = IF up = Null THEN y ELSE map.root
  BY <1>3
<1>7. QED
  BY <1>1, <1>4, <1>5, <1>6

\* The subtrees after a rotation.
Moved(map, x, side, u) ==
  LET y == Child(map, x, Other(side)) IN
  [z \in DOMAIN u |->
     IF z = y THEN u[x]
     ELSE IF z = x THEN {x} \cup Under(u, Child(map, x, side)) \cup Under(u, Child(map, y, side))
     ELSE u[z]]

\* The nodes that take part in a rotation are different ones.
LEMMA RotationNodes ==
  ASSUME NEW N, NEW map, NEW u, Tree(N, map, u), NEW x \in N, NEW side \in Side,
         NEW y \in N, y = Child(map, x, Other(side)),
         NEW up, up = Parent(map, x), NEW inner, inner = Child(map, y, side)
  PROVE  /\ x # y /\ x # inner /\ y # inner /\ up # x /\ up # y /\ (up # Null => up # inner)
         /\ Parent(map, y) = x /\ (inner # Null => inner \in N /\ Parent(map, inner) = y)
         /\ x # Null /\ y # Null /\ up \in N \cup {Null}
<1>1. x # Null /\ y # Null /\ Null \notin N /\ up \in N \cup {Null}
  BY FieldTypes DEF Tree
<1>2. x # y /\ Parent(map, y) = x /\ y \in u[x] /\ u[y] \subseteq u[x] /\ x \notin u[y]
  BY <1>1, Family, Sides
<1>3. inner # Null => inner \in N /\ inner # y /\ Parent(map, inner) = y /\ inner \in u[y]
  BY Family
<1>4. up # Null => up \in N /\ up # x /\ u[x] \subseteq u[up] /\ up \notin u[x]
  BY Upward
<1>5. QED
  BY <1>1, <1>2, <1>3, <1>4

\* A rotation leaves a tree.
LEMMA RotateLinked ==
  ASSUME NEW N, NEW map, NEW u, Tree(N, map, u), NEW x \in N, NEW side \in Side,
         Child(map, x, Other(side)) # Null, NEW z \in N
  PROVE  Linked(Rotate(map, x, side), z)
<1>1. PICK new, y, up, inner : /\ new = Rotate(map, x, side) /\ y = Child(map, x, Other(side))
                               /\ up = Parent(map, x) /\ inner = Child(map, y, side)
  OBVIOUS
<1>2. map \in Maps(N) /\ Null \notin N
  BY DEF Tree
<1>3. y \in N
  BY <1>1, <1>2, FieldTypes, Sides
<1>4. /\ x # y /\ x # inner /\ y # inner /\ up # x /\ up # y /\ (up # Null => up # inner)
      /\ Parent(map, y) = x /\ (inner # Null => inner \in N /\ Parent(map, inner) = y)
      /\ x # Null /\ y # Null /\ up \in N \cup {Null}
  BY <1>1, <1>3, RotationNodes
<1>5. /\ new.root = IF up = Null THEN y ELSE map.root
      /\ \A v \in N :
           /\ Parent(new, v) = IF v = y THEN up ELSE IF v = x THEN y
                               ELSE IF v = inner THEN x ELSE Parent(map, v)
           /\ \A s \in Side : Child(new, v, s) =
                IF v = x /\ s = Other(side) THEN inner ELSE IF v = y /\ s = side THEN x
                ELSE IF v = up /\ Child(map, v, s) = x THEN y ELSE Child(map, v, s)
  BY <1>1, <1>2, <1>3, RotateEffect
<1>6. \A v \in N : Linked(map, v)
  BY DEF Tree
<1>7. \A v \in N, s \in Side : Child(map, v, s) # Null =>
         Child(map, v, s) \in N /\ Parent(map, Child(map, v, s)) = v
                                /\ Child(map, v, s) # Child(map, v, Other(s))
  BY Family
<1>8. ASSUME NEW s \in Side, Child(new, z, s) # Null PROVE Parent(new, Child(new, z, s)) = z
  <2>1. PICK c : c = Child(map, z, s)
    OBVIOUS
  <2>2. CASE z = x /\ s = Other(side)
    BY <1>4, <1>5, <1>8, <2>2
  <2>3. CASE z = y /\ s = side
    BY <1>4, <1>5, <2>3
  <2>4. CASE ~(z = x /\ s = Other(side)) /\ ~(z = y /\ s = side) /\ z = up /\ c = x
    <3>1. Child(new, z, s) = y
      BY <1>5, <2>1, <2>4
    <3>2. Parent(new, y) = up
      BY <1>3, <1>5
    <3>3. QED
      BY <2>4, <3>1, <3>2
  <2>5. CASE ~(z = x /\ s = Other(side)) /\ ~(z = y /\ s = side) /\ ~(z = up /\ c = x)
    <3>1. Child(new, z, s) = c
      BY <1>5, <2>1, <2>5
    <3>2. c \in N /\ Parent(map, c) = z
      BY <1>7, <1>8, <2>1, <3>1
    <3>3. c # x
      BY <1>1, <2>5, <3>2
    <3>4. c # y
      <4>1. SUFFICES ASSUME c = y PROVE FALSE
        OBVIOUS
      <4>2. z = x /\ s # Other(side)
        BY <1>4, <2>5, <3>2, <4>1
      <4>3. s = side
        BY <4>2, Sides
      <4>4. Child(map, x, side) = y
        BY <2>1, <4>1, <4>2, <4>3
      <4>5. Child(map, x, side) # Child(map, x, Other(side))
        BY <1>4, <1>7, <4>4
      <4>6. QED
        BY <1>1, <4>4, <4>5
    <3>5. c # inner
      <4>1. SUFFICES ASSUME c = inner PROVE FALSE
        OBVIOUS
      <4>2. z = y /\ s # side
        BY <1>2, <1>4, <2>5, <3>2, <4>1
      <4>3. side = Other(s)
        BY <4>2, Sides
      <4>4. Child(map, y, s) = inner /\ Child(map, y, Other(s)) = inner /\ inner # Null
        BY <1>1, <1>8, <2>1, <3>1, <4>1, <4>2, <4>3
      <4>5. Child(map, y, s) # Child(map, y, Other(s))
        BY <1>3, <1>7, <4>4
      <4>6. QED
        BY <4>4, <4>5
    <3>6. QED
      BY <1>5, <3>1, <3>2, <3>3, <3>4, <3>5
  <2>6. QED
    BY <2>2, <2>3, <2>4, <2>5
<1>9. Parent(new, z) = Null <=> z = new.root
  <2>1. (Parent(map, z) = Null <=> z = map.root) /\ (up = Null <=> x = map.root)
    BY <1>1, <1>6 DEF Linked
  <2>2. \A v \in N : v = map.root => Parent(map, v) = Null
    BY <1>6 DEF Linked
  <2>3. CASE z = y
    BY <1>3, <1>4, <1>5, <2>2, <2>3
  <2>4. CASE z = x
    BY <1>3, <1>4, <1>5, <2>1, <2>4
  <2>5. CASE z = inner
    BY <1>2, <1>3, <1>4, <1>5, <2>2, <2>5
  <2>6. CASE z # y /\ z # x /\ z # inner
    BY <1>3, <1>4, <1>5, <2>1, <2>6
  <2>7. QED
    BY <2>3, <2>4, <2>5, <2>6
<1>10. ASSUME Parent(new, z) # Null PROVE \E s \in Side : Child(new, Parent(new, z), s) = z
  <2>1. CASE z = y
    <3>1. up # Null /\ up \in N
      BY <1>3, <1>4, <1>5, <1>10, <2>1
    <3>2. PICK s \in Side : Child(map, up, s) = x
      BY <1>1, <1>6, <3>1 DEF Linked
    <3>3. Child(new, up, s) = y
      BY <1>4, <1>5, <3>1, <3>2
    <3>4. QED
      BY <1>3, <1>5, <2>1, <3>3
  <2>2. CASE z = x
    BY <1>3, <1>4, <1>5, <2>2
  <2>3. CASE z = inner
    BY <1>2, <1>4, <1>5, <2>3, Sides
  <2>4. CASE z # y /\ z # x /\ z # inner
    <3>1. PICK p : p = Parent(map, z)
      OBVIOUS
    <3>2. Parent(new, z) = p /\ p # Null /\ p \in N
      BY <1>2, <1>5, <1>10, <2>4, <3>1, FieldTypes
    <3>3. PICK s \in Side : Child(map, p, s) = z
      BY <1>6, <3>1, <3>2 DEF Linked
    <3>4. ~(p = x /\ s = Other(side)) /\ ~(p = y /\ s = side)
      BY <1>1, <2>4, <3>3
    <3>5. Child(new, p, s) = z
      BY <1>5, <2>4, <3>2, <3>3, <3>4
    <3>6. QED
      BY <3>2, <3>5
  <2>5. QED
    BY <2>1, <2>2, <2>3, <2>4
<1>11. QED
  BY <1>1, <1>8, <1>9, <1>10 DEF Linked

\* What is below each node after a rotation.
LEMMA RotateUnder ==
  ASSUME NEW N, NEW map, NEW u, Tree(N, map, u), NEW x \in N, NEW side \in Side,
         NEW y, y = Child(map, x, Other(side)), y # Null,
         NEW new, new = Rotate(map, x, side), NEW v, v = Moved(map, x, side, u)
  PROVE  /\ \A z \in N, s \in Side : z # x /\ z # y =>
              Under(v, Child(new, z, s)) = Under(u, Child(map, z, s))
         /\ Under(v, Child(new, x, side)) = Under(u, Child(map, x, side))
         /\ Under(v, Child(new, x, Other(side))) = Under(u, Child(map, y, side))
         /\ Under(v, Child(new, y, Other(side))) = Under(u, Child(map, y, Other(side)))
         /\ Under(v, Child(new, y, side)) =
              {x} \cup Under(u, Child(map, x, side)) \cup Under(u, Child(map, y, side))
         /\ v[y] = u[x] /\ v \in [N -> SUBSET N] /\ \A z \in N : z # x /\ z # y => v[z] = u[z]
         /\ v[x] = {x} \cup Under(u, Child(map, x, side)) \cup Under(u, Child(map, y, side))
<1>1. map \in Maps(N) /\ Null \notin N /\ u \in [N -> SUBSET N] /\ DOMAIN u = N
  BY DEF Tree
<1>2. y \in N /\ Other(side) \in Side /\ Other(side) # side /\ \A s \in Side : s = side \/ s = Other(side)
  BY <1>1, FieldTypes, Sides
<1>3. PICK up, inner : up = Parent(map, x) /\ inner = Child(map, y, side)
  OBVIOUS
<1>4. /\ x # y /\ x # inner /\ y # inner /\ up # x /\ up # y /\ (up # Null => up # inner)
      /\ Parent(map, y) = x /\ (inner # Null => inner \in N /\ Parent(map, inner) = y)
      /\ x # Null /\ y # Null /\ up \in N \cup {Null}
  BY <1>2, <1>3, RotationNodes
<1>5. \A z \in N, s \in Side : Child(new, z, s) =
                IF z = x /\ s = Other(side) THEN inner ELSE IF z = y /\ s = side THEN x
                ELSE IF z = up /\ Child(map, z, s) = x THEN y ELSE Child(map, z, s)
  BY <1>1, <1>2, <1>3, RotateEffect
<1>6. PICK m : m = {x} \cup Under(u, Child(map, x, side)) \cup Under(u, inner)
  OBVIOUS
<1>7. v = [z \in N |-> IF z = y THEN u[x] ELSE IF z = x THEN m ELSE u[z]]
  BY <1>1, <1>3, <1>6 DEF Moved
<1>8. \A z \in N, s \in Side : Child(map, z, s) # Null =>
         /\ Child(map, z, s) \in N /\ Parent(map, Child(map, z, s)) = z
         /\ Child(map, z, s) # Child(map, z, Other(s))
  BY Family
<1>9. m \in SUBSET N
  <2>1. \A z \in N, s \in Side : Under(u, Child(map, z, s)) \subseteq N
    BY <1>1, <1>8 DEF Under
  <2>2. QED
    BY <1>2, <1>3, <1>6, <2>1
<1>10. v[y] = u[x] /\ v[x] = m /\ v \in [N -> SUBSET N] /\ \A z \in N : z # x /\ z # y => v[z] = u[z]
  BY <1>1, <1>2, <1>4, <1>7, <1>9
<1>11. \A c \in N \cup {Null} : c # x /\ c # y => Under(v, c) = Under(u, c)
  BY <1>10 DEF Under
<1>12. ASSUME NEW z \in N, NEW s \in Side, z # x /\ z # y
       PROVE  Under(v, Child(new, z, s)) = Under(u, Child(map, z, s))
  <2>1. CASE z = up /\ Child(map, z, s) = x
    <3>1. Child(new, z, s) = y
      BY <1>5, <1>12, <2>1
    <3>2. QED
      BY <1>4, <1>10, <2>1, <3>1 DEF Under
  <2>2. CASE ~(z = up /\ Child(map, z, s) = x)
    <3>1. Child(new, z, s) = Child(map, z, s)
      BY <1>5, <1>12, <2>2
    <3>2. Child(map, z, s) # x /\ Child(map, z, s) # y
      BY <1>3, <1>4, <1>8, <1>12, <2>2
    <3>3. QED
      BY <1>1, <1>11, <3>1, <3>2, FieldTypes
  <2>3. QED
    BY <2>1, <2>2
<1>13. Under(v, Child(new, x, side)) = Under(u, Child(map, x, side))
  <2>1. Child(new, x, side) = Child(map, x, side)
    BY <1>2, <1>4, <1>5
  <2>2. Child(map, x, side) # x /\ Child(map, x, side) # y
    BY <1>2, <1>4, <1>8, Family
  <2>3. QED
    BY <1>1, <1>11, <2>1, <2>2, FieldTypes
<1>14. Under(v, Child(new, x, Other(side))) = Under(u, Child(map, y, side))
  <2>1. Child(new, x, Other(side)) = inner
    BY <1>2, <1>5
  <2>2. QED
    BY <1>3, <1>4, <1>11, <2>1
<1>15. Under(v, Child(new, y, Other(side))) = Under(u, Child(map, y, Other(side)))
  <2>1. Child(new, y, Other(side)) = Child(map, y, Other(side))
    BY <1>2, <1>4, <1>5
  <2>2. Child(map, y, Other(side)) # x /\ Child(map, y, Other(side)) # y
    BY <1>2, <1>3, <1>4, <1>8, Family
  <2>3. QED
    BY <1>1, <1>2, <1>11, <2>1, <2>2, FieldTypes
<1>16. Under(v, Child(new, y, side)) = m
  <2>1. Child(new, y, side) = x
    BY <1>2, <1>4, <1>5
  <2>2. QED
    BY <1>4, <1>10, <2>1 DEF Under
<1>17. QED
  BY <1>3, <1>6, <1>10, <1>12, <1>13, <1>14, <1>15, <1>16

\* A rotation keeps a tree: parents and children agree and each node is in one place.
LEMMA RotateTree ==
  ASSUME NEW N, NEW map, NEW u, Tree(N, map, u), NEW x \in N, NEW side \in Side,
         Child(map, x, Other(side)) # Null
  PROVE  Tree(N, Rotate(map, x, side), Moved(map, x, side, u))
<1>1. PICK new, v, y : /\ new = Rotate(map, x, side) /\ v = Moved(map, x, side, u)
                       /\ y = Child(map, x, Other(side))
  OBVIOUS
<1>2. map \in Maps(N) /\ Null \notin N /\ IsFiniteSet(N) /\ u \in [N -> SUBSET N]
  BY DEF Tree
<1>3. y \in N /\ Other(side) \in Side
  BY <1>1, <1>2, FieldTypes, Sides
<1>4. PICK a, b, c : /\ a = Under(u, Child(map, x, side)) /\ b = Under(u, Child(map, y, side))
                     /\ c = Under(u, Child(map, y, Other(side)))
  OBVIOUS
<1>5. /\ \A z \in N, s \in Side : z # x /\ z # y =>
           Under(v, Child(new, z, s)) = Under(u, Child(map, z, s))
      /\ Under(v, Child(new, x, side)) = a /\ Under(v, Child(new, x, Other(side))) = b
      /\ Under(v, Child(new, y, Other(side))) = c /\ Under(v, Child(new, y, side)) = {x} \cup a \cup b
      /\ v[y] = u[x] /\ v \in [N -> SUBSET N] /\ v[x] = {x} \cup a \cup b
      /\ \A z \in N : z # x /\ z # y => v[z] = u[z]
  BY <1>1, <1>4, RotateUnder
<1>6. /\ u[x] = {x} \cup a \cup u[y] /\ x \notin a /\ x \notin u[y] /\ a \cap u[y] = {}
      /\ u[y] = {y} \cup b \cup c /\ y \notin b /\ y \notin c /\ b \cap c = {}
  <2>1. Under(u, Child(map, x, Other(side))) = u[y]
    BY <1>1 DEF Under
  <2>2. Spans(map, u, x) /\ Spans(map, u, y)
    BY <1>3 DEF Tree
  <2>3. QED
    BY <1>4, <2>1, <2>2, SpansSides
<1>7. ASSUME NEW z \in N PROVE Spans(new, v, z)
  <2>1. CASE z = x
    <3>1. v[x] = {x} \cup a \cup b /\ x \notin a /\ x \notin b /\ a \cap b = {}
      BY <1>5, <1>6
    <3>2. QED
      BY <1>5, <2>1, <3>1, SpansSides
  <2>2. CASE z = y
    <3>1. PICK d : d = {x} \cup a \cup b
      OBVIOUS
    <3>2. v[y] = {y} \cup d \cup c /\ y \notin d /\ y \notin c /\ d \cap c = {}
      BY <1>5, <1>6, <3>1
    <3>3. QED
      BY <1>5, <2>2, <3>1, <3>2, SpansSides
  <2>3. CASE z # x /\ z # y
    <3>1. Spans(map, u, z)
      BY DEF Tree
    <3>2. QED
      BY <1>5, <2>3, <3>1, Sides DEF Spans
  <2>4. QED
    BY <2>1, <2>2, <2>3
<1>8. new \in Maps(N) /\ new.root = IF Parent(map, x) = Null THEN y ELSE map.root
  BY <1>1, <1>2, <1>3, RotateEffect
<1>9. new.root \in N /\ v[new.root] = N
  <2>1. map.root \in N /\ u[map.root] = N
    BY DEF Tree
  <2>2. Linked(map, x) /\ Linked(map, y)
    BY <1>3 DEF Tree
  <2>3. Parent(map, y) = x /\ x # Null
    BY <1>1, <1>2, <1>3, Family
  <2>4. y # map.root
    BY <2>2, <2>3 DEF Linked
  <2>5. CASE Parent(map, x) = Null
    BY <1>3, <1>5, <1>8, <2>1, <2>2, <2>5 DEF Linked
  <2>6. CASE Parent(map, x) # Null
    BY <1>5, <1>8, <2>1, <2>2, <2>4, <2>6 DEF Linked
  <2>7. QED
    BY <2>5, <2>6
<1>10. \A z \in N : Linked(new, z)
  BY <1>1, RotateLinked
<1>11. QED
  BY <1>1, <1>2, <1>5, <1>7, <1>8, <1>9, <1>10 DEF Tree
\* A rotation keeps the order of the nodes.
LEMMA RotateSorted ==
  ASSUME NEW N, NEW map, NEW u, Tree(N, map, u), NEW x \in N, NEW side \in Side,
         Child(map, x, Other(side)) # Null,
         NEW R, Transitive(R, N), Sorted(N, map, u, R)
  PROVE  Sorted(N, Rotate(map, x, side), Moved(map, x, side, u), R)
<1>1. PICK new, v, y : /\ new = Rotate(map, x, side) /\ v = Moved(map, x, side, u)
                       /\ y = Child(map, x, Other(side))
  OBVIOUS
<1>2. map \in Maps(N) /\ Null \notin N /\ u \in [N -> SUBSET N]
  BY DEF Tree
<1>3. y \in N /\ Other(side) \in Side /\ y # Null
  BY <1>1, <1>2, FieldTypes, Sides
<1>4. PICK a, b, c : /\ a = Under(u, Child(map, x, side)) /\ b = Under(u, Child(map, y, side))
                     /\ c = Under(u, Child(map, y, Other(side)))
  OBVIOUS
<1>5. /\ \A z \in N, s \in Side : z # x /\ z # y =>
           Under(v, Child(new, z, s)) = Under(u, Child(map, z, s))
      /\ Under(v, Child(new, x, side)) = a /\ Under(v, Child(new, x, Other(side))) = b
      /\ Under(v, Child(new, y, Other(side))) = c /\ Under(v, Child(new, y, side)) = {x} \cup a \cup b
  BY <1>1, <1>3, <1>4, RotateUnder
<1>6. u[y] = {y} \cup b \cup c /\ Under(u, Child(map, x, Other(side))) = u[y] /\ a \subseteq N
  <2>1. Spans(map, u, x) /\ Spans(map, u, y)
    BY <1>3 DEF Tree
  <2>2. Under(u, Child(map, x, Other(side))) = u[y]
    BY <1>1, <1>3 DEF Under
  <2>3. u[y] = {y} \cup b \cup c
    BY <1>4, <2>1, SpansSides
  <2>4. a \subseteq u[x]
    BY <1>4, <2>1, SpansSides
  <2>5. QED
    BY <1>2, <2>2, <2>3, <2>4
<1>7. ASSUME NEW z \in N, NEW s \in Side, NEW w \in Under(v, Child(new, z, s))
      PROVE  Beside(R, w, z, s)
  <2>1. CASE z # x /\ z # y
    BY <1>5, <2>1, <1>7 DEF Sorted
  <2>2. CASE z = x /\ s = side
    BY <1>4, <1>5, <2>2, <1>7 DEF Sorted
  <2>3. CASE z = x /\ s = Other(side)
    <3>1. w \in Under(u, Child(map, x, Other(side)))
      BY <1>5, <1>6, <1>7, <2>3
    <3>2. QED
      BY <2>3, <3>1 DEF Sorted
  <2>4. CASE z = y /\ s = Other(side)
    BY <1>4, <1>5, <2>4, <1>7 DEF Sorted
  <2>5. CASE z = y /\ s = side
    <3>1. Beside(R, y, x, Other(side))
      <4>1. y \in Under(u, Child(map, x, Other(side)))
        BY <1>6
      <4>2. QED
        BY <1>3, <4>1 DEF Sorted
    <3>2. Beside(R, x, y, side)
      BY <1>3, <3>1, BesideFacts
    <3>3. CASE w = x
      BY <2>5, <3>2, <3>3
    <3>4. CASE w \in a
      <4>1. Beside(R, w, x, side) /\ w \in N
        BY <1>4, <1>6, <3>4 DEF Sorted
      <4>2. QED
        BY <1>3, <2>5, <3>2, <4>1, BesideFacts
    <3>5. CASE w \in b
      BY <1>3, <1>4, <2>5, <3>5 DEF Sorted
    <3>6. QED
      BY <1>5, <1>7, <2>5, <3>3, <3>4, <3>5
  <2>6. QED
    BY <2>1, <2>2, <2>3, <2>4, <2>5, Sides
<1>8. QED
  BY <1>1, <1>7 DEF Sorted

-----------------------------------------------------------------------------
(* Colours. *)

\* Painting changes the colours of the nodes named and nothing else.
LEMMA PaintEffect ==
  ASSUME NEW N, NEW map \in Maps(N), NEW blacks, NEW reds, NEW new, new = Painted(map, blacks, reds)
  PROVE  /\ new \in Maps(N) /\ new.root = map.root
         /\ \A z \in N :
              /\ Color(new, z) = IF z \in blacks THEN "black" ELSE IF z \in reds THEN "red"
                                 ELSE Color(map, z)
              /\ Low(new, z) = Low(map, z) /\ High(new, z) = High(map, z)
              /\ Parent(new, z) = Parent(map, z) /\ \A s \in Side : Child(new, z, s) = Child(map, z, s)
<1> DEFINE Paint(z) == [map.node[z] EXCEPT !.color =
                          IF z \in blacks THEN "black" ELSE IF z \in reds THEN "red" ELSE @]
<1>1. Node(map) = N /\ map = [root |-> map.root, node |-> map.node] /\ map.root \in N \cup {Null}
  BY FieldTypes
<1>2. new = [root |-> map.root, node |-> [z \in N |-> Paint(z)]]
  BY <1>1 DEF Painted
<1>3. ASSUME NEW z \in N
      PROVE  /\ Paint(z) \in Fields(N)
             /\ Paint(z).color = IF z \in blacks THEN "black" ELSE IF z \in reds THEN "red"
                                 ELSE map.node[z].color
             /\ Paint(z).lowAddr = map.node[z].lowAddr /\ Paint(z).highAddr = map.node[z].highAddr
             /\ Paint(z).parent = map.node[z].parent /\ Paint(z).child = map.node[z].child
  <2>1. PICK r : r = map.node[z]
    OBVIOUS
  <2>2. r \in Fields(N)
    BY <2>1, FieldTypes
  <2>3. PICK k : k = IF z \in blacks THEN "black" ELSE IF z \in reds THEN "red" ELSE r.color
    OBVIOUS
  <2>4. Paint(z) = [r EXCEPT !.color = k] /\ k \in {"red", "black"}
    BY <2>1, <2>2, <2>3 DEF Fields
  <2> HIDE DEF Paint
  <2>5. PICK q : q = Paint(z)
    OBVIOUS
  <2>6. q \in Fields(N) /\ q.color = k /\ q.lowAddr = r.lowAddr /\ q.highAddr = r.highAddr
        /\ q.parent = r.parent /\ q.child = r.child
    BY <2>2, <2>4, <2>5 DEF Fields
  <2>7. QED
    BY <2>1, <2>3, <2>5, <2>6
<1> HIDE DEF Paint
<1>4. \A z \in N : new.node[z] = Paint(z)
  BY <1>2
<1>5. new.root = map.root
  BY <1>2
<1>6. new \in Maps(N)
  <2>1. [z \in N |-> Paint(z)] \in [N -> Fields(N)]
    BY <1>3
  <2>2. QED
    BY <1>1, <1>2, <2>1 DEF Maps
<1>7. ASSUME NEW z \in N
      PROVE  /\ Color(new, z) = IF z \in blacks THEN "black" ELSE IF z \in reds THEN "red"
                                ELSE Color(map, z)
             /\ Low(new, z) = Low(map, z) /\ High(new, z) = High(map, z)
             /\ Parent(new, z) = Parent(map, z) /\ \A s \in Side : Child(new, z, s) = Child(map, z, s)
  BY <1>3, <1>4 DEF Color, Low, High, Parent, Child
<1>8. QED
  BY <1>5, <1>6, <1>7

\* It leaves the tree and its order.
LEMMA PaintTree ==
  ASSUME NEW N, NEW map, NEW u, Tree(N, map, u), NEW blacks, NEW reds
  PROVE  /\ Tree(N, Painted(map, blacks, reds), u)
         /\ \A R : Sorted(N, map, u, R) => Sorted(N, Painted(map, blacks, reds), u, R)
<1>1. PICK new : new = Painted(map, blacks, reds)
  OBVIOUS
<1>2. map \in Maps(N) /\ Null \notin N
  BY DEF Tree
<1>3. /\ new \in Maps(N) /\ new.root = map.root
      /\ \A z \in N : /\ Parent(new, z) = Parent(map, z)
                      /\ \A s \in Side : Child(new, z, s) = Child(map, z, s)
  BY <1>1, <1>2, PaintEffect
<1>4. ASSUME NEW z \in N PROVE Linked(new, z) /\ Spans(new, u, z)
  <2>1. Linked(map, z) /\ Spans(map, u, z)
    BY DEF Tree
  <2>2. Spans(new, u, z)
    BY <1>3, <2>1, Sides DEF Spans
  <2>3. \A s \in Side : Child(map, z, s) \in N \cup {Null}
    BY <1>2, FieldTypes
  <2>4. Parent(map, z) \in N \cup {Null}
    BY <1>2, FieldTypes
  <2>5. \A s \in Side : Child(new, z, s) # Null => Parent(new, Child(new, z, s)) = z
    BY <1>3, <2>1, <2>3 DEF Linked
  <2>6. Parent(new, z) = Null <=> z = new.root
    BY <1>3, <2>1 DEF Linked
  <2>7. Parent(new, z) # Null => \E s \in Side : Child(new, Parent(new, z), s) = z
    BY <1>3, <2>1, <2>4 DEF Linked
  <2>8. QED
    BY <2>2, <2>5, <2>6, <2>7 DEF Linked
<1>5. Tree(N, new, u)
  BY <1>2, <1>3, <1>4 DEF Tree
<1>6. \A R : Sorted(N, map, u, R) => Sorted(N, new, u, R)
  BY <1>3 DEF Sorted
<1>7. QED
  BY <1>1, <1>5, <1>6

-----------------------------------------------------------------------------
(* The balance. *)

\* h has for each node the number of black nodes on the ways down from it: it is the same
\* for all ways.
Black(map, x) == IF Color(map, x) = "black" THEN 1 ELSE 0
Rise(h, c)    == IF c = Null THEN 0 ELSE h[c]
Level(map, h, x) ==
  /\ Rise(h, Child(map, x, "left")) = Rise(h, Child(map, x, "right"))
  /\ h[x] = Rise(h, Child(map, x, "left")) + Black(map, x)
Heights(N, map, h) == h \in [N -> Nat] /\ \A x \in N : Level(map, h, x)

\* A red node has a black one above it.
Pale(map, x) == Color(map, x) = "red" => Parent(map, x) # Null /\ Color(map, Parent(map, x)) = "black"

\* A map of the ranges its nodes are named for, in the order R.
Ranges(N, map, u, R) ==
  /\ Tree(N, map, u) /\ Sorted(N, map, u, R)
  /\ \A x \in N : Low(map, x) = x[1] /\ High(map, x) = x[2]

\* The map while it is being balanced: of the red nodes only curr may be below a red one.
Balancing(N, map, curr, u, h, R) ==
  /\ Ranges(N, map, u, R) /\ Heights(N, map, h)
  /\ curr \in N /\ Color(map, curr) = "red"
  /\ \A x \in N : x # curr => Pale(map, x)

\* The levels, from either side.
LEMMA LevelSides ==
  ASSUME NEW map, NEW h, NEW x, NEW s \in Side
  PROVE  Level(map, h, x) <=> /\ Rise(h, Child(map, x, s)) = Rise(h, Child(map, x, Other(s)))
                              /\ h[x] = Rise(h, Child(map, x, s)) + Black(map, x)
<1>1. CASE s = "left"
  BY <1>1, Sides DEF Level
<1>2. CASE s = "right"
  BY <1>2, Sides DEF Level
<1>3. QED
  BY <1>1, <1>2 DEF Side

\* The levels g that a rotation makes of h, if they are right for the two nodes that change
\* places.
Relevels(N, map, x, side, h, g) ==
  LET y == Child(map, x, Other(side)) IN
  /\ h \in [N -> Nat] /\ g \in [N -> Nat]
  /\ \A z \in N : z # x /\ z # y => Level(map, h, z) /\ g[z] = h[z]
  /\ g[y] = h[x]
  /\ Rise(h, Child(map, x, side)) = Rise(h, Child(map, y, side))
  /\ g[x] = Rise(h, Child(map, x, side)) + Black(map, x)
  /\ Rise(h, Child(map, y, Other(side))) = g[x]
  /\ g[y] = g[x] + Black(map, y)

\* A rotation keeps as many black nodes on every way down, if it does for the two nodes.
LEMMA RotateLevels ==
  ASSUME NEW N, NEW map, NEW u, Tree(N, map, u), NEW x \in N, NEW side \in Side,
         NEW h, NEW g, Relevels(N, map, x, side, h, g), Child(map, x, Other(side)) # Null
  PROVE  Heights(N, Rotate(map, x, side), g)
<1>1. PICK y, new : y = Child(map, x, Other(side)) /\ new = Rotate(map, x, side)
  OBVIOUS
<1>2. /\ y # Null /\ h \in [N -> Nat] /\ g \in [N -> Nat]
      /\ \A z \in N : z # x /\ z # y => Level(map, h, z) /\ g[z] = h[z]
      /\ g[y] = h[x]
      /\ Rise(h, Child(map, x, side)) = Rise(h, Child(map, y, side))
      /\ g[x] = Rise(h, Child(map, x, side)) + Black(map, x)
      /\ Rise(h, Child(map, y, Other(side))) = g[x]
      /\ g[y] = g[x] + Black(map, y)
  BY <1>1 DEF Relevels
<1>3. map \in Maps(N) /\ Null \notin N
  BY DEF Tree
<1>4. y \in N /\ Other(side) \in Side /\ Other(side) # side /\ \A s \in Side : s = side \/ s = Other(side)
  BY <1>1, <1>3, FieldTypes, Sides
<1>5. PICK up, inner : up = Parent(map, x) /\ inner = Child(map, y, side)
  OBVIOUS
<1>6. /\ x # y /\ x # inner /\ y # inner /\ up # x /\ up # y /\ (up # Null => up # inner)
      /\ Parent(map, y) = x /\ (inner # Null => inner \in N /\ Parent(map, inner) = y)
      /\ x # Null /\ y # Null /\ up \in N \cup {Null}
  BY <1>1, <1>4, <1>5, RotationNodes
<1>7. \A z \in N, s \in Side : Child(new, z, s) =
                IF z = x /\ s = Other(side) THEN inner ELSE IF z = y /\ s = side THEN x
                ELSE IF z = up /\ Child(map, z, s) = x THEN y ELSE Child(map, z, s)
  BY <1>1, <1>3, <1>4, <1>5, RotateEffect
<1>8. \A z \in N, s \in Side : Child(map, z, s) # Null =>
         /\ Child(map, z, s) \in N /\ Parent(map, Child(map, z, s)) = z
         /\ Child(map, z, s) # Child(map, z, Other(s))
  BY Family
<1>9. \A c \in N \cup {Null} : c # x /\ c # y => Rise(g, c) = Rise(h, c)
  BY <1>2 DEF Rise
<1>10. \A z \in N : Black(new, z) = Black(map, z)
  BY <1>1, <1>3, <1>4, RotateEffect DEF Black
<1>11. ASSUME NEW z \in N, NEW s \in Side, z # x /\ z # y
      PROVE  Rise(g, Child(new, z, s)) = Rise(h, Child(map, z, s))
  <2>1. CASE z = up /\ Child(map, z, s) = x
    <3>1. Child(new, z, s) = y
      BY <1>7, <1>11, <2>1
    <3>2. QED
      BY <1>2, <1>6, <2>1, <3>1 DEF Rise
  <2>2. CASE ~(z = up /\ Child(map, z, s) = x)
    <3>1. Child(new, z, s) = Child(map, z, s)
      BY <1>7, <1>11, <2>2
    <3>2. Child(map, z, s) # x /\ Child(map, z, s) # y
      BY <1>1, <1>5, <1>6, <1>8, <1>11, <2>2
    <3>3. QED
      BY <1>3, <1>9, <3>1, <3>2, FieldTypes
  <2>3. QED
    BY <2>1, <2>2
<1>12. ASSUME NEW z \in N, z # x /\ z # y PROVE Level(new, g, z)
  <2>1. Level(map, h, z) /\ g[z] = h[z] /\ Black(new, z) = Black(map, z)
    BY <1>2, <1>10, <1>12
  <2>2. \A s \in Side : Rise(g, Child(new, z, s)) = Rise(h, Child(map, z, s))
    BY <1>11, <1>12
  <2>3. QED
    BY <2>1, <2>2, Sides DEF Level
<1>13. Level(new, g, x)
  <2>1. Child(new, x, side) = Child(map, x, side)
    BY <1>4, <1>6, <1>7
  <2>2. Child(map, x, side) # x /\ Child(map, x, side) # y
    BY <1>1, <1>4, <1>6, <1>8, Family
  <2>3. Rise(g, Child(new, x, side)) = Rise(h, Child(map, x, side))
    BY <1>3, <1>9, <2>1, <2>2, FieldTypes
  <2>4. Child(new, x, Other(side)) = inner
    BY <1>4, <1>7
  <2>5. Rise(g, Child(new, x, Other(side))) = Rise(h, Child(map, y, side))
    BY <1>5, <1>6, <1>9, <2>4
  <2>6. QED
    BY <1>2, <1>10, <2>3, <2>5, LevelSides
<1>14. Level(new, g, y)
  <2>1. Child(new, y, Other(side)) = Child(map, y, Other(side))
    BY <1>4, <1>6, <1>7
  <2>2. Child(map, y, Other(side)) # x /\ Child(map, y, Other(side)) # y
    BY <1>4, <1>5, <1>6, <1>8, Family
  <2>3. Rise(g, Child(new, y, Other(side))) = Rise(h, Child(map, y, Other(side)))
    BY <1>3, <1>4, <1>9, <2>1, <2>2, FieldTypes
  <2>4. Child(new, y, side) = x
    BY <1>4, <1>6, <1>7
  <2>5. Rise(g, Child(new, y, side)) = g[x]
    BY <1>6, <2>4 DEF Rise
  <2>6. Black(new, y) = Black(map, y)
    BY <1>4, <1>10
  <2>7. Rise(g, Child(new, y, side)) = Rise(g, Child(new, y, Other(side)))
    BY <1>2, <2>3, <2>5
  <2>8. g[y] = Rise(g, Child(new, y, side)) + Black(new, y)
    BY <1>2, <2>5, <2>6
  <2>9. QED
    BY <2>7, <2>8, LevelSides
<1>15. QED
  BY <1>1, <1>2, <1>12, <1>13, <1>14 DEF Heights

\* The colours, ranges and order of a map after a rotation.
LEMMA RotateRanges ==
  ASSUME NEW N, NEW map, NEW u, NEW R, Ranges(N, map, u, R), Transitive(R, N),
         NEW x \in N, NEW side \in Side, Child(map, x, Other(side)) # Null
  PROVE  Ranges(N, Rotate(map, x, side), Moved(map, x, side, u), R)
<1>1. PICK new, v, y : /\ new = Rotate(map, x, side) /\ v = Moved(map, x, side, u)
                       /\ y = Child(map, x, Other(side))
  OBVIOUS
<1>2. Tree(N, map, u) /\ Sorted(N, map, u, R) /\ map \in Maps(N) /\ Null \notin N
  BY DEF Tree, Ranges
<1>3. y \in N
  BY <1>1, <1>2, FieldTypes, Sides
<1>4. \A z \in N : Low(new, z) = Low(map, z) /\ High(new, z) = High(map, z)
  BY <1>1, <1>2, <1>3, RotateEffect
<1>5. Tree(N, new, v) /\ Sorted(N, new, v, R)
  BY <1>1, <1>2, RotateTree, RotateSorted
<1>6. QED
  BY <1>1, <1>4, <1>5 DEF Ranges

\* And after painting.
LEMMA PaintRanges ==
  ASSUME NEW N, NEW map, NEW u, NEW R, Ranges(N, map, u, R), NEW blacks, NEW reds
  PROVE  Ranges(N, Painted(map, blacks, reds), u, R)
<1>1. Tree(N, map, u) /\ Sorted(N, map, u, R) /\ map \in Maps(N)
  BY DEF Tree, Ranges
<1>2. PICK new : new = Painted(map, blacks, reds)
  OBVIOUS
<1>3. \A z \in N : Low(new, z) = Low(map, z) /\ High(new, z) = High(map, z)
  BY <1>1, <1>2, PaintEffect
<1>4. Tree(N, new, u) /\ Sorted(N, new, u, R)
  BY <1>1, <1>2, PaintTree
<1>5. QED
  BY <1>2, <1>3, <1>4 DEF Ranges

\* The family of a red node below a red one.
LEMMA RedFamily ==
  ASSUME NEW N, NEW map, NEW u, NEW h, NEW R, NEW curr, Balancing(N, map, curr, u, h, R),
         NEW parent, parent = Parent(map, curr), parent # Null, Color(map, parent) = "red",
         NEW above, above = Parent(map, parent),
         NEW side \in Side, Child(map, above, side) = parent,
         NEW uncle, uncle = Child(map, above, Other(side))
  PROVE  /\ parent \in N /\ above \in N /\ above # Null /\ curr # parent /\ curr # above
         /\ parent # above /\ uncle # parent /\ uncle # above /\ uncle # curr
         /\ uncle \in N \cup {Null} /\ (uncle # Null => Parent(map, uncle) = above)
         /\ Color(map, above) = "black" /\ Pale(map, parent)
         /\ Cardinality(u[curr]) < Cardinality(u[above])
         /\ \A z \in N : Parent(map, z) = above => z = parent \/ z = uncle
<1>1. Tree(N, map, u) /\ curr \in N
  BY DEF Balancing, Ranges
<1>2. parent \in N /\ parent # curr /\ parent \notin u[curr] /\ u[curr] \subseteq u[parent]
      /\ Cardinality(u[curr]) < Cardinality(u[parent])
  BY <1>1, Upward
<1>3. Pale(map, parent)
  BY <1>2 DEF Balancing
<1>4. above # Null /\ Color(map, above) = "black"
  BY <1>3 DEF Pale
<1>5. above \in N /\ above # parent /\ above \notin u[parent]
      /\ Cardinality(u[parent]) < Cardinality(u[above])
  BY <1>1, <1>2, <1>4, Upward
<1>6. curr \in u[curr] /\ curr # above
  BY <1>1, <1>2, <1>5, Family
<1>7. uncle # Null => uncle \in N /\ uncle # above /\ uncle # parent /\ Parent(map, uncle) = above
  BY <1>1, <1>5, Family, Sides
<1>8. Cardinality(u[curr]) < Cardinality(u[above])
  <2>1. Cardinality(u[curr]) \in Nat /\ Cardinality(u[parent]) \in Nat /\ Cardinality(u[above]) \in Nat
    BY <1>1, <1>2, <1>5, Family
  <2>2. QED
    BY <1>2, <1>5, <2>1
<1>9. ASSUME NEW z \in N, Parent(map, z) = above PROVE z = parent \/ z = uncle
  <2>1. PICK s \in Side : Child(map, above, s) = z
    BY <1>1, <1>4, <1>9, Upward
  <2>2. QED
    BY <2>1, Sides
<1>10. curr # Null /\ parent # Null /\ Null \notin N
  BY <1>1 DEF Tree
<1>11. QED
  BY <1>1, <1>2, <1>3, <1>4, <1>5, <1>6, <1>7, <1>8, <1>9, <1>10

\* The parent and its red sibling become black, the node above them red.
LEMMA UncleStep ==
  ASSUME NEW N, NEW map, NEW u, NEW h, NEW R, NEW curr, Balancing(N, map, curr, u, h, R),
         NEW parent, parent = Parent(map, curr), parent # Null, Color(map, parent) = "red",
         NEW above, above = Parent(map, parent),
         NEW side \in Side, Child(map, above, side) = parent,
         NEW uncle \in N, uncle = Child(map, above, Other(side)), Color(map, uncle) = "red"
  PROVE  /\ \E g : Balancing(N, Painted(map, {parent, uncle}, {above}), above, u, g, R)
         /\ Cardinality(u[curr]) < Cardinality(u[above])
<1>1. /\ parent \in N /\ above \in N /\ above # Null /\ curr # parent /\ curr # above
      /\ parent # above /\ uncle # parent /\ uncle # above /\ uncle # curr
      /\ Color(map, above) = "black" /\ Cardinality(u[curr]) < Cardinality(u[above])
      /\ \A z \in N : Parent(map, z) = above => z = parent \/ z = uncle
  BY RedFamily
<1>2. PICK new : new = Painted(map, {parent, uncle}, {above})
  OBVIOUS
<1>3. Ranges(N, map, u, R) /\ Heights(N, map, h) /\ map \in Maps(N) /\ Tree(N, map, u)
      /\ Null \notin N
  BY DEF Balancing, Ranges, Tree
<1>4. \A z \in N : /\ Color(new, z) = IF z = parent \/ z = uncle THEN "black"
                                      ELSE IF z = above THEN "red" ELSE Color(map, z)
                   /\ Parent(new, z) = Parent(map, z)
                   /\ \A s \in Side : Child(new, z, s) = Child(map, z, s)
  BY <1>2, <1>3, PaintEffect
<1>5. Ranges(N, new, u, R)
  BY <1>2, <1>3, PaintRanges
<1>6. PICK g : g = [z \in N |-> IF z = parent \/ z = uncle THEN h[z] + 1 ELSE h[z]]
  OBVIOUS
<1>7. /\ h \in [N -> Nat] /\ \A z \in N : Level(map, h, z)
      /\ \A z \in N, s \in Side : Child(map, z, s) # Null =>
           Child(map, z, s) \in N /\ Parent(map, Child(map, z, s)) = z
  BY <1>3, Family DEF Heights
<1>8. ASSUME NEW z \in N PROVE Level(new, g, z)
  <2>1. CASE z = above
    <3>1. Rise(g, parent) = Rise(h, parent) + 1 /\ Rise(g, uncle) = Rise(h, uncle) + 1
      BY <1>1, <1>3, <1>6 DEF Rise
    <3>2. Rise(h, parent) = Rise(h, uncle) /\ h[above] = Rise(h, parent) + Black(map, above)
      BY <1>1, <1>7, LevelSides
    <3>3. Black(map, above) = 1 /\ Black(new, above) = 0
      BY <1>1, <1>4 DEF Black
    <3>4. g[above] = h[above] /\ h[above] \in Nat /\ h[parent] \in Nat
      BY <1>1, <1>6, <1>7
    <3>5. Rise(h, parent) \in Nat
      BY <1>7, <1>1, <1>3 DEF Rise
    <3>6. g[above] = Rise(g, parent) + Black(new, above) /\ Rise(g, parent) = Rise(g, uncle)
      BY <3>1, <3>2, <3>3, <3>4, <3>5
    <3>7. Child(new, above, side) = parent /\ Child(new, above, Other(side)) = uncle
      BY <1>1, <1>4, Sides
    <3>8. QED
      BY <2>1, <3>6, <3>7, LevelSides
  <2>2. CASE z # above
    <3>1. ASSUME NEW s \in Side PROVE Rise(g, Child(new, z, s)) = Rise(h, Child(map, z, s))
      <4>1. PICK c : c = Child(map, z, s)
        OBVIOUS
      <4>2. Child(new, z, s) = c /\ (c # Null => c \in N /\ Parent(map, c) = z)
        BY <1>4, <1>7, <4>1
      <4>3. Parent(map, parent) = above /\ Parent(map, uncle) = above
        BY <1>1, RedFamily, <1>3
      <4>4. c # parent /\ c # uncle
        BY <1>1, <1>3, <2>2, <4>2, <4>3
      <4>5. Rise(g, c) = Rise(h, c)
        BY <1>6, <4>2, <4>4 DEF Rise
      <4>6. QED
        BY <4>1, <4>2, <4>5
    <3>2. g[z] = h[z] + (IF z = parent \/ z = uncle THEN 1 ELSE 0) /\ h[z] \in Nat
      BY <1>6, <1>7
    <3>3. Black(new, z) = Black(map, z) + (IF z = parent \/ z = uncle THEN 1 ELSE 0)
      BY <1>4, <2>2 DEF Black
    <3>4. Black(map, z) \in Nat
      BY DEF Black
    <3>5. Level(map, h, z)
      BY <1>7
    <3>6. /\ Rise(g, Child(new, z, "left")) = Rise(g, Child(new, z, "right"))
          /\ h[z] = Rise(g, Child(new, z, "left")) + Black(map, z)
      BY <3>1, <3>5, Sides DEF Level
    <3>7. Rise(g, Child(new, z, "left")) \in Nat
      <4>1. PICK c : c = Child(map, z, "left")
        OBVIOUS
      <4>2. c # Null => c \in N
        BY <1>7, <4>1, Sides
      <4>3. Rise(h, c) \in Nat
        BY <1>7, <4>2 DEF Rise
      <4>4. QED
        BY <3>1, <4>1, <4>3, Sides
    <3>8. g[z] = Rise(g, Child(new, z, "left")) + Black(new, z)
      BY <3>2, <3>3, <3>4, <3>6, <3>7
    <3>9. QED
      BY <3>6, <3>8 DEF Level
  <2>3. QED
    BY <2>1, <2>2
<1>9. g \in [N -> Nat]
  BY <1>6, <1>7
<1>10. ASSUME NEW z \in N, z # above PROVE Pale(new, z)
  <2>1. SUFFICES ASSUME Color(new, z) = "red"
                 PROVE  Parent(new, z) # Null /\ Color(new, Parent(new, z)) = "black"
    BY DEF Pale
  <2>2. z # parent /\ z # uncle /\ Color(map, z) = "red"
    BY <1>4, <1>10, <2>1
  <2>3. Parent(map, z) \in N \cup {Null}
    BY <1>3, FieldTypes
  <2>4. CASE z = curr
    BY <1>1, <1>4, <2>4
  <2>5. CASE z # curr
    <3>1. Parent(map, z) # Null /\ Color(map, Parent(map, z)) = "black"
      BY <2>2, <2>5 DEF Balancing, Pale
    <3>2. Parent(map, z) # above
      BY <1>1, <2>2
    <3>3. QED
      BY <1>4, <2>3, <3>1, <3>2
  <2>6. QED
    BY <2>4, <2>5
<1>11. Color(new, above) = "red"
  BY <1>1, <1>4
<1>12. Balancing(N, new, above, u, g, R)
  BY <1>1, <1>5, <1>8, <1>9, <1>10, <1>11 DEF Balancing, Heights
<1>13. QED
  BY <1>1, <1>2, <1>12

\* A red node on the inside: it changes places with its parent, which is the lower one then.
LEMMA InnerStep ==
  ASSUME NEW N, NEW map, NEW u, NEW h, NEW R, NEW curr, Balancing(N, map, curr, u, h, R),
         Transitive(R, N),
         NEW parent, parent = Parent(map, curr), parent # Null, Color(map, parent) = "red",
         NEW above, above = Parent(map, parent),
         NEW side \in Side, Child(map, above, side) = parent, Child(map, parent, Other(side)) = curr,
         NEW new, new = Rotate(map, parent, side)
  PROVE  /\ \E v : Balancing(N, new, parent, v, h, R)
         /\ Parent(new, parent) = curr /\ Parent(new, curr) = above /\ Color(new, curr) = "red"
         /\ Child(new, above, side) = curr /\ Child(new, curr, side) = parent
         /\ Child(new, above, Other(side)) = Child(map, above, Other(side))
         /\ \A z \in N : Color(new, z) = Color(map, z)
<1>1. PICK uncle : uncle = Child(map, above, Other(side))
  OBVIOUS
<1>2. /\ parent \in N /\ above \in N /\ above # Null /\ curr # parent /\ curr # above
      /\ parent # above /\ uncle # parent /\ Color(map, above) = "black"
  BY <1>1, RedFamily
<1>3. Ranges(N, map, u, R) /\ Heights(N, map, h) /\ map \in Maps(N) /\ Tree(N, map, u)
      /\ Null \notin N /\ curr \in N /\ curr # Null /\ Color(map, curr) = "red"
  BY DEF Balancing, Ranges, Tree
<1>4. PICK inner : inner = Child(map, curr, side)
  OBVIOUS
<1>5. /\ parent # inner /\ curr # inner /\ above # inner
      /\ (inner # Null => inner \in N /\ Parent(map, inner) = curr)
  BY <1>2, <1>3, <1>4, RotationNodes
<1>6. \A z \in N :
        /\ Color(new, z) = Color(map, z)
        /\ Parent(new, z) = IF z = curr THEN above ELSE IF z = parent THEN curr
                            ELSE IF z = inner THEN parent ELSE Parent(map, z)
        /\ \A s \in Side : Child(new, z, s) =
             IF z = parent /\ s = Other(side) THEN inner ELSE IF z = curr /\ s = side THEN parent
             ELSE IF z = above /\ Child(map, z, s) = parent THEN curr ELSE Child(map, z, s)
  BY <1>2, <1>3, <1>4, RotateEffect
<1>7. Ranges(N, new, Moved(map, parent, side, u), R)
  BY <1>2, <1>3, RotateRanges
<1>8. Heights(N, new, h)
  <2>1. /\ h \in [N -> Nat] /\ Level(map, h, parent) /\ Level(map, h, curr)
        /\ \A z \in N : Level(map, h, z)
    BY <1>2, <1>3 DEF Heights
  <2>2. Black(map, parent) = 0 /\ Black(map, curr) = 0
    BY <1>3 DEF Black
  <2>3. h[parent] \in Nat /\ h[curr] \in Nat
    BY <1>2, <1>3, <2>1
  <2>4. PICK a, b, c : /\ a = Rise(h, Child(map, parent, side)) /\ b = Rise(h, Child(map, curr, side))
                       /\ c = Rise(h, Child(map, curr, Other(side)))
    OBVIOUS
  <2>5. a = Rise(h, curr) /\ h[parent] = a + 0 /\ b = c /\ h[curr] = b + 0
    BY <2>1, <2>2, <2>4, LevelSides
  <2>6. Rise(h, curr) = h[curr]
    BY <1>3 DEF Rise
  <2>7. a \in Nat /\ b \in Nat
    <3>1. \A c1 \in N \cup {Null} : Rise(h, c1) \in Nat
      BY <2>1 DEF Rise
    <3>2. QED
      BY <1>2, <1>3, <2>4, <3>1, FieldTypes
  <2>8. h[parent] = a /\ h[curr] = h[parent] /\ a = b /\ c = a
    BY <2>3, <2>5, <2>6, <2>7
  <2>9. /\ Rise(h, Child(map, parent, side)) = Rise(h, Child(map, curr, side))
        /\ h[parent] = Rise(h, Child(map, parent, side)) + Black(map, parent)
        /\ Rise(h, Child(map, curr, Other(side))) = h[parent]
        /\ h[curr] = h[parent] + Black(map, curr)
    BY <2>2, <2>4, <2>7, <2>8
  <2>10. Relevels(N, map, parent, side, h, h)
    BY <2>1, <2>8, <2>9 DEF Relevels
  <2>11. QED
    BY <1>2, <1>3, <2>10, RotateLevels
<1>9. ASSUME NEW z \in N, z # parent PROVE Pale(new, z)
  <2>1. SUFFICES ASSUME Color(new, z) = "red"
                 PROVE  Parent(new, z) # Null /\ Color(new, Parent(new, z)) = "black"
    BY DEF Pale
  <2>2. Color(map, z) = "red"
    BY <1>6, <2>1
  <2>3. Parent(map, z) \in N \cup {Null}
    BY <1>3, FieldTypes
  <2>4. CASE z = curr
    BY <1>2, <1>3, <1>6, <2>4
  <2>5. CASE z # curr
    <3>1. Parent(map, z) # Null /\ Color(map, Parent(map, z)) = "black"
      BY <2>2, <2>5 DEF Balancing, Pale
    <3>2. z # inner
      BY <1>3, <1>5, <3>1
    <3>3. Parent(new, z) = Parent(map, z)
      BY <1>6, <1>9, <2>5, <3>2
    <3>4. QED
      BY <1>6, <2>3, <3>1, <3>3
  <2>6. QED
    BY <2>4, <2>5
<1>10. Balancing(N, new, parent, Moved(map, parent, side, u), h, R)
  BY <1>2, <1>6, <1>7, <1>8, <1>9 DEF Balancing
<1>11. Parent(new, parent) = curr /\ Parent(new, curr) = above
  BY <1>2, <1>3, <1>6
<1>12. Child(new, above, side) = curr /\ Child(new, curr, side) = parent
  BY <1>2, <1>3, <1>6
<1>13. Child(new, above, Other(side)) = Child(map, above, Other(side))
  BY <1>1, <1>2, <1>6, Sides
<1>14. QED
  BY <1>3, <1>6, <1>10, <1>11, <1>12, <1>13

\* A red node on the outside: its parent becomes black and rises above the node above it,
\* which becomes red.
LEMMA OuterStep ==
  ASSUME NEW N, NEW map, NEW u, NEW h, NEW R, NEW curr, Balancing(N, map, curr, u, h, R),
         Transitive(R, N),
         NEW parent, parent = Parent(map, curr), parent # Null, Color(map, parent) = "red",
         NEW above, above = Parent(map, parent),
         NEW side \in Side, Child(map, above, side) = parent, Child(map, parent, side) = curr,
         NEW uncle, uncle = Child(map, above, Other(side)), ~Red(map, uncle),
         NEW new, new = Rotate(Painted(map, {parent}, {above}), above, Other(side))
  PROVE  /\ \E v, g : Balancing(N, new, curr, v, g, R)
         /\ Parent(new, curr) = parent /\ Color(new, parent) = "black"
<1>1. /\ parent \in N /\ above \in N /\ above # Null /\ curr # parent /\ curr # above
      /\ parent # above /\ uncle # parent /\ uncle # above /\ uncle # curr
      /\ uncle \in N \cup {Null} /\ Color(map, above) = "black" /\ Pale(map, parent)
      /\ \A z \in N : Parent(map, z) = above => z = parent \/ z = uncle
  BY RedFamily
<1>2. PICK mid : mid = Painted(map, {parent}, {above})
  OBVIOUS
<1>3. Ranges(N, map, u, R) /\ Heights(N, map, h) /\ map \in Maps(N) /\ Tree(N, map, u)
      /\ Null \notin N /\ curr \in N /\ curr # Null /\ Color(map, curr) = "red"
  BY DEF Balancing, Ranges, Tree
<1>4. \A z \in N : /\ Color(mid, z) = IF z = parent THEN "black" ELSE IF z = above THEN "red"
                                      ELSE Color(map, z)
                   /\ Parent(mid, z) = Parent(map, z)
                   /\ \A s \in Side : Child(mid, z, s) = Child(map, z, s)
  BY <1>2, <1>3, PaintEffect
<1>5. Ranges(N, mid, u, R) /\ Tree(N, mid, u) /\ mid \in Maps(N)
  BY <1>2, <1>3, PaintRanges DEF Ranges, Tree
<1>6. PICK turn, up, inner : /\ turn = Other(side) /\ up = Parent(map, above)
                             /\ inner = Child(map, parent, Other(side))
  OBVIOUS
<1>7. turn \in Side /\ Other(turn) = side /\ turn # side
  BY <1>6, Sides
<1>8. /\ Child(mid, above, Other(turn)) = parent /\ Parent(mid, above) = up
      /\ Child(mid, parent, turn) = inner
  BY <1>1, <1>4, <1>6, <1>7
<1>9. new = Rotate(mid, above, turn)
  BY <1>2, <1>6
<1>10. /\ above # inner /\ parent # inner /\ up # above /\ up # parent /\ (up # Null => up # inner)
       /\ (inner # Null => inner \in N /\ Parent(mid, inner) = parent)
  BY <1>1, <1>5, <1>7, <1>8, RotationNodes
<1>11. \A z \in N :
        /\ Color(new, z) = Color(mid, z)
        /\ Parent(new, z) = IF z = parent THEN up ELSE IF z = above THEN parent
                            ELSE IF z = inner THEN above ELSE Parent(mid, z)
  BY <1>1, <1>5, <1>7, <1>8, <1>9, RotateEffect
<1>12. inner # curr
  BY <1>1, <1>3, <1>6, <1>7, Family, Sides
<1>13. Ranges(N, new, Moved(mid, above, turn, u), R)
  BY <1>1, <1>3, <1>5, <1>7, <1>8, <1>9, RotateRanges
<1>14. Parent(new, curr) = parent /\ Color(new, parent) = "black" /\ Color(new, curr) = "red"
  BY <1>1, <1>3, <1>4, <1>11, <1>12
<1>15. PICK g : g = [z \in N |-> IF z = parent THEN h[above] ELSE IF z = above THEN h[above] - 1
                                 ELSE h[z]]
  OBVIOUS
<1>16. Heights(N, new, g)
  <2>1. h \in [N -> Nat] /\ \A z \in N : Level(map, h, z)
    BY <1>3 DEF Heights
  <2>2. Black(map, parent) = 0 /\ Black(map, above) = 1 /\ Black(mid, parent) = 1 /\ Black(mid, above) = 0
    BY <1>1, <1>4 DEF Black
  <2>3. \A c \in N \cup {Null} : Rise(h, c) \in Nat
    BY <2>1 DEF Rise
  <2>4. PICK a, b, c, d : /\ a = Rise(h, uncle) /\ b = Rise(h, inner) /\ c = Rise(h, curr)
                          /\ d = Rise(h, parent)
    OBVIOUS
  <2>5. a \in Nat /\ b \in Nat /\ c \in Nat /\ d \in Nat /\ h[above] \in Nat
    BY <1>1, <1>3, <1>10, <2>1, <2>3, <2>4
  <2>6. d = a /\ h[above] = d + Black(map, above)
    BY <1>1, <2>1, <2>4, LevelSides
  <2>7. c = b /\ h[parent] = c + Black(map, parent)
    BY <1>1, <1>6, <2>1, <2>4, LevelSides
  <2>8. d = h[parent]
    BY <1>1, <1>3, <2>4 DEF Rise
  <2>9. a = b /\ c = a /\ h[above] = a + 1
    BY <2>2, <2>5, <2>6, <2>7, <2>8
  <2>10. g \in [N -> Nat] /\ g[parent] = h[above] /\ g[above] = a
    BY <1>1, <1>15, <2>1, <2>5, <2>9
  <2>11. /\ Child(mid, above, turn) = uncle /\ Child(mid, parent, turn) = inner
         /\ Child(mid, parent, Other(turn)) = curr
    BY <1>1, <1>4, <1>6, <1>7, <1>8
  <2>12. ASSUME NEW z \in N, z # above, z # parent PROVE Level(mid, h, z) /\ g[z] = h[z]
    <3>1. Level(map, h, z) /\ g[z] = h[z]
      BY <1>15, <2>1, <2>12
    <3>2. Black(mid, z) = Black(map, z) /\ \A s \in Side : Child(mid, z, s) = Child(map, z, s)
      BY <1>4, <2>12 DEF Black
    <3>3. QED
      BY <3>1, <3>2, Sides DEF Level
  <2>13. /\ Rise(h, Child(mid, above, turn)) = Rise(h, Child(mid, parent, turn))
         /\ g[above] = Rise(h, Child(mid, above, turn)) + Black(mid, above)
         /\ Rise(h, Child(mid, parent, Other(turn))) = g[above]
         /\ g[parent] = g[above] + Black(mid, parent)
    <3>1. Rise(h, Child(mid, above, turn)) = a
      BY <2>4, <2>11
    <3>2. Rise(h, Child(mid, parent, turn)) = b
      BY <2>4, <2>11
    <3>3. Rise(h, Child(mid, parent, Other(turn))) = c
      BY <2>4, <2>11
    <3>4. g[above] = a + Black(mid, above) /\ g[parent] = g[above] + Black(mid, parent)
      BY <2>2, <2>5, <2>9, <2>10
    <3>5. QED
      BY <2>9, <2>10, <3>1, <3>2, <3>3, <3>4
  <2>14. \A z \in N : z # above /\ z # parent => Level(mid, h, z) /\ g[z] = h[z]
    BY <2>12
  <2>15. Child(mid, above, Other(turn)) = parent /\ parent # Null /\ Tree(N, mid, u)
    BY <1>1, <1>3, <1>5, <1>8
  <2>16. Relevels(N, mid, above, turn, h, g)
    BY <2>1, <2>10, <2>13, <2>14, <2>15 DEF Relevels
  <2>17. QED
    BY <1>1, <1>7, <1>9, <2>15, <2>16, RotateLevels
<1>17. ASSUME NEW z \in N, z # curr PROVE Pale(new, z)
  <2>1. SUFFICES ASSUME Color(new, z) = "red"
                 PROVE  Parent(new, z) # Null /\ Color(new, Parent(new, z)) = "black"
    BY DEF Pale
  <2>2. z # parent
    BY <1>1, <1>4, <1>11, <2>1
  <2>3. CASE z = above
    BY <1>1, <1>4, <1>11, <2>3
  <2>4. CASE z # above
    <3>1. Color(map, z) = "red"
      BY <1>4, <1>11, <2>1, <2>2, <2>4
    <3>2. Parent(map, z) # Null /\ Color(map, Parent(map, z)) = "black"
      BY <1>17, <3>1 DEF Balancing, Pale
    <3>3. z # inner
      BY <1>3, <1>4, <1>10, <3>2
    <3>4. z # uncle
      BY <1>3, <3>1 DEF Red, Color
    <3>5. Parent(map, z) # above /\ Parent(map, z) \in N
      BY <1>1, <1>3, <2>2, <3>2, <3>4, FieldTypes
    <3>6. Parent(new, z) = Parent(map, z)
      BY <1>4, <1>11, <2>2, <2>4, <3>3
    <3>7. QED
      BY <1>4, <1>11, <3>2, <3>5, <3>6
  <2>5. QED
    BY <2>3, <2>4
<1>18. Balancing(N, new, curr, Moved(mid, above, turn, u), g, R)
  BY <1>3, <1>13, <1>14, <1>16, <1>17 DEF Balancing
<1>19. QED
  BY <1>14, <1>18

\* The loop ends when curr is the root or no red node is above it.
Settled(map, curr) == curr = map.root \/ ~Red(map, Parent(map, curr))

\* A pass of the loop balances or goes up.
LEMMA RebalanceStep ==
  ASSUME NEW N, NEW at, NEW u, NEW h, NEW R, Balancing(N, at.map, at.curr, u, h, R),
         Transitive(R, N), ~Settled(at.map, at.curr),
         NEW next, next = Rebalance(at)
  PROVE  \E v, g : /\ Balancing(N, next.map, next.curr, v, g, R)
                   /\ \/ Settled(next.map, next.curr)
                      \/ Cardinality(u[at.curr]) < Cardinality(v[next.curr])
<1>1. PICK map, curr : map = at.map /\ curr = at.curr
  OBVIOUS
<1>2. PICK parent : parent = Parent(map, curr)
  OBVIOUS
<1>3. PICK above : above = Parent(map, parent)
  OBVIOUS
<1>4. PICK side : side = IF parent = Child(map, above, "left") THEN "left" ELSE "right"
  OBVIOUS
<1>5. PICK uncle : uncle = Child(map, above, Other(side))
  OBVIOUS
<1>6. Balancing(N, map, curr, u, h, R) /\ Tree(N, map, u) /\ map \in Maps(N) /\ Null \notin N
      /\ curr \in N
  BY <1>1 DEF Balancing, Ranges, Tree
<1>7. parent # Null /\ Color(map, parent) = "red" /\ Red(map, parent) /\ curr # map.root
  BY <1>1, <1>2 DEF Settled, Red, Color
<1>8. parent \in N
  BY <1>2, <1>6, <1>7, FieldTypes
<1>9. side \in Side /\ Child(map, above, side) = parent
  <2>1. Pale(map, parent)
    <3>1. parent # curr
      BY <1>2, <1>6, <1>7, Upward
    <3>2. QED
      BY <1>6, <1>8, <3>1 DEF Balancing
  <2>2. above # Null
    BY <1>3, <1>7, <2>1 DEF Pale
  <2>3. PICK s \in Side : Child(map, above, s) = parent
    BY <1>3, <1>6, <1>8, <2>2, Upward
  <2>4. QED
    BY <1>4, <2>3 DEF Side
<1>10. /\ Red(map, uncle) =>
            next = [map |-> Painted(map, {parent, uncle}, {above}), curr |-> above]
       /\ ~Red(map, uncle) /\ Child(map, parent, Other(side)) = curr =>
            next = [map |-> Rotate(Painted(Rotate(map, parent, side), {curr}, {above}), above, Other(side)),
                    curr |-> parent]
       /\ ~Red(map, uncle) /\ Child(map, parent, Other(side)) # curr =>
            next = [map |-> Rotate(Painted(map, {parent}, {above}), above, Other(side)), curr |-> curr]
  BY <1>1, <1>2, <1>3, <1>4, <1>5, <1>7 DEF Rebalance, Inner
<1>11. CASE Red(map, uncle)
  <2>1. uncle \in N /\ Color(map, uncle) = "red"
    <3>1. uncle \in N \cup {Null}
      BY <1>2, <1>3, <1>5, <1>6, <1>7, <1>9, RedFamily
    <3>2. QED
      BY <1>11, <3>1 DEF Red, Color
  <2>2. next.map = Painted(map, {parent, uncle}, {above}) /\ next.curr = above
    BY <1>10, <1>11
  <2>3. /\ \E g : Balancing(N, Painted(map, {parent, uncle}, {above}), above, u, g, R)
        /\ Cardinality(u[curr]) < Cardinality(u[above])
    BY <1>2, <1>3, <1>5, <1>6, <1>7, <1>9, <2>1, UncleStep
  <2>4. QED
    BY <1>1, <2>2, <2>3
<1>12. CASE ~Red(map, uncle) /\ Child(map, parent, Other(side)) = curr
  <2>1. PICK mid : mid = Rotate(map, parent, side)
    OBVIOUS
  <2>2. PICK v : Balancing(N, mid, parent, v, h, R)
    BY <1>2, <1>3, <1>6, <1>7, <1>9, <1>12, <2>1, InnerStep
  <2>3. /\ Parent(mid, parent) = curr /\ Parent(mid, curr) = above /\ Color(mid, curr) = "red"
        /\ Child(mid, above, side) = curr /\ Child(mid, curr, side) = parent
        /\ Child(mid, above, Other(side)) = uncle
        /\ \A z \in N : Color(mid, z) = Color(map, z)
    BY <1>2, <1>3, <1>5, <1>6, <1>7, <1>9, <1>12, <2>1, InnerStep
  <2>4. ~Red(mid, uncle)
    <3>1. uncle \in N \cup {Null}
      BY <1>2, <1>3, <1>5, <1>6, <1>7, <1>9, RedFamily
    <3>2. QED
      BY <1>12, <2>3, <3>1 DEF Red, Color
  <2>5. PICK new : new = Rotate(Painted(mid, {curr}, {above}), above, Other(side))
    OBVIOUS
  <2>6. curr # Null
    BY <1>6
  <2>7. /\ \E w, g : Balancing(N, new, parent, w, g, R)
        /\ Parent(new, parent) = curr /\ Color(new, curr) = "black"
    BY <1>9, <2>2, <2>3, <2>4, <2>5, <2>6, OuterStep
  <2>8. next.map = new /\ next.curr = parent
    BY <1>10, <1>12, <2>1, <2>5
  <2>9. Settled(new, parent)
    BY <2>7 DEF Settled, Red, Color
  <2>10. QED
    BY <2>7, <2>8, <2>9
<1>13. CASE ~Red(map, uncle) /\ Child(map, parent, Other(side)) # curr
  <2>1. Child(map, parent, side) = curr
    <3>1. PICK s \in Side : Child(map, parent, s) = curr
      BY <1>2, <1>6, <1>7, Upward
    <3>2. QED
      BY <1>9, <1>13, <3>1, Sides
  <2>2. PICK new : new = Rotate(Painted(map, {parent}, {above}), above, Other(side))
    OBVIOUS
  <2>3. /\ \E v, g : Balancing(N, new, curr, v, g, R)
        /\ Parent(new, curr) = parent /\ Color(new, parent) = "black"
    BY <1>2, <1>3, <1>5, <1>6, <1>7, <1>9, <1>13, <2>1, <2>2, OuterStep
  <2>4. next.map = new /\ next.curr = curr
    BY <1>10, <1>13, <2>2
  <2>5. Settled(new, curr)
    BY <2>3 DEF Settled, Red, Color
  <2>6. QED
    BY <2>3, <2>4, <2>5
<1>14. QED
  BY <1>11, <1>12, <1>13

\* The loop ends with the map balanced.
LEMMA RebalancedSettles ==
  ASSUME NEW N, NEW map, NEW new, NEW u, NEW h, NEW R, Balancing(N, map, new, u, h, R),
         Transitive(R, N)
  PROVE  \E curr, v, g : /\ Balancing(N, Rebalanced(map, new), curr, v, g, R)
                         /\ Settled(Rebalanced(map, new), curr)
<1>1. PICK passes : passes = Cardinality(N) + 1
  OBVIOUS
<1>2. PICK start : start = [map |-> map, curr |-> new]
  OBVIOUS
<1>3. Tree(N, map, u) /\ IsFiniteSet(N) /\ Node(map) = N
  BY FieldTypes DEF Balancing, Ranges, Tree
<1>4. Cardinality(N) \in Nat /\ passes \in Nat
  BY <1>1, <1>3, FS_CardinalityType
<1>5. PICK at : Passes(at, passes, start) /\ Rebalanced(map, new) = at[passes].map
  <2>1. \E f : Passes(f, passes, start)
    BY <1>4, PassesExist
  <2>2. PICK f : f = CHOOSE k : Passes(k, passes, start)
    OBVIOUS
  <2>3. Passes(f, passes, start)
    BY <2>1, <2>2
  <2>4. Rebalanced(map, new) = f[passes].map
    BY <1>1, <1>2, <1>3, <2>2 DEF Rebalanced, Passes
  <2>5. QED
    BY <2>3, <2>4
<1>6. at[0] = start /\ \A k \in Nat : k + 1 \in 0 .. passes => at[k + 1] = Rebalance(at[k])
  <2>1. at = [k \in 0 .. passes |-> IF k = 0 THEN start ELSE Rebalance(at[k - 1])]
    BY <1>5 DEF Passes
  <2>2. at[0] = start
    BY <1>4, <2>1
  <2>3. ASSUME NEW k \in Nat, k + 1 \in 0 .. passes PROVE at[k + 1] = Rebalance(at[k])
    <3>1. PICK n : n = k + 1
      OBVIOUS
    <3>2. n \in 0 .. passes /\ n # 0 /\ n - 1 = k
      BY <2>3, <3>1
    <3>3. at[n] = Rebalance(at[n - 1])
      BY <2>1, <3>2
    <3>4. QED
      BY <3>1, <3>2, <3>3
  <2>4. QED
    BY <2>2, <2>3
<1> DEFINE P == {k \in Nat : k \in 0 .. passes =>
                   \E v, g : /\ Balancing(N, at[k].map, at[k].curr, v, g, R)
                             /\ \/ Settled(at[k].map, at[k].curr)
                                \/ k < Cardinality(v[at[k].curr])}
<1>7. 0 \in P
  <2>1. at[0].map = map /\ at[0].curr = new
    BY <1>2, <1>6
  <2>2. new \in N
    BY DEF Balancing
  <2>3. Cardinality(u[new]) >= 1 /\ Cardinality(u[new]) \in Nat
    BY <1>3, <2>2, Family
  <2>4. QED
    BY <2>1, <2>3
<1>8. ASSUME NEW k \in Nat, k \in P PROVE k + 1 \in P
  <2>1. SUFFICES ASSUME k + 1 \in 0 .. passes
                 PROVE  \E v, g : /\ Balancing(N, at[k + 1].map, at[k + 1].curr, v, g, R)
                                  /\ \/ Settled(at[k + 1].map, at[k + 1].curr)
                                     \/ k + 1 < Cardinality(v[at[k + 1].curr])
    OBVIOUS
  <2>2. k \in 0 .. passes
    BY <1>4, <2>1
  <2>3. PICK v, g : /\ Balancing(N, at[k].map, at[k].curr, v, g, R)
                    /\ \/ Settled(at[k].map, at[k].curr)
                       \/ k < Cardinality(v[at[k].curr])
    BY <1>8, <2>2
  <2>4. PICK a, b : a = at[k] /\ b = at[k + 1]
    OBVIOUS
  <2>5. b = Rebalance(a)
    BY <1>6, <2>1, <2>4
  <2>6. CASE Settled(a.map, a.curr)
    <3>1. b = a
      BY <2>5, <2>6 DEF Rebalance, Settled
    <3>2. QED
      BY <2>3, <2>4, <2>6, <3>1
  <2>7. CASE ~Settled(a.map, a.curr)
    <3>1. Balancing(N, a.map, a.curr, v, g, R) /\ k < Cardinality(v[a.curr])
      BY <2>3, <2>4, <2>7
    <3>2. PICK w, f : /\ Balancing(N, b.map, b.curr, w, f, R)
                      /\ \/ Settled(b.map, b.curr)
                         \/ Cardinality(v[a.curr]) < Cardinality(w[b.curr])
      BY <2>5, <2>7, <3>1, RebalanceStep
    <3>3. Cardinality(v[a.curr]) \in Nat /\ Cardinality(w[b.curr]) \in Nat
      <4>1. Tree(N, a.map, v) /\ a.curr \in N /\ Tree(N, b.map, w) /\ b.curr \in N
        BY <3>1, <3>2 DEF Balancing, Ranges
      <4>2. QED
        BY <4>1, Family
    <3>4. Settled(b.map, b.curr) \/ k + 1 < Cardinality(w[b.curr])
      BY <3>1, <3>2, <3>3
    <3>5. QED
      BY <2>4, <3>2, <3>4
  <2>8. QED
    BY <2>6, <2>7
<1>9. passes \in P
  <2> HIDE DEF P
  <2>1. Nat \subseteq P
    BY <1>7, <1>8, SetInduction
  <2>2. QED
    BY <1>4, <2>1
<1>10. PICK v, g : /\ Balancing(N, at[passes].map, at[passes].curr, v, g, R)
                   /\ \/ Settled(at[passes].map, at[passes].curr)
                      \/ passes < Cardinality(v[at[passes].curr])
  BY <1>4, <1>9
<1>11. PICK e : e = at[passes]
  OBVIOUS
<1>12. Tree(N, e.map, v) /\ e.curr \in N
  BY <1>10, <1>11 DEF Balancing, Ranges
<1>13. Cardinality(v[e.curr]) <= Cardinality(N) /\ Cardinality(v[e.curr]) \in Nat
  BY <1>12, Family
<1>14. Settled(e.map, e.curr)
  BY <1>1, <1>4, <1>10, <1>11, <1>13
<1>15. QED
  BY <1>5, <1>10, <1>11, <1>14

-----------------------------------------------------------------------------
(* Insertion. *)

\* The descent ends at a node without a child where the range belongs, or where it
\* overlaps; on the way there the range lay on the side where the descent went on.
LEMMA PlaceFound ==
  ASSUME NEW N, NEW map, NEW u, Tree(N, map, u), N # {}, NEW low, NEW high,
         NEW p, p = Place(map, low, high)
  PROVE  /\ p \in N
         /\ SideOf(map, p, low, high) \in Side => Child(map, p, SideOf(map, p, low, high)) = Null
         /\ \A z \in N, s \in Side : p \in Under(u, Child(map, z, s)) => SideOf(map, z, low, high) = s
<1> DEFINE side(x) == SideOf(map, x, low, high)
<1>1. map \in Maps(N) /\ Node(map) = N /\ Null \notin N /\ map.root \in N
  BY FieldTypes DEF Tree
<1>2. \A x : side(x) \in Side \/ side(x) = "overlap"
  BY DEF SideOf, Side
<1> HIDE DEF side
<1>3. PICK stop : stop = {x \in N : side(x) = "overlap" \/ Child(map, x, side(x)) = Null}
  OBVIOUS
<1>4. PICK next : next = [x \in N |-> Child(map, x, side(x))]
  OBVIOUS
<1>5. PICK last, rank : last = [x \in N |-> x] /\ rank = [x \in N |-> Cardinality(u[x])]
  OBVIOUS
<1>6. ASSUME NEW x \in N, x \notin stop
      PROVE  /\ side(x) \in Side /\ next[x] = Child(map, x, side(x)) /\ next[x] # Null
             /\ next[x] \in N /\ Parent(map, next[x]) = x
             /\ Cardinality(u[next[x]]) < Cardinality(u[x])
  <2>1. side(x) \in Side /\ Child(map, x, side(x)) # Null /\ next[x] = Child(map, x, side(x))
    BY <1>2, <1>3, <1>4, <1>6
  <2>2. PICK s \in Side : s = side(x)
    BY <2>1
  <2>3. QED
    BY <2>1, <2>2, Family
<1>7. PICK place : Goes(place, N, stop, next, last) /\ p = place[map.root]
  <2>1. Cardinality(N) \in Nat
    BY FS_CardinalityType DEF Tree
  <2>2. \A x \in N : rank[x] \in 0 .. Cardinality(N)
    BY <1>5, <2>1, Family
  <2>3. \A x \in N : x \notin stop => next[x] \in N /\ rank[next[x]] < rank[x]
    BY <1>5, <1>6
  <2>4. \E f : Goes(f, N, stop, next, last)
    BY <2>1, <2>2, <2>3, LoopExists
  <2>5. PICK f : f = CHOOSE k : Goes(k, N, stop, next, last)
    OBVIOUS
  <2>6. Goes(f, N, stop, next, last)
    BY <2>4, <2>5
  <2>7. ASSUME NEW g
        PROVE  Goes(g, N, stop, next, last) <=>
                 g = [x \in N |-> IF side(x) = "overlap" THEN x
                                  ELSE IF Child(map, x, side(x)) = Null THEN x
                                  ELSE g[Child(map, x, side(x))]]
    <3>1. ASSUME NEW x \in N
          PROVE  (IF x \in stop THEN last[x] ELSE g[next[x]]) =
                   IF side(x) = "overlap" THEN x
                   ELSE IF Child(map, x, side(x)) = Null THEN x
                   ELSE g[Child(map, x, side(x))]
      BY <1>3, <1>4, <1>5
    <3>2. QED
      BY <3>1 DEF Goes
  <2>8. f = CHOOSE g : g = [x \in N |-> IF side(x) = "overlap" THEN x
                                        ELSE IF Child(map, x, side(x)) = Null THEN x
                                        ELSE g[Child(map, x, side(x))]]
    BY <2>5, <2>7
  <2>9. p = f[map.root]
    BY <1>1, <2>8 DEF Place, side
  <2>10. QED
    BY <2>6, <2>9
<1>8. \A x \in N : place[x] = IF x \in stop THEN x ELSE place[next[x]]
  BY <1>5, <1>7 DEF Goes
<1> DEFINE Right(x) == \A z \in N, s \in Side : x \in Under(u, Child(map, z, s)) => side(z) = s
<1>9. ASSUME NEW x \in N, x \notin stop, Right(x) PROVE Right(next[x])
  <2>1. SUFFICES ASSUME NEW z \in N, NEW s \in Side, next[x] \in Under(u, Child(map, z, s))
                 PROVE  side(z) = s
    OBVIOUS
  <2>2. PICK c, d : c = next[x] /\ d = Child(map, z, s)
    OBVIOUS
  <2>3. d # Null /\ d \in N /\ c \in u[d] /\ Parent(map, d) = z /\ z \notin u[d]
    <3>1. d # Null /\ c \in u[d]
      BY <2>1, <2>2 DEF Under
    <3>2. QED
      BY <2>2, <3>1, Family
  <2>4. c \in N /\ Parent(map, c) = x /\ side(x) \in Side /\ c = Child(map, x, side(x)) /\ c # Null
    BY <1>6, <1>9, <2>2
  <2>5. CASE c = d
    <3>1. z = x
      BY <2>3, <2>4, <2>5
    <3>2. side(x) = s \/ side(x) = Other(s)
      BY <2>4, Sides
    <3>3. Child(map, x, s) # Child(map, x, Other(s))
      BY <2>2, <2>3, <3>1, Family
    <3>4. Child(map, x, s) = c /\ (side(x) = Other(s) => Child(map, x, Other(s)) = c)
      BY <2>2, <2>4, <2>5, <3>1
    <3>5. QED
      BY <3>1, <3>2, <3>3, <3>4
  <2>6. CASE c # d
    <3>1. x \in u[d]
      BY <2>3, <2>4, <2>6, Subtree
    <3>2. x \in Under(u, Child(map, z, s))
      BY <2>2, <2>3, <3>1 DEF Under
    <3>3. QED
      BY <1>9, <3>2
  <2>7. QED
    BY <2>5, <2>6
<1>10. Right(map.root)
  <2>1. SUFFICES ASSUME NEW z \in N, NEW s \in Side, map.root \in Under(u, Child(map, z, s))
                 PROVE  FALSE
    OBVIOUS
  <2>2. PICK d : d = Child(map, z, s)
    OBVIOUS
  <2>3. d # Null /\ d \in N /\ map.root \in u[d] /\ Parent(map, d) = z
    <3>1. d # Null /\ map.root \in u[d]
      BY <2>1, <2>2 DEF Under
    <3>2. QED
      BY <2>2, <3>1, Family
  <2>4. Parent(map, map.root) = Null
    BY <1>1 DEF Tree, Linked
  <2>5. map.root = d
    BY <2>3, <2>4, Subtree
  <2>6. QED
    BY <1>1, <2>3, <2>4, <2>5
<1> HIDE DEF Right
<1> DEFINE P == {x \in N : Right(x) => place[x] \in N /\ place[x] \in stop /\ Right(place[x])}
<1>11. N \subseteq P
  <2>1. ASSUME NEW x \in N, \A s \in Side : Child(map, x, s) # Null => Child(map, x, s) \in P
        PROVE  x \in P
    <3>1. CASE x \in stop
      BY <1>8, <3>1
    <3>2. CASE x \notin stop
      <4>1. PICK s \in Side : s = side(x)
        BY <1>6, <3>2
      <4>2. PICK c : c = next[x]
        OBVIOUS
      <4>3. c = Child(map, x, s) /\ c # Null
        BY <1>6, <3>2, <4>1, <4>2
      <4>4. c \in P
        BY <2>1, <4>3
      <4>5. place[x] = place[c]
        BY <1>8, <3>2, <4>2
      <4>6. Right(x) => Right(c)
        BY <1>9, <3>2, <4>2
      <4>7. QED
        BY <4>4, <4>5, <4>6
    <3>3. QED
      BY <3>1, <3>2
  <2> HIDE DEF P
  <2>2. QED
    BY <2>1, UpInduction
<1>12. p \in N /\ p \in stop /\ Right(p)
  BY <1>1, <1>7, <1>10, <1>11
<1>13. side(p) \in Side => Child(map, p, side(p)) = Null
  BY <1>3, <1>12 DEF Side
<1>14. QED
  BY <1>12, <1>13 DEF Right, side

\* What the insertion of a leaf changes.
LEMMA InsertEffect ==
  ASSUME NEW N, NEW map \in Maps(N), Null \notin N, map.root \in N,
         NEW new, new \notin N, new # Null, new[1] \in Addr, new[2] \in Addr,
         NEW p \in N, p = Place(map, new[1], new[2]),
         NEW side \in Side, side = SideOf(map, p, new[1], new[2]),
         NEW M, M = N \cup {new}, NEW big, big = Inserted(map, new)
  PROVE  /\ big \in Maps(M) /\ big.root = map.root
         /\ Color(big, new) = "red" /\ Low(big, new) = new[1] /\ High(big, new) = new[2]
         /\ Parent(big, new) = p /\ \A s \in Side : Child(big, new, s) = Null
         /\ \A z \in N :
              /\ Color(big, z) = Color(map, z) /\ Parent(big, z) = Parent(map, z)
              /\ Low(big, z) = Low(map, z) /\ High(big, z) = High(map, z)
              /\ \A s \in Side : Child(big, z, s) =
                   IF z = p /\ s = side THEN new ELSE Child(map, z, s)
<1>1. PICK low, high : low = new[1] /\ high = new[2]
  OBVIOUS
<1>2. PICK leaf : leaf = [color |-> "red", lowAddr |-> low, highAddr |-> high,
                          parent |-> p, child |-> [s \in Side |-> Null]]
  OBVIOUS
<1>3. PICK under : under = [map.node[p] EXCEPT !.child[side] = new]
  OBVIOUS
<1>4. Node(map) = N /\ map.root # Null /\ p # Null
  BY FieldTypes
<1>5. big = [root |-> map.root,
             node |-> [z \in M |-> IF z = new THEN leaf ELSE IF z = p THEN under ELSE map.node[z]]]
  BY <1>1, <1>2, <1>3, <1>4 DEF Inserted
<1>6. leaf \in Fields(M) /\ \A s \in Side : leaf.child[s] = Null
  <2>1. [s \in Side |-> Null] \in [Side -> M \cup {Null}]
    OBVIOUS
  <2>2. PICK f : f = [s \in Side |-> Null]
    OBVIOUS
  <2>3. QED
    BY <1>1, <1>2, <2>1, <2>2 DEF Fields
<1>7. /\ under \in Fields(M) /\ under.color = map.node[p].color
      /\ under.lowAddr = map.node[p].lowAddr /\ under.highAddr = map.node[p].highAddr
      /\ under.parent = map.node[p].parent
      /\ \A s \in Side : under.child[s] = IF s = side THEN new ELSE map.node[p].child[s]
  <2>1. PICK r : r = map.node[p]
    OBVIOUS
  <2>2. r \in Fields(N)
    BY <2>1, FieldTypes
  <2>3. PICK f : f = [r.child EXCEPT ![side] = new]
    OBVIOUS
  <2>4. f \in [Side -> M \cup {Null}] /\ \A s \in Side : f[s] = IF s = side THEN new ELSE r.child[s]
    BY <2>2, <2>3 DEF Fields
  <2>5. under = [r EXCEPT !.child = f]
    BY <1>3, <2>1, <2>3
  <2>6. r.parent \in M \cup {Null}
    BY <2>2 DEF Fields
  <2>7. under \in Fields(M) /\ under.color = r.color /\ under.lowAddr = r.lowAddr
        /\ under.highAddr = r.highAddr /\ under.parent = r.parent /\ under.child = f
    BY <2>2, <2>4, <2>5, <2>6 DEF Fields
  <2>8. QED
    BY <2>1, <2>4, <2>7
<1>8. \A z \in N : map.node[z] \in Fields(M)
  <2>1. ASSUME NEW z \in N PROVE map.node[z] \in Fields(M)
    <3>1. PICK r : r = map.node[z]
      OBVIOUS
    <3>2. r \in Fields(N)
      BY <3>1, FieldTypes
    <3>3. r.child \in [Side -> M \cup {Null}] /\ r.parent \in M \cup {Null}
      BY <3>2 DEF Fields
    <3>4. QED
      BY <3>1, <3>2, <3>3 DEF Fields
  <2>2. QED
    BY <2>1
<1>9. /\ big.root = map.root /\ big.node[new] = leaf /\ big.node[p] = under
      /\ \A z \in N : z # p => big.node[z] = map.node[z]
  BY <1>5
<1>10. big \in Maps(M)
  <2>1. PICK n : n = [z \in M |-> IF z = new THEN leaf ELSE IF z = p THEN under ELSE map.node[z]]
    OBVIOUS
  <2>2. n \in [M -> Fields(M)]
    BY <1>6, <1>7, <1>8, <2>1
  <2>3. QED
    BY <1>5, <2>1, <2>2 DEF Maps
<1>11. /\ Color(big, new) = "red" /\ Low(big, new) = new[1] /\ High(big, new) = new[2]
       /\ Parent(big, new) = p /\ \A s \in Side : Child(big, new, s) = Null
  BY <1>1, <1>2, <1>6, <1>9 DEF Color, Low, High, Parent, Child
<1>12. ASSUME NEW z \in N
       PROVE  /\ Color(big, z) = Color(map, z) /\ Parent(big, z) = Parent(map, z)
              /\ Low(big, z) = Low(map, z) /\ High(big, z) = High(map, z)
              /\ \A s \in Side : Child(big, z, s) =
                   IF z = p /\ s = side THEN new ELSE Child(map, z, s)
  BY <1>7, <1>9 DEF Color, Low, High, Parent, Child
<1>13. QED
  BY <1>9, <1>10, <1>11, <1>12

\* Between two calls: a balanced tree of the ranges its nodes are named for.
Good(N, map, R) == \E u, h : Ranges(N, map, u, R) /\ Heights(N, map, h) /\ \A x \in N : Pale(map, x)

\* new has its place in the order R where SideOf says.
Fits(N, map, new, R) ==
  \A z \in N, s \in Side : SideOf(map, z, new[1], new[2]) = s => Beside(R, new, z, s)

\* A leaf inserted leaves the order and the levels; it may be red below a red node.
LEMMA InsertBalancing ==
  ASSUME NEW N, NEW map, NEW R, Good(N, map, R), N # {},
         NEW new, new \notin N, new # Null, new[1] \in Addr, new[2] \in Addr,
         ~Overlaps(map, new[1], new[2]), Fits(N, map, new, R)
  PROVE  \E v, g : Balancing(N \cup {new}, Inserted(map, new), new, v, g, R)
<1>1. PICK M, big : M = N \cup {new} /\ big = Inserted(map, new)
  OBVIOUS
<1>2. PICK u, h : Ranges(N, map, u, R) /\ Heights(N, map, h) /\ \A x \in N : Pale(map, x)
  BY DEF Good
<1>3. Tree(N, map, u) /\ map \in Maps(N) /\ Null \notin N /\ IsFiniteSet(N) /\ map.root \in N
      /\ u[map.root] = N /\ u \in [N -> SUBSET N]
  BY <1>2 DEF Ranges, Tree
<1>4. PICK p, side : p = Place(map, new[1], new[2]) /\ side = SideOf(map, p, new[1], new[2])
  OBVIOUS
<1>5. /\ p \in N /\ side \in Side /\ Child(map, p, side) = Null
      /\ \A z \in N, s \in Side :
           p \in Under(u, Child(map, z, s)) => SideOf(map, z, new[1], new[2]) = s
  <2>1. side # "overlap"
    BY <1>3, <1>4 DEF Overlaps
  <2>2. side \in Side
    BY <1>4, <2>1 DEF SideOf, Side
  <2>3. QED
    BY <1>3, <1>4, <2>2, PlaceFound
<1>6. /\ big \in Maps(M) /\ big.root = map.root
      /\ Color(big, new) = "red" /\ Low(big, new) = new[1] /\ High(big, new) = new[2]
      /\ Parent(big, new) = p /\ \A s \in Side : Child(big, new, s) = Null
      /\ \A z \in N :
           /\ Color(big, z) = Color(map, z) /\ Parent(big, z) = Parent(map, z)
           /\ Low(big, z) = Low(map, z) /\ High(big, z) = High(map, z)
           /\ \A s \in Side : Child(big, z, s) =
                IF z = p /\ s = side THEN new ELSE Child(map, z, s)
  BY <1>1, <1>3, <1>4, <1>5, InsertEffect
<1>7. \A z \in N, s \in Side : Child(map, z, s) # Null =>
        Child(map, z, s) \in N /\ Parent(map, Child(map, z, s)) = z
  BY <1>3, Family
<1>8. PICK v : v = [z \in M |-> IF z = new THEN {new} ELSE IF p \in u[z] THEN u[z] \cup {new} ELSE u[z]]
  OBVIOUS
<1>9. /\ v[new] = {new} /\ v \in [M -> SUBSET M]
      /\ \A z \in N : v[z] = IF p \in u[z] THEN u[z] \cup {new} ELSE u[z]
  BY <1>1, <1>3, <1>8
<1>10. ASSUME NEW z \in N, NEW s \in Side
       PROVE  Under(v, Child(big, z, s)) =
                IF (z = p /\ s = side) \/ p \in Under(u, Child(map, z, s))
                THEN Under(u, Child(map, z, s)) \cup {new} ELSE Under(u, Child(map, z, s))
  <2>1. CASE z = p /\ s = side
    <3>1. Child(big, z, s) = new /\ Child(map, z, s) = Null
      BY <1>5, <1>6, <2>1
    <3>2. Under(v, Child(big, z, s)) = {new} /\ Under(u, Child(map, z, s)) = {}
      BY <1>9, <3>1 DEF Under
    <3>3. QED
      BY <2>1, <3>2
  <2>2. CASE ~(z = p /\ s = side)
    <3>1. PICK c : c = Child(map, z, s)
      OBVIOUS
    <3>2. Child(big, z, s) = c /\ (c # Null => c \in N)
      BY <1>6, <1>7, <2>2, <3>1
    <3>3. Under(v, c) = IF p \in Under(u, c) THEN Under(u, c) \cup {new} ELSE Under(u, c)
      BY <1>9, <3>2 DEF Under
    <3>4. QED
      BY <2>2, <3>1, <3>2, <3>3
  <2>3. QED
    BY <2>1, <2>2
<1>11. \A z \in N, s \in Side : Under(u, Child(map, z, s)) \subseteq N
  BY <1>3, <1>7 DEF Under
<1>12. \A z \in N : Linked(map, z) /\ Spans(map, u, z)
  BY <1>3 DEF Tree
<1>13. ASSUME NEW z \in M PROVE Spans(big, v, z)
  <2>1. CASE z = new
    <3>1. Under(v, Child(big, new, "left")) = {} /\ Under(v, Child(big, new, "right")) = {}
      BY <1>6, Sides DEF Under
    <3>2. QED
      BY <1>9, <2>1, <3>1 DEF Spans
  <2>2. CASE z \in N
    <3>1. PICK a, b : a = Under(u, Child(map, z, "left")) /\ b = Under(u, Child(map, z, "right"))
      OBVIOUS
    <3>2. u[z] = {z} \cup a \cup b /\ z \notin a /\ z \notin b /\ a \cap b = {}
      BY <1>12, <2>2, <3>1 DEF Spans
    <3>3. new \notin a /\ new \notin b /\ new # z
      BY <1>11, <2>2, <3>1, Sides
    <3>4. PICK c, d : c = Under(v, Child(big, z, "left")) /\ d = Under(v, Child(big, z, "right"))
      OBVIOUS
    <3>5. /\ c = IF (z = p /\ side = "left") \/ p \in a THEN a \cup {new} ELSE a
          /\ d = IF (z = p /\ side = "right") \/ p \in b THEN b \cup {new} ELSE b
      BY <1>10, <2>2, <3>1, <3>4, Sides
    <3>6. v[z] = IF p \in u[z] THEN u[z] \cup {new} ELSE u[z]
      BY <1>9, <2>2
    <3>7. side = "left" \/ side = "right"
      BY <1>5 DEF Side
    <3>8. v[z] = {z} \cup c \cup d /\ z \notin c /\ z \notin d
      BY <3>2, <3>3, <3>5, <3>6, <3>7
    <3>9. c \cap d = {}
      <4>1. ~(new \in c /\ new \in d)
        BY <1>5, <3>2, <3>3, <3>5, <3>7
      <4>2. c \subseteq a \cup {new} /\ d \subseteq b \cup {new}
        BY <3>5
      <4>3. QED
        BY <3>2, <4>1, <4>2
    <3>10. QED
      BY <3>4, <3>8, <3>9 DEF Spans
  <2>3. QED
    BY <1>1, <2>1, <2>2
<1>14. ASSUME NEW z \in M PROVE Linked(big, z)
  <2>1. CASE z = new
    <3>1. Parent(big, new) = p /\ p # Null /\ new # big.root /\ Child(big, p, side) = new
      BY <1>3, <1>5, <1>6
    <3>2. QED
      BY <1>5, <1>6, <2>1, <3>1 DEF Linked
  <2>2. CASE z \in N
    <3>1. Linked(map, z) /\ Parent(big, z) = Parent(map, z)
      BY <1>6, <1>12, <2>2
    <3>2. ASSUME NEW s \in Side, Child(big, z, s) # Null PROVE Parent(big, Child(big, z, s)) = z
      <4>1. CASE z = p /\ s = side
        BY <1>6, <2>2, <4>1
      <4>2. CASE ~(z = p /\ s = side)
        <5>1. Child(big, z, s) = Child(map, z, s)
          BY <1>6, <2>2, <4>2
        <5>2. QED
          BY <1>6, <1>7, <2>2, <3>2, <5>1
      <4>3. QED
        BY <4>1, <4>2
    <3>3. Parent(big, z) = Null <=> z = big.root
      BY <1>6, <3>1 DEF Linked
    <3>4. ASSUME Parent(big, z) # Null PROVE \E s \in Side : Child(big, Parent(big, z), s) = z
      <4>1. PICK q : q = Parent(map, z)
        OBVIOUS
      <4>2. q \in N /\ Parent(big, z) = q
        BY <1>3, <2>2, <3>1, <3>4, <4>1, FieldTypes
      <4>3. PICK s \in Side : Child(map, q, s) = z
        BY <3>1, <3>4, <4>1 DEF Linked
      <4>4. Child(big, q, s) = z
        BY <1>3, <1>5, <1>6, <2>2, <4>2, <4>3
      <4>5. QED
        BY <4>2, <4>4
    <3>5. QED
      BY <3>2, <3>3, <3>4 DEF Linked
  <2>3. QED
    BY <1>1, <2>1, <2>2
<1>15. Tree(M, big, v)
  <2>1. IsFiniteSet(M)
    BY <1>1, <1>3, FS_AddElement
  <2>2. p \in N /\ map.root \in M /\ v[map.root] = M
    BY <1>1, <1>3, <1>5, <1>9
  <2>3. Null \notin M
    BY <1>1, <1>3
  <2>4. QED
    BY <1>6, <1>9, <1>13, <1>14, <2>1, <2>2, <2>3 DEF Tree
<1>16. Sorted(M, big, v, R)
  <2>1. SUFFICES ASSUME NEW z \in M, NEW s \in Side, NEW w \in Under(v, Child(big, z, s))
                 PROVE  Beside(R, w, z, s)
    BY DEF Sorted
  <2>2. CASE z = new
    BY <1>6, <2>1, <2>2 DEF Under
  <2>3. CASE z \in N /\ w \in Under(u, Child(map, z, s))
    BY <1>2, <2>3 DEF Ranges, Sorted
  <2>4. CASE z \in N /\ w \notin Under(u, Child(map, z, s))
    <3>1. w = new /\ ((z = p /\ s = side) \/ p \in Under(u, Child(map, z, s)))
      BY <1>10, <2>1, <2>4
    <3>2. SideOf(map, z, new[1], new[2]) = s
      BY <1>4, <1>5, <2>4, <3>1
    <3>3. QED
      BY <2>4, <3>1, <3>2 DEF Fits
  <2>5. QED
    BY <1>1, <2>2, <2>3, <2>4
<1>17. PICK g : g = [z \in M |-> IF z = new THEN 0 ELSE h[z]]
  OBVIOUS
<1>18. Heights(M, big, g)
  <2>1. h \in [N -> Nat] /\ \A z \in N : Level(map, h, z)
    BY <1>2 DEF Heights
  <2>2. g \in [M -> Nat] /\ g[new] = 0 /\ \A z \in N : g[z] = h[z]
    BY <1>1, <1>17, <2>1
  <2>3. Level(big, g, new)
    BY <1>6, <2>2, Sides DEF Level, Rise, Black
  <2>4. ASSUME NEW z \in N PROVE Level(big, g, z)
    <3>1. ASSUME NEW s \in Side PROVE Rise(g, Child(big, z, s)) = Rise(h, Child(map, z, s))
      <4>1. CASE z = p /\ s = side
        <5>1. Child(big, z, s) = new /\ Child(map, z, s) = Null
          BY <1>5, <1>6, <4>1
        <5>2. QED
          BY <2>2, <5>1 DEF Rise
      <4>2. CASE ~(z = p /\ s = side)
        <5>1. PICK c : c = Child(map, z, s)
          OBVIOUS
        <5>2. Child(big, z, s) = c /\ (c # Null => c \in N)
          BY <1>6, <1>7, <4>2, <5>1
        <5>3. QED
          BY <2>2, <5>1, <5>2 DEF Rise
      <4>3. QED
        BY <4>1, <4>2
    <3>2. Black(big, z) = Black(map, z)
      BY <1>6 DEF Black
    <3>3. QED
      BY <2>1, <2>2, <3>1, <3>2, Sides DEF Level
  <2>5. QED
    BY <1>1, <2>2, <2>3, <2>4 DEF Heights
<1>19. ASSUME NEW z \in M, z # new PROVE Pale(big, z)
  <2>1. z \in N /\ Pale(map, z)
    BY <1>1, <1>2, <1>19
  <2>2. Parent(map, z) \in N \cup {Null}
    BY <1>3, <2>1, FieldTypes
  <2>3. QED
    BY <1>6, <2>1, <2>2 DEF Pale
<1>20. \A z \in M : Low(big, z) = z[1] /\ High(big, z) = z[2]
  BY <1>1, <1>2, <1>6 DEF Ranges
<1>21. Balancing(M, big, new, v, g, R)
  BY <1>1, <1>6, <1>15, <1>16, <1>18, <1>19, <1>20 DEF Balancing, Ranges
<1>22. QED
  BY <1>1, <1>21

\* The map without nodes.
LEMMA EmptyTree ==
  ASSUME NEW R
  PROVE  Good({}, AddrRangeMap_Init, R)
<1>1. PICK map : map = AddrRangeMap_Init
  OBVIOUS
<1>2. map.root = Null /\ map.node = <<>> /\ map = [root |-> Null, node |-> <<>>]
  BY <1>1 DEF AddrRangeMap_Init
<1>3. <<>> \in [{} -> Fields({})]
  <2>1. <<>> = [x \in {} |-> x]
    OBVIOUS
  <2>2. QED
    BY <2>1
<1>4. map \in Maps({})
  BY <1>2, <1>3 DEF Maps
<1>5. PICK e : e = [x \in {} |-> {}]
  OBVIOUS
<1>6. Tree({}, map, e)
  BY <1>2, <1>4, <1>5, FS_EmptySet DEF Tree
<1>7. Ranges({}, map, e, R)
  BY <1>6 DEF Ranges, Sorted
<1>8. PICK h : h = [x \in {} |-> 0]
  OBVIOUS
<1>9. Heights({}, map, h)
  BY <1>8 DEF Heights
<1>10. QED
  BY <1>1, <1>7, <1>9 DEF Good

\* The first node.
LEMMA InsertFirst ==
  ASSUME NEW map, Good({}, map, {}), NEW R,
         NEW new, new # Null, new[1] \in Addr, new[2] \in Addr
  PROVE  \E v, g : Balancing({new}, Inserted(map, new), new, v, g, R)
<1>1. PICK big : big = Inserted(map, new)
  OBVIOUS
<1>2. map \in Maps({}) /\ map.root = Null /\ Node(map) = {}
  <2>1. map \in Maps({})
    BY DEF Good, Ranges, Tree
  <2>2. QED
    BY <2>1, FieldTypes
<1>3. PICK f : f = [s \in Side |-> Null]
  OBVIOUS
<1>4. PICK leaf : leaf = [color |-> "red", lowAddr |-> new[1], highAddr |-> new[2],
                          parent |-> Null, child |-> f]
  OBVIOUS
<1>5. big = [root |-> new, node |-> [z \in {new} |-> leaf]]
  <2>1. big = [root |-> new, node |-> [z \in {} \cup {new} |->
                 IF z = new THEN leaf
                 ELSE IF z = Null THEN [map.node[z] EXCEPT !.child[SideOf(map, Null, new[1], new[2])] = new]
                 ELSE map.node[z]]]
    BY <1>1, <1>2, <1>3, <1>4 DEF Inserted
  <2>2. QED
    BY <2>1
<1>6. leaf \in Fields({new})
  <2>1. f \in [Side -> {new} \cup {Null}]
    BY <1>3
  <2>2. QED
    BY <1>4, <2>1 DEF Fields
<1>7. big.root = new /\ big.node = [z \in {new} |-> leaf] /\ big.node[new] = leaf
  BY <1>5
<1>8. big \in Maps({new})
  BY <1>5, <1>6 DEF Maps
<1>9. /\ Color(big, new) = "red" /\ Low(big, new) = new[1] /\ High(big, new) = new[2]
      /\ Parent(big, new) = Null /\ \A s \in Side : Child(big, new, s) = Null
  BY <1>3, <1>4, <1>7 DEF Color, Low, High, Parent, Child
<1>10. PICK v, g : v = [z \in {new} |-> {new}] /\ g = [z \in {new} |-> 0]
  OBVIOUS
<1>11. Linked(big, new)
  BY <1>7, <1>9 DEF Linked
<1>12. Under(v, Child(big, new, "left")) = {} /\ Under(v, Child(big, new, "right")) = {}
  BY <1>9, Sides DEF Under
<1>13. Spans(big, v, new)
  BY <1>10, <1>12 DEF Spans
<1>14. IsFiniteSet({new})
  BY FS_Singleton
<1>15. Tree({new}, big, v)
  BY <1>7, <1>8, <1>10, <1>11, <1>13, <1>14 DEF Tree
<1>16. Sorted({new}, big, v, R)
  BY <1>9 DEF Sorted, Under
<1>17. Level(big, g, new)
  BY <1>9, <1>10, Sides DEF Level, Rise, Black
<1>18. Heights({new}, big, g)
  BY <1>10, <1>17 DEF Heights
<1>19. Balancing({new}, big, new, v, g, R)
  BY <1>9, <1>15, <1>16, <1>18 DEF Balancing, Ranges
<1>20. QED
  BY <1>1, <1>19

\* The last step of AddrRangeMap_Add: the root becomes black.
LEMMA RootPainted ==
  ASSUME NEW N, NEW map, NEW curr, NEW u, NEW h, NEW R, Balancing(N, map, curr, u, h, R),
         Settled(map, curr)
  PROVE  Good(N, Painted(map, {map.root}, {}), R)
<1>1. PICK new, root : new = Painted(map, {map.root}, {}) /\ root = map.root
  OBVIOUS
<1>2. Ranges(N, map, u, R) /\ Heights(N, map, h) /\ Tree(N, map, u) /\ map \in Maps(N)
      /\ Null \notin N /\ root \in N /\ curr \in N
  BY <1>1 DEF Balancing, Ranges, Tree
<1>3. \A z \in N : /\ Color(new, z) = IF z = root THEN "black" ELSE Color(map, z)
                   /\ Parent(new, z) = Parent(map, z)
                   /\ \A s \in Side : Child(new, z, s) = Child(map, z, s)
  BY <1>1, <1>2, PaintEffect
<1>4. Ranges(N, new, u, R)
  BY <1>1, <1>2, PaintRanges
<1>5. \A z \in N : /\ Parent(map, z) = Null <=> z = root
                   /\ \A s \in Side : Child(map, z, s) # Null =>
                        Child(map, z, s) \in N /\ Parent(map, Child(map, z, s)) = z
  BY <1>1, <1>2, Family DEF Tree, Linked
<1>6. h \in [N -> Nat] /\ \A z \in N : Level(map, h, z)
  BY <1>2 DEF Heights
<1>7. PICK g : g = [z \in N |-> IF z = root THEN h[z] + (1 - Black(map, root)) ELSE h[z]]
  OBVIOUS
<1>8. Black(map, root) \in {0, 1} /\ Black(new, root) = 1
  BY <1>2, <1>3 DEF Black
<1>9. g \in [N -> Nat] /\ g[root] = h[root] + (1 - Black(map, root)) /\ \A z \in N : z # root => g[z] = h[z]
  BY <1>2, <1>6, <1>7, <1>8
<1>10. ASSUME NEW z \in N, NEW s \in Side
       PROVE  Rise(g, Child(new, z, s)) = Rise(h, Child(map, z, s)) /\ Rise(h, Child(map, z, s)) \in Nat
  <2>1. PICK c : c = Child(map, z, s)
    OBVIOUS
  <2>2. Child(new, z, s) = c /\ (c # Null => c \in N /\ c # root)
    BY <1>2, <1>3, <1>5, <2>1
  <2>3. QED
    BY <1>6, <1>9, <2>1, <2>2 DEF Rise
<1>11. ASSUME NEW z \in N PROVE Level(new, g, z)
  <2>1. PICK a, b : a = Rise(h, Child(map, z, "left")) /\ b = Rise(h, Child(map, z, "right"))
    OBVIOUS
  <2>2. a = b /\ h[z] = a + Black(map, z) /\ a \in Nat
    BY <1>6, <1>10, <2>1, Sides DEF Level
  <2>3. a = Rise(g, Child(new, z, "left")) /\ b = Rise(g, Child(new, z, "right"))
    BY <1>10, <2>1, Sides
  <2>4. g[z] = a + Black(new, z)
    <3>1. CASE z = root
      BY <1>8, <1>9, <2>2, <3>1
    <3>2. CASE z # root
      <4>1. Black(new, z) = Black(map, z)
        BY <1>3, <3>2 DEF Black
      <4>2. QED
        BY <1>9, <2>2, <3>2, <4>1
    <3>3. QED
      BY <3>1, <3>2
  <2>5. QED
    BY <2>2, <2>3, <2>4 DEF Level
<1>12. ASSUME NEW z \in N PROVE Pale(new, z)
  <2>1. Parent(map, z) \in N \cup {Null}
    BY <1>2, FieldTypes
  <2>2. CASE z = root
    BY <1>2, <1>3, <2>2 DEF Pale
  <2>3. CASE z # root /\ z # curr
    <3>1. Pale(map, z)
      BY <2>3 DEF Balancing
    <3>2. QED
      BY <1>3, <2>1, <2>3, <3>1 DEF Pale
  <2>4. CASE z # root /\ z = curr
    <3>1. ~Red(map, Parent(map, z)) /\ Parent(map, z) # Null /\ Parent(map, z) \in N
      BY <1>1, <1>2, <1>5, <2>1, <2>4 DEF Settled
    <3>2. Color(map, Parent(map, z)) = "black"
      BY <1>2, <3>1, FieldTypes DEF Red, Color
    <3>3. QED
      BY <1>3, <3>1, <3>2 DEF Pale
  <2>5. QED
    BY <2>2, <2>3, <2>4
<1>13. Heights(N, new, g)
  BY <1>9, <1>11 DEF Heights
<1>14. QED
  BY <1>1, <1>4, <1>12, <1>13 DEF Good

\* AddrRangeMap_Add keeps a map good: the node has its place and the tree is balanced.
LEMMA AddGood ==
  ASSUME NEW N, NEW map, NEW R, Good(N, map, R),
         NEW new, new \notin N, new # Null, new[1] \in Addr, new[2] \in Addr,
         ~Overlaps(map, new[1], new[2]), Fits(N, map, new, R), Transitive(R, N \cup {new})
  PROVE  Good(N \cup {new}, AddrRangeMap_Add(map, new), R)
<1>1. PICK M, big : M = N \cup {new} /\ big = Inserted(map, new)
  OBVIOUS
<1>2. PICK v, g : Balancing(M, big, new, v, g, R)
  <2>1. CASE N # {}
    BY <1>1, <2>1, InsertBalancing
  <2>2. CASE N = {}
    <3>1. Good({}, map, {})
      BY <2>2 DEF Good, Ranges, Sorted
    <3>2. M = {new}
      BY <1>1, <2>2
    <3>3. QED
      BY <1>1, <3>1, <3>2, InsertFirst
  <2>3. QED
    BY <2>1, <2>2
<1>3. PICK balanced : balanced = Rebalanced(big, new)
  OBVIOUS
<1>4. \E curr, w, h : Balancing(M, balanced, curr, w, h, R) /\ Settled(balanced, curr)
  BY <1>1, <1>2, <1>3, RebalancedSettles
<1>5. AddrRangeMap_Add(map, new) = Painted(balanced, {balanced.root}, {})
  BY <1>1, <1>3 DEF AddrRangeMap_Add
<1>6. QED
  BY <1>1, <1>4, <1>5, RootPainted

-----------------------------------------------------------------------------
(* What IsTree, IsBalanced and IsOrdered ask of a map. *)

\* A tree with levels and without two red nodes in a row.
Balanced(N, map) == \E u, h : Tree(N, map, u) /\ Heights(N, map, h) /\ \A x \in N : Pale(map, x)

\* The ancestors of a node are those whose subtree it is in.
LEMMA AncestorsAre ==
  ASSUME NEW N, NEW map, NEW u, Tree(N, map, u)
  PROVE  \A x \in N : Ancestors(map)[x] = {z \in N : x \in u[z]}
<1> DEFINE Is(f) == f = [x \in N |-> {x} \cup (IF Parent(map, x) = Null THEN {} ELSE f[Parent(map, x)])]
<1>1. map \in Maps(N) /\ Node(map) = N /\ Null \notin N
  BY FieldTypes DEF Tree
<1>2. PICK w : w = [x \in N |-> {z \in N : x \in u[z]}]
  OBVIOUS
<1>3. ASSUME NEW x \in N
      PROVE  w[x] = {x} \cup (IF Parent(map, x) = Null THEN {} ELSE w[Parent(map, x)])
  <2>1. x \in u[x]
    BY Family
  <2>2. w[x] = {z \in N : x \in u[z]}
    BY <1>2
  <2>3. CASE Parent(map, x) = Null
    <3>1. \A z \in N : x \in u[z] => x = z
      BY <2>3, Subtree
    <3>2. QED
      BY <2>1, <2>2, <2>3, <3>1
  <2>4. CASE Parent(map, x) # Null
    <3>1. PICK p : p = Parent(map, x)
      OBVIOUS
    <3>2. p \in N /\ u[x] \subseteq u[p]
      BY <2>4, <3>1, Upward
    <3>3. w[p] = {z \in N : p \in u[z]}
      BY <1>2, <3>2
    <3>4. \A z \in N : x \in u[z] => x = z \/ p \in u[z]
      BY <3>1, Subtree
    <3>5. \A z \in N : p \in u[z] => x \in u[z]
      BY <2>1, <3>2, Subtree
    <3>6. w[x] = {x} \cup w[p]
      BY <2>1, <2>2, <3>3, <3>4, <3>5
    <3>7. QED
      BY <2>4, <3>1, <3>6
  <2>5. QED
    BY <2>3, <2>4
<1>4. Is(w)
  <2>1. w = [x \in N |-> w[x]]
    BY <1>2
  <2> HIDE <1>2
  <2>2. PICK e : e = w
    OBVIOUS
  <2>3. e = [x \in N |-> {x} \cup (IF Parent(map, x) = Null THEN {} ELSE w[Parent(map, x)])]
    BY <1>3, <2>1, <2>2
  <2>4. QED
    BY <2>2, <2>3
<1>5. Is(Ancestors(map))
  <2>1. PICK f : f = CHOOSE k : Is(k)
    OBVIOUS
  <2>2. Is(f)
    BY <1>4, <2>1
  <2>3. Ancestors(map) = f
    BY <1>1, <2>1 DEF Ancestors
  <2>4. QED
    BY <2>2, <2>3
<1>6. PICK a : a = Ancestors(map)
  OBVIOUS
<1>7. \A x \in N : a[x] = {x} \cup (IF Parent(map, x) = Null THEN {} ELSE a[Parent(map, x)])
  <2>1. Is(a)
    BY <1>5, <1>6
  <2>2. PICK e : e = a
    OBVIOUS
  <2>3. e = [x \in N |-> {x} \cup (IF Parent(map, x) = Null THEN {} ELSE a[Parent(map, x)])]
    BY <2>1, <2>2
  <2>4. \A x \in N : e[x] = {x} \cup (IF Parent(map, x) = Null THEN {} ELSE a[Parent(map, x)])
    BY <2>3
  <2>5. QED
    BY <2>2, <2>4
<1> HIDE DEF Is
<1> DEFINE P == {x \in N : a[x] = w[x]}
<1>8. ASSUME NEW x \in N, Parent(map, x) = Null PROVE x \in P
  BY <1>3, <1>7, <1>8
<1>9. ASSUME NEW x \in N, Parent(map, x) # Null, Parent(map, x) \in P PROVE x \in P
  BY <1>3, <1>7, <1>9
<1> HIDE DEF P
<1>10. N # {} => map.root \in P
  <2>1. N # {} => map.root \in N /\ Parent(map, map.root) = Null
    BY DEF Tree, Linked
  <2>2. QED
    BY <1>8, <2>1
<1>11. N \subseteq P
  BY <1>9, <1>10, DownInduction
<1>12. QED
  BY <1>2, <1>6, <1>11 DEF P

\* From the root to a node there are as many black nodes as the levels differ.
LEMMA BlacksAbove ==
  ASSUME NEW N, NEW map, NEW u, NEW h, Tree(N, map, u), Heights(N, map, h)
  PROVE  \A x \in N : LET b == {z \in N : x \in u[z] /\ Color(map, z) = "black"} IN
           /\ IsFiniteSet(b) /\ Cardinality(b) \in Nat
           /\ Cardinality(b) + h[x] = h[map.root] + Black(map, x)
<1> DEFINE b(x) == {z \in N : x \in u[z] /\ Color(map, z) = "black"}
<1>1. /\ map \in Maps(N) /\ Null \notin N /\ IsFiniteSet(N) /\ h \in [N -> Nat]
      /\ \A x \in N : Level(map, h, x)
  BY DEF Tree, Heights
<1>2. \A x \in N : IsFiniteSet(b(x)) /\ Cardinality(b(x)) \in Nat
  <2>1. \A x \in N : b(x) \subseteq N
    OBVIOUS
  <2>2. QED
    BY <1>1, <2>1, FS_Subset, FS_CardinalityType
<1> DEFINE P == {x \in N : Cardinality(b(x)) + h[x] = h[map.root] + Black(map, x)}
<1>3. N # {} => map.root \in P
  <2>1. SUFFICES ASSUME N # {} PROVE map.root \in P
    OBVIOUS
  <2>2. PICK r : r = map.root
    OBVIOUS
  <2>3. r \in N /\ Parent(map, r) = Null /\ r \in u[r]
    BY <2>1, <2>2, Family DEF Tree, Linked
  <2>4. \A z \in N : r \in u[z] => r = z
    BY <2>3, Subtree
  <2>5. b(r) = IF Color(map, r) = "black" THEN {r} ELSE {}
    BY <2>3, <2>4
  <2>6. Cardinality(b(r)) = Black(map, r)
    BY <2>5, FS_Singleton, FS_EmptySet DEF Black
  <2>7. h[r] \in Nat /\ Black(map, r) \in Nat
    BY <1>1, <2>3 DEF Black
  <2>8. Cardinality(b(r)) + h[r] = h[r] + Black(map, r)
    BY <2>6, <2>7
  <2>9. QED
    BY <2>2, <2>3, <2>8
<1>4. ASSUME NEW x \in N, Parent(map, x) # Null, Parent(map, x) \in P PROVE x \in P
  <2>1. PICK p : p = Parent(map, x)
    OBVIOUS
  <2>2. p \in N /\ p # x /\ u[x] \subseteq u[p] /\ p \notin u[x] /\ x \in u[x]
    BY <1>4, <2>1, Upward, Family
  <2>3. PICK s \in Side : Child(map, p, s) = x
    BY <1>4, <2>1, Upward
  <2>4. h[x] + Black(map, p) = h[p]
    <3>1. h[p] = Rise(h, Child(map, p, s)) + Black(map, p)
      BY <1>1, <2>2, LevelSides
    <3>2. Rise(h, x) = h[x]
      BY <1>1 DEF Rise
    <3>3. QED
      BY <2>3, <3>1, <3>2
  <2>5. \A z \in N : x \in u[z] <=> x = z \/ p \in u[z]
    BY <1>4, <2>1, <2>2, Subtree
  <2>6. b(x) = b(p) \cup (IF Color(map, x) = "black" THEN {x} ELSE {})
    BY <2>5
  <2>7. x \notin b(p)
    BY <2>2
  <2>8. Cardinality(b(x)) = Cardinality(b(p)) + Black(map, x)
    <3> HIDE DEF b
    <3>1. CASE Color(map, x) = "black"
      <4>1. b(x) = b(p) \cup {x} /\ Black(map, x) = 1
        BY <2>6, <3>1 DEF Black
      <4>2. Cardinality(b(p) \cup {x}) = Cardinality(b(p)) + 1
        BY <1>2, <2>2, <2>7, FS_AddElement
      <4>3. QED
        BY <4>1, <4>2
    <3>2. CASE Color(map, x) # "black"
      <4>1. b(x) = b(p) /\ Black(map, x) = 0
        BY <2>6, <3>2 DEF Black
      <4>2. QED
        BY <1>2, <2>2, <4>1
    <3>3. QED
      BY <3>1, <3>2
  <2>9. /\ h[x] \in Nat /\ h[p] \in Nat /\ h[map.root] \in Nat /\ Black(map, x) \in Nat
        /\ Black(map, p) \in Nat /\ Cardinality(b(p)) \in Nat
    <3>1. map.root \in N
      BY DEF Tree
    <3>2. QED
      BY <1>1, <1>2, <2>2, <3>1 DEF Black
  <2>10. Cardinality(b(p)) + h[p] = h[map.root] + Black(map, p)
    BY <1>4, <2>1
  <2> HIDE DEF b
  <2>11. PICK i, j : i = Cardinality(b(p)) /\ j = Cardinality(b(x))
    OBVIOUS
  <2>12. j + h[x] = h[map.root] + Black(map, x)
    BY <2>4, <2>8, <2>9, <2>10, <2>11
  <2>13. QED
    BY <2>11, <2>12
<1> HIDE DEF P
<1>5. N \subseteq P
  BY <1>3, <1>4, DownInduction
<1>6. QED
  BY <1>2, <1>5 DEF P

\* A balanced tree is one in the sense of the properties.
LEMMA BalancedShape ==
  ASSUME NEW N, NEW map, Balanced(N, map)
  PROVE  IsTree(map) /\ IsBalanced(map)
<1>1. PICK u, h : Tree(N, map, u) /\ Heights(N, map, h) /\ \A x \in N : Pale(map, x)
  BY DEF Balanced
<1>2. map \in Maps(N) /\ Node(map) = N /\ Null \notin N /\ map.root \in N \cup {Null}
      /\ (N # {} => map.root \in N /\ u[map.root] = N)
  BY <1>1, FieldTypes DEF Tree
<1>3. \A x \in N : Ancestors(map)[x] = {z \in N : x \in u[z]}
  BY <1>1, AncestorsAre
<1>4. \A x \in N : Linked(map, x)
  BY <1>1 DEF Tree
<1>5. map.root # Null => map.root \in N /\ Parent(map, map.root) = Null
  BY <1>2, <1>4 DEF Linked
<1>6. IsTree(map)
  <2>1. \A x \in N : map.root \in Ancestors(map)[x]
    BY <1>2, <1>3
  <2>2. QED
    BY <1>2, <1>4, <1>5, <2>1 DEF IsTree, Linked
<1>7. \A x \in N : map.node[x].color = Color(map, x) /\ Color(map, x) \in {"red", "black"}
  BY <1>2, FieldTypes DEF Color
<1>8. map.root # Null => map.node[map.root].color = "black"
  BY <1>1, <1>5, <1>7 DEF Pale
<1>9. \A x \in N : map.node[x].color = "red" => map.node[Parent(map, x)].color = "black"
  <2>1. ASSUME NEW x \in N, Color(map, x) = "red" PROVE map.node[Parent(map, x)].color = "black"
    BY <1>1, <2>1 DEF Pale, Color
  <2>2. QED
    BY <1>7, <2>1
<1>10. ASSUME NEW x \in N, \E s \in Side : Child(map, x, s) = Null
       PROVE  Cardinality({z \in Ancestors(map)[x] : map.node[z].color = "black"}) = h[map.root]
  <2>1. PICK b : b = {z \in N : x \in u[z] /\ Color(map, z) = "black"}
    OBVIOUS
  <2>2. {z \in Ancestors(map)[x] : map.node[z].color = "black"} = b
    BY <1>3, <1>7, <2>1
  <2>3. Cardinality(b) \in Nat /\ Cardinality(b) + h[x] = h[map.root] + Black(map, x)
    BY <1>1, <2>1, BlacksAbove
  <2>4. PICK s \in Side : Child(map, x, s) = Null
    BY <1>10
  <2>5. h[x] = 0 + Black(map, x)
    <3>1. Level(map, h, x)
      BY <1>1 DEF Heights
    <3>2. h[x] = Rise(h, Child(map, x, s)) + Black(map, x)
      BY <3>1, LevelSides
    <3>3. Rise(h, Child(map, x, s)) = 0
      BY <2>4 DEF Rise
    <3>4. QED
      BY <3>2, <3>3
  <2>6. h[map.root] \in Nat /\ Black(map, x) \in Nat
    BY <1>1, <1>2 DEF Heights, Black
  <2>7. Cardinality(b) = h[map.root]
    BY <2>3, <2>5, <2>6
  <2>8. QED
    BY <2>2, <2>7
<1>11. IsBalanced(map)
  <2>1. Node(map) = N
    BY <1>2
  <2>2. QED
    BY <1>8, <1>9, <1>10, <2>1 DEF IsBalanced
<1>12. QED
  BY <1>6, <1>11

\* A good map is balanced; it is ordered if R orders by addresses.
LEMMA GoodShape ==
  ASSUME NEW N, NEW map, NEW R, Good(N, map, R)
  PROVE  /\ Node(map) = N /\ Balanced(N, map)
         /\ (\A x, y \in N : <<x, y>> \in R => x[2] <= y[1]) => IsOrdered(map)
<1>1. PICK u, h : Ranges(N, map, u, R) /\ Heights(N, map, h) /\ \A x \in N : Pale(map, x)
  BY DEF Good
<1>2. Tree(N, map, u) /\ map \in Maps(N) /\ Node(map) = N /\ Null \notin N
  BY <1>1, FieldTypes DEF Ranges, Tree
<1>3. Balanced(N, map)
  BY <1>1, <1>2 DEF Balanced
<1>4. ASSUME \A x, y \in N : <<x, y>> \in R => x[2] <= y[1] PROVE IsOrdered(map)
  <2>1. \A x \in N : /\ Ancestors(map)[x] = {z \in N : x \in u[z]}
                     /\ map.node[x].lowAddr = x[1] /\ map.node[x].highAddr = x[2]
    BY <1>1, <1>2, AncestorsAre DEF Ranges, Low, High
  <2>2. ASSUME NEW x \in N, NEW y \in N, NEW s \in Side, Child(map, y, s) \in Ancestors(map)[x]
        PROVE  Beside(R, x, y, s)
    <3>1. x \in Under(u, Child(map, y, s))
      BY <1>2, <2>1, <2>2 DEF Under
    <3>2. QED
      BY <1>1, <3>1 DEF Ranges, Sorted
  <2>3. ASSUME NEW x \in N, NEW y \in N, Child(map, y, "left") \in Ancestors(map)[x]
        PROVE  map.node[x].highAddr <= map.node[y].lowAddr
    BY <1>4, <2>1, <2>2, <2>3, Sides DEF Beside
  <2>4. ASSUME NEW x \in N, NEW y \in N, Child(map, y, "right") \in Ancestors(map)[x]
        PROVE  map.node[x].lowAddr >= map.node[y].highAddr
    <3>1. Beside(R, x, y, "right")
      BY <2>2, <2>4, Sides
    <3>2. y[2] <= x[1]
      BY <1>4, <3>1 DEF Beside
    <3>3. y[2] \in Int /\ x[1] \in Int
      <4>1. Low(map, x) \in Addr /\ High(map, y) \in Addr
        BY <1>2, FieldTypes
      <4>2. QED
        BY <1>1, <4>1, MaxAddressAssumption DEF Ranges, Addr
    <3>4. QED
      BY <2>1, <3>2, <3>3
  <2>5. QED
    BY <1>2, <2>3, <2>4 DEF IsOrdered
<1>5. QED
  BY <1>2, <1>3, <1>4

-----------------------------------------------------------------------------
(* AddrToSourceMap_PatchRanges. *)

\* v is the lowest address of what comes after x, in the order R, or MaxAddress.
After(N, map, R, x, v) ==
  \E q \in N \cup {Null} :
    /\ q = Null => v = MaxAddress
    /\ q # Null => v = Low(map, q) /\ <<x, q>> \in R
    /\ \A w \in N : w = x \/ <<w, x>> \in R \/ (q # Null /\ (w = q \/ <<q, w>> \in R))

\* v is the lowest address of what comes after the subtree of x, or MaxAddress.
AfterAll(N, map, u, R, x, v) ==
  \E q \in N \cup {Null} :
    /\ q = Null => v = MaxAddress
    /\ q # Null => v = Low(map, q) /\ \A y \in u[x] : <<y, q>> \in R
    /\ \A w \in N : \/ w \in u[x] \/ (\A y \in u[x] : <<w, y>> \in R)
                    \/ (q # Null /\ (w = q \/ <<q, w>> \in R))

\* v is the lowest address in the subtree of x.
Least(N, map, u, R, x, v) ==
  \E m \in u[x] : v = Low(map, m) /\ \A w \in u[x] : w = m \/ <<m, w>> \in R

\* The argument of the recursion: what limits a subtree from above.
LEMMA LimitIs ==
  ASSUME NEW N, NEW map, NEW u, NEW R, Tree(N, map, u), Sorted(N, map, u, R), Transitive(R, N),
         NEW limit0,
         \A x \in N : limit0[x] = IF Parent(map, x) = Null THEN MaxAddress
                                  ELSE IF x = Child(map, Parent(map, x), "left")
                                  THEN Low(map, Parent(map, x)) ELSE limit0[Parent(map, x)]
  PROVE  \A x \in N : AfterAll(N, map, u, R, x, limit0[x])
<1>1. Null \notin N /\ map \in Maps(N) /\ u \in [N -> SUBSET N] /\ (N # {} => map.root \in N /\ u[map.root] = N)
  BY DEF Tree
<1> DEFINE P == {x \in N : AfterAll(N, map, u, R, x, limit0[x])}
<1>2. N # {} => map.root \in P
  <2>1. SUFFICES ASSUME N # {} PROVE map.root \in P
    OBVIOUS
  <2>2. PICK r : r = map.root
    OBVIOUS
  <2>3. r \in N /\ Parent(map, r) = Null /\ u[r] = N
    BY <1>1, <2>1, <2>2 DEF Tree, Linked
  <2>4. limit0[r] = MaxAddress
    BY <2>3
  <2>5. AfterAll(N, map, u, R, r, limit0[r])
    BY <2>3, <2>4 DEF AfterAll
  <2>6. QED
    BY <2>2, <2>3, <2>5
<1>3. ASSUME NEW x \in N, Parent(map, x) # Null, Parent(map, x) \in P PROVE x \in P
  <2>1. PICK p : p = Parent(map, x)
    OBVIOUS
  <2>2. p \in N /\ p # x /\ u[x] \subseteq u[p] /\ p \notin u[x] /\ x \in u[x] /\ u[p] \subseteq N
    BY <1>3, <2>1, Upward, Family
  <2>3. PICK s \in Side : Child(map, p, s) = x
    BY <1>3, <2>1, Upward
  <2>4. Under(u, Child(map, p, s)) = u[x]
    BY <1>1, <2>3 DEF Under
  <2>5. PICK b : b = Under(u, Child(map, p, Other(s)))
    OBVIOUS
  <2>6. u[p] = {p} \cup u[x] \cup b
    <3>1. Spans(map, u, p)
      BY <2>2 DEF Tree
    <3>2. QED
      BY <2>4, <2>5, <3>1, SpansSides
  <2>7. (\A y \in u[x] : Beside(R, y, p, s)) /\ \A y \in b : Beside(R, y, p, Other(s))
    BY <2>2, <2>4, <2>5, Sides DEF Sorted
  <2>8. PICK q \in N \cup {Null} :
          /\ q = Null => limit0[p] = MaxAddress
          /\ q # Null => limit0[p] = Low(map, q) /\ \A y \in u[p] : <<y, q>> \in R
          /\ \A w \in N : \/ w \in u[p] \/ (\A y \in u[p] : <<w, y>> \in R)
                          \/ (q # Null /\ (w = q \/ <<q, w>> \in R))
    BY <1>3, <2>1 DEF AfterAll
  <2>9. p \in u[p]
    BY <2>6
  <2>10. CASE x = Child(map, p, "left")
    <3>1. s = "left"
      <4>1. Child(map, p, "left") # Child(map, p, Other("left"))
        BY <1>1, <2>2, <2>10, Family, Sides
      <4>2. QED
        BY <2>3, <2>10, <4>1, Sides
    <3>2. limit0[x] = Low(map, p)
      BY <1>3, <2>1, <2>10
    <3>3. \A y \in u[x] : <<y, p>> \in R
      BY <2>7, <3>1 DEF Beside
    <3>4. ASSUME NEW w \in N
          PROVE  \/ w \in u[x] \/ (\A y \in u[x] : <<w, y>> \in R)
                 \/ w = p \/ <<p, w>> \in R
      <4>1. CASE w \in u[p]
        <5>1. w \in b => <<p, w>> \in R
          BY <2>7, <3>1, Sides DEF Beside
        <5>2. QED
          BY <2>6, <4>1, <5>1
      <4>2. CASE \A y \in u[p] : <<w, y>> \in R
        BY <2>2, <4>2
      <4>3. CASE q # Null /\ (w = q \/ <<q, w>> \in R)
        <5>1. q \in N /\ <<p, q>> \in R
          BY <2>8, <2>9, <4>3
        <5>2. QED
          BY <2>2, <4>3, <5>1 DEF Transitive
      <4>4. QED
        BY <2>8, <4>1, <4>2, <4>3
    <3>5. p # Null
      BY <1>1, <2>2
    <3>6. AfterAll(N, map, u, R, x, limit0[x])
      BY <2>2, <3>2, <3>3, <3>4, <3>5 DEF AfterAll
    <3>7. QED
      BY <3>6
  <2>11. CASE x # Child(map, p, "left")
    <3>1. s = "right"
      BY <2>3, <2>11 DEF Side
    <3>2. limit0[x] = limit0[p]
      BY <1>3, <2>1, <2>11
    <3>3. \A y \in u[x] : <<p, y>> \in R
      BY <2>7, <3>1 DEF Beside
    <3>4. ASSUME NEW w \in N
          PROVE  \/ w \in u[x] \/ (\A y \in u[x] : <<w, y>> \in R)
                 \/ (q # Null /\ (w = q \/ <<q, w>> \in R))
      <4>1. CASE w \in u[p]
        <5>1. w \in b => <<w, p>> \in R
          BY <2>7, <3>1, Sides DEF Beside
        <5>2. w \in b => \A y \in u[x] : <<w, y>> \in R
          BY <2>2, <3>3, <5>1 DEF Transitive
        <5>3. QED
          BY <2>6, <3>3, <4>1, <5>2
      <4>2. CASE \A y \in u[p] : <<w, y>> \in R
        BY <2>2, <4>2
      <4>3. QED
        BY <2>8, <4>1, <4>2
    <3>5. q # Null => limit0[x] = Low(map, q) /\ \A y \in u[x] : <<y, q>> \in R
      BY <2>2, <2>8, <3>2
    <3>6. AfterAll(N, map, u, R, x, limit0[x])
      BY <2>8, <3>2, <3>4, <3>5 DEF AfterAll
    <3>7. QED
      BY <3>6
  <2>12. QED
    BY <2>10, <2>11
<1> HIDE DEF P
<1>4. N \subseteq P
  BY <1>2, <1>3, DownInduction
<1>5. QED
  BY <1>4 DEF P

\* The result of the recursion: the lowest address of a subtree.
LEMMA LowestIs ==
  ASSUME NEW N, NEW map, NEW u, NEW R, Tree(N, map, u), Sorted(N, map, u, R), Transitive(R, N),
         NEW lowest,
         \A x \in N : lowest[x] = IF Child(map, x, "left") = Null THEN Low(map, x)
                                  ELSE lowest[Child(map, x, "left")]
  PROVE  \A x \in N : Least(N, map, u, R, x, lowest[x])
<1>1. Null \notin N /\ map \in Maps(N) /\ u \in [N -> SUBSET N]
  BY DEF Tree
<1> DEFINE P == {x \in N : Least(N, map, u, R, x, lowest[x])}
<1>2. ASSUME NEW x \in N, \A s \in Side : Child(map, x, s) # Null => Child(map, x, s) \in P
      PROVE  x \in P
  <2>1. PICK a, b : a = Under(u, Child(map, x, "left")) /\ b = Under(u, Child(map, x, "right"))
    OBVIOUS
  <2>2. u[x] = {x} \cup a \cup b /\ u[x] \subseteq N
    BY <1>1, <2>1 DEF Tree, Spans
  <2>3. (\A w \in a : <<w, x>> \in R) /\ \A w \in b : <<x, w>> \in R
    BY <2>1, Sides DEF Sorted, Beside
  <2>4. CASE Child(map, x, "left") = Null
    <3>1. a = {} /\ lowest[x] = Low(map, x)
      BY <2>1, <2>4 DEF Under
    <3>2. Least(N, map, u, R, x, lowest[x])
      BY <2>2, <2>3, <3>1 DEF Least
    <3>3. QED
      BY <3>2
  <2>5. CASE Child(map, x, "left") # Null
    <3>1. PICK c : c = Child(map, x, "left")
      OBVIOUS
    <3>2. lowest[x] = lowest[c] /\ c \in P /\ a = u[c]
      BY <1>2, <2>1, <2>5, <3>1, Sides DEF Under
    <3>3. PICK m \in u[c] : lowest[c] = Low(map, m) /\ \A w \in u[c] : w = m \/ <<m, w>> \in R
      BY <3>2 DEF Least
    <3>4. m \in u[x] /\ <<m, x>> \in R
      BY <2>2, <2>3, <3>2, <3>3
    <3>5. \A w \in u[x] : w = m \/ <<m, w>> \in R
      BY <2>2, <2>3, <3>2, <3>3, <3>4 DEF Transitive
    <3>6. Least(N, map, u, R, x, lowest[x])
      BY <3>2, <3>3, <3>4, <3>5 DEF Least
    <3>7. QED
      BY <3>6
  <2>6. QED
    BY <2>4, <2>5
<1> HIDE DEF P
<1>3. N \subseteq P
  BY <1>2, UpInduction
<1>4. QED
  BY <1>3 DEF P

\* What limits a range: the lowest address on its right, or the limit of its subtree.
LEMMA NextIs ==
  ASSUME NEW N, NEW map, NEW u, NEW R, Tree(N, map, u), Sorted(N, map, u, R), Transitive(R, N),
         NEW x \in N, NEW limit0, AfterAll(N, map, u, R, x, limit0),
         NEW lowest, Child(map, x, "right") # Null => Least(N, map, u, R, Child(map, x, "right"), lowest)
  PROVE  After(N, map, R, x, IF Child(map, x, "right") = Null THEN limit0 ELSE lowest)
<1>1. Null \notin N /\ map \in Maps(N) /\ u \in [N -> SUBSET N]
  BY DEF Tree
<1>2. PICK a, b : a = Under(u, Child(map, x, "left")) /\ b = Under(u, Child(map, x, "right"))
  OBVIOUS
<1>3. u[x] = {x} \cup a \cup b /\ u[x] \subseteq N
  BY <1>1, <1>2 DEF Tree, Spans
<1>4. (\A w \in a : <<w, x>> \in R) /\ \A w \in b : <<x, w>> \in R
  BY <1>2, Sides DEF Sorted, Beside
<1>5. PICK q \in N \cup {Null} :
        /\ q = Null => limit0 = MaxAddress
        /\ q # Null => limit0 = Low(map, q) /\ \A y \in u[x] : <<y, q>> \in R
        /\ \A w \in N : \/ w \in u[x] \/ (\A y \in u[x] : <<w, y>> \in R)
                        \/ (q # Null /\ (w = q \/ <<q, w>> \in R))
  BY DEF AfterAll
<1>6. x \in u[x]
  BY <1>3
<1>7. CASE Child(map, x, "right") = Null
  <2>1. b = {}
    BY <1>2, <1>7 DEF Under
  <2>2. q # Null => <<x, q>> \in R
    BY <1>5, <1>6
  <2>3. \A w \in N : w = x \/ <<w, x>> \in R \/ (q # Null /\ (w = q \/ <<q, w>> \in R))
    BY <1>3, <1>4, <1>5, <1>6, <2>1
  <2>4. After(N, map, R, x, limit0)
    BY <1>5, <2>2, <2>3 DEF After
  <2>5. QED
    BY <1>7, <2>4
<1>8. CASE Child(map, x, "right") # Null
  <2>1. PICK c : c = Child(map, x, "right")
    OBVIOUS
  <2>2. b = u[c]
    BY <1>2, <1>8, <2>1 DEF Under
  <2>3. PICK m \in u[c] : lowest = Low(map, m) /\ \A w \in u[c] : w = m \/ <<m, w>> \in R
    BY <1>8, <2>1 DEF Least
  <2>4. m \in u[x] /\ m \in N /\ m # Null /\ <<x, m>> \in R
    BY <1>1, <1>3, <1>4, <2>2, <2>3
  <2>5. ASSUME NEW w \in N PROVE w = x \/ <<w, x>> \in R \/ w = m \/ <<m, w>> \in R
    <3>1. CASE w \in u[x]
      BY <1>3, <1>4, <2>2, <2>3, <3>1
    <3>2. CASE \A y \in u[x] : <<w, y>> \in R
      BY <1>6, <3>2
    <3>3. CASE q # Null /\ (w = q \/ <<q, w>> \in R)
      <4>1. q \in N /\ <<m, q>> \in R
        BY <1>5, <2>4, <3>3
      <4>2. QED
        BY <2>4, <3>3, <4>1 DEF Transitive
    <3>4. QED
      BY <1>5, <3>1, <3>2, <3>3
  <2>6. After(N, map, R, x, lowest)
    BY <2>3, <2>4, <2>5 DEF After
  <2>7. QED
    BY <1>8, <2>6
<1>9. QED
  BY <1>7, <1>8

\* The two recursions of AddrToSourceMap_PatchRanges.
Limit(f, N, map) ==
  f = [x \in N |-> IF Parent(map, x) = Null THEN MaxAddress
                   ELSE IF x = Child(map, Parent(map, x), "left") THEN map.node[Parent(map, x)].lowAddr
                   ELSE f[Parent(map, x)]]
Lowest(f, N, map) ==
  f = [x \in N |-> IF Child(map, x, "left") = Null THEN map.node[x].lowAddr ELSE f[Child(map, x, "left")]]

\* The limits of the subtrees exist.
LEMMA LimitExists ==
  ASSUME NEW N, NEW map, NEW u, Tree(N, map, u)
  PROVE  \E f : Limit(f, N, map)
<1>1. PICK stop : stop = {x \in N : Parent(map, x) = Null \/ x = Child(map, Parent(map, x), "left")}
  OBVIOUS
<1>2. PICK next : next = [x \in N |-> Parent(map, x)]
  OBVIOUS
<1>3. PICK last : last = [x \in N |-> IF Parent(map, x) = Null THEN MaxAddress
                                      ELSE map.node[Parent(map, x)].lowAddr]
  OBVIOUS
<1>4. PICK K : K = Cardinality(N) /\ K \in Nat
  BY FS_CardinalityType DEF Tree
<1>5. PICK rank : rank = [x \in N |-> K - Cardinality(u[x])]
  OBVIOUS
<1>6. \A x \in N : rank[x] \in 0 .. K
  <2>1. \A x \in N : Cardinality(u[x]) \in Nat /\ Cardinality(u[x]) <= K
    BY <1>4, Family
  <2>2. QED
    BY <1>4, <1>5, <2>1
<1>7. ASSUME NEW x \in N, x \notin stop PROVE next[x] \in N /\ rank[next[x]] < rank[x]
  <2>1. PICK p : p = Parent(map, x)
    OBVIOUS
  <2>2. p \in N /\ Cardinality(u[x]) < Cardinality(u[p])
    BY <1>1, <1>7, <2>1, Upward
  <2>3. Cardinality(u[x]) \in Nat /\ Cardinality(u[p]) \in Nat
    BY <2>2, Family
  <2>4. next[x] = p /\ rank[x] = K - Cardinality(u[x]) /\ rank[p] = K - Cardinality(u[p])
    BY <1>2, <1>5, <2>1, <2>2
  <2>5. QED
    BY <1>4, <2>2, <2>3, <2>4
<1>8. PICK f : Goes(f, N, stop, next, last)
  BY <1>4, <1>6, <1>7, LoopExists
<1>9. ASSUME NEW x \in N
      PROVE  (IF x \in stop THEN last[x] ELSE f[next[x]]) =
               IF Parent(map, x) = Null THEN MaxAddress
               ELSE IF x = Child(map, Parent(map, x), "left") THEN map.node[Parent(map, x)].lowAddr
               ELSE f[Parent(map, x)]
  BY <1>1, <1>2, <1>3
<1>10. QED
  BY <1>8, <1>9 DEF Goes, Limit

\* So do their lowest addresses.
LEMMA LowestExists ==
  ASSUME NEW N, NEW map, NEW u, Tree(N, map, u)
  PROVE  \E f : Lowest(f, N, map)
<1>1. PICK stop : stop = {x \in N : Child(map, x, "left") = Null}
  OBVIOUS
<1>2. PICK next : next = [x \in N |-> Child(map, x, "left")]
  OBVIOUS
<1>3. PICK last, rank : /\ last = [x \in N |-> map.node[x].lowAddr]
                        /\ rank = [x \in N |-> Cardinality(u[x])]
  OBVIOUS
<1>4. PICK K : K = Cardinality(N) /\ K \in Nat
  BY FS_CardinalityType DEF Tree
<1>5. \A x \in N : rank[x] \in 0 .. K
  BY <1>3, <1>4, Family
<1>6. ASSUME NEW x \in N, x \notin stop PROVE next[x] \in N /\ rank[next[x]] < rank[x]
  <2>1. PICK c : c = Child(map, x, "left")
    OBVIOUS
  <2>2. c \in N /\ Cardinality(u[c]) < Cardinality(u[x])
    BY <1>1, <1>6, <2>1, Family, Sides
  <2>3. QED
    BY <1>2, <1>3, <2>1, <2>2
<1>7. PICK f : Goes(f, N, stop, next, last)
  BY <1>4, <1>5, <1>6, LoopExists
<1>8. ASSUME NEW x \in N
      PROVE  (IF x \in stop THEN last[x] ELSE f[next[x]]) =
               IF Child(map, x, "left") = Null THEN map.node[x].lowAddr ELSE f[Child(map, x, "left")]
  BY <1>1, <1>2, <1>3
<1>9. QED
  BY <1>7, <1>8 DEF Goes, Lowest

\* The ends of the ranges after AddrToSourceMap_PatchRanges; nothing else changes.
LEMMA PatchEffect ==
  ASSUME NEW N, NEW map, NEW u, NEW R, Tree(N, map, u), Sorted(N, map, u, R), Transitive(R, N),
         NEW new, new = AddrToSourceMap_PatchRanges(map)
  PROVE  /\ new \in Maps(N) /\ new.root = map.root
         /\ \A z \in N :
              /\ Color(new, z) = Color(map, z) /\ Low(new, z) = Low(map, z)
              /\ Parent(new, z) = Parent(map, z) /\ \A s \in Side : Child(new, z, s) = Child(map, z, s)
              /\ \E v \in Addr : After(N, map, R, z, v) /\ High(new, z) = (v - 1) % (MaxAddress + 1)
<1>1. map \in Maps(N) /\ Node(map) = N /\ Null \notin N /\ map.root \in N \cup {Null}
      /\ map = [root |-> map.root, node |-> map.node]
  BY FieldTypes DEF Tree
<1>2. PICK top, low : /\ top = (CHOOSE f : Limit(f, N, map)) /\ low = (CHOOSE f : Lowest(f, N, map))
                      /\ Limit(top, N, map) /\ Lowest(low, N, map)
  <2>1. PICK top, low : top = (CHOOSE f : Limit(f, N, map)) /\ low = (CHOOSE f : Lowest(f, N, map))
    OBVIOUS
  <2>2. Limit(top, N, map)
    BY <2>1, LimitExists
  <2>3. Lowest(low, N, map)
    BY <2>1, LowestExists
  <2>4. QED
    BY <2>1, <2>2, <2>3
<1> DEFINE next(x) == IF Child(map, x, "right") = Null THEN top[x] ELSE low[Child(map, x, "right")]
           Patched(x) == [map.node[x] EXCEPT !.highAddr = (next(x) - 1) % (MaxAddress + 1)]
<1>3. new = [map EXCEPT !.node = [x \in N |-> Patched(x)]]
  BY <1>1, <1>2 DEF AddrToSourceMap_PatchRanges, Limit, Lowest
<1>4. ASSUME NEW x \in N PROVE AfterAll(N, map, u, R, x, top[x])
  <2>1. top = [y \in N |-> IF Parent(map, y) = Null THEN MaxAddress
                           ELSE IF y = Child(map, Parent(map, y), "left")
                           THEN map.node[Parent(map, y)].lowAddr ELSE top[Parent(map, y)]]
    BY <1>2 DEF Limit
  <2>2. PICK e : e = top
    OBVIOUS
  <2>3. e = [y \in N |-> IF Parent(map, y) = Null THEN MaxAddress
                           ELSE IF y = Child(map, Parent(map, y), "left")
                           THEN map.node[Parent(map, y)].lowAddr ELSE top[Parent(map, y)]]
    BY <2>1, <2>2
  <2>4. \A y \in N : e[y] = IF Parent(map, y) = Null THEN MaxAddress
                            ELSE IF y = Child(map, Parent(map, y), "left")
                            THEN Low(map, Parent(map, y)) ELSE e[Parent(map, y)]
    BY <2>2, <2>3 DEF Low
  <2>5. QED
    BY <2>2, <2>4, LimitIs
<1>5. ASSUME NEW x \in N PROVE Least(N, map, u, R, x, low[x])
  <2>1. low = [y \in N |-> IF Child(map, y, "left") = Null THEN map.node[y].lowAddr
                           ELSE low[Child(map, y, "left")]]
    BY <1>2 DEF Lowest
  <2>2. PICK e : e = low
    OBVIOUS
  <2>3. e = [y \in N |-> IF Child(map, y, "left") = Null THEN map.node[y].lowAddr
                         ELSE low[Child(map, y, "left")]]
    BY <2>1, <2>2
  <2>4. \A y \in N : e[y] = IF Child(map, y, "left") = Null THEN Low(map, y)
                            ELSE e[Child(map, y, "left")]
    BY <2>2, <2>3 DEF Low
  <2>5. QED
    BY <2>2, <2>4, LowestIs
<1>6. ASSUME NEW x \in N PROVE After(N, map, R, x, next(x))
  <2>1. Child(map, x, "right") # Null =>
          Least(N, map, u, R, Child(map, x, "right"), low[Child(map, x, "right")])
    BY <1>1, <1>5, FieldTypes, Sides
  <2>2. AfterAll(N, map, u, R, x, top[x])
    BY <1>4
  <2>3. PICK t, l : t = top[x] /\ l = low[Child(map, x, "right")]
    OBVIOUS
  <2>4. After(N, map, R, x, IF Child(map, x, "right") = Null THEN t ELSE l)
    BY <2>1, <2>2, <2>3, NextIs
  <2>5. QED
    BY <2>3, <2>4
<1>7. ASSUME NEW x \in N PROVE next(x) \in Addr
  <2>1. PICK v : v = next(x)
    OBVIOUS
  <2> HIDE DEF next
  <2>2. v = MaxAddress \/ \E q \in N : v = Low(map, q)
    BY <1>6, <2>1 DEF After
  <2>3. MaxAddress \in Addr
    BY MaxAddressAssumption DEF Addr
  <2>4. QED
    BY <1>1, <2>1, <2>2, <2>3, FieldTypes
<1> HIDE DEF next
<1>8. ASSUME NEW x \in N
      PROVE  /\ Patched(x) \in Fields(N) /\ Patched(x).color = map.node[x].color
             /\ Patched(x).lowAddr = map.node[x].lowAddr /\ Patched(x).parent = map.node[x].parent
             /\ Patched(x).child = map.node[x].child
             /\ Patched(x).highAddr = (next(x) - 1) % (MaxAddress + 1)
  <2>1. PICK r, v : r = map.node[x] /\ v = (next(x) - 1) % (MaxAddress + 1)
    OBVIOUS
  <2>2. r \in Fields(N)
    BY <1>1, <2>1, FieldTypes
  <2>3. v \in Addr
    <3>1. PICK n : n = next(x) - 1
      OBVIOUS
    <3>2. n \in Int /\ MaxAddress \in Nat
      BY <1>7, <3>1, MaxAddressAssumption DEF Addr
    <3>3. n % (MaxAddress + 1) \in 0 .. MaxAddress
      BY <3>2
    <3>4. QED
      BY <2>1, <3>1, <3>3 DEF Addr
  <2>4. Patched(x) = [r EXCEPT !.highAddr = v]
    BY <2>1
  <2> HIDE DEF Patched
  <2>5. PICK q : q = Patched(x)
    OBVIOUS
  <2>6. q \in Fields(N) /\ q.color = r.color /\ q.lowAddr = r.lowAddr /\ q.highAddr = v
        /\ q.parent = r.parent /\ q.child = r.child
    BY <2>2, <2>3, <2>4, <2>5 DEF Fields
  <2>7. QED
    BY <2>1, <2>5, <2>6
<1> HIDE DEF Patched
<1>9. new.root = map.root /\ \A x \in N : new.node[x] = Patched(x)
  BY <1>1, <1>3
<1>10. new \in Maps(N)
  <2>1. PICK n : n = [x \in N |-> Patched(x)]
    OBVIOUS
  <2>2. n \in [N -> Fields(N)]
    BY <1>8, <2>1
  <2>3. new = [root |-> map.root, node |-> n]
    BY <1>1, <1>3, <2>1
  <2>4. QED
    BY <1>1, <2>2, <2>3 DEF Maps
<1>11. ASSUME NEW z \in N
       PROVE  /\ Color(new, z) = Color(map, z) /\ Low(new, z) = Low(map, z)
              /\ Parent(new, z) = Parent(map, z) /\ \A s \in Side : Child(new, z, s) = Child(map, z, s)
              /\ High(new, z) = (next(z) - 1) % (MaxAddress + 1)
  BY <1>8, <1>9 DEF Color, Low, High, Parent, Child
<1>12. QED
  BY <1>6, <1>7, <1>9, <1>10, <1>11

\* The tree stays what it was.
LEMMA PatchTree ==
  ASSUME NEW N, NEW map, NEW u, NEW h, NEW R, Tree(N, map, u), Sorted(N, map, u, R), Transitive(R, N),
         Heights(N, map, h), \A x \in N : Pale(map, x),
         NEW new, new = AddrToSourceMap_PatchRanges(map)
  PROVE  Tree(N, new, u) /\ Sorted(N, new, u, R) /\ Balanced(N, new)
<1>1. map \in Maps(N) /\ Null \notin N
  BY DEF Tree
<1>2. /\ new \in Maps(N) /\ new.root = map.root
      /\ \A z \in N : /\ Color(new, z) = Color(map, z) /\ Parent(new, z) = Parent(map, z)
                      /\ \A s \in Side : Child(new, z, s) = Child(map, z, s)
  BY PatchEffect
<1>3. \A z \in N : /\ Parent(map, z) \in N \cup {Null}
                   /\ \A s \in Side : Child(map, z, s) \in N \cup {Null}
  BY <1>1, FieldTypes
<1>4. ASSUME NEW z \in N PROVE Linked(new, z) /\ Spans(new, u, z)
  <2>1. Linked(map, z) /\ Spans(map, u, z)
    BY DEF Tree
  <2>2. Spans(new, u, z)
    BY <1>2, <2>1, Sides DEF Spans
  <2>3. \A s \in Side : Child(new, z, s) # Null => Parent(new, Child(new, z, s)) = z
    BY <1>2, <1>3, <2>1 DEF Linked
  <2>4. Parent(new, z) = Null <=> z = new.root
    BY <1>2, <2>1 DEF Linked
  <2>5. Parent(new, z) # Null => \E s \in Side : Child(new, Parent(new, z), s) = z
    BY <1>2, <1>3, <2>1 DEF Linked
  <2>6. QED
    BY <2>2, <2>3, <2>4, <2>5 DEF Linked
<1>5. Tree(N, new, u)
  BY <1>1, <1>2, <1>4 DEF Tree
<1>6. Sorted(N, new, u, R)
  BY <1>2 DEF Sorted
<1>7. Heights(N, new, h)
  BY <1>2, Sides DEF Heights, Level, Black
<1>8. \A z \in N : Pale(new, z)
  BY <1>2, <1>3 DEF Pale
<1>9. QED
  BY <1>5, <1>6, <1>7, <1>8 DEF Balanced

-----------------------------------------------------------------------------
(* The order of line entries and that of functions. *)

Nodes == Addr \X Addr \X Nat

\* By address; what was read later comes first.
LineBefore(x, y)     == x[1] < y[1] \/ (x[1] = y[1] /\ x[3] > y[3])
FunctionBefore(x, y) == x[2] <= y[1]

LineOrder     == {p \in Nodes \X Nodes : LineBefore(p[1], p[2])}
FunctionOrder == {p \in Nodes \X Nodes : FunctionBefore(p[1], p[2])}

LineNode(x)     == x \in Nodes /\ x[1] \in Code /\ x[2] = x[1] /\ x[3] >= 1
FunctionNode(x) == x \in Nodes /\ x[1] \in Code /\ x[2] \in Code /\ x[1] <= x[2]

\* The parts of a node.
LEMMA NodeParts ==
  /\ Code \subseteq Addr /\ MaxAddress \in Nat /\ MaxAddress \notin Code
  /\ \A x \in Nodes : x # Null /\ x[1] \in Addr /\ x[2] \in Addr /\ x[3] \in Nat
                      /\ x[1] \in Nat /\ x[2] \in Nat /\ x = <<x[1], x[2], x[3]>>
  /\ \A a, b \in Addr, n \in Nat : <<a, b, n>> \in Nodes
<1>1. Code \subseteq Addr /\ MaxAddress \in Nat /\ MaxAddress \notin Code
  BY SourceLookupAssumption, MaxAddressAssumption DEF Addr
<1>2. ASSUME NEW x \in Nodes
      PROVE  x # Null /\ x[1] \in Addr /\ x[2] \in Addr /\ x[3] \in Nat
             /\ x[1] \in Nat /\ x[2] \in Nat /\ x = <<x[1], x[2], x[3]>>
  <2>1. PICK a \in Addr, b \in Addr, n \in Nat : x = <<a, b, n>>
    BY DEF Nodes
  <2>2. Len(x) = 3 /\ Len(<<>>) = 0
    BY <2>1
  <2>3. x # Null
    BY <2>2 DEF Null
  <2>4. a \in Nat /\ b \in Nat
    BY <1>1 DEF Addr
  <2>5. QED
    BY <2>1, <2>3, <2>4
<1>3. \A a, b \in Addr, n \in Nat : <<a, b, n>> \in Nodes
  BY DEF Nodes
<1>4. QED
  BY <1>1, <1>2, <1>3

\* The orders, and that they are transitive; that of the lines is total.
LEMMA Orders ==
  /\ \A x, y \in Nodes : /\ <<x, y>> \in LineOrder <=> LineBefore(x, y)
                         /\ <<x, y>> \in FunctionOrder <=> FunctionBefore(x, y)
  /\ \A N : (\A x \in N : LineNode(x)) =>
       /\ Transitive(LineOrder, N)
       /\ \A x, y \in N : x = y \/ <<x, y>> \in LineOrder \/ <<y, x>> \in LineOrder
       /\ \A x, y \in N : <<x, y>> \in LineOrder => x[2] <= y[1]
  /\ \A N : (\A x \in N : FunctionNode(x)) => Transitive(FunctionOrder, N)
<1>1. ASSUME NEW x \in Nodes, NEW y \in Nodes
      PROVE  /\ <<x, y>> \in LineOrder <=> LineBefore(x, y)
             /\ <<x, y>> \in FunctionOrder <=> FunctionBefore(x, y)
  BY DEF LineOrder, FunctionOrder
<1>2. ASSUME NEW N, \A x \in N : LineNode(x)
      PROVE  /\ Transitive(LineOrder, N)
             /\ \A x, y \in N : x = y \/ <<x, y>> \in LineOrder \/ <<y, x>> \in LineOrder
             /\ \A x, y \in N : <<x, y>> \in LineOrder => x[2] <= y[1]
  <2>1. \A x \in N : x \in Nodes /\ x[1] \in Nat /\ x[2] = x[1] /\ x[3] \in Nat
    BY <1>2, NodeParts DEF LineNode
  <2>2. Transitive(LineOrder, N)
    <3>1. SUFFICES ASSUME NEW x \in N, NEW y \in N, NEW z \in N,
                          LineBefore(x, y), LineBefore(y, z)
                   PROVE  LineBefore(x, z)
      BY <1>1, <2>1 DEF Transitive
    <3>2. QED
      BY <2>1, <3>1 DEF LineBefore
  <2>3. ASSUME NEW x \in N, NEW y \in N PROVE x = y \/ LineBefore(x, y) \/ LineBefore(y, x)
    <3>1. CASE x[1] = y[1] /\ x[3] = y[3]
      <4>1. x = <<x[1], x[2], x[3]>> /\ y = <<y[1], y[2], y[3]>>
        BY <2>1, NodeParts
      <4>2. x[2] = y[2]
        BY <2>1, <3>1
      <4>3. x = y
        BY <3>1, <4>1, <4>2
      <4>4. QED
        BY <4>3
    <3>2. CASE ~(x[1] = y[1] /\ x[3] = y[3])
      BY <2>1, <3>2 DEF LineBefore
    <3>3. QED
      BY <3>1, <3>2
  <2>4. ASSUME NEW x \in N, NEW y \in N, LineBefore(x, y) PROVE x[2] <= y[1]
    BY <2>1, <2>4 DEF LineBefore
  <2>5. QED
    BY <1>1, <2>1, <2>2, <2>3, <2>4
<1>3. ASSUME NEW N, \A x \in N : FunctionNode(x) PROVE Transitive(FunctionOrder, N)
  <2>1. \A x \in N : x \in Nodes /\ x[1] \in Nat /\ x[2] \in Nat /\ x[1] <= x[2]
    BY <1>3, NodeParts DEF FunctionNode
  <2>2. SUFFICES ASSUME NEW x \in N, NEW y \in N, NEW z \in N,
                        FunctionBefore(x, y), FunctionBefore(y, z)
                 PROVE  FunctionBefore(x, z)
    BY <1>1, <2>1 DEF Transitive
  <2>3. QED
    BY <2>1, <2>2 DEF FunctionBefore
<1>4. QED
  BY <1>1, <1>2, <1>3

\* The map of the lines takes a new entry that was read after those of its address.
LEMMA AddLine ==
  ASSUME NEW N, NEW map, Good(N, map, LineOrder), \A x \in N : LineNode(x),
         NEW a \in Code, NEW n \in Nat, n >= 1, \A x \in N : x[1] = a => x[3] < n
  PROVE  /\ Good(N \cup {<<a, a, n>>}, AddrRangeMap_Add(map, <<a, a, n>>), LineOrder)
         /\ \A x \in N \cup {<<a, a, n>>} : LineNode(x)
<1>1. PICK new : new = <<a, a, n>>
  OBVIOUS
<1>2. new[1] = a /\ new[2] = a /\ new[3] = n
  BY <1>1
<1>3. new \in Nodes /\ new # Null /\ a \in Addr /\ a \in Nat /\ LineNode(new)
  BY <1>1, <1>2, NodeParts DEF LineNode, Addr
<1>4. new \notin N
  BY <1>2
<1>5. PICK u, h : Ranges(N, map, u, LineOrder) /\ Heights(N, map, h)
  BY DEF Good
<1>6. ASSUME NEW z \in N
      PROVE  /\ SideOf(map, z, a, a) = IF a <= z[1] THEN "left" ELSE "right"
             /\ z[1] \in Nat /\ z[3] \in Nat /\ z \in Nodes
  <2>1. z \in Nodes /\ z[1] \in Nat /\ z[3] \in Nat /\ z[2] = z[1]
    BY NodeParts DEF LineNode
  <2>2. map.node[z].lowAddr = z[1] /\ map.node[z].highAddr = z[1]
    BY <1>5, <2>1 DEF Ranges, Low, High
  <2>3. QED
    BY <1>3, <2>1, <2>2 DEF SideOf
<1>7. Fits(N, map, new, LineOrder)
  <2>1. SUFFICES ASSUME NEW z \in N, NEW s \in Side, SideOf(map, z, a, a) = s
                 PROVE  Beside(LineOrder, new, z, s)
    BY <1>2 DEF Fits
  <2>2. CASE a <= z[1]
    <3>1. s = "left" /\ LineBefore(new, z)
      BY <1>2, <1>3, <1>6, <2>1, <2>2 DEF LineBefore
    <3>2. QED
      BY <1>3, <1>6, <3>1, Orders DEF Beside
  <2>3. CASE ~(a <= z[1])
    <3>1. s = "right" /\ LineBefore(z, new)
      BY <1>2, <1>3, <1>6, <2>1, <2>3 DEF LineBefore
    <3>2. QED
      BY <1>3, <1>6, <3>1, Orders DEF Beside
  <2>4. QED
    BY <2>2, <2>3
<1>8. ~Overlaps(map, a, a)
  <2>1. SUFFICES ASSUME map.root # Null PROVE SideOf(map, Place(map, a, a), a, a) # "overlap"
    BY DEF Overlaps
  <2>2. Tree(N, map, u) /\ N # {}
    BY <1>5, <2>1, FieldTypes DEF Ranges, Tree
  <2>3. PICK p : p = Place(map, a, a)
    OBVIOUS
  <2>4. p \in N
    BY <2>2, <2>3, PlaceFound
  <2>5. QED
    BY <1>6, <2>3, <2>4
<1>9. \A x \in N \cup {new} : LineNode(x)
  BY <1>3
<1>10. Transitive(LineOrder, N \cup {new})
  <2>1. PICK M : M = N \cup {new}
    OBVIOUS
  <2>2. QED
    BY <1>9, <2>1, Orders
<1>11. Good(N \cup {new}, AddrRangeMap_Add(map, new), LineOrder)
  BY <1>2, <1>3, <1>4, <1>7, <1>8, <1>10, AddGood
<1>12. QED
  BY <1>1, <1>9, <1>11

\* The map of the functions takes one that does not overlap.
LEMMA AddFunction ==
  ASSUME NEW N, NEW map, Good(N, map, FunctionOrder), \A x \in N : FunctionNode(x),
         NEW low \in Code, NEW high \in Code, low <= high, NEW n \in Nat,
         <<low, high, n>> \notin N, ~Overlaps(map, low, high)
  PROVE  /\ Good(N \cup {<<low, high, n>>}, AddrRangeMap_Add(map, <<low, high, n>>), FunctionOrder)
         /\ \A x \in N \cup {<<low, high, n>>} : FunctionNode(x)
<1>1. PICK new : new = <<low, high, n>>
  OBVIOUS
<1>2. new[1] = low /\ new[2] = high /\ new[3] = n
  BY <1>1
<1>3. new \in Nodes /\ new # Null /\ low \in Addr /\ high \in Addr /\ FunctionNode(new)
  BY <1>1, <1>2, NodeParts DEF FunctionNode
<1>4. PICK u, h : Ranges(N, map, u, FunctionOrder) /\ Heights(N, map, h)
  BY DEF Good
<1>5. ASSUME NEW z \in N, NEW s \in Side, SideOf(map, z, low, high) = s
      PROVE  Beside(FunctionOrder, new, z, s)
  <2>1. z \in Nodes
    BY DEF FunctionNode
  <2>2. map.node[z].lowAddr = z[1] /\ map.node[z].highAddr = z[2]
    BY <1>4, <2>1 DEF Ranges, Low, High
  <2>3. s = "left" => FunctionBefore(new, z)
    BY <1>2, <1>5, <2>2 DEF SideOf, FunctionBefore
  <2>4. s = "right" => FunctionBefore(z, new)
    <3>1. low \in Nat /\ z[2] \in Nat
      BY <1>2, <1>3, <2>1, NodeParts
    <3>2. QED
      BY <1>2, <1>5, <2>2, <3>1 DEF SideOf, FunctionBefore
  <2>5. QED
    BY <1>3, <2>1, <2>3, <2>4, Orders DEF Beside, Side
<1>6. Fits(N, map, new, FunctionOrder)
  BY <1>2, <1>5 DEF Fits
<1>7. \A x \in N \cup {new} : FunctionNode(x)
  BY <1>3
<1>8. Transitive(FunctionOrder, N \cup {new})
  <2>1. PICK M : M = N \cup {new}
    OBVIOUS
  <2>2. QED
    BY <1>7, <2>1, Orders
<1>9. Good(N \cup {new}, AddrRangeMap_Add(map, new), FunctionOrder)
  BY <1>1, <1>2, <1>3, <1>6, <1>8, AddGood
<1>10. QED
  BY <1>1, <1>7, <1>9

-----------------------------------------------------------------------------
(* The invariant of the two maps. *)

\* The map of the functions is good, and numbers functions of one range from 1 on.
FunctionsKept ==
  /\ Good(Node(functionMap), functionMap, FunctionOrder)
  /\ \A x \in Node(functionMap) :
       /\ FunctionNode(x)
       /\ x[3] <= Cardinality({y \in Node(functionMap) : y[1] = x[1] /\ y[2] = x[2]})

\* The entry between ReadLine and SaveEntry is the last one read of its address.
EntriesRead ==
  /\ read \in [Code -> Nat]
  /\ entry # NoEntry => /\ phase = "lines"
                        /\ entry.addr \in Code /\ entry.n = read[entry.addr] /\ entry.n >= 1

\* The saved entries were read before the one at hand.
EntriesSaved ==
  \A x \in Node(addrToSourceMap) :
    LineNode(x) /\ x[3] <= read[x[1]] /\ (x[1] = entry.addr => x[3] < entry.n)

\* The map of the lines is good while a report reads, and good but for the ends of its
\* ranges when the report looks up.
LinesKept ==
  /\ Balanced(Node(addrToSourceMap), addrToSourceMap)
  /\ phase \in {"unit", "lines", "functions"} =>
       Good(Node(addrToSourceMap), addrToSourceMap, LineOrder)
  /\ phase = "merging" /\ do_lookup =>
       \E map : /\ Good(Node(addrToSourceMap), map, LineOrder)
                /\ addrToSourceMap = AddrToSourceMap_PatchRanges(map)

\* If the entries of an address were read one after the other, only the last was saved.
RunsSaved ==
  /\ goes \in [Code -> Nat]
  /\ \A a \in Code :
       /\ goes[a] = 0 => read[a] = 0
       /\ goes[a] = 1 => \A x \in Node(addrToSourceMap) : x[1] = a => entry.addr # a /\ x[3] = read[a]

MapsKept == FunctionsKept /\ EntriesRead /\ EntriesSaved /\ LinesKept /\ RunsSaved

\* Maps without nodes are all right.
LEMMA EmptyMaps ==
  /\ Node(AddrRangeMap_Init) = {}
  /\ \A R : Good({}, AddrRangeMap_Init, R)
  /\ Balanced({}, AddrRangeMap_Init)
<1>1. Node(AddrRangeMap_Init) = {}
  BY DEF Node, AddrRangeMap_Init
<1>2. \A R : Good({}, AddrRangeMap_Init, R)
  BY EmptyTree
<1>3. Balanced({}, AddrRangeMap_Init)
  BY <1>2, GoodShape
<1>4. QED
  BY <1>1, <1>2, <1>3

\* The program starts with maps as the invariant asks.
LEMMA InitKept == Init => MapsKept
<1> SUFFICES ASSUME Init PROVE MapsKept
  OBVIOUS
<1>1. read \in [Code -> Nat] /\ goes \in [Code -> Nat] /\ \A a \in Code : read[a] = 0 /\ goes[a] = 0
  BY DEF Init, NoneRead
<1>2. entry = NoEntry /\ phase = "closed"
  BY DEF Init
<1>3. addrToSourceMap = AddrRangeMap_Init /\ functionMap = AddrRangeMap_Init
  BY DEF Init
<1>4. Node(addrToSourceMap) = {} /\ Node(functionMap) = {}
  BY <1>3, EmptyMaps
<1>5. FunctionsKept
  BY <1>3, <1>4, EmptyMaps DEF FunctionsKept
<1>6. LinesKept
  BY <1>2, <1>3, <1>4, EmptyMaps DEF LinesKept
<1>7. EntriesRead /\ EntriesSaved /\ RunsSaved
  BY <1>1, <1>2, <1>4 DEF EntriesRead, EntriesSaved, RunsSaved
<1>8. QED
  BY <1>5, <1>6, <1>7 DEF MapsKept

\* What SaveEntry leaves: a good map, in which only the entry at hand may be new.
LEMMA EntrySaved ==
  ASSUME MapsKept, phase = "lines", NEW next, SaveEntry(next)
  PROVE  /\ Good(Node(addrToSourceMap'), addrToSourceMap', LineOrder)
         /\ \A x \in Node(addrToSourceMap') :
              /\ LineNode(x)
              /\ \/ x \in Node(addrToSourceMap)
                 \/ entry # NoEntry /\ entry.addr # next /\ x[1] = entry.addr /\ x[3] = entry.n
<1>1. PICK N : N = Node(addrToSourceMap)
  OBVIOUS
<1>2. Good(N, addrToSourceMap, LineOrder) /\ \A x \in N : LineNode(x) /\ (x[1] = entry.addr => x[3] < entry.n)
  BY <1>1 DEF MapsKept, LinesKept, EntriesSaved
<1>3. CASE ~Saves(entry, next)
  <2>1. addrToSourceMap' = addrToSourceMap
    BY <1>3 DEF SaveEntry
  <2>2. QED
    BY <1>1, <1>2, <2>1
<1>4. CASE Saves(entry, next)
  <2>1. PICK a, n : a = entry.addr /\ n = entry.n
    OBVIOUS
  <2>2. entry # NoEntry /\ a # next
    BY <1>4, <2>1 DEF Saves, NoEntry
  <2>3. a \in Code /\ n \in Nat /\ n >= 1
    BY <2>1, <2>2 DEF MapsKept, EntriesRead
  <2>4. addrToSourceMap' = AddrRangeMap_Add(addrToSourceMap, <<a, a, n>>)
    BY <1>4, <2>1 DEF SaveEntry
  <2>5. /\ Good(N \cup {<<a, a, n>>}, addrToSourceMap', LineOrder)
        /\ \A x \in N \cup {<<a, a, n>>} : LineNode(x)
    BY <1>2, <2>1, <2>3, <2>4, AddLine
  <2>6. Node(addrToSourceMap') = N \cup {<<a, a, n>>}
    BY <2>5, GoodShape
  <2>7. QED
    BY <1>1, <2>1, <2>2, <2>5, <2>6
<1>5. QED
  BY <1>3, <1>4

\* A line entry is read.
LEMMA ReadKept ==
  ASSUME MapsKept, NEW a \in Code, NEW ok \in BOOLEAN, ReadLine(a, ok)
  PROVE  MapsKept'
<1>1. /\ phase = "lines" /\ phase' = "lines"
      /\ read' = [read EXCEPT ![a] = read[a] + 1]
      /\ goes' = IF entry.addr = a THEN goes ELSE [goes EXCEPT ![a] = goes[a] + 1]
      /\ entry' = [addr |-> a, n |-> read'[a], ok |-> ok] /\ SaveEntry(a)
      /\ functionMap' = functionMap /\ do_lookup' = do_lookup
  <2>1. phase = "lines" /\ phase' = phase /\ functionMap' = functionMap /\ do_lookup' = do_lookup
        /\ SaveEntry(a)
    BY ZenonT(30) DEF ReadLine
  <2>2. /\ read' = [read EXCEPT ![a] = read[a] + 1]
        /\ goes' = IF entry.addr = a THEN goes ELSE [goes EXCEPT ![a] = goes[a] + 1]
        /\ entry' = [addr |-> a, n |-> read'[a], ok |-> ok]
    BY ZenonT(30) DEF ReadLine
  <2>3. QED
    BY <2>1, <2>2
<1>2. PICK N, M : N = Node(addrToSourceMap) /\ M = Node(addrToSourceMap')
  OBVIOUS
<1>3. /\ Good(M, addrToSourceMap', LineOrder)
      /\ \A x \in M : /\ LineNode(x)
                      /\ x \in N \/ (entry # NoEntry /\ entry.addr # a /\ x[1] = entry.addr /\ x[3] = entry.n)
  BY <1>1, <1>2, EntrySaved
<1>4. read \in [Code -> Nat] /\ goes \in [Code -> Nat]
      /\ (entry # NoEntry => entry.addr \in Code /\ entry.n = read[entry.addr] /\ entry.n >= 1)
  BY DEF MapsKept, EntriesRead, RunsSaved
<1>5. /\ read' \in [Code -> Nat] /\ goes' \in [Code -> Nat]
      /\ read'[a] = read[a] + 1 /\ \A b \in Code : b # a => read'[b] = read[b] /\ goes'[b] = goes[b]
      /\ goes'[a] = IF entry.addr = a THEN goes[a] ELSE goes[a] + 1
  BY <1>1, <1>4
<1>6. entry'.addr = a /\ entry'.n = read[a] + 1
  BY <1>1, <1>5
<1>7. FunctionsKept'
  BY <1>1 DEF MapsKept, FunctionsKept, Node
<1>8. EntriesRead'
  BY <1>1, <1>4, <1>5, <1>6 DEF EntriesRead
<1>9. \A x \in M : x[1] \in Code /\ x[3] \in Nat /\ x[3] >= 1 /\ x[3] <= read[x[1]]
  BY <1>2, <1>3, <1>4, NodeParts DEF MapsKept, EntriesSaved, LineNode
<1>10. EntriesSaved'
  <2>1. \A x \in M : x[3] <= read'[x[1]] /\ (x[1] = a => x[3] < read[a] + 1)
    BY <1>4, <1>5, <1>9
  <2>2. QED
    BY <1>2, <1>3, <1>6, <2>1 DEF EntriesSaved
<1>11. LinesKept'
  BY <1>1, <1>2, <1>3, GoodShape DEF LinesKept
<1>12. ASSUME NEW b \in Code, goes'[b] = 0 PROVE read'[b] = 0
  <2>1. b # a
    <3>1. entry.addr = a => entry # NoEntry
      BY NodeParts DEF NoEntry
    <3>2. entry.addr = a => read[a] # 0
      BY <1>4, <3>1
    <3>3. entry.addr = a => goes[a] # 0
      BY <3>2 DEF MapsKept, RunsSaved
    <3>4. QED
      BY <1>4, <1>5, <1>12, <3>3
  <2>2. QED
    BY <1>5, <1>12, <2>1 DEF MapsKept, RunsSaved
<1>13. ASSUME NEW b \in Code, goes'[b] = 1, NEW x \in M, x[1] = b
       PROVE  a # b /\ x[3] = read'[b]
  <2>1. CASE b = a
    <3>1. x \in N
      BY <1>3, <1>13, <2>1
    <3>2. CASE entry.addr = a
      <4>1. goes[a] = 1
        BY <1>5, <1>13, <2>1, <3>2
      <4>2. entry.addr # a
        BY <1>2, <1>13, <2>1, <3>1, <4>1 DEF MapsKept, RunsSaved
      <4>3. QED
        BY <3>2, <4>2
    <3>3. CASE entry.addr # a
      <4>1. goes[a] = 0
        BY <1>4, <1>5, <1>13, <2>1, <3>3
      <4>2. read[a] = 0
        BY <4>1 DEF MapsKept, RunsSaved
      <4>3. QED
        BY <1>9, <1>13, <2>1, <4>2
    <3>4. QED
      BY <3>2, <3>3
  <2>2. CASE b # a
    <3>1. goes[b] = 1 /\ read'[b] = read[b]
      BY <1>5, <1>13, <2>2
    <3>2. CASE x \in N
      BY <1>2, <1>13, <2>2, <3>1, <3>2 DEF MapsKept, RunsSaved
    <3>3. CASE x \notin N
      BY <1>3, <1>4, <1>13, <2>2, <3>1, <3>3
    <3>4. QED
      BY <3>2, <3>3
  <2>3. QED
    BY <2>1, <2>2
<1>14. RunsSaved'
  BY <1>2, <1>5, <1>6, <1>12, <1>13 DEF RunsSaved
<1>15. QED
  BY <1>7, <1>8, <1>10, <1>11, <1>14 DEF MapsKept

\* The last entry of a unit is saved.
LEMMA EndKept ==
  ASSUME MapsKept, EndLines
  PROVE  MapsKept'
<1>1. /\ phase = "lines" /\ phase' \in {"functions", "aborted"}
      /\ read' = read /\ goes' = goes /\ entry' = NoEntry /\ SaveEntry(MaxAddress)
      /\ functionMap' = functionMap /\ do_lookup' = do_lookup
  BY DEF EndLines
<1>2. PICK N, M : N = Node(addrToSourceMap) /\ M = Node(addrToSourceMap')
  OBVIOUS
<1>3. /\ Good(M, addrToSourceMap', LineOrder)
      /\ \A x \in M : /\ LineNode(x)
                      /\ x \in N \/ (entry # NoEntry /\ x[1] = entry.addr /\ x[3] = entry.n)
  BY <1>1, <1>2, EntrySaved
<1>4. read \in [Code -> Nat] /\ goes \in [Code -> Nat]
      /\ (entry # NoEntry => entry.addr \in Code /\ entry.n = read[entry.addr] /\ entry.n >= 1)
  BY DEF MapsKept, EntriesRead, RunsSaved
<1>5. FunctionsKept'
  BY <1>1 DEF MapsKept, FunctionsKept, Node
<1>6. EntriesRead'
  BY <1>1, <1>4 DEF EntriesRead
<1>7. \A x \in M : x[1] \in Code /\ x[3] \in Nat /\ x[3] <= read[x[1]]
  BY <1>2, <1>3, <1>4, NodeParts DEF MapsKept, EntriesSaved, LineNode
<1>8. NoEntry.addr \notin Code
  BY NodeParts DEF NoEntry
<1>9. EntriesSaved'
  BY <1>1, <1>2, <1>3, <1>7, <1>8 DEF EntriesSaved
<1>10. LinesKept'
  BY <1>1, <1>2, <1>3, GoodShape DEF LinesKept
<1>11. ASSUME NEW b \in Code, goes[b] = 1, NEW x \in M, x[1] = b PROVE x[3] = read[b]
  <2>1. CASE x \in N
    BY <1>2, <1>11, <2>1 DEF MapsKept, RunsSaved
  <2>2. CASE x \notin N
    BY <1>3, <1>4, <1>11, <2>2
  <2>3. QED
    BY <2>1, <2>2
<1>12. RunsSaved'
  <2>1. \A b \in Code : goes[b] = 0 => read[b] = 0
    BY DEF MapsKept, RunsSaved
  <2>2. QED
    BY <1>1, <1>2, <1>4, <1>8, <1>11, <2>1 DEF RunsSaved
<1>13. QED
  BY <1>5, <1>6, <1>9, <1>10, <1>12 DEF MapsKept

\* A function is added unless its range overlaps.
LEMMA FunctionKept ==
  ASSUME MapsKept, NEW low \in Code, NEW high \in Code, HandleFunctionDIE(low, high)
  PROVE  MapsKept'
<1>1. /\ phase = "functions" /\ phase' \in {"functions", "aborted"} /\ low <= high
      /\ read' = read /\ goes' = goes /\ entry' = entry
      /\ addrToSourceMap' = addrToSourceMap /\ do_lookup' = do_lookup
  BY DEF HandleFunctionDIE
<1>2. PICK N, M : N = Node(functionMap) /\ M = Node(functionMap')
  OBVIOUS
<1>3. PICK same, n : same = {x \in N : x[1] = low /\ x[2] = high} /\ n = Cardinality(same) + 1
  OBVIOUS
<1>4. functionMap' = functionMap
      \/ (~Overlaps(functionMap, low, high) /\ functionMap' = AddrRangeMap_Add(functionMap, <<low, high, n>>))
  BY <1>2, <1>3 DEF HandleFunctionDIE
<1>5. EntriesRead' /\ EntriesSaved' /\ RunsSaved'
  BY <1>1 DEF MapsKept, EntriesRead, EntriesSaved, RunsSaved, Node
<1>6. LinesKept'
  BY <1>1 DEF MapsKept, LinesKept, Node
<1>7. CASE functionMap' = functionMap
  <2>1. FunctionsKept'
    BY <1>7 DEF MapsKept, FunctionsKept, Node
  <2>2. QED
    BY <1>5, <1>6, <2>1 DEF MapsKept
<1>8. CASE ~Overlaps(functionMap, low, high) /\ functionMap' = AddrRangeMap_Add(functionMap, <<low, high, n>>)
  <2>1. PICK new : new = <<low, high, n>>
    OBVIOUS
  <2>2. new[1] = low /\ new[2] = high /\ new[3] = n
    BY <2>1
  <2>3. Good(N, functionMap, FunctionOrder) /\ \A x \in N : FunctionNode(x) /\ x[3] \in Nat
    BY <1>2, NodeParts DEF MapsKept, FunctionsKept, FunctionNode
  <2>4. \A x \in N : x[3] <= Cardinality({y \in N : y[1] = x[1] /\ y[2] = x[2]})
    BY <1>2 DEF MapsKept, FunctionsKept
  <2>5. IsFiniteSet(N)
    BY <2>3 DEF Good, Ranges, Tree
  <2>6. IsFiniteSet(same) /\ Cardinality(same) \in Nat /\ n \in Nat
    <3>1. same \subseteq N
      BY <1>3
    <3>2. IsFiniteSet(same) /\ Cardinality(same) \in Nat
      BY <2>5, <3>1, FS_Subset, FS_CardinalityType
    <3>3. QED
      BY <1>3, <3>2
  <2>7. new \notin N
    <3>1. SUFFICES ASSUME new \in N PROVE FALSE
      OBVIOUS
    <3>2. {y \in N : y[1] = new[1] /\ y[2] = new[2]} = same
      BY <1>3, <2>2
    <3>3. n <= Cardinality(same)
      BY <2>2, <2>4, <3>1, <3>2
    <3>4. QED
      BY <1>3, <2>6, <3>3
  <2>8. /\ Good(N \cup {new}, functionMap', FunctionOrder)
        /\ \A x \in N \cup {new} : FunctionNode(x)
    BY <1>1, <1>8, <2>1, <2>3, <2>6, <2>7, AddFunction
  <2>9. M = N \cup {new}
    BY <1>2, <2>8, GoodShape
  <2>10. ASSUME NEW x \in M PROVE x[3] <= Cardinality({y \in M : y[1] = x[1] /\ y[2] = x[2]})
    <3>1. PICK was, is : was = {y \in N : y[1] = x[1] /\ y[2] = x[2]} /\ is = {y \in M : y[1] = x[1] /\ y[2] = x[2]}
      OBVIOUS
    <3>2. CASE x[1] = low /\ x[2] = high
      <4>1. was = same /\ is = same \cup {new} /\ new \notin same
        BY <1>3, <2>2, <2>7, <2>9, <3>1, <3>2
      <4>2. Cardinality(is) = n
        BY <1>3, <2>6, <4>1, FS_AddElement
      <4>3. CASE x = new
        BY <2>2, <2>6, <3>1, <4>2, <4>3
      <4>4. CASE x # new
        <5>1. x \in N /\ x[3] <= Cardinality(same) /\ x[3] \in Nat
          BY <2>3, <2>4, <2>9, <3>1, <4>1, <4>4
        <5>2. QED
          BY <1>3, <2>6, <3>1, <4>2, <5>1
      <4>5. QED
        BY <4>3, <4>4
    <3>3. CASE ~(x[1] = low /\ x[2] = high)
      <4>1. is = was /\ x \in N
        BY <2>2, <2>9, <3>1, <3>3
      <4>2. QED
        BY <2>4, <3>1, <4>1
    <3>4. QED
      BY <3>2, <3>3
  <2>11. FunctionsKept'
    BY <1>2, <2>8, <2>9, <2>10 DEF FunctionsKept
  <2>12. QED
    BY <1>5, <1>6, <2>11 DEF MapsKept
<1>9. QED
  BY <1>4, <1>7, <1>8

\* The last unit was read: the ranges of the lines are extended.
LEMMA UnitKept ==
  ASSUME MapsKept, NextUnit
  PROVE  MapsKept'
<1>1. /\ phase = "unit" /\ read' = read /\ goes' = goes /\ entry' = entry
      /\ functionMap' = functionMap /\ do_lookup' = do_lookup
  BY DEF NextUnit
<1>2. entry = NoEntry
  BY <1>1 DEF MapsKept, EntriesRead
<1>3. FunctionsKept'
  BY <1>1 DEF MapsKept, FunctionsKept, Node
<1>4. EntriesRead'
  BY <1>1, <1>2 DEF MapsKept, EntriesRead
<1>5. CASE phase' = "lines" /\ addrToSourceMap' = addrToSourceMap
  <2>1. EntriesSaved' /\ RunsSaved'
    BY <1>1, <1>5 DEF MapsKept, EntriesSaved, RunsSaved, Node
  <2>2. LinesKept'
    BY <1>1, <1>5 DEF MapsKept, LinesKept, Node
  <2>3. QED
    BY <1>3, <1>4, <2>1, <2>2 DEF MapsKept
<1>6. CASE phase' = "merging" /\ addrToSourceMap' = AddrToSourceMap_PatchRanges(addrToSourceMap)
  <2>1. PICK N, map, new : N = Node(addrToSourceMap) /\ map = addrToSourceMap /\ new = addrToSourceMap'
    OBVIOUS
  <2>2. Good(N, map, LineOrder) /\ \A x \in N : LineNode(x)
    BY <1>1, <2>1 DEF MapsKept, LinesKept, EntriesSaved
  <2>3. Balanced(N, new) /\ Node(new) = N
    <3>1. PICK u, h : Ranges(N, map, u, LineOrder) /\ Heights(N, map, h) /\ \A x \in N : Pale(map, x)
      BY <2>2 DEF Good
    <3>2. Transitive(LineOrder, N)
      BY <2>2, Orders
    <3>3. Tree(N, new, u) /\ Balanced(N, new)
      BY <1>6, <2>1, <3>1, <3>2, PatchTree DEF Ranges
    <3>4. QED
      BY <3>3, FieldTypes DEF Tree
  <2>4. LinesKept'
    BY <1>6, <2>1, <2>2, <2>3 DEF LinesKept
  <2>5. EntriesSaved' /\ RunsSaved'
    BY <1>1, <2>1, <2>3 DEF MapsKept, EntriesSaved, RunsSaved
  <2>6. QED
    BY <1>3, <1>4, <2>4, <2>5 DEF MapsKept
<1>7. QED
  BY <1>5, <1>6 DEF NextUnit

\* The executable is opened or closed: the maps are without nodes.
LEMMA EmptiedKept ==
  ASSUME MapsKept, phase # "lines", phase' # "lines", entry' = entry,
         addrToSourceMap' = AddrRangeMap_Init, functionMap' = AddrRangeMap_Init,
         phase' # "merging",
         (read' = read /\ goes' = goes) \/ (read' = NoneRead /\ goes' = NoneRead)
  PROVE  MapsKept'
<1>1. entry = NoEntry
  BY DEF MapsKept, EntriesRead
<1>2. read' \in [Code -> Nat] /\ goes' \in [Code -> Nat] /\ \A a \in Code : goes'[a] = 0 => read'[a] = 0
  BY DEF NoneRead, MapsKept, EntriesRead, RunsSaved
<1>3. Node(addrToSourceMap') = {} /\ Node(functionMap') = {}
  BY EmptyMaps
<1>4. FunctionsKept'
  BY <1>3, EmptyMaps DEF FunctionsKept
<1>5. LinesKept'
  BY <1>3, EmptyMaps DEF LinesKept
<1>6. EntriesRead' /\ EntriesSaved' /\ RunsSaved'
  BY <1>1, <1>2, <1>3 DEF EntriesRead, EntriesSaved, RunsSaved
<1>7. QED
  BY <1>4, <1>5, <1>6 DEF MapsKept

\* Another step leaves the maps as they are, and does not begin to look up.
LEMMA UnchangedKept ==
  ASSUME MapsKept, phase # "lines" \/ phase' = phase,
         entry' = entry, read' = read, goes' = goes,
         addrToSourceMap' = addrToSourceMap, functionMap' = functionMap,
         phase' \in {"unit", "lines", "functions"} => phase \in {"unit", "lines", "functions"},
         phase' = "merging" /\ do_lookup' => phase = "merging" /\ do_lookup
  PROVE  MapsKept'
<1>1. FunctionsKept' /\ EntriesSaved' /\ RunsSaved'
  BY DEF MapsKept, FunctionsKept, EntriesSaved, RunsSaved, Node
<1>2. EntriesRead'
  BY DEF MapsKept, EntriesRead
<1>3. LinesKept'
  BY DEF MapsKept, LinesKept, Node
<1>4. QED
  BY <1>1, <1>2, <1>3 DEF MapsKept

\* Every step keeps the maps.
LEMMA StepKept == MapsKept /\ [Next]_vars => MapsKept'
<1> SUFFICES ASSUME MapsKept, [Next]_vars PROVE MapsKept'
  OBVIOUS
<1>1. CASE OpenFails
  BY <1>1, UnchangedKept DEF OpenFails, maps
<1>2. CASE OpenSucceeds
  BY <1>2, EmptiedKept DEF OpenSucceeds
<1>3. CASE OpenAsserts
  BY <1>3, UnchangedKept DEF OpenAsserts, maps
<1>4. CASE NextUnit
  BY <1>4, UnitKept
<1>5. ASSUME NEW a \in Code, NEW ok \in BOOLEAN, ReadLine(a, ok) PROVE MapsKept'
  BY <1>5, ReadKept
<1>6. CASE EndLines
  BY <1>6, EndKept
<1>7. ASSUME NEW low \in Code, NEW high \in Code, HandleFunctionDIE(low, high) PROVE MapsKept'
  BY <1>7, FunctionKept
<1>8. CASE EndFunctions
  BY <1>8, UnchangedKept DEF EndFunctions, maps
<1>9. CASE Close
  <2>1. CASE do_lookup
    BY <1>9, <2>1, EmptiedKept DEF Close
  <2>2. CASE ~do_lookup
    BY <1>9, <2>2, UnchangedKept DEF Close, maps
  <2>3. QED
    BY <2>1, <2>2
<1>10. CASE UNCHANGED vars
  BY <1>10, UnchangedKept DEF vars, maps
<1>11. QED
  BY <1>1, <1>2, <1>3, <1>4, <1>5, <1>6, <1>7, <1>8, <1>9, <1>10 DEF Next

\* In every report, whatever entries and functions it reads and in whatever order they
\* come, AddrRangeMap_Add leaves both maps balanced search trees of disjoint ranges.
THEOREM MapsStayBalanced == Spec => []MapsBalanced
<1>1. Spec => []MapsKept
  BY InitKept, StepKept, PTL DEF Spec
<1>2. ASSUME MapsKept PROVE MapsBalanced
  <2>1. Balanced(Node(addrToSourceMap), addrToSourceMap)
    BY <1>2 DEF MapsKept, LinesKept
  <2>2. phase \in {"unit", "lines", "functions"} => IsOrdered(addrToSourceMap)
    <3>1. SUFFICES ASSUME phase \in {"unit", "lines", "functions"} PROVE IsOrdered(addrToSourceMap)
      OBVIOUS
    <3>2. PICK N : N = Node(addrToSourceMap)
      OBVIOUS
    <3>3. Good(N, addrToSourceMap, LineOrder) /\ \A x \in N : LineNode(x)
      BY <1>2, <3>1, <3>2 DEF MapsKept, LinesKept, EntriesSaved
    <3>4. \A x, y \in N : <<x, y>> \in LineOrder => x[2] <= y[1]
      BY <3>3, Orders
    <3>5. QED
      BY <3>3, <3>4, GoodShape
  <2>3. Balanced(Node(functionMap), functionMap) /\ IsOrdered(functionMap)
    <3>1. PICK N : N = Node(functionMap)
      OBVIOUS
    <3>2. Good(N, functionMap, FunctionOrder) /\ \A x \in N : FunctionNode(x)
      BY <1>2, <3>1 DEF MapsKept, FunctionsKept
    <3>3. \A x, y \in N : <<x, y>> \in FunctionOrder => x[2] <= y[1]
      BY <3>2, Orders DEF FunctionNode, FunctionBefore
    <3>4. QED
      BY <3>1, <3>2, <3>3, GoodShape
  <2>4. QED
    BY <2>1, <2>2, <2>3, BalancedShape DEF MapsBalanced
<1>3. QED
  BY <1>1, <1>2, PTL

-----------------------------------------------------------------------------
(* The look-ups. *)

\* AddrRangeMap_Find goes left or right until the address lies in the range of a node.
Finds(f, map, x, addr) ==
  f[x] = IF addr < Low(map, x) THEN f[Child(map, x, "left")]
         ELSE IF addr > High(map, x) THEN f[Child(map, x, "right")] ELSE x

\* What AddrRangeMap_Find returns is found on a way down from the root.
LEMMA FindIs ==
  ASSUME NEW N, NEW map, NEW u, Tree(N, map, u), NEW addr
  PROVE  \E f : /\ AddrRangeMap_Find(map, addr) = f[map.root] /\ f[Null] = Null
                /\ \A x \in N : Finds(f, map, x, addr)
<1> DEFINE Way(f) == f = [x \in N \cup {Null} |->
                            IF x = Null THEN Null
                            ELSE IF addr < map.node[x].lowAddr THEN f[Child(map, x, "left")]
                            ELSE IF addr > map.node[x].highAddr THEN f[Child(map, x, "right")] ELSE x]
<1>1. map \in Maps(N) /\ Node(map) = N /\ Null \notin N /\ map.root \in N \cup {Null}
  BY FieldTypes DEF Tree
<1>2. PICK M, K : M = N \cup {Null} /\ K = Cardinality(N) /\ K \in Nat
  BY FS_CardinalityType DEF Tree
<1>3. PICK stop : stop = {x \in M : x = Null \/ (~(addr < Low(map, x)) /\ ~(addr > High(map, x)))}
  OBVIOUS
<1>4. PICK next : next = [x \in M |-> IF addr < Low(map, x) THEN Child(map, x, "left")
                                      ELSE Child(map, x, "right")]
  OBVIOUS
<1>5. PICK last, rank : /\ last = [x \in M |-> x]
                        /\ rank = [x \in M |-> IF x = Null THEN 0 ELSE Cardinality(u[x])]
  OBVIOUS
<1>6. \A x \in N : Cardinality(u[x]) \in Nat /\ Cardinality(u[x]) <= K /\ Cardinality(u[x]) >= 1
  BY <1>2, Family
<1>7. \A x \in M : rank[x] \in 0 .. K
  BY <1>2, <1>5, <1>6
<1>8. ASSUME NEW x \in M, x \notin stop PROVE next[x] \in M /\ rank[next[x]] < rank[x]
  <2>1. x \in N /\ x # Null
    BY <1>2, <1>3, <1>8
  <2>2. PICK s \in Side : next[x] = Child(map, x, s)
    BY <1>2, <1>4, <2>1, Sides
  <2>3. PICK c : c = Child(map, x, s)
    OBVIOUS
  <2>4. c \in M
    BY <1>1, <1>2, <2>1, <2>3, FieldTypes
  <2>5. c # Null => c \in N /\ Cardinality(u[c]) < Cardinality(u[x])
    BY <2>1, <2>3, Family
  <2>6. rank[x] = Cardinality(u[x]) /\ rank[c] = IF c = Null THEN 0 ELSE Cardinality(u[c])
    BY <1>2, <1>5, <2>1, <2>4
  <2>7. QED
    BY <1>6, <2>1, <2>2, <2>3, <2>4, <2>5, <2>6
<1>9. PICK g : Goes(g, M, stop, next, last)
  BY <1>2, <1>7, <1>8, LoopExists
<1>10. ASSUME NEW x \in M
       PROVE  (IF x \in stop THEN last[x] ELSE g[next[x]]) =
                IF x = Null THEN Null
                ELSE IF addr < map.node[x].lowAddr THEN g[Child(map, x, "left")]
                ELSE IF addr > map.node[x].highAddr THEN g[Child(map, x, "right")] ELSE x
  <2>1. x \in stop <=> x = Null \/ (~(addr < Low(map, x)) /\ ~(addr > High(map, x)))
    BY <1>3, <1>10
  <2>2. last[x] = x /\ next[x] = IF addr < Low(map, x) THEN Child(map, x, "left") ELSE Child(map, x, "right")
    BY <1>4, <1>5, <1>10
  <2>3. QED
    BY <2>1, <2>2 DEF Low, High
<1>11. Way(g)
  BY <1>2, <1>9, <1>10 DEF Goes
<1>12. PICK f : f = CHOOSE k : Way(k)
  OBVIOUS
<1>13. Way(f)
  BY <1>11, <1>12
<1>14. AddrRangeMap_Find(map, addr) = f[map.root]
  BY <1>1, <1>12 DEF AddrRangeMap_Find
<1>15. f[Null] = Null /\ \A x \in N : Finds(f, map, x, addr)
  <2>1. PICK e : e = f
    OBVIOUS
  <2>2. e = [x \in N \cup {Null} |->
               IF x = Null THEN Null
               ELSE IF addr < map.node[x].lowAddr THEN f[Child(map, x, "left")]
               ELSE IF addr > map.node[x].highAddr THEN f[Child(map, x, "right")] ELSE x]
    BY <1>13, <2>1
  <2> HIDE <2>1, <1>12, <1>13 
  <2>3. e[Null] = Null
    BY <2>2
  <2>4. \A x \in N : e[x] = IF addr < map.node[x].lowAddr THEN f[Child(map, x, "left")]
                            ELSE IF addr > map.node[x].highAddr THEN f[Child(map, x, "right")] ELSE x
    BY <1>1, <2>2
  <2>5. QED
    BY <2>1, <2>3, <2>4 DEF Finds, Low, High
<1>16. QED
  BY <1>14, <1>15

\* A node whose subtree has t has t itself, or t lies on one side of it.
LEMMA Lies ==
  ASSUME NEW N, NEW map, NEW u, NEW R, Tree(N, map, u), Sorted(N, map, u, R),
         NEW x \in N, NEW t \in u[x], t # x
  PROVE  /\ t \in N
         /\ \/ /\ Child(map, x, "left") # Null /\ Child(map, x, "left") \in N
               /\ t \in u[Child(map, x, "left")] /\ <<t, x>> \in R
            \/ /\ Child(map, x, "right") # Null /\ Child(map, x, "right") \in N
               /\ t \in u[Child(map, x, "right")] /\ <<x, t>> \in R
<1>1. PICK a, b : a = Child(map, x, "left") /\ b = Child(map, x, "right")
  OBVIOUS
<1>2. t \in Under(u, a) \/ t \in Under(u, b)
  BY <1>1 DEF Tree, Spans
<1>3. t \in N
  BY Family
<1>4. CASE t \in Under(u, a)
  <2>1. a # Null /\ t \in u[a]
    BY <1>4 DEF Under
  <2>2. a \in N
    BY <1>1, <2>1, Sides, Family
  <2>3. Beside(R, t, x, "left")
    BY <1>1, <1>4, Sides DEF Sorted
  <2>4. QED
    BY <1>1, <1>3, <2>1, <2>2, <2>3 DEF Beside
<1>5. CASE t \in Under(u, b)
  <2>1. b # Null /\ t \in u[b]
    BY <1>5 DEF Under
  <2>2. b \in N
    BY <1>1, <2>1, Sides, Family
  <2>3. Beside(R, t, x, "right")
    BY <1>1, <1>5, Sides DEF Sorted
  <2>4. QED
    BY <1>1, <1>3, <2>1, <2>2, <2>3, Sides DEF Beside
<1>6. QED
  BY <1>2, <1>4, <1>5

\* A function is found by its addresses.
LEMMA FunctionFound ==
  ASSUME NEW N, NEW map, Good(N, map, FunctionOrder), \A x \in N : FunctionNode(x),
         NEW addr \in Nat, NEW found, found = AddrRangeMap_Find(map, addr)
  PROVE  /\ \A f \in N : /\ f[1] < addr /\ addr < f[2] => found = f
                         /\ f[1] <= addr /\ addr <= f[2] => found # Null
         /\ found # Null => found[1] <= addr /\ addr <= found[2]
<1>1. PICK u : Tree(N, map, u) /\ Sorted(N, map, u, FunctionOrder)
               /\ \A x \in N : Low(map, x) = x[1] /\ High(map, x) = x[2]
  BY DEF Good, Ranges
<1>2. map \in Maps(N) /\ Null \notin N /\ map.root \in N \cup {Null} /\ (N # {} => map.root \in N /\ u[map.root] = N)
  BY <1>1, FieldTypes DEF Tree
<1>3. PICK find : /\ found = find[map.root] /\ find[Null] = Null
                  /\ \A x \in N : Finds(find, map, x, addr)
  BY <1>1, FindIs
<1>4. \A x \in N : /\ x[1] \in Nat /\ x[2] \in Nat /\ x[1] <= x[2] /\ x \in Nodes
                   /\ \A y \in N : <<x, y>> \in FunctionOrder => x[2] <= y[1]
  BY NodeParts, Orders DEF FunctionNode, FunctionBefore
<1>5. \A x \in N : find[x] = IF addr < x[1] THEN find[Child(map, x, "left")]
                             ELSE IF addr > x[2] THEN find[Child(map, x, "right")] ELSE x
  BY <1>1, <1>3 DEF Finds
<1>6. ASSUME NEW f \in N, f[1] <= addr, addr <= f[2]
      PROVE  found # Null /\ (f[1] < addr /\ addr < f[2] => found = f)
  <2> DEFINE P == {x \in N : f \in u[x] => find[x] # Null /\ (f[1] < addr /\ addr < f[2] => find[x] = f)}
  <2>1. ASSUME NEW x \in N, \A s \in Side : Child(map, x, s) # Null => Child(map, x, s) \in P
        PROVE  x \in P
    <3>1. SUFFICES ASSUME f \in u[x]
                   PROVE  find[x] # Null /\ (f[1] < addr /\ addr < f[2] => find[x] = f)
      OBVIOUS
    <3>2. PICK a, b : a = Child(map, x, "left") /\ b = Child(map, x, "right")
      OBVIOUS
    <3>3. (a # Null => a \in P) /\ (b # Null => b \in P)
      BY <2>1, <3>2, Sides
    <3>4. \/ f = x
          \/ a # Null /\ f \in u[a] /\ f[2] <= x[1]
          \/ b # Null /\ f \in u[b] /\ x[2] <= f[1]
      <4>1. SUFFICES ASSUME f # x
                     PROVE  \/ a # Null /\ f \in u[a] /\ f[2] <= x[1]
                            \/ b # Null /\ f \in u[b] /\ x[2] <= f[1]
        OBVIOUS
      <4>2. \/ a # Null /\ f \in u[a] /\ <<f, x>> \in FunctionOrder
            \/ b # Null /\ f \in u[b] /\ <<x, f>> \in FunctionOrder
        BY <1>1, <3>1, <3>2, <4>1, Lies
      <4>3. /\ <<f, x>> \in FunctionOrder => f[2] <= x[1]
            /\ <<x, f>> \in FunctionOrder => x[2] <= f[1]
        BY <1>4
      <4>4. QED
        BY <4>2, <4>3
    <3>5. CASE addr < x[1]
      <4>1. a # Null /\ f \in u[a]
        BY <1>4, <1>6, <3>4, <3>5
      <4>2. find[x] = find[a]
        BY <1>5, <3>2, <3>5
      <4>3. QED
        BY <3>3, <4>1, <4>2
    <3>6. CASE ~(addr < x[1]) /\ addr > x[2]
      <4>1. b # Null /\ f \in u[b]
        BY <1>4, <1>6, <3>4, <3>6
      <4>2. find[x] = find[b]
        BY <1>5, <3>2, <3>6
      <4>3. QED
        BY <3>3, <4>1, <4>2
    <3>7. CASE ~(addr < x[1]) /\ ~(addr > x[2])
      <4>1. find[x] = x
        BY <1>5, <3>7
      <4>2. f[1] < addr /\ addr < f[2] => f = x
        BY <1>4, <3>4, <3>7
      <4>3. QED
        BY <1>2, <4>1, <4>2
    <3>8. QED
      BY <3>5, <3>6, <3>7
  <2> HIDE DEF P
  <2>2. N \subseteq P
    BY <1>1, <2>1, UpInduction
  <2>3. map.root \in P /\ f \in u[map.root]
    BY <1>2, <2>2
  <2>4. QED
    BY <1>3, <2>3 DEF P
<1>7. found # Null => found[1] <= addr /\ addr <= found[2]
  <2> DEFINE P == {x \in N : find[x] # Null => find[x][1] <= addr /\ addr <= find[x][2]}
  <2>1. ASSUME NEW x \in N, \A s \in Side : Child(map, x, s) # Null => Child(map, x, s) \in P
        PROVE  x \in P
    <3>1. ASSUME NEW s \in Side, find[x] = find[Child(map, x, s)] PROVE x \in P
      BY <1>3, <2>1, <3>1
    <3>2. CASE addr < x[1]
      BY <1>5, <3>1, <3>2, Sides
    <3>3. CASE ~(addr < x[1]) /\ addr > x[2]
      BY <1>5, <3>1, <3>3, Sides
    <3>4. CASE ~(addr < x[1]) /\ ~(addr > x[2])
      <4>1. find[x] = x
        BY <1>5, <3>4
      <4>2. QED
        BY <1>4, <3>4, <4>1
    <3>5. QED
      BY <3>2, <3>3, <3>4
  <2> HIDE DEF P
  <2>2. N \subseteq P
    BY <1>1, <2>1, UpInduction
  <2>3. CASE map.root = Null
    BY <1>3, <2>3
  <2>4. CASE map.root # Null
    BY <1>2, <1>3, <2>2, <2>4 DEF P
  <2>5. QED
    BY <2>3, <2>4
<1>8. \A f \in N : f[1] < addr /\ addr < f[2] => f[1] <= addr /\ addr <= f[2]
  BY <1>4
<1>9. QED
  BY <1>6, <1>7, <1>8

\* A set of line entries has one that comes last.
LEMMA LastIn ==
  ASSUME NEW S, IsFiniteSet(S), S # {}, \A x \in S : LineNode(x)
  PROVE  \E t \in S : \A w \in S : w = t \/ LineBefore(w, t)
<1> DEFINE P == {s \in SUBSET S : s # {} => \E t \in s : \A w \in s : w = t \/ LineBefore(w, t)}
<1>1. {} \in P
  OBVIOUS
<1>2. \A x, y \in S : x = y \/ LineBefore(x, y) \/ LineBefore(y, x)
  BY Orders DEF LineNode
<1>3. \A x, y, z \in S : LineBefore(x, y) /\ LineBefore(y, z) => LineBefore(x, z)
  <2>1. \A x \in S : x[1] \in Nat /\ x[3] \in Nat
    BY NodeParts DEF LineNode
  <2>2. QED
    BY <2>1 DEF LineBefore
<1>4. ASSUME NEW s \in SUBSET S, s # {}, \A x \in s : s \ {x} \in P PROVE s \in P
  <2>1. PICK x : x \in s
    BY <1>4
  <2>2. CASE s \ {x} = {}
    <3>1. \A w \in s : w = x
      BY <2>2
    <3>2. QED
      BY <2>1, <3>1
  <2>3. CASE s \ {x} # {}
    <3>1. PICK t \in s \ {x} : \A w \in s \ {x} : w = t \/ LineBefore(w, t)
      BY <1>4, <2>1, <2>3
    <3>2. CASE LineBefore(x, t)
      <4>1. \A w \in s : w = t \/ LineBefore(w, t)
        BY <3>1, <3>2
      <4>2. QED
        BY <3>1, <4>1
    <3>3. CASE LineBefore(t, x)
      <4>1. \A w \in s : w = x \/ LineBefore(w, x)
        BY <1>3, <2>1, <3>1, <3>3
      <4>2. QED
        BY <2>1, <4>1
    <3>4. QED
      BY <1>2, <2>1, <3>1, <3>2, <3>3
  <2>4. QED
    BY <2>2, <2>3
<1> HIDE DEF P
<1>5. SUBSET S \subseteq P
  BY <1>1, <1>4, SubsetInduction
<1>6. S \in P
  BY <1>5
<1>7. QED
  BY <1>6 DEF P

\* In the order of its node a range ends before the next one begins, or at the end of all
\* addresses if the next one begins at 0.
LEMMA RangeEnds ==
  ASSUME NEW N, NEW map, NEW u, NEW R, Tree(N, map, u), Sorted(N, map, u, R), Transitive(R, N),
         NEW x \in N, NEW high, high = High(AddrToSourceMap_PatchRanges(map), x)
  PROVE  \/ /\ high = MaxAddress - 1
            /\ \A w \in N : w = x \/ <<w, x>> \in R
         \/ \E q \in N : /\ high = IF Low(map, q) = 0 THEN MaxAddress ELSE Low(map, q) - 1
                         /\ <<x, q>> \in R
                         /\ \A w \in N : w = x \/ <<w, x>> \in R \/ w = q \/ <<q, w>> \in R
<1>1. PICK new : new = AddrToSourceMap_PatchRanges(map)
  OBVIOUS
<1>2. PICK v \in Addr : After(N, map, R, x, v) /\ high = (v - 1) % (MaxAddress + 1)
  BY <1>1, PatchEffect
<1>3. high = IF v = 0 THEN MaxAddress ELSE v - 1
  BY <1>2, MaxAddressAssumption DEF Addr
<1>4. PICK q \in N \cup {Null} :
        /\ q = Null => v = MaxAddress
        /\ q # Null => v = Low(map, q) /\ <<x, q>> \in R
        /\ \A w \in N : w = x \/ <<w, x>> \in R \/ (q # Null /\ (w = q \/ <<q, w>> \in R))
  BY <1>2 DEF After
<1>5. CASE q = Null
  <2>1. high = MaxAddress - 1
    BY <1>3, <1>4, <1>5, MaxAddressAssumption
  <2>2. QED
    BY <1>1, <1>4, <1>5, <2>1
<1>6. CASE q # Null
  <2>1. q \in N /\ high = (IF Low(map, q) = 0 THEN MaxAddress ELSE Low(map, q) - 1) /\ <<x, q>> \in R
        /\ \A w \in N : w = x \/ <<w, x>> \in R \/ w = q \/ <<q, w>> \in R
    BY <1>3, <1>4, <1>6
  <2>2. QED
    BY <1>1, <2>1
<1>7. QED
  BY <1>5, <1>6

\* The entry found is the last one at or below the address, or one of several of address 0.
LEMMA LineFound ==
  ASSUME NEW N, NEW map, Good(N, map, LineOrder), \A x \in N : LineNode(x),
         NEW new, new = AddrToSourceMap_PatchRanges(map), NEW addr \in 0 .. MaxAddress - 1,
         NEW found, found = AddrRangeMap_Find(new, addr),
         NEW below, below = {x \in N : x[1] <= addr}
  PROVE  /\ Node(new) = N
         /\ below = {} => found = Null
         /\ \A t \in below : (\A w \in below : w = t \/ LineBefore(w, t)) =>
              \/ found = t
              \/ found \in below /\ found[1] = 0 /\ \E x \in below \ {found} : x[1] = 0
<1>1. PICK u, h : /\ Tree(N, map, u) /\ Sorted(N, map, u, LineOrder) /\ Heights(N, map, h)
                  /\ \A x \in N : Pale(map, x) /\ Low(map, x) = x[1]
  BY DEF Good, Ranges
<1>2. Transitive(LineOrder, N)
  BY Orders
<1>3. Tree(N, new, u) /\ Sorted(N, new, u, LineOrder)
  BY <1>1, <1>2, PatchTree
<1>4. new \in Maps(N) /\ Node(new) = N /\ Null \notin N /\ new.root \in N \cup {Null}
      /\ (N # {} => new.root \in N /\ u[new.root] = N)
  BY <1>3, FieldTypes DEF Tree
<1>5. PICK find : /\ found = find[new.root] /\ find[Null] = Null
                  /\ \A x \in N : Finds(find, new, x, addr)
  BY <1>3, FindIs
<1>6. PICK high : high = [x \in N |-> High(new, x)]
  OBVIOUS
<1>7. \A x \in N : Low(new, x) = x[1]
  BY <1>1, <1>2, PatchEffect
<1>8. \A x \in N : find[x] = IF addr < x[1] THEN find[Child(new, x, "left")]
                             ELSE IF addr > high[x] THEN find[Child(new, x, "right")] ELSE x
  BY <1>5, <1>6, <1>7 DEF Finds
<1>9. \A x \in N : /\ x[1] \in Nat /\ x[3] \in Nat
                   /\ \A y \in N : <<x, y>> \in LineOrder <=> LineBefore(x, y)
  BY NodeParts, Orders DEF LineNode
<1>10. addr \in Nat /\ addr < MaxAddress /\ MaxAddress \in Nat
  BY MaxAddressAssumption
<1>11. ASSUME NEW x \in N
       PROVE  \/ /\ high[x] = MaxAddress - 1
                 /\ \A w \in N : w = x \/ LineBefore(w, x)
              \/ \E q \in N : /\ high[x] = IF q[1] = 0 THEN MaxAddress ELSE q[1] - 1
                              /\ LineBefore(x, q)
                              /\ \A w \in N : w = x \/ LineBefore(w, x) \/ w = q \/ LineBefore(q, w)
  <2>1. \/ /\ high[x] = MaxAddress - 1
           /\ \A w \in N : w = x \/ <<w, x>> \in LineOrder
        \/ \E q \in N : /\ high[x] = IF Low(map, q) = 0 THEN MaxAddress ELSE Low(map, q) - 1
                        /\ <<x, q>> \in LineOrder
                        /\ \A w \in N : w = x \/ <<w, x>> \in LineOrder \/ w = q \/ <<q, w>> \in LineOrder
    <3>1. PICK e : e = High(new, x)
      OBVIOUS
    <3>2. high[x] = e
      BY <1>6, <3>1
    <3>3. \/ /\ e = MaxAddress - 1
             /\ \A w \in N : w = x \/ <<w, x>> \in LineOrder
          \/ \E q \in N : /\ e = IF Low(map, q) = 0 THEN MaxAddress ELSE Low(map, q) - 1
                          /\ <<x, q>> \in LineOrder
                          /\ \A w \in N : w = x \/ <<w, x>> \in LineOrder \/ w = q \/ <<q, w>> \in LineOrder
      BY <1>1, <1>2, <3>1, RangeEnds
    <3>4. QED
      BY <3>2, <3>3
  <2>2. QED
    BY <1>1, <1>9, <2>1
<1>12. below = {} => found = Null
  <2>1. SUFFICES ASSUME below = {} PROVE found = Null
    OBVIOUS
  <2> DEFINE P == {x \in N : find[x] = Null}
  <2>2. ASSUME NEW x \in N, \A s \in Side : Child(new, x, s) # Null => Child(new, x, s) \in P
        PROVE  x \in P
    <3>1. find[x] = find[Child(new, x, "left")]
      BY <1>8, <1>9, <1>10, <2>1
    <3>2. QED
      BY <1>5, <2>2, <3>1, Sides
  <2> HIDE DEF P
  <2>3. N \subseteq P
    BY <1>3, <2>2, UpInduction
  <2>4. QED
    BY <1>4, <1>5, <2>3 DEF P
<1>13. ASSUME NEW t \in below, \A w \in below : w = t \/ LineBefore(w, t)
       PROVE  \/ found = t
              \/ found \in below /\ found[1] = 0 /\ \E x \in below \ {found} : x[1] = 0
  <2> DEFINE Right(y) == y = t \/ (y \in below /\ y[1] = 0 /\ \E x \in below \ {y} : x[1] = 0)
             P == {x \in N : t \in u[x] => Right(find[x])}
  <2>1. t \in N /\ t[1] <= addr
    OBVIOUS
  <2>2. ASSUME NEW x \in N, t \in u[x]
        PROVE  \/ t = x
               \/ /\ Child(new, x, "left") # Null /\ Child(new, x, "left") \in N
                  /\ t \in u[Child(new, x, "left")] /\ LineBefore(t, x)
               \/ /\ Child(new, x, "right") # Null /\ Child(new, x, "right") \in N
                  /\ t \in u[Child(new, x, "right")] /\ LineBefore(x, t)
    <3>1. SUFFICES ASSUME t # x
                   PROVE  \/ /\ Child(new, x, "left") # Null /\ Child(new, x, "left") \in N
                             /\ t \in u[Child(new, x, "left")] /\ LineBefore(t, x)
                          \/ /\ Child(new, x, "right") # Null /\ Child(new, x, "right") \in N
                             /\ t \in u[Child(new, x, "right")] /\ LineBefore(x, t)
      OBVIOUS
    <3>2. \/ /\ Child(new, x, "left") # Null /\ Child(new, x, "left") \in N
             /\ t \in u[Child(new, x, "left")] /\ <<t, x>> \in LineOrder
          \/ /\ Child(new, x, "right") # Null /\ Child(new, x, "right") \in N
             /\ t \in u[Child(new, x, "right")] /\ <<x, t>> \in LineOrder
      BY <1>3, <2>2, <3>1, Lies
    <3>3. (<<t, x>> \in LineOrder <=> LineBefore(t, x)) /\ (<<x, t>> \in LineOrder <=> LineBefore(x, t))
      BY <1>9, <2>1
    <3>4. QED
      BY <3>2, <3>3
  <2>3. \A x \in N : ~(LineBefore(t, x) /\ LineBefore(x, t))
    BY <1>9, <2>1 DEF LineBefore
  <2>4. high[t] >= addr
    <3>1. CASE high[t] = MaxAddress - 1
      BY <1>10, <3>1
    <3>2. ASSUME NEW q \in N, high[t] = IF q[1] = 0 THEN MaxAddress ELSE q[1] - 1, LineBefore(t, q)
          PROVE  high[t] >= addr
      <4>1. q \notin below
        <5>1. q # t
          BY <1>9, <2>1, <3>2 DEF LineBefore
        <5>2. QED
          BY <1>13, <2>3, <3>2, <5>1
      <4>2. ~(q[1] <= addr)
        BY <4>1
      <4>3. QED
        BY <1>9, <1>10, <3>2, <4>2
    <3>3. QED
      BY <1>11, <2>1, <3>1, <3>2
  <2>5. ASSUME NEW x \in N, x # t, LineBefore(x, t), addr <= high[x]
        PROVE  Right(x)
    <3>1. ~(\A w \in N : w = x \/ LineBefore(w, x))
      BY <2>1, <2>3, <2>5
    <3>2. PICK q \in N : /\ high[x] = IF q[1] = 0 THEN MaxAddress ELSE q[1] - 1
                         /\ LineBefore(x, q)
                         /\ \A w \in N : w = x \/ LineBefore(w, x) \/ w = q \/ LineBefore(q, w)
      BY <1>11, <3>1
    <3>3. t = q \/ LineBefore(q, t)
      BY <2>1, <2>3, <2>5, <3>2
    <3>4. q[1] <= t[1] /\ x[1] <= q[1]
      BY <1>9, <2>1, <3>2, <3>3 DEF LineBefore
    <3>5. q[1] = 0
      BY <1>9, <1>10, <2>1, <2>5, <3>2, <3>4
    <3>6. x[1] = 0 /\ x # q
      BY <1>9, <3>2, <3>4, <3>5 DEF LineBefore
    <3>7. q \in below /\ x \in below
      BY <1>9, <1>10, <3>5, <3>6
    <3>8. QED
      BY <3>5, <3>6, <3>7
  <2> HIDE DEF Right
  <2>6. Right(t)
    BY DEF Right
  <2>7. ASSUME NEW x \in N, \A s \in Side : Child(new, x, s) # Null => Child(new, x, s) \in P
        PROVE  x \in P
    <3>1. SUFFICES ASSUME t \in u[x] PROVE Right(find[x])
      OBVIOUS
    <3>2. PICK a, b : a = Child(new, x, "left") /\ b = Child(new, x, "right")
      OBVIOUS
    <3>3. (a # Null => a \in P) /\ (b # Null => b \in P)
      BY <2>7, <3>2, Sides
    <3>4. \/ t = x
          \/ a # Null /\ t \in u[a] /\ LineBefore(t, x)
          \/ b # Null /\ t \in u[b] /\ LineBefore(x, t)
      BY <2>2, <3>1, <3>2
    <3>5. CASE addr < x[1]
      <4>1. t # x /\ ~LineBefore(x, t)
        BY <1>9, <1>10, <2>1, <3>5 DEF LineBefore
      <4>2. a # Null /\ t \in u[a]
        BY <3>4, <4>1
      <4>3. find[x] = find[a]
        BY <1>8, <3>2, <3>5
      <4>4. QED
        BY <3>3, <4>2, <4>3
    <3>6. CASE ~(addr < x[1])
      <4>1. x \in below
        BY <1>9, <1>10, <3>6
      <4>2. x = t \/ LineBefore(x, t)
        BY <1>13, <4>1
      <4>3. CASE addr > high[x]
        <5>1. x # t
          <6>1. CASE high[t] = MaxAddress - 1
            BY <1>10, <4>3, <6>1
          <6>2. ASSUME NEW q \in N, high[t] = IF q[1] = 0 THEN MaxAddress ELSE q[1] - 1
                PROVE  x # t
            BY <1>9, <1>10, <2>4, <4>3, <6>2
          <6>3. QED
            BY <1>11, <2>1, <6>1, <6>2
        <5>2. b # Null /\ t \in u[b]
          BY <2>3, <3>4, <4>2, <5>1
        <5>3. find[x] = find[b]
          BY <1>8, <3>2, <3>6, <4>3
        <5>4. QED
          BY <3>3, <5>2, <5>3
      <4>4. CASE ~(addr > high[x])
        <5>1. find[x] = x
          BY <1>8, <3>6, <4>4
        <5>2. CASE x = t
          BY <2>6, <5>1, <5>2
        <5>3. CASE x # t
          <6>1. high[x] \in Int
            BY <1>9, <1>10, <1>11
          <6>2. addr <= high[x]
            BY <1>10, <4>4, <6>1
          <6>3. QED
            BY <2>5, <4>2, <5>1, <5>3, <6>2
        <5>4. QED
          BY <5>2, <5>3
      <4>5. QED
        BY <4>3, <4>4
    <3>7. QED
      BY <3>5, <3>6
  <2> HIDE DEF P
  <2>8. N \subseteq P
    BY <1>3, <2>7, UpInduction
  <2>9. new.root \in P /\ t \in u[new.root]
    BY <1>4, <2>1, <2>8
  <2>10. Right(found)
    BY <1>5, <2>9 DEF P
  <2>11. QED
    BY <2>10 DEF Right
<1>14. QED
  BY <1>4, <1>12, <1>13

\* In every report that looks up, every address is given its line entry and its function.
THEOREM LooksUpExactly == Spec => []LookupsExact
<1>1. Spec => []MapsKept
  BY InitKept, StepKept, PTL DEF Spec
<1>2. ASSUME MapsKept PROVE LookupsExact
  <2>1. SUFFICES ASSUME phase = "merging", do_lookup, NEW addr \in 0 .. MaxAddress - 1,
                        NEW line, line = AddrRangeMap_Find(addrToSourceMap, addr),
                        NEW funct, funct = AddrRangeMap_Find(functionMap, addr)
                 PROVE  LineExact(addr, line) /\ FunctExact(addr, funct)
    BY DEF LookupsExact, mpiP_find_src_loc
  <2>2. PICK N : N = Node(addrToSourceMap)
    OBVIOUS
  <2>3. \A x \in N : LineNode(x) /\ x[1] \in Nat /\ x[3] \in Nat /\ x[1] \in Code
    BY <1>2, <2>2, NodeParts DEF MapsKept, EntriesSaved, LineNode
  <2>4. PICK map : Good(N, map, LineOrder) /\ addrToSourceMap = AddrToSourceMap_PatchRanges(map)
    BY <1>2, <2>1, <2>2 DEF MapsKept, LinesKept
  <2>5. PICK below, near : /\ below = {x \in N : x[1] <= addr}
                           /\ near = {x \in below : \A y \in below : y[1] <= x[1]}
    OBVIOUS
  <2>6. /\ below = {} => line = Null
        /\ \A t \in below : (\A w \in below : w = t \/ LineBefore(w, t)) =>
             line = t \/ (line \in below /\ line[1] = 0 /\ \E x \in below \ {line} : x[1] = 0)
    BY <2>1, <2>3, <2>4, <2>5, LineFound
  <2>7. IsFiniteSet(below)
    <3>1. IsFiniteSet(N) /\ below \subseteq N
      BY <2>4, <2>5 DEF Good, Ranges, Tree
    <3>2. QED
      BY <3>1, FS_Subset
  <2>8. /\ near = {} => line = Null
        /\ near # {} => \/ /\ line \in near
                           /\ \A x \in near : line[3] <= x[3]
                           /\ goes[line[1]] = 1 => line[3] = read[line[1]]
                        \/ /\ line \in below /\ line[1] = 0
                           /\ \E x \in below \ {line} : x[1] = 0
    <3>1. CASE below = {}
      <4>1. near = {}
        BY <2>5, <3>1
      <4>2. QED
        BY <2>6, <3>1, <4>1
    <3>2. CASE below # {}
      <4>1. \A x \in below : LineNode(x) /\ x[1] \in Nat /\ x[3] \in Nat /\ x \in N
        BY <2>3, <2>5
      <4>2. PICK t \in below : \A w \in below : w = t \/ LineBefore(w, t)
        BY <2>7, <3>2, <4>1, LastIn
      <4>3. \A w \in below : w[1] <= t[1] /\ (w[1] >= t[1] => t[3] <= w[3])
        BY <4>1, <4>2 DEF LineBefore
      <4>4. t \in near
        BY <2>5, <4>3
      <4>5. \A x \in near : t[3] <= x[3]
        BY <2>5, <4>1, <4>3
      <4>6. goes[t[1]] = 1 => t[3] = read[t[1]]
        <5>1. t \in Node(addrToSourceMap) /\ t[1] \in Code
          BY <2>2, <2>3, <4>1
        <5>2. QED
          BY <1>2, <5>1 DEF MapsKept, RunsSaved
      <4>7. line = t \/ (line \in below /\ line[1] = 0 /\ \E x \in below \ {line} : x[1] = 0)
        BY <2>6, <4>2
      <4>8. QED
        BY <4>4, <4>5, <4>6, <4>7
    <3>3. QED
      BY <3>1, <3>2
  <2>9. LineExact(addr, line)
    BY <2>2, <2>5, <2>8 DEF LineExact
  <2>10. /\ \A f \in Node(functionMap) : /\ f[1] < addr /\ addr < f[2] => funct = f
                                         /\ f[1] <= addr /\ addr <= f[2] => funct # Null
         /\ funct # Null => funct[1] <= addr /\ addr <= funct[2]
    <3>1. PICK M : M = Node(functionMap)
      OBVIOUS
    <3>2. Good(M, functionMap, FunctionOrder) /\ \A x \in M : FunctionNode(x)
      BY <1>2, <3>1 DEF MapsKept, FunctionsKept
    <3>3. addr \in Nat
      BY MaxAddressAssumption
    <3>4. QED
      BY <2>1, <3>1, <3>2, <3>3, FunctionFound
  <2>11. FunctExact(addr, funct)
    BY <2>10 DEF FunctExact
  <2>12. QED
    BY <2>9, <2>11
<1>3. QED
  BY <1>1, <1>2, PTL

-----------------------------------------------------------------------------
(* The executable is open to one report at a time. *)

\* As long as every executable could be read, a report opens the executable, keeps it and leaves it
\* closed, with both maps as AddrRangeMap_Init has them.
OpenWhileRead ==
  do_lookup =>
    /\ phase \in {"closed", "unit", "lines", "functions", "merging", "aborted"}
    /\ phase \in {"unit", "lines", "functions", "merging"} => dwFd
    /\ phase = "closed" => /\ ~dwFd
                           /\ addrToSourceMap = AddrRangeMap_Init
                           /\ functionMap = AddrRangeMap_Init

\* The program starts with the executable closed.
LEMMA InitCloses == Init => OpenWhileRead
BY DEF Init, OpenWhileRead

\* Every step keeps the executable open to its report and closed otherwise.
LEMMA StepCloses == OpenWhileRead /\ [Next]_vars => OpenWhileRead'
<1> SUFFICES ASSUME OpenWhileRead, [Next]_vars PROVE OpenWhileRead'
  OBVIOUS
<1>1. CASE OpenFails
  BY <1>1 DEF OpenFails, OpenWhileRead
<1>2. CASE OpenSucceeds
  BY <1>2 DEF OpenSucceeds, OpenWhileRead
<1>3. CASE OpenAsserts
  BY <1>3 DEF OpenAsserts, OpenWhileRead
<1>4. CASE NextUnit
  BY <1>4 DEF NextUnit, OpenWhileRead
<1>5. ASSUME NEW a \in Code, NEW ok \in BOOLEAN, ReadLine(a, ok) PROVE OpenWhileRead'
  <2>1. /\ phase = "lines" /\ phase' = phase
        /\ do_lookup' = do_lookup /\ dwFd' = dwFd
    BY <1>5, ZenonT(30) DEF ReadLine
  <2>2. QED
    BY <2>1 DEF OpenWhileRead
<1>6. CASE EndLines
  BY <1>6 DEF EndLines, OpenWhileRead
<1>7. ASSUME NEW low \in Code, NEW high \in Code, HandleFunctionDIE(low, high)
      PROVE  OpenWhileRead'
  <2>1. /\ phase = "functions" /\ phase' \in {"functions", "aborted"}
        /\ do_lookup' = do_lookup /\ dwFd' = dwFd
    BY <1>7 DEF HandleFunctionDIE
  <2>2. QED
    BY <2>1 DEF OpenWhileRead
<1>8. CASE EndFunctions
  BY <1>8 DEF EndFunctions, OpenWhileRead
<1>9. CASE Close
  BY <1>9 DEF Close, FdAfterClose, OpenWhileRead
<1>10. CASE UNCHANGED vars
  BY <1>10 DEF vars, maps, OpenWhileRead
<1>11. QED
  BY <1>1, <1>2, <1>3, <1>4, <1>5, <1>6, <1>7, <1>8, <1>9, <1>10 DEF Next

\* The assertions of open_dwarf_executable and close_dwarf_executable hold in every report,
\* however many were made, until one cannot read the executable (mpiPi.do_lookup is 0 then).
THEOREM Reopens == Spec => []ReopensClosed
<1>1. Spec => []OpenWhileRead
  BY InitCloses, StepCloses, PTL DEF Spec
<1>2. OpenWhileRead => ReopensClosed
  BY DEF OpenWhileRead, ReopensClosed, AddrRangeMap_Init, Node
<1>3. QED
  BY <1>1, <1>2, PTL

=============================================================================
