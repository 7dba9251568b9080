---------------------------- MODULE AddrRangeMap ----------------------------
(***************************************************************************)
(* The address range map of pc_lookup_dwarf.c: a red-black tree of ranges  *)
(* of program addresses, with which a report finds the source line and the *)
(* function of a program counter.                                          *)
(*                                                                         *)
(* A map is a value [root, node]; node is a function from the nodes to     *)
(* their fields.  Nodes are tuples <<low, high, n>>: the range they were   *)
(* made for and a number that tells equal ranges apart; they stand for the *)
(* pointers and for what info points to.  Left and right are sides here,   *)
(* so that what the code has twice, mirrored, is stated once.  A loop is   *)
(* a function that calls itself for the next node.                         *)
(***************************************************************************)
EXTENDS Integers, FiniteSets

CONSTANT MaxAddress  \* ~(Dwarf_Addr) 0

ASSUME MaxAddressAssumption == MaxAddress \in Nat \ {0}

Addr == 0 .. MaxAddress
Null == <<>>
Side == {"left", "right"}
Other(side) == IF side = "left" THEN "right" ELSE "left"

AddrRangeMap_Init == [root |-> Null, node |-> <<>>]

Node(map)        == DOMAIN map.node
Parent(map, x)   == map.node[x].parent
Child(map, x, s) == map.node[x].child[s]
Red(map, x)      == x # Null /\ map.node[x].color = "red"

\* AddrRangeMap_LeftRotate, AddrRangeMap_RightRotate: node x descends on the side and its
\* child of the other side takes its place.  The pointers of node z after that:
TurnedParent(map, x, side, z) ==
  LET y == Child(map, x, Other(side)) IN
  IF z = y THEN Parent(map, x)
  ELSE IF z = x THEN y
  ELSE IF z = Child(map, y, side) THEN x ELSE Parent(map, z)

TurnedChild(map, x, side, z, s) ==
  LET y == Child(map, x, Other(side)) IN
  IF z = x /\ s = Other(side) THEN Child(map, y, side)
  ELSE IF z = y /\ s = side THEN x
  ELSE IF z = Parent(map, x) /\ Child(map, z, s) = x THEN y ELSE Child(map, z, s)

Turned(map, x, side, z) ==
  [map.node[z] EXCEPT !.parent = TurnedParent(map, x, side, z),
                      !.child = [s \in Side |-> TurnedChild(map, x, side, z, s)]]

Rotate(map, x, side) ==
  [root |-> IF Parent(map, x) = Null THEN Child(map, x, Other(side)) ELSE map.root,
   node |-> [z \in Node(map) |-> Turned(map, x, side, z)]]

Painted(map, blacks, reds) ==
  [map EXCEPT !.node = [z \in Node(map) |->
     [map.node[z] EXCEPT !.color = IF z \in blacks THEN "black" ELSE IF z \in reds THEN "red" ELSE @]]]

-----------------------------------------------------------------------------
\* Where a range lies as seen from a node.
SideOf(map, x, low, high) ==
  IF high <= map.node[x].lowAddr THEN "left"
  ELSE IF low >= map.node[x].highAddr THEN "right" ELSE "overlap"

\* The node under which a new range belongs, or one with which it overlaps.
Place(map, low, high) ==
  LET place[x \in Node(map)] ==
        LET side == SideOf(map, x, low, high) IN
        IF side = "overlap" THEN x
        ELSE IF Child(map, x, side) = Null THEN x ELSE place[Child(map, x, side)]
  IN place[map.root]

Overlaps(map, low, high) ==
  map.root # Null /\ SideOf(map, Place(map, low, high), low, high) = "overlap"

\* A red leaf for the range.
Inserted(map, new) ==
  LET low   == new[1]
      high  == new[2]
      place == IF map.root = Null THEN Null ELSE Place(map, low, high)
      side  == SideOf(map, place, low, high)
      leaf  == [color |-> "red", lowAddr |-> low, highAddr |-> high,
                parent |-> place, child |-> [s \in Side |-> Null]]
  IN [root |-> IF place = Null THEN new ELSE map.root,
      node |-> [z \in Node(map) \cup {new} |->
                  IF z = new THEN leaf
                  ELSE IF z = place THEN [map.node[z] EXCEPT !.child[side] = new]
                  ELSE map.node[z]]]

\* Mutant: no node counts as inner, so that it is not brought to the outside first.
InnerNever(map, x, parent, side) == FALSE

\* A node between its parent and the parent above that.
Inner(map, x, parent, side) == x = Child(map, parent, Other(side))

\* The body of the loop that balances the tree: two red nodes, one above the other.
Rebalance(at) ==
  LET map    == at.map
      parent == Parent(map, at.curr)
  IN IF at.curr = map.root \/ ~Red(map, parent) THEN at
     ELSE LET above == Parent(map, parent)
              side  == IF parent = Child(map, above, "left") THEN "left" ELSE "right"
              uncle == Child(map, above, Other(side))
              inner == Inner(map, at.curr, parent, side)
              outer == IF inner THEN Rotate(map, parent, side) ELSE map
              top   == IF inner THEN at.curr ELSE parent
          IN IF Red(map, uncle)
             THEN [map |-> Painted(map, {parent, uncle}, {above}), curr |-> above]
             ELSE [map |-> Rotate(Painted(outer, {top}, {above}), above, Other(side)),
                   curr |-> IF inner THEN parent ELSE at.curr]

\* The loop: each pass goes up, so it ends before there are more passes than nodes.
Rebalanced(map, new) ==
  LET passes == Cardinality(Node(map)) + 1
      at[k \in 0 .. passes] == IF k = 0 THEN [map |-> map, curr |-> new] ELSE Rebalance(at[k - 1])
  IN at[passes].map

\* AddrRangeMap_Add, of a range that does not overlap.
AddrRangeMap_Add(map, new) ==
  LET balanced == Rebalanced(Inserted(map, new), new)
  IN Painted(balanced, {balanced.root}, {})

AddrRangeMap_Find(map, addr) ==
  LET find[x \in Node(map) \cup {Null}] ==
        IF x = Null THEN Null
        ELSE IF addr < map.node[x].lowAddr THEN find[Child(map, x, "left")]
        ELSE IF addr > map.node[x].highAddr THEN find[Child(map, x, "right")] ELSE x
  IN find[map.root]

\* AddrToSourceMap_PatchRanges: a range ends before the next one begins.  limit is the
\* argument maxAddress of the recursion, lowest its result; addresses wrap at 0.
AddrToSourceMap_PatchRanges(map) ==
  LET limit[x \in Node(map)] ==
        LET up == Parent(map, x) IN
        IF up = Null THEN MaxAddress
        ELSE IF x = Child(map, up, "left") THEN map.node[up].lowAddr ELSE limit[up]
      lowest[x \in Node(map)] ==
        IF Child(map, x, "left") = Null THEN map.node[x].lowAddr ELSE lowest[Child(map, x, "left")]
      next(x) == IF Child(map, x, "right") = Null THEN limit[x] ELSE lowest[Child(map, x, "right")]
  IN [map EXCEPT !.node = [x \in Node(map) |->
        [map.node[x] EXCEPT !.highAddr = (next(x) - 1) % (MaxAddress + 1)]]]

-----------------------------------------------------------------------------
\* A balanced search tree of disjoint ranges: what every map is to be between two calls.

\* A node and those above it.
Ancestors(map) ==
  LET above[x \in Node(map)] ==
        {x} \cup (IF Parent(map, x) = Null THEN {} ELSE above[Parent(map, x)])
  IN above

IsTree(map) ==
  /\ map.root # Null => Parent(map, map.root) = Null
  /\ \A x \in Node(map) :
       /\ map.root \in Ancestors(map)[x]
       /\ \A s \in Side : Child(map, x, s) # Null => Parent(map, Child(map, x, s)) = x
       /\ Parent(map, x) = Null => x = map.root
       /\ Parent(map, x) # Null => \E s \in Side : Child(map, Parent(map, x), s) = x

\* As many black nodes on every way from a leaf to the root, and no two red ones in a row.
IsBalanced(map) ==
  LET ends == {x \in Node(map) : \E s \in Side : Child(map, x, s) = Null}
      blacks(x) == Cardinality({z \in Ancestors(map)[x] : map.node[z].color = "black"})
  IN
  /\ map.root # Null => map.node[map.root].color = "black"
  /\ \A x \in Node(map) :
       map.node[x].color = "red" => map.node[Parent(map, x)].color = "black"
  /\ \A x, y \in ends : blacks(x) = blacks(y)

IsOrdered(map) ==
  \A x, y \in Node(map) :
    /\ Child(map, y, "left") \in Ancestors(map)[x] => map.node[x].highAddr <= map.node[y].lowAddr
    /\ Child(map, y, "right") \in Ancestors(map)[x] => map.node[x].lowAddr >= map.node[y].highAddr
=============================================================================
