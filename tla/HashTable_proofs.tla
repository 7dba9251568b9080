--------------------------- MODULE HashTable_proofs ---------------------------
(***************************************************************************)
(* Machine-checked facts about HashTable for every set of records and      *)
(* keys, every hash function and every number of buckets.  The inductive   *)
(* invariant adds to the checked ones that a record lies in the bucket its *)
(* key hashes to and that the walk of h_gather_data has listed exactly the *)
(* records of the cells behind it.                                         *)
(***************************************************************************)
EXTENDS HashTable, FiniteSetTheorems, SequenceTheorems, TLAPS

\* A record lies in the bucket its key hashes to.
Placed ==
  \A i \in Bucket : \A j \in DOMAIN table[i] : BucketOf(KeyOf[table[i][j]]) = i

\* A chain has no two cells with one key.
Distinct ==
  \A i \in Bucket : \A j1, j2 \in DOMAIN table[i] :
    KeyOf[table[i][j1]] = KeyOf[table[i][j2]] => j1 = j2

\* The records in the cells the walk has passed.
Passed(i, j) == i < walk.bucket \/ (i = walk.bucket /\ j < walk.cell)

Visited ==
  {p \in Ptr : \E i \in Bucket : \E j \in DOMAIN table[i] :
                 table[i][j] = p /\ Passed(i, j)}

WalkInv ==
  walk.busy =>
    /\ walk.alloc = count
    /\ walk.bucket < Size => walk.cell <= Len(table[walk.bucket]) + 1
    /\ walk.bucket = Size => walk.cell = 1
    /\ Visited = {walk.out[n] : n \in DOMAIN walk.out}
    /\ IsFiniteSet(Visited)
    /\ Cardinality(Visited) = Len(walk.out)

IInv ==
  /\ TypeOK
  /\ Placed
  /\ Distinct
  /\ IsFiniteSet(Live)
  /\ CountExact
  /\ WalkInv

-----------------------------------------------------------------------------
LEMMA BucketOfType ==
  ASSUME NEW k \in Key
  PROVE  BucketOf(k) \in Bucket
<1>1. HashOf[k] \in Nat
  BY HashAssumption
<1>2. Size \in Nat \ {0}
  BY HashAssumption
<1> QED
  BY <1>1, <1>2 DEF BucketOf, Bucket

LEMMA UnlinkProperties ==
  ASSUME NEW chain \in Seq(Ptr), NEW j \in 1 .. Len(chain)
  PROVE  /\ Unlink(chain, j) \in Seq(Ptr)
         /\ Len(Unlink(chain, j)) = Len(chain) - 1
         /\ \A i \in 1 .. Len(chain) - 1 :
              Unlink(chain, j)[i] = IF i < j THEN chain[i] ELSE chain[i + 1]
<1>1. Len(chain) \in Nat /\ Len(chain) - 1 \in Nat
  OBVIOUS
<1>2. \A i \in 1 .. Len(chain) - 1 :
         (IF i < j THEN chain[i] ELSE chain[i + 1]) \in Ptr
  OBVIOUS
<1>3. Unlink(chain, j) \in [1 .. Len(chain) - 1 -> Ptr]
  BY <1>2 DEF Unlink
<1>4. Unlink(chain, j) \in Seq(Ptr)
  BY <1>1, <1>3, SeqDef
<1> QED
  BY <1>1, <1>3, <1>4, LenProperties DEF Unlink

\* Under the invariant a chain has at most one cell for a key, so the first
\* match of the C loops is a cell of the chain with that key.
LEMMA FirstMatchProperties ==
  ASSUME TypeOK, Distinct, NEW i \in Bucket, NEW k \in Key, Matches(i, k) # {}
  PROVE  /\ FirstMatch(i, k) \in 1 .. Len(table[i])
         /\ KeyOf[table[i][FirstMatch(i, k)]] = k
<1>1. table[i] \in Seq(Ptr) /\ DOMAIN table[i] = 1 .. Len(table[i])
  BY DEF TypeOK
<1>2. PICK j : j \in Matches(i, k)
  OBVIOUS
<1>3. \A m \in Matches(i, k) : m = j
  BY <1>2 DEF Matches, Distinct
<1>4. j \in Nat
  BY <1>1, <1>2 DEF Matches
<1>5. \A m \in Matches(i, k) : j <= m
  BY <1>3, <1>4
<1>6. FirstMatch(i, k) \in Matches(i, k)
  BY <1>2, <1>5 DEF FirstMatch
<1> QED
  BY <1>1, <1>6 DEF Matches

\* Pushing a record whose key is absent in front of its chain.
LEMMA InsertStep ==
  ASSUME IInv, NEW p \in Ptr, h_insert(p)
  PROVE  /\ IInv'
         /\ Matches(BucketOf(KeyOf[p]), KeyOf[p]) = {} => Live' = Live \cup {p}
<1> DEFINE i == BucketOf(KeyOf[p])
<1>1. KeyOf[p] \in Key /\ i \in Bucket
  BY HashAssumption, BucketOfType
<1>2. CASE Matches(i, KeyOf[p]) # {}
  <2>1. UNCHANGED <<table, count, walk>>
    BY <1>2 DEF h_insert
  <2>2. IInv'
    BY <2>1 DEF IInv, TypeOK, Placed, Distinct, Live, CountExact, WalkInv,
                Visited, Passed
  <2> QED
    BY <1>2, <2>2
<1>3. CASE Matches(i, KeyOf[p]) = {}
  <2>1. /\ table' = [table EXCEPT ![i] = <<p>> \o @]
        /\ count' = count + 1
        /\ walk' = walk
        /\ ~walk.busy
    BY <1>3 DEF h_insert
  <2>2. /\ table[i] \in Seq(Ptr)
        /\ table'[i] = <<p>> \o table[i]
        /\ \A b \in Bucket : b # i => table'[b] = table[b]
    BY <1>1, <2>1 DEF IInv, TypeOK
  <2>3. /\ <<p>> \o table[i] \in Seq(Ptr)
        /\ Len(<<p>> \o table[i]) = Len(table[i]) + 1
        /\ table'[i][1] = p
        /\ \A j \in 1 .. Len(table[i]) : table'[i][j + 1] = table[i][j]
    BY <2>2
  <2>4. TypeOK'
    BY <1>1, <2>1, <2>3 DEF IInv, TypeOK
  <2>5. /\ DOMAIN table[i] = 1 .. Len(table[i])
        /\ DOMAIN table'[i] = 1 .. Len(table[i]) + 1
        /\ Len(table[i]) \in Nat
    BY <2>2, <2>3
  <2>6. \A j \in DOMAIN table[i] : KeyOf[table[i][j]] # KeyOf[p]
    BY <1>3 DEF Matches
  <2>7. \A j \in DOMAIN table'[i] :
          j = 1 \/ (j - 1 \in DOMAIN table[i] /\ table'[i][j] = table[i][j - 1])
    BY <2>3, <2>5
  <2>8. Placed'
    <3> SUFFICES ASSUME NEW b \in Bucket, NEW j \in DOMAIN table'[b]
                 PROVE  BucketOf(KeyOf[table'[b][j]]) = b
      BY DEF Placed
    <3>1. CASE b # i
      BY <2>2, <3>1 DEF IInv, Placed
    <3>2. CASE b = i
      BY <2>3, <2>7, <3>2 DEF IInv, Placed
    <3> QED
      BY <3>1, <3>2
  <2>9. Distinct'
    <3> SUFFICES ASSUME NEW b \in Bucket,
                        NEW j1 \in DOMAIN table'[b], NEW j2 \in DOMAIN table'[b],
                        KeyOf[table'[b][j1]] = KeyOf[table'[b][j2]]
                 PROVE  j1 = j2
      BY DEF Distinct
    <3>1. CASE b # i
      BY <2>2, <3>1 DEF IInv, Distinct
    <3>2. CASE b = i
      <4>1. CASE j1 = 1 \/ j2 = 1
        BY <2>3, <2>6, <2>7, <3>2, <4>1
      <4>2. CASE j1 # 1 /\ j2 # 1
        <5>1. j1 - 1 = j2 - 1
          BY <2>7, <3>2, <4>2 DEF IInv, Distinct
        <5> QED
          BY <2>5, <3>2, <5>1
      <4> QED
        BY <4>1, <4>2
    <3> QED
      BY <3>1, <3>2
  <2>10. p \notin Live
    <3> SUFFICES ASSUME NEW b \in Bucket, NEW j \in DOMAIN table[b], table[b][j] = p
                 PROVE  FALSE
      BY DEF Live
    <3>1. b = i
      BY DEF IInv, Placed
    <3> QED
      BY <2>6, <3>1
  <2>11. Live' = Live \cup {p}
    <3>1. ASSUME NEW q \in Ptr, q \in Live' PROVE q \in Live \cup {p}
      <4>1. PICK b \in Bucket : \E j \in DOMAIN table'[b] : table'[b][j] = q
        BY <3>1 DEF Live
      <4>2. PICK j \in DOMAIN table'[b] : table'[b][j] = q
        BY <4>1
      <4>3. CASE b # i
        BY <2>2, <4>2, <4>3 DEF Live
      <4>4. CASE b = i
        BY <2>3, <2>7, <4>2, <4>4, <1>1 DEF Live
      <4> QED
        BY <4>3, <4>4
    <3>2. ASSUME NEW q \in Ptr, q \in Live PROVE q \in Live'
      <4>1. PICK b \in Bucket : \E j \in DOMAIN table[b] : table[b][j] = q
        BY <3>2 DEF Live
      <4>2. PICK j \in DOMAIN table[b] : table[b][j] = q
        BY <4>1
      <4>3. CASE b # i
        BY <2>2, <4>2, <4>3 DEF Live
      <4>4. CASE b = i
        <5>1. j \in 1 .. Len(table[i])
          BY <2>5, <4>4
        <5>2. j + 1 \in 1 .. Len(table[i]) + 1
          BY <2>5, <5>1
        <5>3. table'[i][j + 1] = q
          BY <2>3, <4>2, <4>4, <5>1
        <5> QED
          BY <1>1, <2>5, <5>2, <5>3 DEF Live
      <4> QED
        BY <4>3, <4>4
    <3>3. p \in Live'
      <4>1. 1 \in DOMAIN table'[i]
        BY <2>5
      <4> QED
        BY <1>1, <2>3, <4>1 DEF Live
    <3> QED
      BY <3>1, <3>2, <3>3 DEF Live
  <2>12. IsFiniteSet(Live') /\ Cardinality(Live') = Cardinality(Live) + 1
    BY <2>10, <2>11, FS_AddElement DEF IInv
  <2>13. CountExact'
    BY <2>1, <2>12 DEF IInv, CountExact
  <2>14. WalkInv'
    BY <2>1 DEF WalkInv
  <2> QED
    BY <1>3, <2>4, <2>8, <2>9, <2>11, <2>12, <2>13, <2>14 DEF IInv
<1> QED
  BY <1>2, <1>3

\* Unlinking the only cell of a key from its chain.
LEMMA DeleteStep ==
  ASSUME IInv, NEW k \in Key, h_delete(k)
  PROVE  /\ IInv'
         /\ Matches(BucketOf(k), k) # {} => Live' = Live \ {Found(k)}
<1> DEFINE i == BucketOf(k)
<1>1. i \in Bucket
  BY BucketOfType
<1>2. CASE Matches(i, k) = {}
  <2>1. UNCHANGED <<table, count, walk>>
    BY <1>2 DEF h_delete
  <2>2. IInv'
    BY <2>1 DEF IInv, TypeOK, Placed, Distinct, Live, CountExact, WalkInv,
                Visited, Passed
  <2> QED
    BY <1>2, <2>2
<1>3. CASE Matches(i, k) # {}
  <2> DEFINE m == FirstMatch(i, k)
             p == table[i][m]
  <2>1. /\ table' = [table EXCEPT ![i] = Unlink(@, m)]
        /\ count' = count - 1
        /\ walk' = walk
        /\ ~walk.busy
    BY <1>3 DEF h_delete
  <2>2. m \in 1 .. Len(table[i]) /\ KeyOf[p] = k
    BY <1>1, <1>3, FirstMatchProperties DEF IInv
  <2>3. /\ table[i] \in Seq(Ptr)
        /\ table'[i] = Unlink(table[i], m)
        /\ \A b \in Bucket : b # i => table'[b] = table[b]
        /\ DOMAIN table[i] = 1 .. Len(table[i])
        /\ Len(table[i]) \in Nat
    BY <1>1, <2>1 DEF IInv, TypeOK
  <2>4. /\ table'[i] \in Seq(Ptr)
        /\ Len(table'[i]) = Len(table[i]) - 1
        /\ \A j \in 1 .. Len(table[i]) - 1 :
             table'[i][j] = IF j < m THEN table[i][j] ELSE table[i][j + 1]
    BY <2>2, <2>3, UnlinkProperties
  <2>5. DOMAIN table'[i] = 1 .. Len(table[i]) - 1
    BY <2>4
  <2> HIDE DEF i, m
  <2> DEFINE Old(j) == IF j < m THEN j ELSE j + 1
  \* Old(j) is the cell the new cell j was.
  <2>6. \A j \in DOMAIN table'[i] :
          /\ Old(j) \in DOMAIN table[i]
          /\ Old(j) # m
          /\ table'[i][j] = table[i][Old(j)]
    BY <2>2, <2>3, <2>4, <2>5
  <2>7. \A j1, j2 \in DOMAIN table'[i] : Old(j1) = Old(j2) => j1 = j2
    BY <2>2, <2>3, <2>5
  <2>8. \A j \in DOMAIN table[i] : j # m =>
          \E n \in DOMAIN table'[i] : Old(n) = j
    <3> SUFFICES ASSUME NEW j \in DOMAIN table[i], j # m
                 PROVE  \E n \in DOMAIN table'[i] : Old(n) = j
      OBVIOUS
    <3>1. CASE j < m
      <4>1. j \in DOMAIN table'[i] /\ Old(j) = j
        BY <2>2, <2>3, <2>5, <3>1
      <4> QED
        BY <4>1
    <3>2. CASE j > m
      <4>1. j - 1 \in DOMAIN table'[i] /\ Old(j - 1) = j
        BY <2>2, <2>3, <2>5, <3>2
      <4> QED
        BY <4>1
    <3> QED
      BY <2>2, <2>3, <3>1, <3>2
  <2> HIDE DEF Old
  <2>9. TypeOK'
    <3>1. table' \in [Bucket -> Seq(Ptr)]
      BY <1>1, <2>1, <2>3, <2>4 DEF IInv, TypeOK, i
    <3>2. p \in Live
      BY <1>1, <2>2, <2>3 DEF Live, i
    <3>3. count \in Nat /\ count # 0
      BY <3>2, FS_EmptySet DEF IInv, TypeOK, CountExact
    <3> QED
      BY <2>1, <3>1, <3>3 DEF IInv, TypeOK
  <2>10. Placed'
    <3> SUFFICES ASSUME NEW b \in Bucket, NEW j \in DOMAIN table'[b]
                 PROVE  BucketOf(KeyOf[table'[b][j]]) = b
      BY DEF Placed
    <3> QED
      BY <2>3, <2>6 DEF IInv, Placed
  <2>11. Distinct'
    <3> SUFFICES ASSUME NEW b \in Bucket,
                        NEW j1 \in DOMAIN table'[b], NEW j2 \in DOMAIN table'[b],
                        KeyOf[table'[b][j1]] = KeyOf[table'[b][j2]]
                 PROVE  j1 = j2
      BY DEF Distinct
    <3>1. CASE b # i
      BY <2>3, <3>1 DEF IInv, Distinct
    <3>2. CASE b = i
      BY <1>1, <2>6, <2>7, <3>2 DEF IInv, Distinct
    <3> QED
      BY <3>1, <3>2
  <2>12. Live' = Live \ {p}
    <3>1. ASSUME NEW q \in Ptr, q \in Live' PROVE q \in Live /\ q # p
      <4>1. PICK b \in Bucket : \E j \in DOMAIN table'[b] : table'[b][j] = q
        BY <3>1 DEF Live
      <4>2. PICK j \in DOMAIN table'[b] : table'[b][j] = q
        BY <4>1
      <4>3. CASE b # i
        <5>1. j \in DOMAIN table[b] /\ table[b][j] = q
          BY <2>3, <4>2, <4>3
        <5>2. BucketOf(KeyOf[q]) = b
          BY <5>1 DEF IInv, Placed
        <5> QED
          BY <2>2, <4>3, <5>1, <5>2 DEF Live, i
      <4>4. CASE b = i
        <5>1. Old(j) \in DOMAIN table[i] /\ table[i][Old(j)] = q /\ Old(j) # m
          BY <2>6, <4>2, <4>4
        <5>2. q # p
          BY <1>1, <2>2, <2>3, <5>1 DEF IInv, Distinct
        <5> QED
          BY <1>1, <5>1, <5>2 DEF Live
      <4> QED
        BY <4>3, <4>4
    <3>2. ASSUME NEW q \in Ptr, q \in Live, q # p PROVE q \in Live'
      <4>1. PICK b \in Bucket : \E j \in DOMAIN table[b] : table[b][j] = q
        BY <3>2 DEF Live
      <4>2. PICK j \in DOMAIN table[b] : table[b][j] = q
        BY <4>1
      <4>3. CASE b # i
        BY <2>3, <4>2, <4>3 DEF Live
      <4>4. CASE b = i
        <5>1. j # m
          BY <3>2, <4>2, <4>4
        <5>2. PICK n \in DOMAIN table'[i] : Old(n) = j
          BY <2>8, <4>2, <4>4, <5>1
        <5> QED
          BY <1>1, <2>6, <4>2, <4>4, <5>2 DEF Live
      <4> QED
        BY <4>3, <4>4
    <3> QED
      BY <3>1, <3>2 DEF Live
  <2>13. p \in Live
    BY <1>1, <2>2, <2>3 DEF Live
  <2>14. IsFiniteSet(Live') /\ Cardinality(Live') = Cardinality(Live) - 1
    BY <2>12, <2>13, FS_RemoveElement DEF IInv
  <2>15. CountExact'
    BY <2>1, <2>14 DEF IInv, CountExact
  <2>16. WalkInv'
    BY <2>1 DEF WalkInv
  <2>17. p = Found(k)
    BY <1>3 DEF Found, i, m
  <2> QED
    BY <2>9, <2>10, <2>11, <2>12, <2>14, <2>15, <2>16, <2>17 DEF IInv
<1> QED
  BY <1>2, <1>3

-----------------------------------------------------------------------------
\* The steps of h_gather_data leave the table alone.
LEMMA GatherFrame ==
  ASSUME IInv, UNCHANGED <<table, count>>,
         walk' \in [busy : BOOLEAN, bucket : 0 .. Size, cell : Nat \ {0},
                    out : Seq(Ptr), alloc : Nat],
         WalkInv'
  PROVE  IInv'
BY DEF IInv, TypeOK, Placed, Distinct, Live, CountExact

LEMMA GatherAllocStep ==
  ASSUME IInv, GatherAlloc
  PROVE  IInv'
<1>1. /\ UNCHANGED <<table, count>>
      /\ walk' = [busy |-> TRUE, bucket |-> 0, cell |-> 1, out |-> <<>>,
                  alloc |-> count]
  BY DEF GatherAlloc, Idle
<1>2. 0 \in 0 .. Size /\ 1 \in Nat \ {0} /\ <<>> \in Seq(Ptr) /\ count \in Nat
  BY HashAssumption DEF IInv, TypeOK
<1>3. walk' \in [busy : BOOLEAN, bucket : 0 .. Size, cell : Nat \ {0},
                 out : Seq(Ptr), alloc : Nat]
  BY <1>1, <1>2
<1>4. table \in [Bucket -> Seq(Ptr)] /\ 0 \in Bucket
  BY HashAssumption DEF IInv, TypeOK, Bucket
<1>5. Visited' = {}
  <2>1. ASSUME NEW i \in Bucket, NEW j \in DOMAIN table[i] PROVE ~Passed(i, j)'
    BY <1>1, <1>4 DEF Passed, Bucket
  <2> QED
    BY <1>1, <2>1 DEF Visited
<1>6. WalkInv'
  BY <1>1, <1>4, <1>5, FS_EmptySet, HashAssumption DEF WalkInv
<1> QED
  BY <1>1, <1>3, <1>6, GatherFrame

\* One more cell is one more record: the cell's record is in no earlier cell.
LEMMA GatherCellStep ==
  ASSUME IInv, GatherCell
  PROVE  IInv'
<1> DEFINE b == walk.bucket
           c == walk.cell
           p == table[b][c]
<1>1. /\ UNCHANGED <<table, count>>
      /\ walk.busy /\ b < Size /\ c <= Len(table[b])
      /\ walk' = [walk EXCEPT !.out = Append(walk.out, p), !.cell = c + 1]
  BY DEF GatherCell
<1>2. /\ table \in [Bucket -> Seq(Ptr)]
      /\ b \in Bucket /\ c \in Nat \ {0}
      /\ walk.out \in Seq(Ptr)
      /\ walk \in [busy : BOOLEAN, bucket : 0 .. Size, cell : Nat \ {0},
                   out : Seq(Ptr), alloc : Nat]
  BY <1>1, HashAssumption DEF IInv, TypeOK, Bucket
<1>3. /\ table[b] \in Seq(Ptr) /\ DOMAIN table[b] = 1 .. Len(table[b])
      /\ c \in DOMAIN table[b] /\ p \in Ptr
  BY <1>1, <1>2
<1>4. walk' \in [busy : BOOLEAN, bucket : 0 .. Size, cell : Nat \ {0},
                 out : Seq(Ptr), alloc : Nat]
  <2>1. c + 1 \in Nat \ {0}
    BY <1>2
  <2>2. Append(walk.out, p) \in Seq(Ptr)
    BY <1>2, <1>3
  <2> HIDE DEF c, p
  <2> QED
    BY <1>1, <1>2, <2>1, <2>2
<1>5. /\ walk'.busy /\ walk'.bucket = b /\ walk'.cell = c + 1
      /\ walk'.out = Append(walk.out, p) /\ walk'.alloc = walk.alloc
  BY <1>1, <1>2
<1>6. p \notin Visited
  <2> SUFFICES ASSUME NEW i \in Bucket, NEW j \in DOMAIN table[i],
                      table[i][j] = p, Passed(i, j)
               PROVE  FALSE
    BY DEF Visited
  <2>1. i = b
    BY <1>2, <1>3 DEF IInv, Placed
  <2>2. j = c
    BY <1>3, <2>1 DEF IInv, Distinct
  <2> QED
    BY <1>2, <2>1, <2>2 DEF Passed, Bucket
<1>7. Visited' = Visited \cup {p}
  <2>1. ASSUME NEW i \in Bucket, NEW j \in DOMAIN table[i]
        PROVE  Passed(i, j)' <=> Passed(i, j) \/ (i = b /\ j = c)
    <3>1. table[i] \in Seq(Ptr) /\ DOMAIN table[i] = 1 .. Len(table[i])
      BY <1>2
    <3>2. j \in Nat
      BY <3>1
    <3> QED
      BY <1>2, <1>5, <3>2 DEF Passed, Bucket
  <2> QED
    BY <1>1, <1>2, <1>3, <2>1 DEF Visited
<1>8. /\ Visited = {walk.out[n] : n \in DOMAIN walk.out}
      /\ IsFiniteSet(Visited)
      /\ Cardinality(Visited) = Len(walk.out)
      /\ walk.alloc = count
  BY <1>1 DEF IInv, WalkInv
<1>9. /\ DOMAIN walk'.out = DOMAIN walk.out \cup {Len(walk.out) + 1}
      /\ \A n \in DOMAIN walk.out : walk'.out[n] = walk.out[n]
      /\ walk'.out[Len(walk.out) + 1] = p
      /\ Len(walk'.out) = Len(walk.out) + 1
  BY <1>2, <1>3, <1>5
<1>10. Visited' = {walk'.out[n] : n \in DOMAIN walk'.out}
  BY <1>7, <1>8, <1>9
<1>11. IsFiniteSet(Visited') /\ Cardinality(Visited') = Len(walk'.out)
  <2>1. /\ IsFiniteSet(Visited \cup {p})
        /\ Cardinality(Visited \cup {p}) = Cardinality(Visited) + 1
    BY <1>6, <1>8, FS_AddElement
  <2>2. Len(walk'.out) = Len(walk.out) + 1
    BY <1>9
  <2> QED
    BY <1>7, <1>8, <2>1, <2>2
<1>12. walk'.cell <= Len(table'[b]) + 1 /\ b # Size
  BY <1>1, <1>2, <1>3, <1>5 DEF Bucket
<1>13. WalkInv'
  BY <1>1, <1>5, <1>8, <1>10, <1>11, <1>12 DEF WalkInv
<1> QED
  BY <1>1, <1>4, <1>13, GatherFrame

\* Leaving a chain passes no further cell.
LEMMA GatherBucketStep ==
  ASSUME IInv, GatherBucket
  PROVE  IInv'
<1> DEFINE b == walk.bucket
<1>1. /\ UNCHANGED <<table, count>>
      /\ walk.busy /\ b < Size /\ walk.cell > Len(table[b])
      /\ walk' = [walk EXCEPT !.bucket = b + 1, !.cell = 1]
  BY DEF GatherBucket
<1>2. /\ table \in [Bucket -> Seq(Ptr)]
      /\ Size \in Nat /\ b \in Bucket /\ walk.cell \in Nat
      /\ walk \in [busy : BOOLEAN, bucket : 0 .. Size, cell : Nat \ {0},
                   out : Seq(Ptr), alloc : Nat]
  BY <1>1, HashAssumption DEF IInv, TypeOK, Bucket
<1>3. walk' \in [busy : BOOLEAN, bucket : 0 .. Size, cell : Nat \ {0},
                 out : Seq(Ptr), alloc : Nat]
  <2>1. b + 1 \in 0 .. Size /\ 1 \in Nat \ {0}
    BY <1>2 DEF Bucket
  <2> HIDE DEF b
  <2> QED
    BY <1>1, <1>2, <2>1
<1>4. /\ walk'.busy /\ walk'.bucket = b + 1 /\ walk'.cell = 1
      /\ walk'.out = walk.out /\ walk'.alloc = walk.alloc
  BY <1>1, <1>2
<1>5. ASSUME NEW i \in Bucket, NEW j \in DOMAIN table[i]
      PROVE  Passed(i, j)' <=> Passed(i, j)
  <2>1. table[i] \in Seq(Ptr) /\ DOMAIN table[i] = 1 .. Len(table[i])
    BY <1>2
  <2>2. j \in Nat \ {0} /\ j <= Len(table[i]) /\ Len(table[i]) \in Nat
    BY <2>1
  <2>3. i = b => j < walk.cell
    BY <1>1, <1>2, <2>2
  <2>4. i \in Int /\ b \in Int
    BY <1>2 DEF Bucket
  <2> QED
    BY <1>2, <1>4, <2>2, <2>3, <2>4 DEF Passed
<1>6. Visited' = Visited
  BY <1>1, <1>5 DEF Visited
<1>7. b + 1 < Size => walk'.cell <= Len(table'[b + 1]) + 1
  <2>1. b + 1 < Size => table[b + 1] \in Seq(Ptr)
    BY <1>2 DEF Bucket
  <2> QED
    BY <1>1, <1>4, <2>1
<1>8. WalkInv'
  BY <1>1, <1>4, <1>6, <1>7 DEF IInv, WalkInv
<1> QED
  BY <1>1, <1>3, <1>8, GatherFrame

LEMMA GatherReturnStep ==
  ASSUME IInv, GatherReturn
  PROVE  IInv'
<1>1. UNCHANGED <<table, count>> /\ walk' = Idle
  BY DEF GatherReturn
<1>2. 0 \in 0 .. Size /\ 1 \in Nat \ {0} /\ <<>> \in Seq(Ptr)
  BY HashAssumption
<1>3. walk' \in [busy : BOOLEAN, bucket : 0 .. Size, cell : Nat \ {0},
                 out : Seq(Ptr), alloc : Nat]
  BY <1>1, <1>2 DEF Idle
<1>4. WalkInv'
  BY <1>1 DEF WalkInv, Idle
<1> QED
  BY <1>1, <1>3, <1>4, GatherFrame

-----------------------------------------------------------------------------
LEMMA InitInv == h_open => IInv
<1> SUFFICES ASSUME h_open PROVE IInv
  OBVIOUS
<1>1. /\ table = [i \in Bucket |-> <<>>] /\ count = 0 /\ walk = Idle
  BY DEF h_open
<1>2. 0 \in 0 .. Size /\ 1 \in Nat \ {0} /\ <<>> \in Seq(Ptr)
  BY HashAssumption
<1>3. TypeOK
  BY <1>1, <1>2 DEF TypeOK, Idle
<1>4. Live = {}
  BY <1>1 DEF Live
<1> QED
  BY <1>1, <1>3, <1>4, FS_EmptySet
     DEF IInv, Placed, Distinct, CountExact, WalkInv, Idle

LEMMA StepInv == IInv /\ [Next]_vars => IInv'
<1> SUFFICES ASSUME IInv, [Next]_vars PROVE IInv'
  OBVIOUS
<1>1. ASSUME NEW p \in Ptr, h_insert(p) PROVE IInv'
  BY <1>1, InsertStep
<1>2. ASSUME NEW k \in Key, h_delete(k) PROVE IInv'
  BY <1>2, DeleteStep
<1>3. CASE UNCHANGED <<table, count, walk>>
  BY <1>3 DEF IInv, TypeOK, Placed, Distinct, Live, CountExact, WalkInv,
              Visited, Passed
<1>4. ASSUME NEW k \in Key, h_search(k) PROVE IInv'
  BY <1>3, <1>4 DEF h_search
<1>5. CASE h_count
  BY <1>3, <1>5 DEF h_count
<1>6. CASE h_gather_data
  BY <1>6, GatherAllocStep, GatherCellStep, GatherBucketStep, GatherReturnStep
     DEF h_gather_data
<1>7. CASE UNCHANGED vars
  BY <1>3, <1>7 DEF vars
<1> QED
  BY <1>1, <1>2, <1>4, <1>5, <1>6, <1>7 DEF Next

LEMMA Inductive == Spec => []IInv
<1> QED
  BY InitInv, StepInv, PTL DEF Spec

\* The variables of a hash table keep their types.
THEOREM TypeCorrect == Spec => []TypeOK
<1>1. IInv => TypeOK
  BY DEF IInv
<1> QED
  BY <1>1, Inductive, PTL

\* However insertions, deletions and gathers follow each other, no key has two
\* records in the table.
THEOREM KeysAreUnique == Spec => []UniqueKeys
<1>1. IInv => UniqueKeys
  <2> SUFFICES ASSUME IInv,
                      NEW i1 \in Bucket, NEW i2 \in Bucket,
                      NEW j1 \in DOMAIN table[i1], NEW j2 \in DOMAIN table[i2],
                      KeyOf[table[i1][j1]] = KeyOf[table[i2][j2]]
               PROVE  i1 = i2 /\ j1 = j2
    BY DEF UniqueKeys
  <2>1. i1 = i2
    BY DEF IInv, Placed
  <2> QED
    BY <2>1 DEF IInv, Distinct
<1> QED
  BY <1>1, Inductive, PTL

\* ht->count is always the number of records in the chains.
THEOREM CountIsExact == Spec => []CountExact
<1>1. IInv => CountExact
  BY DEF IInv
<1> QED
  BY <1>1, Inductive, PTL

\* h_gather_data never writes behind the slots it allocated from ht->count and
\* leaves none of them unset.
THEOREM GatherStaysInBuffer == Spec => []GatherFits
<1>1. IInv => GatherFits
  <2> SUFFICES ASSUME IInv, walk.busy
               PROVE  /\ Len(walk.out) <= walk.alloc
                      /\ walk.bucket = Size => Len(walk.out) = walk.alloc
    BY DEF GatherFits
  <2>1. /\ walk.alloc = Cardinality(Live)
        /\ Cardinality(Visited) = Len(walk.out)
        /\ IsFiniteSet(Live) /\ IsFiniteSet(Visited)
    BY DEF IInv, WalkInv, CountExact
  <2>2. Visited \subseteq Live
    BY DEF Visited, Live
  <2>3. Cardinality(Visited) <= Cardinality(Live)
    BY <2>1, <2>2, FS_Subset
  <2>4. ASSUME walk.bucket = Size PROVE Visited = Live
    <3>1. \A i \in Bucket : i < walk.bucket
      BY <2>4, HashAssumption DEF Bucket
    <3> QED
      BY <3>1 DEF Visited, Live, Passed
  <2> QED
    BY <2>1, <2>3, <2>4
<1> QED
  BY <1>1, Inductive, PTL

-----------------------------------------------------------------------------
(* The chained table implements the keyed store, for every set of records   *)
(* and keys, every hash function and every number of buckets: a step of an  *)
(* operation maps to the operation of the store, the steps of a gather up   *)
(* to its return to stutters.                                               *)

\* A search finds the one live record of a key, if there is one.
FoundIsLive ==
  \A k \in Key :
    \/ Found(k) = NULL /\ \A q \in Live : KeyOf[q] # k
    \/ Found(k) \in Live /\ KeyOf[Found(k)] = k
       /\ \A q \in Live : KeyOf[q] = k => q = Found(k)

LEMMA SearchFinds == IInv => FoundIsLive
<1> SUFFICES ASSUME IInv, NEW k \in Key
             PROVE  \/ Found(k) = NULL /\ \A q \in Live : KeyOf[q] # k
                    \/ Found(k) \in Live /\ KeyOf[Found(k)] = k
                       /\ \A q \in Live : KeyOf[q] = k => q = Found(k)
  BY DEF FoundIsLive
<1> DEFINE i == BucketOf(k)
<1>1. i \in Bucket
  BY BucketOfType
<1>2. ASSUME NEW q \in Live, KeyOf[q] = k
      PROVE  \E j \in Matches(i, k) : table[i][j] = q
  <2>1. PICK b \in Bucket : \E j \in DOMAIN table[b] : table[b][j] = q
    BY DEF Live
  <2>2. PICK j \in DOMAIN table[b] : table[b][j] = q
    BY <2>1
  <2>3. b = i
    BY <1>2, <2>2 DEF IInv, Placed
  <2> QED
    BY <1>2, <2>2, <2>3 DEF Matches
<1>3. CASE Matches(i, k) = {}
  BY <1>2, <1>3 DEF Found
<1>4. CASE Matches(i, k) # {}
  <2> DEFINE m == FirstMatch(i, k)
  <2>1. m \in 1 .. Len(table[i]) /\ KeyOf[table[i][m]] = k
    BY <1>1, <1>4, FirstMatchProperties DEF IInv
  <2>2. table[i] \in Seq(Ptr) /\ DOMAIN table[i] = 1 .. Len(table[i])
    BY <1>1 DEF IInv, TypeOK
  <2>3. Found(k) = table[i][m]
    BY <1>4 DEF Found
  <2> HIDE DEF m, i
  <2>4. Found(k) \in Live /\ KeyOf[Found(k)] = k
    BY <1>1, <2>1, <2>2, <2>3 DEF Live
  <2>5. ASSUME NEW q \in Live, KeyOf[q] = k PROVE q = Found(k)
    <3>1. PICK j \in Matches(i, k) : table[i][j] = q
      BY <1>2, <2>5
    <3>2. j = m
      BY <1>1, <2>1, <2>2, <3>1 DEF IInv, Distinct, Matches
    <3> QED
      BY <2>3, <3>1, <3>2
  <2> QED
    BY <2>4, <2>5
<1> QED
  BY <1>3, <1>4

LEMMA SearchFindsNext == IInv' => FoundIsLive'
BY SearchFinds, PTL

LEMMA NullIsNotLive == NULL \notin Live
BY HashAssumption DEF Live

\* The cardinality of the module of the store is the usual one.
LEMMA SameCardinality ==
  ASSUME NEW S
  PROVE  Abstract!Cardinality(S) = Cardinality(S)
BY DEF Abstract!Cardinality, Cardinality

\* The store holds the live records.
LEMMA HeldIsLive ==
  ASSUME IInv
  PROVE  Abstract!Held = Live
<1>1. FoundIsLive
  BY SearchFinds
<1>2. ASSUME NEW q \in Live PROVE q = Found(KeyOf[q]) /\ KeyOf[q] \in Key
  <2>1. KeyOf[q] \in Key
    BY HashAssumption DEF Live
  <2> QED
    BY <1>1, <2>1 DEF FoundIsLive
<1>3. Abstract!Held = {Found(k) : k \in Key} \ {NULL}
  BY DEF Abstract!Held, StoreOf
<1> QED
  BY <1>1, <1>2, <1>3, NullIsNotLive DEF FoundIsLive

-----------------------------------------------------------------------------
\* An operation that leaves the chains alone leaves the store alone.
LEMMA SameTable ==
  ASSUME table' = table
  PROVE  StoreOf' = StoreOf
BY DEF StoreOf, Found, Matches, FirstMatch

LEMMA InsertMaps ==
  ASSUME IInv, NEW p \in Ptr, h_insert(p)
  PROVE  Abstract!Insert(p)
<1> DEFINE c == KeyOf[p]
<1>1. c \in Key /\ FoundIsLive /\ FoundIsLive'
  BY HashAssumption, SearchFinds, SearchFindsNext, InsertStep
<1>2. StoreOf[c] = Found(c)
  BY <1>1 DEF StoreOf
<1>3. Found(c) = NULL <=> Matches(BucketOf(c), c) = {}
  <2>1. CASE Matches(BucketOf(c), c) = {}
    BY <2>1 DEF Found
  <2>2. CASE Matches(BucketOf(c), c) # {}
    <3>1. /\ FirstMatch(BucketOf(c), c) \in 1 .. Len(table[BucketOf(c)])
          /\ table[BucketOf(c)] \in Seq(Ptr)
      BY <1>1, <2>2, BucketOfType, FirstMatchProperties DEF IInv, TypeOK
    <3> QED
      BY <2>2, <3>1, HashAssumption DEF Found
  <2> QED
    BY <2>1, <2>2
<1>4. CASE Matches(BucketOf(c), c) # {}
  <2>1. table' = table /\ ret' = [op |-> "insert", val |-> 1]
    BY <1>4 DEF h_insert
  <2> QED
    BY <1>2, <1>3, <1>4, <2>1, SameTable DEF Abstract!Insert
<1>5. CASE Matches(BucketOf(c), c) = {}
  <2>1. ret' = [op |-> "insert", val |-> 0] /\ Live' = Live \cup {p}
    BY <1>5, InsertStep DEF h_insert
  <2>2. ASSUME NEW k \in Key PROVE Found(k)' = IF k = c THEN p ELSE Found(k)
    <3>1. CASE k = c
      BY <1>1, <2>1, <3>1 DEF FoundIsLive
    <3>2. CASE k # c
      BY <1>1, <2>1, <3>2 DEF FoundIsLive
    <3> QED
      BY <3>1, <3>2
  <2>3. StoreOf' = [StoreOf EXCEPT ![c] = p]
    BY <2>2 DEF StoreOf
  <2> QED
    BY <1>2, <1>3, <1>5, <2>1, <2>3 DEF Abstract!Insert
<1> QED
  BY <1>4, <1>5

LEMMA DeleteMaps ==
  ASSUME IInv, NEW c \in Key, h_delete(c)
  PROVE  Abstract!Delete(c)
<1>1. FoundIsLive /\ FoundIsLive'
  BY SearchFinds, SearchFindsNext, DeleteStep
<1>2. ret' = [op |-> "delete", val |-> StoreOf[c]]
  BY DEF h_delete, StoreOf
<1>3. CASE Matches(BucketOf(c), c) = {}
  <2>1. table' = table /\ StoreOf[c] = NULL
    BY <1>3 DEF h_delete, StoreOf, Found
  <2>2. StoreOf' = [StoreOf EXCEPT ![c] = NULL]
    BY <2>1, SameTable DEF StoreOf
  <2> QED
    BY <1>2, <2>2 DEF Abstract!Delete
<1>4. CASE Matches(BucketOf(c), c) # {}
  <2>1. Live' = Live \ {Found(c)}
    BY <1>4, DeleteStep
  <2>2. ASSUME NEW k \in Key PROVE Found(k)' = IF k = c THEN NULL ELSE Found(k)
    <3>1. CASE k = c
      BY <1>1, <2>1, <3>1 DEF FoundIsLive
    <3>2. CASE k # c
      BY <1>1, <2>1, <3>2, NullIsNotLive DEF FoundIsLive
    <3> QED
      BY <3>1, <3>2
  <2>3. StoreOf' = [StoreOf EXCEPT ![c] = NULL]
    BY <2>2 DEF StoreOf
  <2> QED
    BY <1>2, <2>3 DEF Abstract!Delete
<1> QED
  BY <1>3, <1>4

\* What a finished walk has written is what the store holds.
LEMMA GatherMaps ==
  ASSUME IInv, GatherReturn
  PROVE  Abstract!Gather
<1>1. /\ walk.busy /\ walk.bucket = Size
      /\ ret' = [op |-> "gather", val |-> walk.out]
      /\ table' = table
  BY DEF GatherReturn
<1>2. Visited = Live
  <2>1. \A i \in Bucket : i < walk.bucket
    BY <1>1, HashAssumption DEF Bucket
  <2> QED
    BY <2>1 DEF Visited, Live, Passed
<1>3. /\ Live = {walk.out[n] : n \in DOMAIN walk.out}
      /\ Len(walk.out) = Cardinality(Live)
  BY <1>1, <1>2 DEF IInv, WalkInv
<1> QED
  BY <1>1, <1>3, HeldIsLive, SameTable, SameCardinality DEF Abstract!Gather

-----------------------------------------------------------------------------
LEMMA InitMaps == h_open => Abstract!Init
<1> SUFFICES ASSUME h_open PROVE Abstract!Init
  OBVIOUS
<1>1. \A k \in Key : Found(k) = NULL
  BY BucketOfType DEF h_open, Found, Matches
<1> QED
  BY <1>1 DEF h_open, StoreOf, Abstract!Init

LEMMA StepMaps == IInv /\ [Next]_vars => [Abstract!Next]_(Abstract!vars)
<1> SUFFICES ASSUME IInv, [Next]_vars
             PROVE  Abstract!Next \/ UNCHANGED <<StoreOf, ret>>
  BY DEF Abstract!vars
<1>1. ASSUME NEW p \in Ptr, h_insert(p) PROVE Abstract!Next
  BY <1>1, InsertMaps DEF Abstract!Next
<1>2. ASSUME NEW k \in Key, h_delete(k) PROVE Abstract!Next
  BY <1>2, DeleteMaps DEF Abstract!Next
<1>3. ASSUME NEW k \in Key, h_search(k) PROVE Abstract!Next
  <2>1. table' = table /\ ret' = [op |-> "search", val |-> StoreOf[k]]
    BY <1>3 DEF h_search, StoreOf
  <2> QED
    BY <2>1, SameTable DEF Abstract!Next, Abstract!Search
<1>4. CASE h_count
  <2>1. table' = table /\ ret' = [op |-> "count", val |-> Cardinality(Live)]
    BY <1>4 DEF h_count, IInv, CountExact
  <2> QED
    BY <2>1, SameTable, HeldIsLive, SameCardinality DEF Abstract!Next, Abstract!Count
<1>5. CASE GatherReturn
  BY <1>5, GatherMaps DEF Abstract!Next
<1>6. CASE GatherAlloc \/ GatherCell \/ GatherBucket
  BY <1>6, SameTable DEF GatherAlloc, GatherCell, GatherBucket
<1>7. CASE UNCHANGED vars
  BY <1>7, SameTable DEF vars
<1> QED
  BY <1>1, <1>2, <1>3, <1>4, <1>5, <1>6, <1>7 DEF Next, h_gather_data

\* The chained table of mpiP-hash.c is a keyed store: what is inserted is found
\* until it is deleted, a second record of its key is refused, the count and the
\* gather are those of the records held.
THEOREM TableIsStore == Spec => RefinesStore
<1> QED
  BY InitMaps, StepMaps, Inductive, PTL DEF Spec, RefinesStore, Abstract!Spec
=============================================================================
