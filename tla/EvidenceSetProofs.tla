------------------------- MODULE EvidenceSetProofs -------------------------
(***************************************************************************)
(* tools/evidence_set_check.py for every pool of entries, whatever is      *)
(* altered on the way and however often: what validate() lets through, what*)
(* the Merkle root binds, and why the order of the sources and more held   *)
(* content never change a verdict for the worse.                           *)
(***************************************************************************)
EXTENDS EvidenceSet, FiniteSetTheorems, SequenceTheorems, TLAPS

-----------------------------------------------------------------------------
(* Numbers *)

\* What holds of 0 and goes on by one holds up to any number.
LEMMA UpToAny ==
  ASSUME NEW N \in Nat, NEW S, 0 \in S, \A n \in 0..N : n < N /\ n \in S => n + 1 \in S
  PROVE  0..N \subseteq S
<1> DEFINE T == (0..N) \ S
<1> SUFFICES ASSUME T # {} PROVE FALSE
  OBVIOUS
<1>1. T \subseteq Nat
  OBVIOUS
<1>2. \E x \in T : \A y \in T : ~(<<y, x>> \in OpToRel(<, Nat))
  BY <1>1, NatLessThanWellFounded, WFMin, Zenon
<1>3. PICK x \in T : \A y \in T : ~(y < x)
  BY <1>1, <1>2 DEF OpToRel
<1>4. x # 0 /\ x - 1 \in 0..N /\ x - 1 < N /\ (x - 1) + 1 = x
  OBVIOUS
<1>5. x - 1 \notin T
  BY <1>3, <1>4
<1>6. QED BY <1>4, <1>5

-----------------------------------------------------------------------------
(* The levels of the Merkle tree *)

Below(leaves, up, n) == IF n = 0 THEN leaves ELSE Join(up[n-1])
Stack(leaves, up, N) == up = [n \in 0..N |-> Below(leaves, up, n)]

\* The levels exist: each is made from the one below.
LEMMA StackExists ==
  ASSUME NEW leaves, NEW N \in Nat
  PROVE  \E up : Stack(leaves, up, N)
<1> DEFINE S == {n \in Nat : \E up : Stack(leaves, up, n)}
<1>1. 0 \in S
  <2>1. PICK up : up = [n \in 0..0 |-> leaves]
    OBVIOUS
  <2>2. up = [n \in 0..0 |-> Below(leaves, up, n)]
    BY <2>1 DEF Below
  <2>3. QED BY <2>2 DEF Stack
<1>2. ASSUME NEW m \in 0..N, m \in S PROVE m + 1 \in S
  <2>1. PICK up : up = [n \in 0..m |-> Below(leaves, up, n)]
    BY <1>2 DEF Stack
  <2>2. PICK g : g = [n \in 0..(m+1) |-> Below(leaves, up, n)]
    OBVIOUS
  <2>3. \A n \in 0..m : n \in 0..(m+1) /\ up[n] = Below(leaves, up, n)
    BY <2>1
  <2>4. \A n \in 0..m : g[n] = up[n]
    BY <2>2, <2>3
  <2>5. \A n \in 0..(m+1) : n # 0 => n - 1 \in 0..m
    BY <1>2
  <2>6. \A n \in 0..(m+1) : Below(leaves, g, n) = Below(leaves, up, n)
    BY <2>4, <2>5 DEF Below
  <2>7. g = [n \in 0..(m+1) |-> Below(leaves, g, n)]
    BY <2>2, <2>6
  <2>8. QED BY <1>2, <2>7 DEF Stack
<1>3. 0..N \subseteq S
  <2> HIDE DEF S
  <2>1. QED BY <1>1, <1>2, UpToAny
<1>4. N \in S
  BY <1>3
<1>5. QED BY <1>4

\* evidence_root()'s loop: the leaves, then each level from the one below it.
LEMMA LevelsAre ==
  ASSUME NEW leaves, Len(leaves) \in Nat
  PROVE  /\ Levels(leaves)[0] = leaves
         /\ \A n \in 1..Len(leaves) : Levels(leaves)[n] = Join(Levels(leaves)[n-1])
<1>1. PICK g : Stack(leaves, g, Len(leaves))
  BY StackExists
<1>2. Levels(leaves) = [n \in 0..Len(leaves) |-> Below(leaves, Levels(leaves), n)]
  BY <1>1 DEF Levels, Stack, Below
<1>3. PICK up : up = Levels(leaves)
  OBVIOUS
<1>4. up = [n \in 0..Len(leaves) |-> Below(leaves, up, n)]
  BY <1>2, <1>3
<1>5. up[0] = leaves /\ \A n \in 1..Len(leaves) : up[n] = Join(up[n-1])
  BY <1>4 DEF Below
<1>6. QED BY <1>3, <1>5

\* A level has c nodes.
Row(l, c) == c \in Nat /\ c > 0 /\ l = [k \in 1..c |-> l[k]]

\* Its length is their number.
LEMMA RowLen ==
  ASSUME NEW l, NEW c, Row(l, c)
  PROVE  Len(l) = c /\ DOMAIN l = 1..c
<1>1. PICK T : T = {l[k] : k \in 1..c}
  OBVIOUS
<1>2. \A k \in 1..c : l[k] \in T
  BY <1>1
<1>3. l \in [1..c -> T] /\ c \in Nat
  BY <1>2 DEF Row
<1>4. l \in Seq(T)
  BY <1>3, SeqDef
<1>5. QED BY <1>3, <1>4, LenProperties

\* A leaf is the hash of four members, a node of two digests.
LeafTerm == Int \X Int \X Int \X Int

\* The leaf x is reached from t by going down through nodes.
Walk(f, n, t, x) ==
  /\ n \in Nat /\ f = [i \in 0..n |-> f[i]] /\ f[0] = t /\ f[n] = x
  /\ \A i \in 0..n : i < n => \E a, b : f[i] = <<a, b>> /\ f[i+1] \in {a, b}
Under(x, t) == x \in LeafTerm /\ \E n \in Nat : \E f : Walk(f, n, t, x)

\* No leaf is a node, and neither is the absent root.
LEMMA LeafIsNoNode ==
  ASSUME NEW x \in LeafTerm, NEW a, NEW b
  PROVE  x # <<a, b>> /\ x # <<>> /\ <<a, b>> # <<>>
<1>1. Len(x) = 4 /\ Len(<<a, b>>) = 2 /\ Len(<<>>) = 0
  BY DEF LeafTerm
<1>2. QED BY <1>1

\* Under a leaf is that leaf alone.
LEMMA UnderLeaf ==
  ASSUME NEW x, NEW t \in LeafTerm
  PROVE  Under(x, t) <=> x = t
<1>1. ASSUME x = t PROVE Under(x, t)
  <2>1. PICK f : f = [i \in 0..0 |-> t]
    OBVIOUS
  <2>2. f = [i \in 0..0 |-> f[i]] /\ f[0] = t
    BY <2>1
  <2>3. Walk(f, 0, t, x)
    BY <1>1, <2>2 DEF Walk
  <2>4. QED BY <1>1, <2>3 DEF Under
<1>2. ASSUME Under(x, t) PROVE x = t
  <2>1a. PICK n \in Nat : \E f : Walk(f, n, t, x)
    BY <1>2 DEF Under
  <2>1. PICK f : Walk(f, n, t, x)
    BY <2>1a
  <2>2. n = 0
    <3> SUFFICES ASSUME n # 0 PROVE FALSE
      OBVIOUS
    <3>1. 0 \in 0..n /\ 0 < n
      OBVIOUS
    <3>2. PICK a, b : f[0] = <<a, b>>
      BY <2>1, <3>1 DEF Walk
    <3>3. t = <<a, b>>
      BY <2>1, <3>2 DEF Walk
    <3>4. QED BY <3>3, LeafIsNoNode
  <2>3. QED BY <2>1, <2>2 DEF Walk
<1>3. QED BY <1>1, <1>2

\* Under a node is what is under either of its two.
LEMMA UnderNode ==
  ASSUME NEW x, NEW a, NEW b
  PROVE  Under(x, <<a, b>>) <=> Under(x, a) \/ Under(x, b)
<1>1. ASSUME NEW c \in {a, b}, Under(x, c) PROVE Under(x, <<a, b>>)
  <2>1a. PICK n \in Nat : \E f : Walk(f, n, c, x)
    BY <1>1 DEF Under
  <2>1. PICK f : Walk(f, n, c, x)
    BY <2>1a
  <2>2. PICK t : t = <<a, b>>
    OBVIOUS
  <2>3. PICK g : g = [i \in 0..(n+1) |-> IF i = 0 THEN t ELSE f[i-1]]
    OBVIOUS
  <2>4. g[0] = t /\ \A i \in 0..n : i + 1 \in 0..(n+1) /\ g[i+1] = f[i]
    <3>1. \A i \in 0..n : i + 1 \in 0..(n+1) /\ i + 1 # 0 /\ (i + 1) - 1 = i
      OBVIOUS
    <3>2. QED BY <2>3, <3>1
  <2>5. ASSUME NEW i \in 0..(n+1), i < n + 1
        PROVE  \E u, v : g[i] = <<u, v>> /\ g[i+1] \in {u, v}
    <3>1. CASE i = 0
      BY <1>1, <2>1, <2>2, <2>4, <3>1 DEF Walk
    <3>2. CASE i # 0
      <4>1. i - 1 \in 0..n /\ i - 1 < n /\ i \in 0..n /\ (i - 1) + 1 = i
        BY <2>5, <3>2
      <4>2. PICK u, v : f[i-1] = <<u, v>> /\ f[(i-1)+1] \in {u, v}
        BY <2>1, <4>1 DEF Walk
      <4>3. g[i] = f[i-1] /\ g[i+1] = f[i]
        BY <2>4, <4>1
      <4>4. QED BY <4>1, <4>2, <4>3
    <3>3. QED BY <3>1, <3>2
  <2>6. n + 1 \in Nat /\ g = [i \in 0..(n+1) |-> g[i]] /\ g[n+1] = x
    BY <2>1, <2>3, <2>4 DEF Walk
  <2>7. Walk(g, n + 1, t, x)
    BY <2>4, <2>5, <2>6 DEF Walk
  <2>8. QED BY <1>1, <2>2, <2>6, <2>7 DEF Under
<1>2. ASSUME Under(x, <<a, b>>) PROVE Under(x, a) \/ Under(x, b)
  <2>1a. PICK n \in Nat : \E f : Walk(f, n, <<a, b>>, x)
    BY <1>2 DEF Under
  <2>1. PICK f : Walk(f, n, <<a, b>>, x)
    BY <2>1a
  <2>2. n # 0
    <3>1. x \in LeafTerm
      BY <1>2 DEF Under
    <3>2. n = 0 => x = <<a, b>>
      BY <2>1 DEF Walk
    <3>3. QED BY <3>1, <3>2, LeafIsNoNode
  <2>3. n - 1 \in Nat /\ 0 \in 0..n /\ 0 < n /\ 0 + 1 = 1
    BY <2>2
  <2>4. PICK u, v : f[0] = <<u, v>> /\ f[0+1] \in {u, v}
    BY <2>1, <2>3 DEF Walk
  <2>5. f[0] = <<a, b>>
    BY <2>1 DEF Walk
  <2>6. u = a /\ v = b
    BY <2>4, <2>5
  <2>7. PICK g : g = [i \in 0..(n-1) |-> f[i+1]]
    OBVIOUS
  <2>8. \A i \in 0..(n-1) : i + 1 \in 0..n /\ g[i] = f[i+1]
    BY <2>3, <2>7
  <2>9. ASSUME NEW i \in 0..(n-1), i < n - 1
        PROVE  \E p, q : g[i] = <<p, q>> /\ g[i+1] \in {p, q}
    <3>1. i + 1 \in 0..n /\ i + 1 < n /\ i + 1 \in 0..(n-1)
      BY <2>9
    <3>2. PICK p, q : f[i+1] = <<p, q>> /\ f[(i+1)+1] \in {p, q}
      BY <2>1, <3>1 DEF Walk
    <3>3. g[i] = f[i+1] /\ g[i+1] = f[(i+1)+1]
      BY <2>8, <3>1
    <3>4. QED BY <3>2, <3>3
  <2>10. g = [i \in 0..(n-1) |-> g[i]] /\ g[0] = f[0+1] /\ g[n-1] = x
    <3>1. 0 \in 0..(n-1) /\ n - 1 \in 0..(n-1) /\ (n - 1) + 1 = n
      BY <2>3
    <3>2. QED BY <2>1, <2>7, <2>8, <3>1 DEF Walk
  <2>11. Walk(g, n - 1, f[0+1], x)
    BY <2>3, <2>9, <2>10 DEF Walk
  <2>12. Under(x, f[0+1])
    BY <1>2, <2>3, <2>11 DEF Under
  <2>13. QED BY <2>4, <2>6, <2>12
<1>3. QED BY <1>1, <1>2

Half(c) == (c + 1) \div 2

\* Half the nodes, rounded up, are on the next level.
LEMMA HalfIs ==
  ASSUME NEW c \in Nat, c > 0
  PROVE  /\ Half(c) \in Nat /\ Half(c) > 0
         /\ c > 1 => Half(c) < c
         /\ c = 1 => Half(c) = 1
         /\ \A i \in 1..Half(c) : 2*i - 1 \in 1..c /\ (2*i <= c => 2*i \in 1..c)
         /\ \A k \in 1..c : \E i \in 1..Half(c) : k = 2*i - 1 \/ (k = 2*i /\ 2*i <= c)
<1>1. /\ Half(c) \in Nat /\ Half(c) > 0
      /\ c > 1 => Half(c) < c
      /\ c = 1 => Half(c) = 1
      /\ \A i \in 1..Half(c) : 2*i - 1 \in 1..c /\ (2*i <= c => 2*i \in 1..c)
  BY DEF Half
<1>2. ASSUME NEW k \in 1..c PROVE \E i \in 1..Half(c) : k = 2*i - 1 \/ (k = 2*i /\ 2*i <= c)
  <2>1. PICK i : i = (k + 1) \div 2
    OBVIOUS
  <2>2. i \in 1..Half(c) /\ (k = 2*i - 1 \/ k = 2*i)
    BY <2>1 DEF Half
  <2>3. QED BY <2>2
<1>3. QED BY <1>1, <1>2

\* A level and the one made from it are over the same leaves: an odd last node is
\* promoted, none is lost or repeated.
LEMMA JoinKeeps ==
  ASSUME NEW l, NEW c, Row(l, c), NEW x
  PROVE  /\ Row(Join(l), Half(c))
         /\ (\E k \in 1..c : Under(x, l[k])) <=> (\E k \in 1..Half(c) : Under(x, Join(l)[k]))
<1>1. c \in Nat /\ c > 0 /\ Len(l) = c
  BY RowLen DEF Row
<1>2. PICK j : j = Join(l)
  OBVIOUS
<1>3. j = [i \in 1..Half(c) |-> IF 2 * i <= c THEN <<l[2*i - 1], l[2*i]>> ELSE l[2*i - 1]]
  BY <1>1, <1>2 DEF Join, Half
<1>4. \A i \in 1..Half(c) : j[i] = IF 2 * i <= c THEN <<l[2*i - 1], l[2*i]>> ELSE l[2*i - 1]
  BY <1>3
<1>5. Row(j, Half(c))
  BY <1>1, <1>3, HalfIs DEF Row
<1>6. ASSUME NEW i \in 1..Half(c)
      PROVE  Under(x, j[i]) <=> Under(x, l[2*i - 1]) \/ (2*i <= c /\ Under(x, l[2*i]))
  <2>1. CASE 2 * i <= c
    BY <1>4, <2>1, UnderNode
  <2>2. CASE ~(2 * i <= c)
    BY <1>4, <2>2
  <2>3. QED BY <2>1, <2>2
<1>7. ASSUME NEW k \in 1..c, Under(x, l[k]) PROVE \E i \in 1..Half(c) : Under(x, j[i])
  <2>1. PICK i \in 1..Half(c) : k = 2*i - 1 \/ (k = 2*i /\ 2*i <= c)
    BY <1>1, HalfIs
  <2>2. QED BY <1>6, <1>7, <2>1
<1>8. ASSUME NEW i \in 1..Half(c), Under(x, j[i]) PROVE \E k \in 1..c : Under(x, l[k])
  <2>1. 2*i - 1 \in 1..c /\ (2*i <= c => 2*i \in 1..c)
    BY <1>1, HalfIs
  <2>2. QED BY <1>6, <1>8, <2>1
<1>9. QED BY <1>2, <1>5, <1>7, <1>8

\* Every level is over the leaves, and there are always fewer nodes.
Shrunk(l, leaves, n, m) ==
  \E c \in Nat : /\ Row(l, c)
                 /\ c <= IF n < m THEN m - n ELSE 1
                 /\ \A x : (\E k \in 1..m : Under(x, leaves[k])) <=> (\E k \in 1..c : Under(x, l[k]))

LEMMA LevelKeeps ==
  ASSUME NEW leaves, NEW m, Row(leaves, m)
  PROVE  \A n \in 0..m : Shrunk(Levels(leaves)[n], leaves, n, m)
<1>1. m \in Nat /\ m > 0 /\ Len(leaves) = m
  BY RowLen DEF Row
<1>2. PICK up : up = Levels(leaves)
  OBVIOUS
<1>3. up[0] = leaves /\ \A n \in 1..m : up[n] = Join(up[n-1])
  BY <1>1, <1>2, LevelsAre
<1> DEFINE S == {n \in Nat : Shrunk(up[n], leaves, n, m)}
<1>4. 0 \in S
  <2>1. Shrunk(leaves, leaves, 0, m)
    BY <1>1 DEF Shrunk
  <2>2. QED BY <1>3, <2>1
<1>5. ASSUME NEW n \in 0..m, n < m, n \in S PROVE n + 1 \in S
  <2>1. n + 1 \in 1..m /\ (n + 1) - 1 = n /\ n + 1 \in Nat
    BY <1>1, <1>5
  <2>2. up[n+1] = Join(up[n])
    BY <1>3, <2>1
  <2>3. PICK c \in Nat : /\ Row(up[n], c)
                         /\ c <= m - n
                         /\ \A x : (\E k \in 1..m : Under(x, leaves[k])) <=> (\E k \in 1..c : Under(x, up[n][k]))
    BY <1>5 DEF Shrunk
  <2>4. /\ c > 0 /\ Half(c) \in Nat /\ Half(c) > 0
        /\ c > 1 => Half(c) < c
        /\ c = 1 => Half(c) = 1
    BY <2>3, HalfIs DEF Row
  <2>5. Half(c) <= IF n + 1 < m THEN m - (n + 1) ELSE 1
    BY <1>1, <1>5, <2>3, <2>4
  <2>6. /\ Row(Join(up[n]), Half(c))
        /\ \A x : (\E k \in 1..c : Under(x, up[n][k])) <=> (\E k \in 1..Half(c) : Under(x, Join(up[n])[k]))
    BY <2>3, JoinKeeps
  <2>7. Shrunk(Join(up[n]), leaves, n + 1, m)
    BY <2>3, <2>4, <2>5, <2>6 DEF Shrunk
  <2>8. QED BY <2>1, <2>2, <2>7
<1>6. 0..m \subseteq S
  <2> HIDE DEF S
  <2>1. QED BY <1>1, <1>4, <1>5, UpToAny
<1>7. QED BY <1>2, <1>6

\* The root binds its leaves: exactly they are under it. It is never absent.
LEMMA RootIsOver ==
  ASSUME NEW leaves, NEW m, Row(leaves, m), \A k \in 1..m : leaves[k] \in LeafTerm
  PROVE  /\ \A x : Under(x, MerkleRoot(leaves)) <=> \E k \in 1..m : x = leaves[k]
         /\ MerkleRoot(leaves) # <<>>
<1>1. m \in Nat /\ m > 0 /\ Len(leaves) = m /\ m \in 0..m /\ ~(m < m) /\ 1 \in 1..m
  BY RowLen DEF Row
<1>2. PICK l : l = Levels(leaves)[m]
  OBVIOUS
<1>3. Shrunk(l, leaves, m, m)
  BY <1>1, <1>2, LevelKeeps
<1>4. PICK c \in Nat : /\ Row(l, c) /\ c <= 1
                       /\ \A x : (\E k \in 1..m : Under(x, leaves[k])) <=> (\E k \in 1..c : Under(x, l[k]))
  BY <1>1, <1>3 DEF Shrunk
<1>5. c = 1
  BY <1>4 DEF Row
<1>6. leaves # <<>>
  BY <1>1
<1>7. MerkleRoot(leaves) = l[1]
  BY <1>1, <1>2, <1>6 DEF MerkleRoot
<1>8. \A x : Under(x, l[1]) <=> \E k \in 1..m : Under(x, leaves[k])
  BY <1>4, <1>5
<1>9. \A x : Under(x, l[1]) <=> \E k \in 1..m : x = leaves[k]
  BY <1>8, UnderLeaf
<1>10. l[1] # <<>>
  <2>1. leaves[1] \in LeafTerm /\ Under(leaves[1], l[1])
    BY <1>1, <1>9
  <2>2a. PICK n \in Nat : \E f : Walk(f, n, l[1], leaves[1])
    BY <2>1 DEF Under
  <2>2. PICK f : Walk(f, n, l[1], leaves[1])
    BY <2>2a
  <2>3. CASE n = 0
    <3>1. l[1] = leaves[1]
      BY <2>2, <2>3 DEF Walk
    <3>2. QED BY <2>1, <3>1, LeafIsNoNode
  <2>4. CASE n # 0
    <3>1. 0 \in 0..n /\ 0 < n
      BY <2>4
    <3>2. PICK a, b : l[1] = <<a, b>>
      BY <2>2, <3>1 DEF Walk
    <3>3. QED BY <2>1, <3>2, LeafIsNoNode
  <2>5. QED BY <2>3, <2>4
<1>11. QED BY <1>7, <1>9, <1>10

-----------------------------------------------------------------------------
(* sorted() *)

\* The order of the keys, member by member.
LEMMA LessIs ==
  ASSUME NEW a \in LeafTerm, NEW b \in LeafTerm
  PROVE  Less(a, b) <=>
           \/ a[1] < b[1]
           \/ a[1] = b[1] /\ a[2] < b[2]
           \/ a[1] = b[1] /\ a[2] = b[2] /\ a[3] < b[3]
           \/ a[1] = b[1] /\ a[2] = b[2] /\ a[3] = b[3] /\ a[4] < b[4]
<1>1. /\ \A j : j \in 1..(1-1) <=> FALSE
      /\ \A j : j \in 1..(2-1) <=> j = 1
      /\ \A j : j \in 1..(3-1) <=> j = 1 \/ j = 2
      /\ \A j : j \in 1..(4-1) <=> j = 1 \/ j = 2 \/ j = 3
      /\ \A i : i \in 1..4 <=> i = 1 \/ i = 2 \/ i = 3 \/ i = 4
  OBVIOUS
<1> DEFINE At(i) == a[i] < b[i] /\ \A j \in 1..(i-1) : a[j] = b[j]
<1>2. /\ At(1) <=> a[1] < b[1]
      /\ At(2) <=> a[1] = b[1] /\ a[2] < b[2]
      /\ At(3) <=> a[1] = b[1] /\ a[2] = b[2] /\ a[3] < b[3]
      /\ At(4) <=> a[1] = b[1] /\ a[2] = b[2] /\ a[3] = b[3] /\ a[4] < b[4]
  BY <1>1
<1>3. Less(a, b) <=> \E i \in 1..4 : At(i)
  BY DEF Less
<1> HIDE DEF At
<1>4. QED BY <1>1, <1>2, <1>3

\* It is a strict total order.
LEMMA LessOrders ==
  ASSUME NEW a \in LeafTerm, NEW b \in LeafTerm, NEW c \in LeafTerm
  PROVE  /\ ~Less(a, a)
         /\ Less(a, b) /\ Less(b, c) => Less(a, c)
         /\ Less(a, b) \/ a = b \/ Less(b, a)
<1>1. /\ a = <<a[1], a[2], a[3], a[4]>> /\ b = <<b[1], b[2], b[3], b[4]>>
      /\ a[1] \in Int /\ a[2] \in Int /\ a[3] \in Int /\ a[4] \in Int
      /\ b[1] \in Int /\ b[2] \in Int /\ b[3] \in Int /\ b[4] \in Int
      /\ c[1] \in Int /\ c[2] \in Int /\ c[3] \in Int /\ c[4] \in Int
  BY DEF LeafTerm
<1>2. ~Less(a, a)
  BY <1>1, LessIs
<1>3. Less(a, b) /\ Less(b, c) => Less(a, c)
  BY <1>1, LessIs
<1>4. ~Less(a, b) /\ ~Less(b, a) => a[1] = b[1] /\ a[2] = b[2] /\ a[3] = b[3] /\ a[4] = b[4]
  BY <1>1, LessIs
<1>5. QED BY <1>1, <1>2, <1>3, <1>4

\* The key, and the leaf, of an entry are four numbers.
LEMMA KeyType ==
  ASSUME NEW e \in SourceEntry
  PROVE  SortKey(e) \in LeafTerm /\ Leaf(e) = SortKey(e)
BY DEF SourceEntry, SortKey, Leaf, LeafTerm

\* The pinned entries are finitely many.
LEMMA PinnedType ==
  ASSUME NEW src \in Seq(SourceEntry)
  PROVE  /\ Len(src) \in Nat /\ DOMAIN src = 1..Len(src)
         /\ Pinned(src) \subseteq 1..Len(src)
         /\ \A i \in 1..Len(src) : src[i] \in SourceEntry
         /\ IsFiniteSet(Pinned(src)) /\ Cardinality(Pinned(src)) \in Nat
<1>1. /\ Len(src) \in Nat /\ DOMAIN src = 1..Len(src)
      /\ \A i \in 1..Len(src) : src[i] \in SourceEntry
  OBVIOUS
<1>2. Pinned(src) \subseteq 1..Len(src)
  BY <1>1 DEF Pinned
<1>3. IsFiniteSet(1..Len(src))
  BY <1>1, FS_Interval
<1>4. IsFiniteSet(Pinned(src))
  BY <1>2, <1>3, FS_Subset
<1>5. QED BY <1>1, <1>2, <1>4, FS_CardinalityType

Before(src, j, i) ==
  Less(SortKey(src[j]), SortKey(src[i])) \/ (SortKey(src[j]) = SortKey(src[i]) /\ j <= i)
Ahead(src, i) == {j \in Pinned(src) : Before(src, j, i)}

\* sorted() gives every pinned entry a place of its own.
LEMMA PlaceRange ==
  ASSUME NEW src \in Seq(SourceEntry)
  PROVE  /\ \A i \in Pinned(src) : Place(src, i) = Cardinality(Ahead(src, i))
         /\ \A i \in Pinned(src) : Place(src, i) \in 1..Cardinality(Pinned(src))
         /\ \A i, j \in Pinned(src) : Place(src, i) = Place(src, j) => i = j
<1>1. PICK P, n : P = Pinned(src) /\ n = Cardinality(P)
  OBVIOUS
<1>2. IsFiniteSet(P) /\ n \in Nat /\ \A i \in P : i \in Nat /\ SortKey(src[i]) \in LeafTerm
  BY <1>1, PinnedType, KeyType
<1>3. \A i \in P : Place(src, i) = Cardinality(Ahead(src, i))
  BY DEF Place, Ahead, Before
<1>4. \A i \in P : Ahead(src, i) \in SUBSET P /\ i \in Ahead(src, i)
  BY <1>1, <1>2 DEF Ahead, Before
<1>5. \A i \in P : Cardinality(Ahead(src, i)) \in 1..n
  <2> SUFFICES ASSUME NEW i \in P PROVE Cardinality(Ahead(src, i)) \in 1..n
    OBVIOUS
  <2>1. Ahead(src, i) \in SUBSET P /\ Ahead(src, i) # {}
    BY <1>4
  <2>2. IsFiniteSet(Ahead(src, i)) /\ Cardinality(Ahead(src, i)) <= n
    BY <1>1, <1>2, <2>1, FS_Subset
  <2>3. Cardinality(Ahead(src, i)) \in Nat /\ Cardinality(Ahead(src, i)) # 0
    BY <2>1, <2>2, FS_CardinalityType, FS_EmptySet
  <2>4. QED BY <1>2, <2>2, <2>3
<1>6. ASSUME NEW i \in P, NEW j \in P, i # j, Cardinality(Ahead(src, i)) = Cardinality(Ahead(src, j))
      PROVE  FALSE
  <2>1. ASSUME NEW u \in P, NEW v \in P, u # v, Before(src, u, v),
               Cardinality(Ahead(src, u)) = Cardinality(Ahead(src, v))
        PROVE  FALSE
    <3>1. ~Before(src, v, u)
      BY <1>2, <2>1, LessOrders DEF Before
    <3>2. ASSUME NEW w \in P, Before(src, w, u) PROVE Before(src, w, v)
      BY <1>2, <2>1, <3>2, LessOrders DEF Before
    <3>3. Ahead(src, u) \in SUBSET Ahead(src, v)
      BY <1>1, <3>2 DEF Ahead
    <3>4. v \in Ahead(src, v) /\ v \notin Ahead(src, u)
      BY <1>4, <3>1 DEF Ahead
    <3>5. IsFiniteSet(Ahead(src, v))
      BY <1>2, <1>4, FS_Subset
    <3>6. QED BY <2>1, <3>3, <3>4, <3>5, FS_Subset
  <2>2. Before(src, i, j) \/ Before(src, j, i)
    BY <1>2, LessOrders DEF Before
  <2>3. QED BY <1>6, <2>1, <2>2
<1>7. QED BY <1>1, <1>3, <1>5, <1>6

\* And every place an entry.
LEMMA PlaceIs ==
  ASSUME NEW src \in Seq(SourceEntry)
  PROVE  \A k \in 1..Cardinality(Pinned(src)) : \E i \in Pinned(src) : Place(src, i) = k
<1>1. PICK P, n : P = Pinned(src) /\ n = Cardinality(P)
  OBVIOUS
<1>2. IsFiniteSet(P) /\ n \in Nat
  BY <1>1, PinnedType
<1>3. PICK f : f = [i \in P |-> Place(src, i)]
  OBVIOUS
<1>4. f \in [P -> 1..n] /\ \A i, j \in P : f[i] = f[j] => i = j
  BY <1>1, <1>3, PlaceRange
<1>5. f \in Injection(P, 1..n)
  BY <1>4 DEF Injection, IsInjective
<1>6. IsFiniteSet(1..n) /\ Cardinality(1..n) = n
  BY <1>2, FS_Interval
<1>7. f \in Surjection(P, 1..n)
  BY <1>1, <1>5, <1>6, FS_Injection
<1>8. \A k \in 1..n : \E i \in P : f[i] = k
  BY <1>7 DEF Surjection
<1>9. QED BY <1>1, <1>3, <1>8

\* The leaf at a place is that of the entry sorted() puts there.
LEMMA LeavesAre ==
  ASSUME NEW src \in Seq(SourceEntry), NEW k \in 1..Cardinality(Pinned(src))
  PROVE  \E i \in Pinned(src) : Place(src, i) = k /\ Leaves(src)[k] = SortKey(src[i])
<1>1. PICK i : i = CHOOSE a \in Pinned(src) : Place(src, a) = k
  OBVIOUS
<1>2. i \in Pinned(src) /\ Place(src, i) = k
  BY <1>1, PlaceIs
<1>3. Leaves(src)[k] = Leaf(src[i])
  BY <1>1 DEF Leaves
<1>4. QED BY <1>2, <1>3, PinnedType, KeyType

\* Nothing is under the absent root.
LEMMA UnderNothing == ASSUME NEW x PROVE ~Under(x, <<>>)
<1> SUFFICES ASSUME Under(x, <<>>) PROVE FALSE
  OBVIOUS
<1>1. x \in LeafTerm
  BY DEF Under
<1>2. PICK t : t = <<>>
  OBVIOUS
<1>3a. PICK n \in Nat : \E f : Walk(f, n, t, x)
  BY <1>2 DEF Under
<1>3. PICK f : Walk(f, n, t, x)
  BY <1>3a
<1>4. CASE n = 0
  <2>1. x = t
    BY <1>3, <1>4 DEF Walk
  <2>2. QED BY <1>1, <1>2, <2>1, LeafIsNoNode
<1>5. CASE n # 0
  <2>1. 0 \in 0..n /\ 0 < n
    BY <1>5
  <2>2. PICK a, b : t = <<a, b>>
    BY <1>3, <2>1 DEF Walk
  <2>3. QED BY <1>1, <1>2, <2>2, LeafIsNoNode
<1>6. QED BY <1>4, <1>5

\* evidence_root() is absent exactly when nothing is pinned, and commits to the keys
\* of all the pinned entries and to no other.
LEMMA RootCommits ==
  ASSUME NEW src \in Seq(SourceEntry)
  PROVE  /\ EvidenceRoot(src) = <<>> <=> Pinned(src) = {}
         /\ \A x : Under(x, EvidenceRoot(src)) <=> \E i \in Pinned(src) : x = SortKey(src[i])
<1>1. PICK m, l : m = Cardinality(Pinned(src)) /\ l = Leaves(src)
  OBVIOUS
<1>2. m \in Nat /\ (m = 0 <=> Pinned(src) = {}) /\ EvidenceRoot(src) = MerkleRoot(l)
  BY <1>1, PinnedType, FS_EmptySet DEF EvidenceRoot
<1>3. \A k \in 1..m : \E i \in Pinned(src) : Place(src, i) = k /\ l[k] = SortKey(src[i])
  BY <1>1, LeavesAre
<1>4. CASE m = 0
  <2>1. 1..m = {}
    BY <1>4
  <2>2. l = <<>>
    BY <1>1, <1>4, <2>1 DEF Leaves
  <2>3. EvidenceRoot(src) = <<>>
    BY <1>2, <2>2 DEF MerkleRoot
  <2>4. QED BY <1>2, <1>4, <2>3, UnderNothing
<1>5. CASE m # 0
  <2>1. Row(l, m)
    BY <1>1, <1>2, <1>5 DEF Row, Leaves
  <2>2. \A k \in 1..m : l[k] \in LeafTerm
    BY <1>3, PinnedType, KeyType
  <2>3. /\ \A x : Under(x, MerkleRoot(l)) <=> \E k \in 1..m : x = l[k]
        /\ MerkleRoot(l) # <<>>
    BY <2>1, <2>2, RootIsOver
  <2>4. ASSUME NEW i \in Pinned(src) PROVE \E k \in 1..m : SortKey(src[i]) = l[k]
    <3>1. PICK k : k = Place(src, i)
      OBVIOUS
    <3>2. k \in 1..m
      BY <1>1, <3>1, PlaceRange
    <3>3. PICK j \in Pinned(src) : Place(src, j) = k /\ l[k] = SortKey(src[j])
      BY <1>3, <3>2
    <3>4. j = i
      BY <3>1, <3>3, PlaceRange
    <3>5. QED BY <3>2, <3>3, <3>4
  <2>5. ASSUME NEW x PROVE (\E k \in 1..m : x = l[k]) <=> \E i \in Pinned(src) : x = SortKey(src[i])
    BY <1>3, <2>4
  <2>6. \A x : Under(x, EvidenceRoot(src)) <=> \E i \in Pinned(src) : x = SortKey(src[i])
    BY <1>2, <2>3, <2>5
  <2>7. EvidenceRoot(src) # <<>> /\ Pinned(src) # {}
    BY <1>2, <1>5, <2>3
  <2>8. QED BY <2>6, <2>7
<1>6. QED BY <1>4, <1>5

-----------------------------------------------------------------------------
(* validate() *)

\* _check_entry() reports nothing for exactly the entries that are well formed.
LEMMA EntryIs ==
  ASSUME NEW e \in SourceEntry
  PROVE  EntryConditions(e) = {} <=> WellFormedEntry(e)
<1>1. /\ e.url \in Int /\ e.snippet \in Int /\ e.kind \in Int /\ e.at \in Int /\ e.resource \in Int
      /\ e.pinned = "true" \/ e.pinned = "false" \/ e.pinned = "bad"
  BY DEF SourceEntry, Value, Member
<1>2. CASE ~e.object
  BY <1>2 DEF EntryConditions, WellFormedEntry
<1>3. CASE e.object
  <2>1. CASE e.pinned = "bad"
    BY <1>3, <2>1 DEF EntryConditions, WellFormedEntry, When
  <2>2. CASE e.pinned = "true"
    BY <1>1, <1>3, <2>2 DEF EntryConditions, WellFormedEntry, When, None, Null, Absent, Nul, Url, Digest, Kind, Time,
                            Excerpt, FullResource, Snippet
  <2>3. CASE e.pinned = "false"
    BY <1>1, <1>3, <2>3 DEF EntryConditions, WellFormedEntry, When, None, Null, Absent, Nul, Url, Digest, Kind, Time,
                            Excerpt, FullResource, Snippet
  <2>4. QED BY <1>1, <2>1, <2>2, <2>3
<1>4. QED BY <1>2, <1>3

\* No rule is suppressed for an entry that is well formed.
LEMMA NothingBad ==
  ASSUME NEW e \in SourceEntry, WellFormedEntry(e)
  PROVE  BadMembers(e) = {}
<1>1. CASE e.pinned = "true"
  BY <1>1 DEF BadMembers, WellFormedEntry, When, None, Null, Absent, Nul, Url, Digest, Kind, Time,
              Excerpt, FullResource, Snippet
<1>2. CASE e.pinned = "false"
  BY <1>2 DEF BadMembers, WellFormedEntry, When, None, Null, Absent, Nul, Url, Digest, Kind, Time,
              Excerpt, FullResource, Snippet
<1>3. QED BY <1>1, <1>2 DEF WellFormedEntry

\* What two entries that record one retrieval have in common.
LEMMA SameIs ==
  ASSUME NEW a \in SourceEntry, NEW b \in SourceEntry, WellFormedEntry(a), WellFormedEntry(b)
  PROVE  SameRetrieval(a, b) <=>
           /\ a.url = b.url /\ a.at = b.at
           /\ (a.pinned = "true" /\ b.pinned = "true") => SortKey(a) = SortKey(b)
<1>1. a.pinned = "true" => ~None(a.snippet) /\ ~None(a.kind)
  BY DEF WellFormedEntry, None, Null, Absent, Digest, Kind, Excerpt, FullResource, Snippet
<1>2. b.pinned = "true" => ~None(b.snippet) /\ ~None(b.kind)
  BY DEF WellFormedEntry, None, Null, Absent, Digest, Kind, Excerpt, FullResource, Snippet
<1>3. SortKey(a) = SortKey(b) <=> a.url = b.url /\ a.snippet = b.snippet /\ a.kind = b.kind /\ a.at = b.at
  BY DEF SortKey
<1>4. QED BY <1>1, <1>2, <1>3 DEF SameRetrieval

\* The set rules, where no member is bad.
SetRules(s) ==
  LET src == s.sources
      n == Len(src)
      p == Cardinality(Pinned(src))
  IN  /\ s.source_count \in {Absent, n}
      /\ s.pinned_count \in {Absent, p}
      /\ p = 0 => s.root = <<>>
      /\ p > 0 => s.root # <<>>
      /\ ~FullyPinnedMismatch(s, n, p)
      /\ s.at \in {Absent, Least(src)}
      /\ \A i, j \in DOMAIN src : i < j => ~SameRetrieval(src[i], src[j])

\* validate() reports no condition of (a) exactly when every entry is well formed and
\* every set rule holds.
LEMMA ConditionsAre ==
  ASSUME NEW s, s.sources \in Seq(SourceEntry)
  PROVE  SetConditions(s) = {} <=>
           /\ \A i \in DOMAIN s.sources : WellFormedEntry(s.sources[i])
           /\ SetRules(s)
<1> DEFINE src == s.sources
           n == Len(src)
           bad == [i \in DOMAIN src |-> BadMembers(src[i])]
           pinnedOk == \A i \in DOMAIN src : "pinned" \notin bad[i]
           timesOk == \A i \in DOMAIN src : "at" \notin bad[i]
           p == IF pinnedOk THEN Cardinality(Pinned(src)) ELSE Malformed
           comparable == {i \in DOMAIN src : bad[i] \intersect {"url", "pinned", "snippet", "kind"} = {}}
           E == UNION {EntryConditions(src[i]) : i \in DOMAIN src}
           c1 == When(s.source_count \notin {Absent, n}, "source_count_mismatch")
           c2 == When(pinnedOk /\ s.pinned_count \notin {Absent, p}, "pinned_count_mismatch")
           c3 == When(pinnedOk /\ p = 0 /\ s.root # <<>>, "evidence_root_present_with_no_pinned_items")
           c4 == When(pinnedOk /\ p > 0 /\ s.root = <<>>, "evidence_root_absent_with_pinned_items")
           c5 == When(FullyPinnedMismatch(s, n, p), "fully_pinned_mismatch")
           c6 == When(timesOk /\ s.at # Absent /\ s.at # Least(src), "set_retrieved_at_not_bytewise_least")
           c7 == When(timesOk /\ \E i, j \in comparable : i < j /\ SameRetrieval(src[i], src[j]),
                      "duplicate_bound_tuple")
<1>1. src = s.sources /\ n = Len(src)
  OBVIOUS
<1>2. src \in Seq(SourceEntry) /\ DOMAIN src = 1..n /\ \A i \in DOMAIN src : src[i] \in SourceEntry
  BY <1>1
<1>3. bad = [i \in DOMAIN src |-> BadMembers(src[i])]
  OBVIOUS
<1>4. pinnedOk <=> \A i \in DOMAIN src : "pinned" \notin bad[i]
  OBVIOUS
<1>5. timesOk <=> \A i \in DOMAIN src : "at" \notin bad[i]
  OBVIOUS
<1>6. p = IF pinnedOk THEN Cardinality(Pinned(src)) ELSE Malformed
  OBVIOUS
<1>7. comparable = {i \in DOMAIN src : bad[i] \intersect {"url", "pinned", "snippet", "kind"} = {}}
  OBVIOUS
<1>8. E = UNION {EntryConditions(src[i]) : i \in DOMAIN src}
  OBVIOUS
<1>9. SetConditions(s) = E \union c1 \union c2 \union c3 \union c4 \union c5 \union c6 \union c7
  BY DEF SetConditions
<1> HIDE DEF src, n, bad, pinnedOk, timesOk, p, comparable, E
<1>c. /\ c1 = {} <=> s.source_count \in {Absent, n}
      /\ c2 = {} <=> ~(pinnedOk /\ s.pinned_count \notin {Absent, p})
      /\ c3 = {} <=> ~(pinnedOk /\ p = 0 /\ s.root # <<>>)
      /\ c4 = {} <=> ~(pinnedOk /\ p > 0 /\ s.root = <<>>)
      /\ c5 = {} <=> ~FullyPinnedMismatch(s, n, p)
      /\ c6 = {} <=> ~(timesOk /\ s.at # Absent /\ s.at # Least(src))
      /\ c7 = {} <=> ~(timesOk /\ \E i, j \in comparable : i < j /\ SameRetrieval(src[i], src[j]))
  BY DEF When
<1>e. SetConditions(s) = {} <=>
        E = {} /\ c1 = {} /\ c2 = {} /\ c3 = {} /\ c4 = {} /\ c5 = {} /\ c6 = {} /\ c7 = {}
  <2> HIDE DEF c1, c2, c3, c4, c5, c6, c7
  <2>1. QED BY <1>9
<1>10. SetConditions(s) = {} <=>
        /\ E = {}
        /\ s.source_count \in {Absent, n}
        /\ ~(pinnedOk /\ s.pinned_count \notin {Absent, p})
        /\ ~(pinnedOk /\ p = 0 /\ s.root # <<>>)
        /\ ~(pinnedOk /\ p > 0 /\ s.root = <<>>)
        /\ ~FullyPinnedMismatch(s, n, p)
        /\ ~(timesOk /\ s.at # Absent /\ s.at # Least(src))
        /\ ~(timesOk /\ \E i, j \in comparable : i < j /\ SameRetrieval(src[i], src[j]))
  <2> HIDE DEF c1, c2, c3, c4, c5, c6, c7
  <2>1. QED BY <1>c, <1>e
<1>11. E = {} <=> \A i \in DOMAIN src : WellFormedEntry(src[i])
  <2>1. E = {} <=> \A i \in DOMAIN src : EntryConditions(src[i]) = {}
    BY <1>8
  <2>2. QED BY <1>2, <2>1, EntryIs
<1>12. CASE \A i \in DOMAIN src : WellFormedEntry(src[i])
  <2>1. \A i \in DOMAIN src : bad[i] = {}
    BY <1>2, <1>3, <1>12, NothingBad
  <2>2. pinnedOk /\ timesOk /\ comparable = DOMAIN src
    BY <1>4, <1>5, <1>7, <2>1
  <2>3. p = Cardinality(Pinned(src))
    BY <1>6, <2>2
  <2>4. SetConditions(s) = {} <=>
        /\ s.source_count \in {Absent, n}
        /\ s.pinned_count \in {Absent, p}
        /\ p = 0 => s.root = <<>>
        /\ p > 0 => s.root # <<>>
        /\ ~FullyPinnedMismatch(s, n, p)
        /\ s.at \in {Absent, Least(src)}
        /\ \A i, j \in DOMAIN src : i < j => ~SameRetrieval(src[i], src[j])
    BY <1>10, <1>11, <1>12, <2>2
  <2>5. QED BY <1>1, <1>12, <2>3, <2>4 DEF SetRules
<1>13. CASE ~\A i \in DOMAIN src : WellFormedEntry(src[i])
  BY <1>1, <1>10, <1>11, <1>13
<1>14. QED BY <1>12, <1>13

\* Two counts that agree are those of a set whose entries are all pinned.
LEMMA FullyPinnedIs ==
  ASSUME NEW s, NEW n \in Nat, n > 0, NEW P \in SUBSET (1..n), NEW p, p = Cardinality(P),
         s.source_count \in {Absent, n}, s.pinned_count \in {Absent, p}
  PROVE  FullyPinnedMismatch(s, n, p) <=> s.fully_pinned \notin {"absent", Bool(P = 1..n)}
<1>1. IsFiniteSet(1..n) /\ Cardinality(1..n) = n
  BY FS_Interval
<1>2. IsFiniteSet(P) /\ (p = n => P = 1..n)
  BY <1>1, FS_Subset
<1>3. p \in Nat /\ (p = n <=> P = 1..n)
  BY <1>1, <1>2, FS_CardinalityType
<1>4. Declared(s.source_count, n) = n /\ Declared(s.pinned_count, p) = p /\ Malformed \notin {n, p}
  BY <1>3 DEF Declared, Malformed
<1>5. FullyPinnedMismatch(s, n, p) <=> s.fully_pinned \notin {"absent", Bool(p = n /\ n > 0)}
  BY <1>4 DEF FullyPinnedMismatch
<1>6. Bool(p = n /\ n > 0) = Bool(P = 1..n)
  BY <1>3 DEF Bool
<1>7. QED BY <1>5, <1>6

NoRepeats(src) == \A i, j \in DOMAIN src : i < j => ~SameRetrieval(src[i], src[j])
Distinct(src, P) ==
  \A i, j \in DOMAIN src :
    (i # j /\ src[i].url = src[j].url /\ src[i].at = src[j].at) =>
      {i, j} \subseteq P /\ SortKey(src[i]) # SortKey(src[j])

\* No two entries record one retrieval.
LEMMA NoneTwice ==
  ASSUME NEW src \in Seq(SourceEntry), \A i \in DOMAIN src : WellFormedEntry(src[i]),
         NEW P, P = {i \in DOMAIN src : src[i].pinned = "true"}
  PROVE  NoRepeats(src) <=> Distinct(src, P)
<1>1. \A i \in DOMAIN src : i \in Nat /\ src[i] \in SourceEntry
  OBVIOUS
<1>2. ASSUME NEW i \in DOMAIN src, NEW j \in DOMAIN src
      PROVE  SameRetrieval(src[i], src[j]) <=> 
               ~(src[i].url = src[j].url /\ src[i].at = src[j].at =>
                   {i, j} \subseteq P /\ SortKey(src[i]) # SortKey(src[j]))
  <2>1. SameRetrieval(src[i], src[j]) <=>
           /\ src[i].url = src[j].url /\ src[i].at = src[j].at
           /\ (src[i].pinned = "true" /\ src[j].pinned = "true") => SortKey(src[i]) = SortKey(src[j])
    BY <1>1, SameIs
  <2>2. {i, j} \subseteq P <=> src[i].pinned = "true" /\ src[j].pinned = "true"
    OBVIOUS
  <2>3. QED BY <2>1, <2>2
<1>3. \A i, j \in DOMAIN src : SameRetrieval(src[i], src[j]) <=> SameRetrieval(src[j], src[i])
  <2> SUFFICES ASSUME NEW i \in DOMAIN src, NEW j \in DOMAIN src
               PROVE  SameRetrieval(src[i], src[j]) <=> SameRetrieval(src[j], src[i])
    OBVIOUS
  <2>1. {i, j} = {j, i}
    OBVIOUS
  <2>2. QED BY <1>2, <2>1
<1>4. \A i, j \in DOMAIN src : i # j => i < j \/ j < i
  BY <1>1
<1>5. \A i, j \in DOMAIN src : i < j => i # j
  BY <1>1
<1>6. (\A i, j \in DOMAIN src : i < j => ~SameRetrieval(src[i], src[j])) <=>
      (\A i, j \in DOMAIN src : i # j => ~SameRetrieval(src[i], src[j]))
  BY <1>3, <1>4, <1>5, Zenon
<1>7. QED BY <1>2, <1>6 DEF NoRepeats, Distinct

\* validate() reports no condition for exactly the sets that satisfy every rule.
LEMMA ValidIs ==
  ASSUME NEW s, s.sources \in Seq(SourceEntry), s.form = "ok", s.version = "v1"
  PROVE  Validate(s) = {} <=> WellFormed(s)
<1>1. PICK src, n : src = s.sources /\ n = Len(src)
  OBVIOUS
<1>2. /\ src \in Seq(SourceEntry) /\ n \in Nat /\ DOMAIN src = 1..n
      /\ \A i \in DOMAIN src : src[i] \in SourceEntry
  BY <1>1
<1>3. CASE src = <<>>
  BY <1>1, <1>3 DEF Validate, WellFormed
<1>4. CASE src # <<>> /\ ~\A i \in DOMAIN src : WellFormedEntry(src[i])
  <2>1. SetConditions(s) # {}
    BY <1>1, <1>4, ConditionsAre
  <2>2. Validate(s) # {}
    BY <1>1, <1>4, <2>1 DEF Validate
  <2>3. QED BY <1>1, <1>4, <2>2 DEF WellFormed
<1>5. CASE src # <<>> /\ \A i \in DOMAIN src : WellFormedEntry(src[i])
  <2>1. n > 0
    BY <1>1, <1>2, <1>5
  <2>2. PICK P, p : P = Pinned(src) /\ p = Cardinality(P)
    OBVIOUS
  <2>3. P = {i \in DOMAIN src : src[i].pinned = "true"} /\ P \in SUBSET (1..n)
    BY <1>2, <1>5, <2>2 DEF Pinned, WellFormedEntry
  <2>4. p \in Nat /\ (p = 0 <=> EvidenceRoot(src) = <<>>)
    BY <1>2, <2>2, PinnedType, RootCommits, FS_EmptySet
  <2>5. SetConditions(s) = {} <=> SetRules(s)
    BY <1>1, <1>5, ConditionsAre
  <2>6. SetRules(s) <=>
          /\ s.source_count \in {Absent, n}
          /\ s.pinned_count \in {Absent, p}
          /\ p = 0 => s.root = <<>>
          /\ p > 0 => s.root # <<>>
          /\ ~FullyPinnedMismatch(s, n, p)
          /\ s.at \in {Absent, Least(src)}
          /\ NoRepeats(src)
    BY <1>1, <2>2 DEF SetRules, NoRepeats
  <2>7. Validate(s) = {} <=> SetConditions(s) = {} /\ (s.root = <<>> \/ s.root = EvidenceRoot(src))
    BY <1>1, <1>5 DEF Validate, When
  <2>8. WellFormed(s) <=>
          /\ Distinct(src, P)
          /\ s.source_count \in {Absent, n}
          /\ s.pinned_count \in {Absent, p}
          /\ s.fully_pinned \in {"absent", Bool(P = 1..n)}
          /\ s.at \in {Absent, Least(src)}
          /\ s.root = EvidenceRoot(src)
    BY <1>1, <1>2, <1>5, <2>2, <2>3 DEF WellFormed, Distinct
  <2>9. (s.source_count \in {Absent, n} /\ s.pinned_count \in {Absent, p}) =>
          (FullyPinnedMismatch(s, n, p) <=> s.fully_pinned \notin {"absent", Bool(P = 1..n)})
    BY <1>2, <2>1, <2>2, <2>3, FullyPinnedIs
  <2>10. NoRepeats(src) <=> Distinct(src, P)
    BY <1>2, <1>5, <2>3, NoneTwice
  <2>11. (/\ p = 0 => s.root = <<>>
          /\ p > 0 => s.root # <<>>
          /\ s.root = <<>> \/ s.root = EvidenceRoot(src)) <=> s.root = EvidenceRoot(src)
    BY <2>4
  <2>12. QED BY <2>5, <2>6, <2>7, <2>8, <2>9, <2>10, <2>11
<1>6. QED BY <1>3, <1>4, <1>5

-----------------------------------------------------------------------------
(* The inductive invariant *)

Roots == {EvidenceRoot(q) : q \in Seq(SourceEntry)} \union {<<>>, <<Malformed>>}
Times == {Least(q) : q \in Seq(SourceEntry)} \union {Absent, Malformed, 1, 2}

Document ==
  [form : {"ok", "absent", "not_object", "not_array"}, version : {"v1", "other", "not_string"},
   sources : Seq(SourceEntry), at : Times, source_count : Int, pinned_count : Int,
   fully_pinned : {"true", "false", "absent", "bad"}, root : Roots]

\* What resolve() reports of a document.
Reported(s) == IF s.form = "absent" THEN {} ELSE Validate(s)

\* The last report is of the document as it still is, and of content that is still held.
ReportInv ==
  token # "none" => conds = Reported(es) /\ \E h \in SUBSET held : token = Resolve(es, h)

IInv == TypeOK /\ es \in Document /\ ReportInv

\* An entry with one member altered is an entry.
LEMMA AlteredEntry ==
  ASSUME NEW e \in SourceEntry, NEW m \in Member, NEW v \in Altered[m]
  PROVE  [e EXCEPT ![m] = v] \in SourceEntry
<1>1. v \in Value[m]
  BY AlteredAssumption
<1>2. CASE m = "url"
  BY <1>1, <1>2 DEF SourceEntry, Value, Member
<1>3. CASE m = "snippet"
  BY <1>1, <1>3 DEF SourceEntry, Value, Member
<1>4. CASE m = "kind"
  BY <1>1, <1>4 DEF SourceEntry, Value, Member
<1>5. CASE m = "at"
  BY <1>1, <1>5 DEF SourceEntry, Value, Member
<1>6. CASE m = "pinned"
  BY <1>1, <1>6 DEF SourceEntry, Value, Member
<1>7. CASE m = "resource"
  BY <1>1, <1>7 DEF SourceEntry, Value, Member
<1>8. CASE m = "reason"
  BY <1>1, <1>8 DEF SourceEntry, Value, Member
<1>9. CASE m = "object"
  BY <1>1, <1>9 DEF SourceEntry, Value, Member
<1>10. QED BY <1>2, <1>3, <1>4, <1>5, <1>6, <1>7, <1>8, <1>9 DEF Member

\* A document with other sources is a document.
LEMMA OtherSources ==
  ASSUME NEW s \in Document, NEW q \in Seq(SourceEntry)
  PROVE  [s EXCEPT !.sources = q] \in Document
BY DEF Document

\* So is the one an issuer builds from them, or one that is recounted.
LEMMA BuiltType ==
  ASSUME NEW q \in Seq(SourceEntry), NEW r \in Roots
  PROVE  Built(q) \in Document /\ [Built(q) EXCEPT !.root = r] \in Document
<1>1. PICK t, n, p, f, g : t = Least(q) /\ n = Len(q) /\ p = Cardinality(Pinned(q)) /\ f = Bool(p = n) /\ g = EvidenceRoot(q)
  OBVIOUS
<1>2. t \in Times /\ g \in Roots
  BY <1>1 DEF Times, Roots
<1>3. n \in Int /\ p \in Int /\ f \in {"true", "false", "absent", "bad"}
  BY <1>1, PinnedType DEF Bool
<1>4. Built(q) = [form |-> "ok", version |-> "v1", sources |-> q, at |-> t, source_count |-> n,
                  pinned_count |-> p, fully_pinned |-> f, root |-> g]
  BY <1>1 DEF Built
<1>5. QED BY <1>2, <1>3, <1>4 DEF Document

\* Two entries exchanged.
LEMMA SwapIs ==
  ASSUME NEW s \in Document, NEW i \in DOMAIN s.sources, NEW j \in DOMAIN s.sources
  PROVE  /\ Swap(s, i, j) = [s EXCEPT !.sources = [[s.sources EXCEPT ![i] = s.sources[j]] EXCEPT ![j] = s.sources[i]]]
         /\ [[s.sources EXCEPT ![i] = s.sources[j]] EXCEPT ![j] = s.sources[i]] \in Seq(SourceEntry)
         /\ Swap(s, i, j) \in Document
<1>1. s.sources \in Seq(SourceEntry)
  BY DEF Document
<1>2. PICK q : q = [[s.sources EXCEPT ![i] = s.sources[j]] EXCEPT ![j] = s.sources[i]]
  OBVIOUS
<1>3. q \in Seq(SourceEntry)
  BY <1>1, <1>2
<1>4. Swap(s, i, j) = [s EXCEPT !.sources = q]
  BY <1>1, <1>2 DEF Swap, Document
<1>5. QED BY <1>2, <1>3, <1>4, OtherSources

\* An edit on the way leaves a document that nobody has judged yet.
LEMMA EditedInv ==
  ASSUME IInv, NEW s \in Document, Edited(s)
  PROVE  IInv'
<1>1. es' \in Document /\ token' = "none" /\ token = "none" /\ conds' = conds
  BY DEF Edited
<1>2. edits' \in 0..MaxEdits
  BY SizesAssumption DEF Edited, IInv, TypeOK
<1>3. TypeOK'
  BY <1>1, <1>2 DEF Edited, IInv, TypeOK
<1>4. QED BY <1>1, <1>3 DEF IInv, ReportInv

\* Every way of editing.
LEMMA EditingInv ==
  ASSUME IInv, AlterEntry \/ DropEntry \/ RepeatEntry \/ SwapEntries \/ AlterSet \/ Recount
  PROVE  IInv'
<1>1. es \in Document /\ es.sources \in Seq(SourceEntry) /\ es.root \in Roots
  BY DEF IInv, Document
<1>2. CASE AlterEntry
  <2>0. PICK i \in DOMAIN es.sources, m \in Member : \E v \in Altered[m] : Edited([es EXCEPT !.sources[i][m] = v])
    BY <1>2 DEF AlterEntry
  <2>1. PICK v \in Altered[m] : Edited([es EXCEPT !.sources[i][m] = v])
    BY <2>0
  <2>2. es.sources[i] \in SourceEntry
    BY <1>1
  <2>3. PICK e : e = [es.sources[i] EXCEPT ![m] = v]
    OBVIOUS
  <2>4. e \in SourceEntry
    BY <2>2, <2>3, AlteredEntry
  <2>5. PICK q : q = [es.sources EXCEPT ![i] = e]
    OBVIOUS
  <2>6. q \in Seq(SourceEntry)
    BY <1>1, <2>4, <2>5
  <2>7. [es EXCEPT !.sources[i][m] = v] = [es EXCEPT !.sources = q]
    BY <1>1, <2>3, <2>5 DEF Document
  <2>8. QED BY <1>1, <2>1, <2>6, <2>7, OtherSources, EditedInv
<1>3. CASE DropEntry
  <2>1. PICK i \in DOMAIN es.sources : Edited([es EXCEPT !.sources = RemoveAt(es.sources, i)])
    BY <1>3 DEF DropEntry
  <2>2. RemoveAt(es.sources, i) \in Seq(SourceEntry)
    BY <1>1 DEF RemoveAt
  <2>3. QED BY <1>1, <2>1, <2>2, OtherSources, EditedInv
<1>4. CASE RepeatEntry
  <2>1. PICK i \in DOMAIN es.sources : Edited([es EXCEPT !.sources = Append(es.sources, es.sources[i])])
    BY <1>4 DEF RepeatEntry
  <2>2. Append(es.sources, es.sources[i]) \in Seq(SourceEntry)
    BY <1>1
  <2>3. QED BY <1>1, <2>1, <2>2, OtherSources, EditedInv
<1>5. CASE SwapEntries
  BY <1>1, <1>5, SwapIs, EditedInv DEF SwapEntries
<1>6. CASE AlterSet
  <2>1. ASSUME NEW f \in {"absent", "not_object", "not_array"} PROVE [es EXCEPT !.form = f] \in Document
    BY <1>1 DEF Document
  <2>2. ASSUME NEW v \in {"other", "not_string"} PROVE [es EXCEPT !.version = v] \in Document
    BY <1>1 DEF Document
  <2>3. ASSUME NEW c \in {Absent, Malformed, 0, 1}
        PROVE  [es EXCEPT !.source_count = c] \in Document /\ [es EXCEPT !.pinned_count = c] \in Document
    BY <1>1 DEF Document, Absent, Malformed
  <2>4. ASSUME NEW f \in {"true", "false", "absent", "bad"} PROVE [es EXCEPT !.fully_pinned = f] \in Document
    BY <1>1 DEF Document
  <2>5. ASSUME NEW t \in {Absent, Malformed, 1, 2} PROVE [es EXCEPT !.at = t] \in Document
    <3>1. t \in Times
      BY DEF Times
    <3>2. QED BY <1>1, <3>1 DEF Document
  <2>6. ASSUME NEW r \in {<<>>, <<Malformed>>} PROVE [es EXCEPT !.root = r] \in Document
    <3>1. r \in Roots
      BY DEF Roots
    <3>2. QED BY <1>1, <3>1 DEF Document
  <2>7. QED BY <1>6, <2>1, <2>2, <2>3, <2>4, <2>5, <2>6, EditedInv DEF AlterSet
<1>7. CASE Recount
  <2>1. Edited([Built(es.sources) EXCEPT !.root = es.root])
    BY <1>7 DEF Recount
  <2>2. [Built(es.sources) EXCEPT !.root = es.root] \in Document
    BY <1>1, BuiltType
  <2>3. QED BY <2>1, <2>2, EditedInv
<1>8. QED BY <1>2, <1>3, <1>4, <1>5, <1>6, <1>7

\* What resolve() returns, and that it halts exactly when it reports a condition.
LEMMA ResolveIs ==
  ASSUME NEW s, NEW h
  PROVE  /\ Resolve(s, h) \in {"resolved", "unknown", "halt"}
         /\ Resolve(s, h) = "halt" <=> Reported(s) # {}
BY DEF Resolve, Reported

\* More content was fetched.
LEMMA FetchInv == ASSUME IInv, Fetch PROVE IInv'
<1>1. /\ UNCHANGED <<issued, es, edits, token, conds>>
      /\ \E u \in Url, d \in Digest : held' = held \union {<<u, d>>}
  BY DEF Fetch
<1>2. held' \subseteq Url \X Digest /\ \A h : h \in SUBSET held => h \in SUBSET held'
  BY <1>1 DEF IInv, TypeOK
<1>3. TypeOK'
  BY <1>1, <1>2 DEF IInv, TypeOK
<1>4. ReportInv'
  BY <1>1, <1>2 DEF IInv, ReportInv, Reported
<1>5. QED BY <1>1, <1>3, <1>4 DEF IInv

\* The set was judged.
LEMMA CheckInv == ASSUME IInv, Check PROVE IInv'
<1>1. token' = Resolve(es, held) /\ conds' = Reported(es) /\ UNCHANGED <<issued, es, edits, held>>
  BY DEF Check, Reported
<1>2. TypeOK'
  BY <1>1, ResolveIs DEF IInv, TypeOK
<1>3. held \in SUBSET held'
  BY <1>1
<1>4. ReportInv'
  BY <1>1, <1>3 DEF ReportInv, Reported
<1>5. QED BY <1>1, <1>2, <1>4 DEF IInv

\* What an issuer built.
LEMMA InitInv == ASSUME Init PROVE IInv
<1>1. PICK S \in SUBSET Pool : issued = SetToSeq(S) /\ Cardinality(S) \in 1..MaxSources
  BY DEF Init
<1>2. IsFiniteSet(S) /\ Cardinality(S) \in Nat /\ ExistsBijection(1..Cardinality(S), S)
  BY PoolAssumption, FS_Subset, FS_CardinalityType
<1>3. \E f \in [1..Cardinality(S) -> S] : IsInjective(f)
  BY <1>2 DEF ExistsBijection, Bijection, Injection
<1>4. issued \in [1..Cardinality(S) -> S]
  BY <1>1, <1>3 DEF SetToSeq
<1>5. issued \in Seq(Pool) /\ issued \in Seq(SourceEntry)
  BY <1>2, <1>4, PoolAssumption
<1>6. PICK r : r \in Roots
  BY DEF Roots
<1>7. es \in Document
  BY <1>5, <1>6, BuiltType DEF Init
<1>8. TypeOK
  BY <1>5, SizesAssumption DEF Init, TypeOK
<1>9. QED BY <1>7, <1>8 DEF Init, IInv, ReportInv

\* Every step keeps the invariant.
LEMMA NextInv == IInv /\ [Next]_vars => IInv'
<1> SUFFICES ASSUME IInv, [Next]_vars PROVE IInv'
  OBVIOUS
<1>1. CASE UNCHANGED vars
  BY <1>1 DEF vars, IInv, TypeOK, ReportInv, Reported
<1>2. QED BY <1>1, EditingInv, FetchInv, CheckInv DEF Next

\* The invariant holds throughout.
LEMMA Invariant == Spec => []IInv
<1>1. Init => IInv
  BY InitInv
<1>2. QED BY <1>1, NextInv, PTL DEF Spec

-----------------------------------------------------------------------------
(* The order of the sources *)

\* q has the entries of src in another order.
Reordered(src, q, f, n) ==
  /\ src \in Seq(SourceEntry) /\ q \in Seq(SourceEntry) /\ n = Len(src) /\ n = Len(q)
  /\ f \in [1..n -> 1..n]
  /\ \A k \in 1..n : f[f[k]] = k /\ q[k] = src[f[k]]

\* Where the entries of a sequence are.
LEMMA Positions ==
  ASSUME NEW src \in Seq(SourceEntry)
  PROVE  Len(src) \in Nat /\ DOMAIN src = 1..Len(src) /\ (src = <<>> <=> Len(src) = 0)
OBVIOUS

\* Both orders have the same positions.
LEMMA ReorderedIs ==
  ASSUME NEW src, NEW q, NEW f, NEW n, Reordered(src, q, f, n)
  PROVE  /\ n \in Nat /\ DOMAIN src = 1..n /\ DOMAIN q = 1..n
         /\ src = <<>> <=> q = <<>>
<1>1. src \in Seq(SourceEntry) /\ q \in Seq(SourceEntry)
  BY DEF Reordered
<1>2. n = Len(src) /\ n = Len(q)
  BY DEF Reordered
<1>3. Len(src) \in Nat /\ DOMAIN src = 1..Len(src) /\ (src = <<>> <=> Len(src) = 0)
  BY <1>1, Positions
<1>4. Len(q) \in Nat /\ DOMAIN q = 1..Len(q) /\ (q = <<>> <=> Len(q) = 0)
  BY <1>1, Positions
<1>5. QED BY <1>2, <1>3, <1>4, Zenon

\* As many positions have a property in either order.
LEMMA AsMany ==
  ASSUME NEW n \in Nat, NEW f \in [1..n -> 1..n], \A k \in 1..n : f[f[k]] = k,
         NEW P \in SUBSET (1..n), NEW Q \in SUBSET (1..n), \A k \in 1..n : k \in Q <=> f[k] \in P
  PROVE  Cardinality(Q) = Cardinality(P)
<1>1. IsFiniteSet(1..n)
  BY FS_Interval
<1>2. IsFiniteSet(P)
  BY <1>1, FS_Subset
<1>3. PICK g : g = [k \in P |-> f[k]]
  OBVIOUS
<1>4. g \in [P -> Q] /\ (\A a, b \in P : g[a] = g[b] => a = b) /\ (\A k \in Q : \E a \in P : g[a] = k)
  <2>1. \A a \in P : f[a] \in Q
    OBVIOUS
  <2>2. \A a, b \in P : f[a] = f[b] => a = b
    OBVIOUS
  <2>3. \A k \in Q : f[k] \in P /\ f[f[k]] = k
    OBVIOUS
  <2>4. QED BY <1>3, <2>1, <2>2, <2>3
<1>5. g \in Bijection(P, Q)
  BY <1>4 DEF Bijection, Injection, Surjection, IsInjective
<1>6. ExistsBijection(P, Q)
  BY <1>5 DEF ExistsBijection
<1>7. QED BY <1>2, <1>6, FS_Bijection

Lower(src, x) == {j \in Pinned(src) : Less(SortKey(src[j]), x)}

\* An entry comes after all with a smaller key, and before whoever has a larger one.
LEMMA PlaceBounds ==
  ASSUME NEW src \in Seq(SourceEntry), NEW i \in Pinned(src), NEW x \in LeafTerm
  PROVE  /\ Cardinality(Lower(src, SortKey(src[i]))) < Place(src, i)
         /\ Less(SortKey(src[i]), x) => Place(src, i) <= Cardinality(Lower(src, x))
<1>1. /\ IsFiniteSet(Pinned(src)) /\ Place(src, i) = Cardinality(Ahead(src, i))
      /\ i \in Nat /\ \A j \in Pinned(src) : SortKey(src[j]) \in LeafTerm
  BY PinnedType, PlaceRange, KeyType
<1>2. PICK y, L, A, M : y = SortKey(src[i]) /\ L = Lower(src, y) /\ A = Ahead(src, i) /\ M = Lower(src, x)
  OBVIOUS
<1>3. L \in SUBSET Pinned(src) /\ A \in SUBSET Pinned(src) /\ M \in SUBSET Pinned(src)
  BY <1>2 DEF Lower, Ahead
<1>4. IsFiniteSet(L) /\ IsFiniteSet(A) /\ IsFiniteSet(M)
  BY <1>1, <1>3, FS_Subset
<1>5. Cardinality(L) \in Nat /\ Cardinality(A) \in Nat /\ Cardinality(M) \in Nat
  BY <1>4, FS_CardinalityType
<1>6. L \in SUBSET A /\ i \in A /\ i \notin L
  BY <1>1, <1>2, LessOrders DEF Lower, Ahead, Before
<1>7. Cardinality(L) <= Cardinality(A) /\ Cardinality(L) # Cardinality(A)
  BY <1>4, <1>6, FS_Subset
<1>8. Less(y, x) => A \in SUBSET M
  BY <1>1, <1>2, LessOrders DEF Lower, Ahead, Before
<1>9. Less(y, x) => Cardinality(A) <= Cardinality(M)
  BY <1>4, <1>8, FS_Subset
<1>10. QED BY <1>1, <1>2, <1>5, <1>7, <1>9

\* What sorted() sees of either order.
LEMMA ReorderedPinned ==
  ASSUME NEW src, NEW q, NEW f, NEW n, Reordered(src, q, f, n)
  PROVE  /\ Cardinality(Pinned(q)) = Cardinality(Pinned(src))
         /\ \A x : Cardinality(Lower(q, x)) = Cardinality(Lower(src, x))
<1>1. /\ src \in Seq(SourceEntry) /\ q \in Seq(SourceEntry) /\ n \in Nat
      /\ DOMAIN src = 1..n /\ DOMAIN q = 1..n /\ f \in [1..n -> 1..n]
  <2>1. src \in Seq(SourceEntry) /\ q \in Seq(SourceEntry) /\ n = Len(src) /\ n = Len(q) /\ f \in [1..n -> 1..n]
    BY DEF Reordered
  <2>2. QED BY <2>1, ReorderedIs
<1>2. (\A k \in 1..n : f[f[k]] = k) /\ (\A k \in 1..n : q[k] = src[f[k]])
  BY DEF Reordered
<1>3. ASSUME NEW P \in SUBSET (1..n), NEW Q \in SUBSET (1..n), \A k \in 1..n : k \in Q <=> f[k] \in P
      PROVE  Cardinality(Q) = Cardinality(P)
  BY <1>1, <1>2, <1>3, AsMany
<1>4. Pinned(src) \in SUBSET (1..n) /\ Pinned(q) \in SUBSET (1..n)
  BY <1>1 DEF Pinned
<1>5. \A k \in 1..n : k \in Pinned(q) <=> f[k] \in Pinned(src)
  BY <1>1, <1>2 DEF Pinned
<1>6. ASSUME NEW x PROVE Cardinality(Lower(q, x)) = Cardinality(Lower(src, x))
  <2>1. Lower(src, x) \in SUBSET (1..n) /\ Lower(q, x) \in SUBSET (1..n)
    BY <1>4 DEF Lower
  <2>2. \A k \in 1..n : k \in Lower(q, x) <=> f[k] \in Lower(src, x)
    BY <1>1, <1>2, <1>5 DEF Lower
  <2>3. QED BY <1>3, <2>1, <2>2
<1>7. Cardinality(Pinned(q)) = Cardinality(Pinned(src))
  BY <1>3, <1>4, <1>5
<1>8. QED BY <1>6, <1>7

\* The root does not depend on the order.
LEMMA ReorderedRoot ==
  ASSUME NEW src, NEW q, NEW f, NEW n, Reordered(src, q, f, n)
  PROVE  EvidenceRoot(q) = EvidenceRoot(src)
<1>1. src \in Seq(SourceEntry) /\ q \in Seq(SourceEntry)
  BY DEF Reordered
<1>2. PICK m : m = Cardinality(Pinned(src))
  OBVIOUS
<1>3. m \in Nat /\ Cardinality(Pinned(q)) = m
  BY <1>1, <1>2, PinnedType, ReorderedPinned
<1>4. ASSUME NEW k \in 1..m PROVE Leaves(q)[k] = Leaves(src)[k]
  <2>1. PICK i \in Pinned(src) : Place(src, i) = k /\ Leaves(src)[k] = SortKey(src[i])
    BY <1>1, <1>2, LeavesAre
  <2>2. PICK j \in Pinned(q) : Place(q, j) = k /\ Leaves(q)[k] = SortKey(q[j])
    BY <1>1, <1>3, LeavesAre
  <2>3. PICK x, y : x = SortKey(src[i]) /\ y = SortKey(q[j])
    OBVIOUS
  <2>4. x \in LeafTerm /\ y \in LeafTerm
    BY <1>1, <2>3, PinnedType, KeyType
  <2>5. PICK a, b : a = Cardinality(Lower(src, x)) /\ b = Cardinality(Lower(src, y))
    OBVIOUS
  <2>6. a = Cardinality(Lower(q, x)) /\ b = Cardinality(Lower(q, y))
    BY <2>5, ReorderedPinned
  <2>7. a < k /\ (Less(x, y) => k <= b)
    BY <1>1, <2>1, <2>3, <2>4, <2>5, PlaceBounds
  <2>8. b < k /\ (Less(y, x) => k <= a)
    BY <1>1, <2>2, <2>3, <2>4, <2>6, PlaceBounds
  <2>9. a \in Nat /\ b \in Nat
    <3>1. IsFiniteSet(Pinned(src)) /\ Lower(src, x) \in SUBSET Pinned(src) /\ Lower(src, y) \in SUBSET Pinned(src)
      BY <1>1, PinnedType DEF Lower
    <3>2. IsFiniteSet(Lower(src, x)) /\ IsFiniteSet(Lower(src, y))
      BY <3>1, FS_Subset
    <3>3. QED BY <2>5, <3>2, FS_CardinalityType
  <2>10. ~Less(x, y) /\ ~Less(y, x)
    BY <1>3, <2>7, <2>8, <2>9
  <2>11. QED BY <2>1, <2>2, <2>3, <2>4, <2>10, LessOrders
<1>5. Leaves(q) = Leaves(src)
  BY <1>2, <1>3, <1>4 DEF Leaves
<1>6. QED BY <1>5 DEF EvidenceRoot

\* The inputs of the set rules.
Entries(s) == UNION {EntryConditions(s.sources[i]) : i \in DOMAIN s.sources}
PinnedGood(s) == \A i \in DOMAIN s.sources : "pinned" \notin BadMembers(s.sources[i])
TimesGood(s) == \A i \in DOMAIN s.sources : "at" \notin BadMembers(s.sources[i])
Comparable(e) == BadMembers(e) \intersect {"url", "pinned", "snippet", "kind"} = {}
PinnedSeen(s) == IF PinnedGood(s) THEN Cardinality(Pinned(s.sources)) ELSE Malformed
Repeats(s) ==
  \E i, j \in DOMAIN s.sources :
    /\ Comparable(s.sources[i]) /\ Comparable(s.sources[j])
    /\ i < j /\ SameRetrieval(s.sources[i], s.sources[j])

\* What (a) of validate() reports, from those inputs.
LEMMA ConditionsFrom ==
  ASSUME NEW s
  PROVE  SetConditions(s) =
      Entries(s)
      \union When(s.source_count \notin {Absent, Len(s.sources)}, "source_count_mismatch")
      \union When(PinnedGood(s) /\ s.pinned_count \notin {Absent, PinnedSeen(s)}, "pinned_count_mismatch")
      \union When(PinnedGood(s) /\ PinnedSeen(s) = 0 /\ s.root # <<>>, "evidence_root_present_with_no_pinned_items")
      \union When(PinnedGood(s) /\ PinnedSeen(s) > 0 /\ s.root = <<>>, "evidence_root_absent_with_pinned_items")
      \union When(FullyPinnedMismatch(s, Len(s.sources), PinnedSeen(s)), "fully_pinned_mismatch")
      \union When(TimesGood(s) /\ s.at # Absent /\ s.at # Least(s.sources), "set_retrieved_at_not_bytewise_least")
      \union When(TimesGood(s) /\ Repeats(s), "duplicate_bound_tuple")
<1> DEFINE src == s.sources
           bad == [i \in DOMAIN src |-> BadMembers(src[i])]
           pinnedOk == \A i \in DOMAIN src : "pinned" \notin bad[i]
           timesOk == \A i \in DOMAIN src : "at" \notin bad[i]
           p == IF pinnedOk THEN Cardinality(Pinned(src)) ELSE Malformed
           comparable == {i \in DOMAIN src : bad[i] \intersect {"url", "pinned", "snippet", "kind"} = {}}
           twice == \E i, j \in comparable : i < j /\ SameRetrieval(src[i], src[j])
<1>1. SetConditions(s) =
      Entries(s)
      \union When(s.source_count \notin {Absent, Len(src)}, "source_count_mismatch")
      \union When(pinnedOk /\ s.pinned_count \notin {Absent, p}, "pinned_count_mismatch")
      \union When(pinnedOk /\ p = 0 /\ s.root # <<>>, "evidence_root_present_with_no_pinned_items")
      \union When(pinnedOk /\ p > 0 /\ s.root = <<>>, "evidence_root_absent_with_pinned_items")
      \union When(FullyPinnedMismatch(s, Len(src), p), "fully_pinned_mismatch")
      \union When(timesOk /\ s.at # Absent /\ s.at # Least(src), "set_retrieved_at_not_bytewise_least")
      \union When(timesOk /\ twice, "duplicate_bound_tuple")
  BY DEF SetConditions, Entries
<1>2. \A i \in DOMAIN src : bad[i] = BadMembers(src[i])
  OBVIOUS
<1>3. pinnedOk <=> PinnedGood(s)
  BY <1>2 DEF PinnedGood
<1>4. timesOk <=> TimesGood(s)
  BY <1>2 DEF TimesGood
<1>5. p = PinnedSeen(s)
  <2> HIDE DEF pinnedOk
  <2>1. QED BY <1>3 DEF PinnedSeen
<1>6. twice <=> Repeats(s)
  <2>1. \A i \in DOMAIN src : i \in comparable <=> Comparable(src[i])
    BY <1>2 DEF Comparable
  <2>2. \A i \in comparable : i \in DOMAIN src
    OBVIOUS
  <2> HIDE DEF comparable
  <2>3. QED BY <2>1, <2>2 DEF Repeats
<1>7. src = s.sources
  OBVIOUS
<1> HIDE DEF src, bad, pinnedOk, timesOk, p, comparable, twice
<1>8. QED BY <1>1, <1>3, <1>4, <1>5, <1>6, <1>7 DEF When

\* Who records one retrieval does not depend on who is asked first.
LEMMA SameIsSymmetric ==
  ASSUME NEW a, NEW b, SameRetrieval(a, b)
  PROVE  SameRetrieval(b, a)
BY DEF SameRetrieval

\* The inputs of the set rules do not depend on the order.
LEMMA ReorderedInputs ==
  ASSUME NEW s, NEW t, NEW f, NEW n, Reordered(s.sources, t.sources, f, n)
  PROVE  /\ Entries(t) = Entries(s) /\ (PinnedGood(t) <=> PinnedGood(s)) /\ (TimesGood(t) <=> TimesGood(s))
         /\ Len(t.sources) = Len(s.sources) /\ PinnedSeen(t) = PinnedSeen(s)
         /\ Least(t.sources) = Least(s.sources) /\ (Repeats(t) <=> Repeats(s))
<1>1. PICK src, q : src = s.sources /\ q = t.sources
  OBVIOUS
<1>2. /\ src \in Seq(SourceEntry) /\ q \in Seq(SourceEntry) /\ n = Len(src) /\ n = Len(q)
      /\ f \in [1..n -> 1..n] /\ (\A k \in 1..n : f[f[k]] = k) /\ (\A k \in 1..n : q[k] = src[f[k]])
  BY <1>1 DEF Reordered
<1>3. n \in Nat /\ DOMAIN src = 1..n /\ DOMAIN q = 1..n
  BY <1>1, ReorderedIs
<1>4. \A k \in 1..n : f[k] \in 1..n /\ f[f[k]] = k /\ q[k] = src[f[k]] /\ src[k] = q[f[k]]
  BY <1>2, <1>3
<1>5. (\A k \in 1..n : \E m \in 1..n : q[k] = src[m]) /\ (\A k \in 1..n : \E m \in 1..n : src[k] = q[m])
  BY <1>4
<1>6. Entries(t) = Entries(s)
  <2>1. Entries(t) = UNION {EntryConditions(q[i]) : i \in 1..n}
    BY <1>1, <1>3 DEF Entries
  <2>2. Entries(s) = UNION {EntryConditions(src[i]) : i \in 1..n}
    BY <1>1, <1>3 DEF Entries
  <2>3. \A x : x \in Entries(t) <=> \E i \in 1..n : x \in EntryConditions(q[i])
    BY <2>1
  <2>4. \A x : x \in Entries(s) <=> \E i \in 1..n : x \in EntryConditions(src[i])
    BY <2>2
  <2>5. \A x : x \in Entries(t) <=> x \in Entries(s)
    BY <1>5, <2>3, <2>4
  <2>6. QED BY <2>5
<1>7. (PinnedGood(t) <=> PinnedGood(s)) /\ (TimesGood(t) <=> TimesGood(s))
  BY <1>1, <1>3, <1>5 DEF PinnedGood, TimesGood
<1>8. PinnedSeen(t) = PinnedSeen(s)
  BY <1>7, ReorderedPinned DEF PinnedSeen
<1>9. Least(q) = Least(src)
  <2>1. Range(q) = Range(src)
    <3>1. Range(q) = {q[k] : k \in 1..n} /\ Range(src) = {src[k] : k \in 1..n}
      BY <1>3 DEF Range
    <3>2. \A x : x \in Range(q) <=> x \in Range(src)
      BY <1>5, <3>1
    <3>3. QED BY <3>2
  <2>2. QED BY <2>1 DEF Least
<1>10. \A i, j \in 1..n : i < j => i # j /\ f[i] # f[j] /\ (f[i] < f[j] \/ f[j] < f[i])
  <2> SUFFICES ASSUME NEW i \in 1..n, NEW j \in 1..n, i < j PROVE i # j /\ f[i] # f[j] /\ (f[i] < f[j] \/ f[j] < f[i])
    OBVIOUS
  <2>1. f[i] \in 1..n /\ f[j] \in 1..n /\ i # j /\ f[i] # f[j]
    BY <1>3, <1>4
  <2>2. QED BY <1>3, <2>1
<1>11. Repeats(t) => Repeats(s)
  <2> SUFFICES ASSUME Repeats(t) PROVE Repeats(s)
    OBVIOUS
  <2>1. PICK i \in 1..n, j \in 1..n : Comparable(q[i]) /\ Comparable(q[j]) /\ i < j /\ SameRetrieval(q[i], q[j])
    BY <1>1, <1>3 DEF Repeats
  <2>2. f[i] \in 1..n /\ f[j] \in 1..n /\ q[i] = src[f[i]] /\ q[j] = src[f[j]]
    BY <1>4
  <2>3. f[i] < f[j] \/ f[j] < f[i]
    BY <1>10, <2>1
  <2>4. SameRetrieval(q[j], q[i])
    BY <2>1, SameIsSymmetric
  <2>5. QED BY <1>1, <1>3, <2>1, <2>2, <2>3, <2>4 DEF Repeats
<1>12. Repeats(s) => Repeats(t)
  <2> SUFFICES ASSUME Repeats(s) PROVE Repeats(t)
    OBVIOUS
  <2>1. PICK i \in 1..n, j \in 1..n : Comparable(src[i]) /\ Comparable(src[j]) /\ i < j /\ SameRetrieval(src[i], src[j])
    BY <1>1, <1>3 DEF Repeats
  <2>2. f[i] \in 1..n /\ f[j] \in 1..n /\ src[i] = q[f[i]] /\ src[j] = q[f[j]]
    BY <1>4
  <2>3. f[i] < f[j] \/ f[j] < f[i]
    BY <1>10, <2>1
  <2>4. SameRetrieval(src[j], src[i])
    BY <2>1, SameIsSymmetric
  <2>5. QED BY <1>1, <1>3, <2>1, <2>2, <2>3, <2>4 DEF Repeats
<1>13. Len(t.sources) = Len(s.sources) /\ Least(t.sources) = Least(s.sources)
  BY <1>1, <1>2, <1>9
<1>14. QED BY <1>6, <1>7, <1>8, <1>11, <1>12, <1>13

\* Neither validate() nor resolve() looks at the order.
LEMMA ReorderedReport ==
  ASSUME NEW s \in Document, NEW q, NEW f, NEW n, Reordered(s.sources, q, f, n),
         NEW t, t = [s EXCEPT !.sources = q]
  PROVE  Validate(t) = Validate(s) /\ \A h : Resolve(t, h) = Resolve(s, h)
<1>1. /\ t.sources = q /\ t.form = s.form /\ t.version = s.version /\ t.root = s.root /\ t.at = s.at
      /\ t.source_count = s.source_count /\ t.pinned_count = s.pinned_count /\ t.fully_pinned = s.fully_pinned
  BY DEF Document
<1>2. Reordered(s.sources, t.sources, f, n)
  BY <1>1
<1>3. \A a, b : FullyPinnedMismatch(t, a, b) <=> FullyPinnedMismatch(s, a, b)
  BY <1>1 DEF FullyPinnedMismatch
<1>4. SetConditions(t) = SetConditions(s)
  <2>1. /\ Entries(t) = Entries(s) /\ (PinnedGood(t) <=> PinnedGood(s)) /\ (TimesGood(t) <=> TimesGood(s))
        /\ Len(t.sources) = Len(s.sources) /\ PinnedSeen(t) = PinnedSeen(s)
        /\ Least(t.sources) = Least(s.sources) /\ (Repeats(t) <=> Repeats(s))
    BY <1>2, ReorderedInputs
  <2>2. QED BY <1>1, <1>3, <2>1, ConditionsFrom, ZenonT(30) DEF When
<1>5. EvidenceRoot(t.sources) = EvidenceRoot(s.sources)
  BY <1>2, ReorderedRoot
<1>7. t.sources = <<>> <=> s.sources = <<>>
  BY <1>2, ReorderedIs
<1>8. Validate(t) = Validate(s)
  BY <1>1, <1>4, <1>5, <1>7 DEF Validate, When
<1>9. ASSUME NEW h PROVE Resolve(t, h) = Resolve(s, h)
  <2>1. n \in Nat /\ DOMAIN s.sources = 1..n /\ DOMAIN q = 1..n
    BY ReorderedIs
  <2>2. \A k \in 1..n : f[k] \in 1..n /\ f[f[k]] = k /\ q[k] = s.sources[f[k]]
    BY DEF Reordered
  <2>3. (\A i \in DOMAIN t.sources : Matches(t.sources[i], h)) <=> (\A i \in DOMAIN s.sources : Matches(s.sources[i], h))
    BY <1>1, <2>1, <2>2
  <2>4. QED BY <1>1, <1>8, <2>3 DEF Resolve
<1>10. QED BY <1>8, <1>9

\* Exchanging two entries reorders the sources.
LEMMA SwapReorders ==
  ASSUME NEW src \in Seq(SourceEntry), NEW i \in DOMAIN src, NEW j \in DOMAIN src, i # j,
         NEW q \in Seq(SourceEntry), q = [[src EXCEPT ![i] = src[j]] EXCEPT ![j] = src[i]]
  PROVE  \E f, n : Reordered(src, q, f, n)
<1>1. PICK n : n = Len(src)
  OBVIOUS
<1>2. n \in Nat /\ DOMAIN src = 1..n /\ DOMAIN q = 1..n
  BY <1>1
<1>3. n = Len(q)
  BY <1>2
<1>4. PICK f : f = [k \in 1..n |-> IF k = i THEN j ELSE IF k = j THEN i ELSE k]
  OBVIOUS
<1>5. i \in 1..n /\ j \in 1..n /\ f \in [1..n -> 1..n]
  BY <1>2, <1>4
<1>6. ASSUME NEW k \in 1..n PROVE f[f[k]] = k /\ q[k] = src[f[k]]
  BY <1>2, <1>4, <1>5
<1>7. QED BY <1>1, <1>3, <1>5, <1>6 DEF Reordered

-----------------------------------------------------------------------------
(* Theorems *)

\* Every variable has its type, and a report holds conditions exactly when the gate
\* halts.
THEOREM TypeCorrect == Spec => []TypeOK
<1>1. IInv => TypeOK
  BY DEF IInv
<1>2. QED BY <1>1, Invariant, PTL

\* A rule validate() does not evaluate because its input is bad never lets a set
\* through: for every pool of entries and any edits, what is not refused satisfies
\* every rule, and what satisfies every rule is not refused.
THEOREM SuppressionIsHarmless == Spec => []SuppressionNeverHides
<1>1. IInv => SuppressionNeverHides
  <2> SUFFICES ASSUME IInv, token # "none", es.form = "ok", es.version = "v1"
               PROVE  (conds = {}) <=> WellFormed(es)
    BY DEF SuppressionNeverHides
  <2>1. conds = Validate(es)
    BY DEF IInv, ReportInv, Reported
  <2>2. es.sources \in Seq(SourceEntry)
    BY DEF IInv, Document
  <2>3. QED BY <2>1, <2>2, ValidIs
<1>2. QED BY <1>1, Invariant, PTL

\* A set that resolved stays resolved, however much more content is fetched.
THEOREM ResolutionsStay == Spec => ResolutionStays
<1>1. IInv /\ [Next]_vars => [token = "resolved" => token' = "resolved"]_vars
  <2> SUFFICES ASSUME IInv, Next, token = "resolved" PROVE token' = "resolved"
    OBVIOUS
  <2>1. CASE Check
    <3>1. PICK h \in SUBSET held : Resolve(es, h) = "resolved"
      BY DEF IInv, ReportInv
    <3>2. \A e : Matches(e, h) => Matches(e, held)
      BY <3>1 DEF Matches
    <3>3. Resolve(es, held) = "resolved"
      BY <3>1, <3>2 DEF Resolve
    <3>4. QED BY <2>1, <3>3 DEF Check
  <2>2. CASE Fetch
    BY <2>2 DEF Fetch
  <2>3. CASE \E s : Edited(s)
    BY <2>3 DEF Edited
  <2>4. QED
    BY <2>1, <2>2, <2>3 DEF Next, AlterEntry, DropEntry, RepeatEntry, SwapEntries, AlterSet, Recount
<1>2. QED BY <1>1, Invariant, PTL DEF Spec, ResolutionStays

\* A set that is not halted and still carries the issuer's root has the issuer's
\* pinned entries, all of them and no other, for any number of them and any edits: a
\* leaf is never mistaken for a node, and an odd node is promoted as it is.
THEOREM RootsBind == Spec => []RootBinds
<1>1. IInv => RootBinds
  <2> SUFFICES ASSUME IInv, token \in {"resolved", "unknown"}, es.form = "ok", es.version = "v1",
                      es.root = EvidenceRoot(issued)
               PROVE  /\ {SortKey(es.sources[i]) : i \in Pinned(es.sources)} = {SortKey(issued[i]) : i \in Pinned(issued)}
                      /\ token = "resolved" => \A i \in Pinned(issued) : \E c \in held : c[2] = issued[i].snippet
    BY DEF RootBinds
  <2>1. PICK src : src = es.sources
    OBVIOUS
  <2>2. src \in Seq(SourceEntry) /\ issued \in Seq(Pool) /\ issued \in Seq(SourceEntry)
    <3>1. src \in Seq(SourceEntry) /\ issued \in Seq(Pool)
      BY <2>1 DEF IInv, TypeOK, Document
    <3>2. QED BY <3>1, PoolAssumption
  <2>3. Validate(es) = {}
    BY DEF IInv, TypeOK, ReportInv, Reported
  <2>4. EvidenceRoot(src) = EvidenceRoot(issued)
    BY <2>1, <2>2, <2>3, ValidIs DEF WellFormed
  <2>5. \A x : (\E i \in Pinned(src) : x = SortKey(src[i])) <=> (\E i \in Pinned(issued) : x = SortKey(issued[i]))
    BY <2>2, <2>4, RootCommits
  <2>6. {SortKey(src[i]) : i \in Pinned(src)} = {SortKey(issued[i]) : i \in Pinned(issued)}
    BY <2>5
  <2>7. ASSUME token = "resolved", NEW i \in Pinned(issued) PROVE \E c \in held : c[2] = issued[i].snippet
    <3>1. PICK j \in Pinned(src) : SortKey(issued[i]) = SortKey(src[j])
      BY <2>5
    <3>2. issued[i].snippet = src[j].snippet
      BY <3>1 DEF SortKey
    <3>3. PICK h \in SUBSET held : Resolve(es, h) = "resolved"
      BY <2>7 DEF IInv, ReportInv
    <3>4. Matches(src[j], h)
      BY <2>1, <3>1, <3>3 DEF Resolve, Pinned
    <3>5. QED BY <3>2, <3>3, <3>4 DEF Matches
  <2>8. QED BY <2>1, <2>6, <2>7
<1>2. QED BY <1>1, Invariant, PTL

\* The order in which the sources are listed changes neither the conditions of
\* validate() nor the token of resolve(), for any document that any edits lead to:
\* evidence_root() sorts, and every rule is symmetric.
THEOREM OrderIsIrrelevant == Spec => []OrderNeverMatters
<1>1. IInv => OrderNeverMatters
  <2> SUFFICES ASSUME IInv, NEW i \in DOMAIN es.sources, NEW j \in DOMAIN es.sources, i < j
               PROVE  Resolve(Swap(es, i, j), held) = Resolve(es, held) /\ Validate(Swap(es, i, j)) = Validate(es)
    BY DEF OrderNeverMatters
  <2>1. es \in Document /\ es.sources \in Seq(SourceEntry)
    BY DEF IInv, Document
  <2>2. PICK q : q = [[es.sources EXCEPT ![i] = es.sources[j]] EXCEPT ![j] = es.sources[i]]
    OBVIOUS
  <2>3. q \in Seq(SourceEntry) /\ Swap(es, i, j) = [es EXCEPT !.sources = q]
    BY <2>1, <2>2, SwapIs
  <2>4. i # j
    BY <2>1
  <2>5. PICK f, n : Reordered(es.sources, q, f, n)
    BY <2>1, <2>2, <2>3, <2>4, SwapReorders
  <2>6. PICK t : t = [es EXCEPT !.sources = q]
    OBVIOUS
  <2>7. Validate(t) = Validate(es) /\ Resolve(t, held) = Resolve(es, held)
    BY <2>1, <2>5, <2>6, ReorderedReport, ZenonT(30)
  <2>8. QED BY <2>3, <2>6, <2>7
<1>2. QED BY <1>1, Invariant, PTL

=============================================================================
