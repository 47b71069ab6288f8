--------------------------- MODULE ConversationsProofs ---------------------------
(***************************************************************************)
(* Theorems about Conversations, for every set of conversations, kinds of  *)
(* messages and places, and every bound.                                   *)
(***************************************************************************)
EXTENDS Conversations, ChunkingProofs, SequenceTheorems, WellFoundedInduction

-----------------------------------------------------------------------------
(* Induction and recursion on numbers.                                      *)

LEMMA LeastNatural ==
  ASSUME NEW S \in SUBSET Nat, S # {}
  PROVE  \E n \in S : \A m \in S : n <= m
<1>1. \E n \in S : \A m \in S : ~ (<<m, n>> \in OpToRel(<, Nat))
  BY NatLessThanWellFounded, WFMin, Zenon
<1>2. ASSUME NEW n \in S, NEW m \in S, <<m, n>> \notin OpToRel(<, Nat) PROVE n <= m
  BY <1>2 DEF OpToRel
<1>. QED BY <1>1, <1>2, Zenon

(* What is so of a number when it is so of the smaller ones is so.          *)
LEMMA ByTheSmaller ==
  ASSUME NEW d \in Nat, NEW T, \A k \in 0..d : (\A j \in 0..(k - 1) : j \in T) => k \in T
  PROVE  \A k \in 0..d : k \in T
<1>. SUFFICES ASSUME (0..d) \ T # {} PROVE FALSE
  OBVIOUS
<1>1. PICK n \in (0..d) \ T : \A m \in (0..d) \ T : n <= m
  <2>1. (0..d) \ T \in SUBSET Nat
    OBVIOUS
  <2>. QED BY <2>1, LeastNatural
<1>2. \A j \in 0..(n - 1) : j \in T
  BY <1>1
<1>. QED BY <1>1, <1>2

(* ... and when it is so of the greater ones.                               *)
LEMMA ByTheGreater ==
  ASSUME NEW d \in Nat, NEW T, \A k \in 0..d : (\A j \in (k + 1)..d : j \in T) => k \in T
  PROVE  \A k \in 0..d : k \in T
<1>. DEFINE U == {n \in 0..d : d - n \in T}
<1>1. ASSUME NEW k \in 0..d, \A j \in 0..(k - 1) : j \in U PROVE k \in U
  <2>1. ASSUME NEW j \in ((d - k) + 1)..d PROVE j \in T
    <3>1. d - j \in 0..(k - 1) /\ d - (d - j) = j
      OBVIOUS
    <3>. QED BY <1>1, <3>1
  <2>2. d - k \in 0..d
    OBVIOUS
  <2>. QED BY <2>1, <2>2
<1>. HIDE DEF U
<1>2. \A k \in 0..d : k \in U
  BY <1>1, ByTheSmaller
<1>3. \A k \in 0..d : d - k \in 0..d /\ d - (d - k) = k
  OBVIOUS
<1>. QED BY <1>2, <1>3 DEF U

(* The greatest and the least element of a finite set of numbers.           *)
LEMMA MaxOfNumbers ==
  ASSUME NEW B \in Nat, NEW S \in SUBSET (0..B), S # {}
  PROVE  Max(S) \in S /\ \A m \in S : m <= Max(S)
<1>1. {B - n : n \in S} \in SUBSET Nat /\ {B - n : n \in S} # {}
  <2>1. \A n \in S : B - n \in Nat
    OBVIOUS
  <2>. QED BY <2>1
<1>2. PICK k \in {B - n : n \in S} : \A j \in {B - n : n \in S} : k <= j
  BY <1>1, LeastNatural
<1>3. PICK n \in S : k = B - n
  BY <1>2
<1>4. ASSUME NEW m \in S PROVE n >= m
  <2>1. k <= B - m
    BY <1>2
  <2>. QED BY <1>3, <2>1
<1>5. Max(S) \in S /\ \A m \in S : Max(S) >= m
  BY <1>4 DEF Max
<1>. QED BY <1>5

LEMMA MinOfNumbers ==
  ASSUME NEW S \in SUBSET Nat, S # {}
  PROVE  Min(S) \in S /\ \A m \in S : Min(S) <= m
<1>1. \E n \in S : \A m \in S : n <= m
  BY LeastNatural
<1>. QED BY <1>1 DEF Min

(* A function that is defined where it stops, and elsewhere by its value at *)
(* an argument of lower rank.                                               *)
Recursion(I, N, rank, Stop, pre, D, base, F) ==
  /\ N \in Nat /\ rank \in [I -> 0..N]
  /\ \A i \in I \ Stop : pre[i] \in I /\ rank[pre[i]] < rank[i]
  /\ base \in D /\ F \in [I \X D -> D]

LEMMA RecursionDefines ==
  ASSUME NEW I, NEW N, NEW rank, NEW Stop, NEW pre, NEW D, NEW base, NEW F,
         Recursion(I, N, rank, Stop, pre, D, base, F)
  PROVE  \E f \in [I -> D] :
           \A i \in I : f[i] = IF i \in Stop THEN base ELSE F[<<i, f[pre[i]]>>]
<1>. USE DEF Recursion
<1>. DEFINE Below(n) == {i \in I : rank[i] < n}
            Solves(f, n) == \A i \in Below(n) :
              f[i] = IF i \in Stop THEN base ELSE F[<<i, f[pre[i]]>>]
            T == {n \in 0..(N + 1) : \E f \in [Below(n) -> D] : Solves(f, n)}
<1>1. ASSUME NEW n \in 0..(N + 1), \A m \in 0..(n - 1) : m \in T PROVE n \in T
  <2>1. CASE n = 0
    <3>. DEFINE f == [i \in Below(n) |-> base]
    <3>1. Below(n) = {}
      BY <2>1
    <3>2. f \in [Below(n) -> D] /\ Solves(f, n)
      BY <3>1
    <3>. HIDE DEF f, Below, Solves
    <3>. QED BY <3>2
  <2>2. CASE n # 0
    <3>. DEFINE m == n - 1
    <3>1. m \in 0..(n - 1) /\ m \in Nat /\ n = m + 1
      BY <2>2
    <3>2. PICK f \in [Below(m) -> D] : Solves(f, m)
      BY <1>1, <3>1
    <3>. HIDE DEF m
    <3>3. Below(m) \subseteq Below(n) /\ \A i \in Below(n) \ Stop : pre[i] \in Below(m)
      BY <3>1
    <3>. DEFINE h == [i \in Below(n) |-> IF i \in Stop THEN base ELSE
                                         IF i \in Below(m) THEN f[i] ELSE F[<<i, f[pre[i]]>>]]
    <3>4. \A i \in Below(m) : h[i] = f[i]
      BY <3>2, <3>3
    <3>5. \A i \in Below(n) : h[i] = IF i \in Stop THEN base ELSE F[<<i, f[pre[i]]>>]
      BY <3>2
    <3>6. \A i \in Below(n) : h[i] \in D
      BY <3>2, <3>3, <3>5
    <3>7. h \in [Below(n) -> D]
      BY <3>6
    <3>. HIDE DEF h
    <3>8. Solves(h, n)
      BY <3>3, <3>4, <3>5
    <3>. QED BY <3>7, <3>8
  <2>. QED BY <2>1, <2>2
<1>. HIDE DEF T
<1>2. N + 1 \in T
  <2>1. N + 1 \in Nat /\ N + 1 \in 0..(N + 1)
    OBVIOUS
  <2>. QED BY <1>1, <2>1, ByTheSmaller
<1>3. Below(N + 1) = I
  OBVIOUS
<1>. QED BY <1>2, <1>3 DEF T

-----------------------------------------------------------------------------
(* The invariant.                                                           *)

Node == [parent : Nat, at : Nat, kind : Kinds]
Record == [occurred : Nat, activity : Nat, turns : Seq(Kinds)]

(* A reply comes after what it replies to; the times of a conversation      *)
(* increase.                                                                *)
Spoken(nodes) ==
  /\ nodes \in Seq(Node)
  /\ \A i \in DOMAIN nodes : nodes[i].parent \in 0..(i - 1)
  /\ \A i, j \in DOMAIN nodes : i < j => nodes[i].at < nodes[j].at

(* Whether a message goes on with the branch that ends at a node, or forks  *)
(* a newer one off it.                                                      *)
GoesOn(nodes, parent, end) == parent = 0 \/ parent \in ToSet(Branch(nodes, end))

(* The end of the newest branch after each message of a conversation.       *)
Ends(nodes, end) ==
  /\ end \in [0..Len(nodes) -> Nat] /\ end[0] = 0
  /\ \A i \in 1..Len(nodes) :
       end[i] = IF GoesOn(nodes, nodes[i].parent, end[i - 1]) THEN i ELSE end[i - 1]

(* A snapshot is how far every conversation had got at one time.            *)
TakenAt(talks, snapshot, time) ==
  \A t \in Talks :
    /\ snapshot[t] \in 0..Len(talks[t])
    /\ \A i \in DOMAIN talks[t] : talks[t][i].at <= time <=> i <= snapshot[t]

TalkInv ==
  /\ clock \in Nat
  /\ thread \in [Talks -> Seq(Node)] /\ newest \in [Talks -> Nat]
  /\ \A t \in Talks :
       /\ Spoken(thread[t])
       /\ \A i \in DOMAIN thread[t] :
            /\ thread[t][i].at \in 1..clock
            /\ thread[t][i].kind.role = "unseen" => "update" \in Stamps[t]
       /\ \E end : Ends(thread[t], end) /\ newest[t] = end[Len(thread[t])]

ExportInv ==
  /\ export \in [ToSet(Places) -> [Talks -> Nat]]
  /\ \A p \in ToSet(Places) : \E time \in 0..clock : TakenAt(thread, export[p], time)

(* What was fetched is no older than the last activity that was given, and  *)
(* a record that was ingested is no newer.                                  *)
MemoryInv ==
  /\ memory \in [Talks -> Record]
  /\ given \in 0..clock /\ inOrder \in BOOLEAN
  /\ read \in [Talks -> Nat]
  /\ \E time \in given..clock : TakenAt(thread, read, time)
  /\ \A t \in Talks : memory[t] # NoRecord => memory[t].activity <= given
  /\ NewsIsFetched

ConvInv == TalkInv /\ ExportInv /\ MemoryInv /\ CInv

-----------------------------------------------------------------------------
(* The branches of a conversation.                                          *)

Rooted(nodes) ==
  /\ nodes \in Seq(Node)
  /\ \A i \in DOMAIN nodes : nodes[i].parent \in 0..(i - 1)

(* A branch is the branch of its last node's parent and that node.          *)
LEMMA BranchUnfolds ==
  ASSUME NEW nodes, Rooted(nodes)
  PROVE  /\ Branch(nodes, 0) = <<>>
         /\ \A i \in 1..Len(nodes) :
              Branch(nodes, i) = Append(Branch(nodes, nodes[i].parent), i)
         /\ \A i \in 0..Len(nodes) : Branch(nodes, i) \in Seq(Nat)
<1>. DEFINE I == 0..Len(nodes)
            D == Seq(Nat)
            base == <<>>
            rank == [i \in I |-> i]
            Stop == {0}
            pre == [i \in I |-> nodes[i].parent]
            F == [p \in I \X D |-> Append(p[2], p[1])]
            up == CHOOSE up : up = [i \in I |-> IF i = 0 THEN <<>> ELSE Append(up[nodes[i].parent], i)]
<1>1. Len(nodes) \in Nat /\ DOMAIN nodes = 1..Len(nodes)
      /\ \A i \in 1..Len(nodes) : nodes[i].parent \in 0..(i - 1)
  BY DEF Rooted
<1>2. \E f \in [I -> D] :
        \A i \in I : f[i] = IF i \in Stop THEN base ELSE F[<<i, f[pre[i]]>>]
  <2>1. base \in D /\ F \in [I \X D -> D]
    BY <1>1
  <2>2. rank \in [I -> 0..Len(nodes)] /\ \A i \in I \ Stop : pre[i] \in I /\ rank[pre[i]] < rank[i]
    BY <1>1
  <2>3. Recursion(I, Len(nodes), rank, Stop, pre, D, base, F)
    <3>. HIDE DEF I, D, base, rank, pre, F, Stop
    <3>. QED BY <1>1, <2>1, <2>2 DEF Recursion
  <2>. HIDE DEF I, D, base, rank, pre, F, Stop
  <2>. QED BY <2>3, RecursionDefines
<1>3. PICK f \in [I -> D] :
        \A i \in I : f[i] = IF i \in Stop THEN base ELSE F[<<i, f[pre[i]]>>]
  BY <1>2
<1>4. \A i \in I : f[i] = IF i = 0 THEN <<>> ELSE Append(f[nodes[i].parent], i)
  <2>1. \A i \in I, x \in D : F[<<i, x>>] = Append(x, i)
    OBVIOUS
  <2>2. \A i \in I : i # 0 => pre[i] = nodes[i].parent /\ f[pre[i]] \in D
    BY <1>1, <1>3
  <2>. HIDE DEF F, D, pre
  <2>. QED BY <1>3, <2>1, <2>2
<1>5. f = [i \in I |-> IF i = 0 THEN <<>> ELSE Append(f[nodes[i].parent], i)]
  BY <1>4
<1>6. up = [i \in I |-> IF i = 0 THEN <<>> ELSE Append(up[nodes[i].parent], i)]
  BY <1>5
<1>7. \A i : Branch(nodes, i) = up[i]
  BY DEF Branch
<1>. HIDE DEF up
<1>8. up[0] = <<>> /\ \A i \in 1..Len(nodes) : up[i] = Append(up[nodes[i].parent], i)
  <2>1. \A i \in I : up[i] = IF i = 0 THEN <<>> ELSE Append(up[nodes[i].parent], i)
    BY <1>6
  <2>2. 0 \in I /\ \A i \in 1..Len(nodes) : i \in I /\ i # 0
    BY <1>1
  <2>. QED BY <2>1, <2>2
<1>9. \A i \in 0..Len(nodes) : up[i] \in Seq(Nat)
  <2>. DEFINE T == {i \in 0..Len(nodes) : up[i] \in Seq(Nat)}
  <2>1. ASSUME NEW i \in 0..Len(nodes), \A j \in 0..(i - 1) : j \in T PROVE i \in T
    <3>1. CASE i = 0
      <4>1. up[i] \in Seq(Nat)
        BY <1>8, <3>1
      <4>. QED BY <4>1
    <3>2. CASE i # 0
      <4>1. up[i] = Append(up[nodes[i].parent], i) /\ up[nodes[i].parent] \in Seq(Nat) /\ i \in Nat
        <5>1. i \in 1..Len(nodes) /\ i \in Nat
          BY <1>1, <3>2
        <5>2. nodes[i].parent \in 0..(i - 1)
          BY <1>1, <5>1
        <5>3. up[nodes[i].parent] \in Seq(Nat)
          BY <2>1, <5>2
        <5>. QED BY <1>8, <5>1, <5>3
      <4>2. up[i] \in Seq(Nat)
        BY <4>1
      <4>. QED BY <4>2
    <3>. QED BY <3>1, <3>2
  <2>. HIDE DEF T
  <2>2. \A i \in 0..Len(nodes) : i \in T
    BY <1>1, <2>1, ByTheSmaller
  <2>. QED BY <2>2 DEF T
<1>. QED BY <1>7, <1>8, <1>9

(* The walk goes from a node to the last of its children.                   *)
LEMMA WalkUnfolds ==
  ASSUME NEW nodes, Rooted(nodes)
  PROVE  \E down \in [0..Len(nodes) -> Seq(Nat)] :
           /\ walk_linear(nodes) = down[0]
           /\ \A i \in 0..Len(nodes) :
                down[i] = IF Children(nodes, i) = {} THEN <<>>
                          ELSE <<Max(Children(nodes, i))>> \o down[Max(Children(nodes, i))]
<1>. DEFINE I == 0..Len(nodes)
            D == Seq(Nat)
            base == <<>>
            rank == [i \in I |-> Len(nodes) - i]
            Stop == {i \in I : Children(nodes, i) = {}}
            pre == [i \in I |-> Max(Children(nodes, i))]
            F == [p \in I \X D |-> <<Max(Children(nodes, p[1]))>> \o p[2]]
            down == CHOOSE down : down = [i \in I |->
                      IF Children(nodes, i) = {} THEN <<>>
                      ELSE LET j == Max(Children(nodes, i)) IN <<j>> \o down[j]]
<1>1. Len(nodes) \in Nat /\ DOMAIN nodes = 1..Len(nodes)
      /\ \A i \in 1..Len(nodes) : nodes[i].parent \in 0..(i - 1)
  BY DEF Rooted
<1>2. ASSUME NEW i \in I, Children(nodes, i) # {}
      PROVE  Max(Children(nodes, i)) \in I /\ Max(Children(nodes, i)) > i
  <2>1. Children(nodes, i) \in SUBSET (0..Len(nodes)) /\ \A j \in Children(nodes, i) : j > i
    BY <1>1 DEF Children
  <2>. QED BY <1>1, <1>2, <2>1, MaxOfNumbers
<1>3. \E f \in [I -> D] :
        \A i \in I : f[i] = IF i \in Stop THEN base ELSE F[<<i, f[pre[i]]>>]
  <2>. DEFINE G == [p \in I \X D |-> IF Children(nodes, p[1]) = {} THEN <<>> ELSE F[p]]
  <2>1. base \in D /\ G \in [I \X D -> D]
    BY <1>1, <1>2
  <2>2. rank \in [I -> 0..Len(nodes)] /\ \A i \in I \ Stop : pre[i] \in I /\ rank[pre[i]] < rank[i]
    BY <1>1, <1>2
  <2>3. \A i \in I \ Stop : \A x \in D : G[<<i, x>>] = F[<<i, x>>]
    OBVIOUS
  <2>. HIDE DEF I, D, base, rank, pre, F, G, Stop
  <2>4. PICK f \in [I -> D] :
          \A i \in I : f[i] = IF i \in Stop THEN base ELSE G[<<i, f[pre[i]]>>]
    <3>1. Recursion(I, Len(nodes), rank, Stop, pre, D, base, G)
      BY <1>1, <2>1, <2>2 DEF Recursion
    <3>. QED BY <3>1, RecursionDefines
  <2>5. \A i \in I : f[i] = IF i \in Stop THEN base ELSE F[<<i, f[pre[i]]>>]
    BY <2>2, <2>3, <2>4
  <2>. QED BY <2>4, <2>5
<1>4. PICK f \in [I -> D] :
        \A i \in I : f[i] = IF i \in Stop THEN base ELSE F[<<i, f[pre[i]]>>]
  BY <1>3
<1>5. \A i \in I : f[i] = IF Children(nodes, i) = {} THEN <<>>
                          ELSE LET j == Max(Children(nodes, i)) IN <<j>> \o f[j]
  BY <1>2, <1>4
<1>6. f = [i \in I |-> IF Children(nodes, i) = {} THEN <<>>
                       ELSE LET j == Max(Children(nodes, i)) IN <<j>> \o f[j]]
  BY <1>4, <1>5
<1>7. down = [i \in I |-> IF Children(nodes, i) = {} THEN <<>>
                          ELSE LET j == Max(Children(nodes, i)) IN <<j>> \o down[j]]
  BY <1>6
<1>8. walk_linear(nodes) = down[0]
  BY DEF walk_linear
<1>. HIDE DEF down
<1>9. \A i \in I : down[i] = IF Children(nodes, i) = {} THEN <<>>
                             ELSE <<Max(Children(nodes, i))>> \o down[Max(Children(nodes, i))]
  BY <1>7
<1>10. \A i \in I : down[i] \in Seq(Nat)
  <2>. DEFINE T == {i \in I : down[i] \in Seq(Nat)}
  <2>1. ASSUME NEW i \in I, \A j \in (i + 1)..Len(nodes) : j \in T PROVE i \in T
    <3>1. CASE Children(nodes, i) = {}
      <4>1. down[i] = <<>>
        BY <1>9, <3>1
      <4>2. down[i] \in Seq(Nat)
        BY <4>1
      <4>. QED BY <4>2
    <3>2. CASE Children(nodes, i) # {}
      <4>1. PICK j \in I : j = Max(Children(nodes, i)) /\ j > i
        BY <1>2, <3>2
      <4>2. down[i] = <<j>> \o down[j]
        BY <1>9, <3>2, <4>1
      <4>3. down[j] \in Seq(Nat) /\ <<j>> \in Seq(Nat)
        BY <1>1, <2>1, <4>1
      <4>4. down[i] \in Seq(Nat)
        BY <4>2, <4>3
      <4>. QED BY <4>4
    <3>. QED BY <3>1, <3>2
  <2>. HIDE DEF T
  <2>2. \A i \in I : i \in T
    BY <1>1, <2>1, ByTheGreater
  <2>. QED BY <2>2 DEF T
<1>11. down \in [I -> Seq(Nat)]
  BY <1>7, <1>10
<1>. QED BY <1>8, <1>9, <1>11

(* What an appended element adds, and where it may be moved to.             *)
LEMMA ToSetAppend ==
  ASSUME NEW s \in Seq(Nat), NEW e \in Nat
  PROVE  ToSet(Append(s, e)) = ToSet(s) \cup {e}
<1>1. /\ Len(Append(s, e)) = Len(s) + 1 /\ Len(s) \in Nat
      /\ Append(s, e)[Len(s) + 1] = e /\ \A i \in 1..Len(s) : Append(s, e)[i] = s[i]
      /\ DOMAIN s = 1..Len(s) /\ DOMAIN Append(s, e) = 1..(Len(s) + 1)
  OBVIOUS
<1>2. 1..(Len(s) + 1) = (1..Len(s)) \cup {Len(s) + 1}
  BY <1>1
<1>. QED BY <1>1, <1>2 DEF ToSet

LEMMA ConcatAppend ==
  ASSUME NEW s \in Seq(Nat), NEW t \in Seq(Nat), NEW e \in Nat
  PROVE  s \o (<<e>> \o t) = Append(s, e) \o t
<1>1. s \o <<e>> = Append(s, e) /\ <<e>> \in Seq(Nat)
  OBVIOUS
<1>2. (s \o <<e>>) \o t = s \o (<<e>> \o t)
  BY <1>1, ConcatAssociative
<1>. QED BY <1>1, <1>2

(* The nodes of a branch: those of the branch it grew from and its last.    *)
LEMMA BranchGrows ==
  ASSUME NEW nodes, Rooted(nodes)
  PROVE  /\ ToSet(Branch(nodes, 0)) = {}
         /\ \A i \in 1..Len(nodes) :
              ToSet(Branch(nodes, i)) = ToSet(Branch(nodes, nodes[i].parent)) \cup {i}
<1>1. ToSet(Branch(nodes, 0)) = {}
  BY BranchUnfolds DEF ToSet
<1>2. ASSUME NEW i \in 1..Len(nodes)
      PROVE  ToSet(Branch(nodes, i)) = ToSet(Branch(nodes, nodes[i].parent)) \cup {i}
  <2>1. nodes[i].parent \in 0..Len(nodes) /\ i \in Nat
    BY DEF Rooted
  <2>2. /\ Branch(nodes, nodes[i].parent) \in Seq(Nat)
        /\ Branch(nodes, i) = Append(Branch(nodes, nodes[i].parent), i)
    BY <2>1, BranchUnfolds
  <2>. QED BY <2>1, <2>2, ToSetAppend
<1>. QED BY <1>1, <1>2

(* A branch holds the branches of its nodes, and of each of its nodes but   *)
(* the last, and of the root, a child.                                      *)
LEMMA BranchClosed ==
  ASSUME NEW nodes, Rooted(nodes)
  PROVE  \A i \in 0..Len(nodes) :
           /\ i # 0 => \E k \in ToSet(Branch(nodes, i)) : nodes[k].parent = 0
           /\ i # 0 => i \in ToSet(Branch(nodes, i))
           /\ \A j \in ToSet(Branch(nodes, i)) :
                /\ j \in 1..i
                /\ ToSet(Branch(nodes, j)) \subseteq ToSet(Branch(nodes, i))
                /\ j # i => \E k \in ToSet(Branch(nodes, i)) : nodes[k].parent = j
<1>. DEFINE B(i) == ToSet(Branch(nodes, i))
            Closed(i) ==
              /\ i # 0 => \E k \in B(i) : nodes[k].parent = 0
              /\ i # 0 => i \in B(i)
              /\ \A j \in B(i) : /\ j \in 1..i /\ B(j) \subseteq B(i)
                                 /\ j # i => \E k \in B(i) : nodes[k].parent = j
            T == {i \in 0..Len(nodes) : Closed(i)}
<1>1. Len(nodes) \in Nat /\ \A i \in 1..Len(nodes) : nodes[i].parent \in 0..(i - 1)
  BY DEF Rooted
<1>2. B(0) = {} /\ \A i \in 1..Len(nodes) : B(i) = B(nodes[i].parent) \cup {i}
  BY BranchGrows
<1>. HIDE DEF B
<1>3. ASSUME NEW i \in 0..Len(nodes), \A j \in 0..(i - 1) : j \in T PROVE i \in T
  <2>1. CASE i = 0
    BY <1>2, <2>1
  <2>2. CASE i # 0
    <3>1. PICK p \in 0..(i - 1) : p = nodes[i].parent
      BY <1>1, <2>2
    <3>2. B(i) = B(p) \cup {i} /\ Closed(p)
      BY <1>1, <1>2, <1>3, <2>2, <3>1
    <3>3. \E k \in B(i) : nodes[k].parent = 0
      BY <3>1, <3>2
    <3>4. ASSUME NEW j \in B(i)
          PROVE  /\ j \in 1..i /\ B(j) \subseteq B(i)
                 /\ j # i => \E k \in B(i) : nodes[k].parent = j
      <4>1. CASE j = i
        BY <2>2, <4>1
      <4>2. CASE j \in B(p)
        BY <3>1, <3>2, <4>2
      <4>. QED BY <3>2, <4>1, <4>2
    <3>. QED BY <3>2, <3>3, <3>4
  <2>. QED BY <2>1, <2>2
<1>. HIDE DEF T
<1>4. \A i \in 0..Len(nodes) : i \in T
  BY <1>1, <1>3, ByTheSmaller
<1>. QED BY <1>4 DEF T, B

(* What is said later changes no branch that is there.                      *)
LEMMA BranchStays ==
  ASSUME NEW nodes, Rooted(nodes), NEW more, Rooted(more),
         NEW n \in Nat, n <= Len(nodes), n <= Len(more), \A i \in 1..n : more[i] = nodes[i]
  PROVE  \A i \in 0..n : Branch(more, i) = Branch(nodes, i)
<1>. DEFINE T == {i \in 0..n : Branch(more, i) = Branch(nodes, i)}
<1>1. ASSUME NEW i \in 0..n, \A j \in 0..(i - 1) : j \in T PROVE i \in T
  <2>1. CASE i = 0
    BY <2>1, BranchUnfolds
  <2>2. CASE i # 0
    <3>1. /\ Len(nodes) \in Nat /\ Len(more) \in Nat /\ i \in DOMAIN nodes
          /\ i \in 1..Len(nodes) /\ i \in 1..Len(more) /\ i \in 1..n
      BY <2>2 DEF Rooted
    <3>2. nodes[i].parent \in 0..(i - 1) /\ more[i] = nodes[i]
      BY <3>1 DEF Rooted
    <3>3. Branch(more, nodes[i].parent) = Branch(nodes, nodes[i].parent)
      BY <1>1, <3>2
    <3>4. Branch(nodes, i) = Append(Branch(nodes, nodes[i].parent), i)
      BY <3>1, BranchUnfolds
    <3>5. Branch(more, i) = Append(Branch(more, more[i].parent), i)
      BY <3>1, BranchUnfolds
    <3>6. Branch(more, i) = Branch(nodes, i)
      BY <3>2, <3>3, <3>4, <3>5
    <3>. QED BY <3>6
  <2>. QED BY <2>1, <2>2
<1>. HIDE DEF T
<1>2. \A i \in 0..n : i \in T
  BY <1>1, ByTheSmaller
<1>. QED BY <1>2 DEF T

LEMMA SpokenIsRooted ==
  ASSUME NEW nodes, Spoken(nodes)
  PROVE  Rooted(nodes) /\ Len(nodes) \in Nat /\ DOMAIN nodes = 1..Len(nodes)
BY DEF Spoken, Rooted

-----------------------------------------------------------------------------
(* The newest branch.                                                       *)

(* Its end moves to what was said last, or stays.                           *)
LEMMA EndMovesOn ==
  ASSUME NEW nodes, Rooted(nodes), NEW end, Ends(nodes, end)
  PROVE  \A n \in 0..Len(nodes) :
           /\ end[n] \in 0..n /\ (n # 0 => end[n] # 0)
           /\ \A k \in 0..n : end[k] <= end[n] /\ (end[n] <= k => end[k] = end[n])
<1>. DEFINE L == Len(nodes)
            Moved(n) == /\ end[n] \in 0..n /\ (n # 0 => end[n] # 0)
                        /\ \A k \in 0..n : end[k] <= end[n] /\ (end[n] <= k => end[k] = end[n])
            T == {n \in 0..L : Moved(n)}
<1>1. /\ L \in Nat /\ end[0] = 0
      /\ \A i \in 1..L : nodes[i].parent \in 0..(i - 1) /\ (end[i] = i \/ end[i] = end[i - 1])
      /\ \A i \in 1..L : nodes[i].parent = 0 => end[i] = i
  BY DEF Rooted, Ends, GoesOn
<1>2. ASSUME NEW n \in 0..L, \A m \in 0..(n - 1) : m \in T PROVE n \in T
  <2>1. CASE n = 0
    BY <1>1, <2>1
  <2>2. CASE n # 0
    <3>1. n \in 1..L /\ n - 1 \in 0..(n - 1) /\ Moved(n - 1)
      BY <1>1, <1>2, <2>2
    <3>2. CASE end[n] = n
      <4>1. \A k \in 0..(n - 1) : end[k] \in 0..k
        BY <1>2
      <4>2. \A k \in 0..n : k = n \/ k \in 0..(n - 1)
        BY <1>1
      <4>3. \A k \in 0..n : end[k] <= n /\ (n <= k => k = n)
        BY <1>1, <3>2, <4>1, <4>2
      <4>. QED BY <2>2, <3>2, <4>3
    <3>3. CASE end[n] = end[n - 1] /\ end[n] # n
      <4>1. n - 1 # 0
        BY <1>1, <3>1, <3>3
      <4>2. \A k \in 0..n : k = n \/ k \in 0..(n - 1)
        BY <1>1
      <4>. QED BY <3>1, <3>3, <4>1, <4>2
    <3>. QED BY <1>1, <3>1, <3>2, <3>3
  <2>. QED BY <2>1, <2>2
<1>. HIDE DEF T
<1>3. \A n \in 0..L : n \in T
  BY <1>1, <1>2, ByTheSmaller
<1>. QED BY <1>3 DEF T

(* However a conversation forked, and wherever the person went back to,     *)
(* each node of the newest branch is the last child of its parent, and its  *)
(* end has no child.                                                        *)
LEMMA NewestIsLatest ==
  ASSUME NEW nodes, Spoken(nodes), NEW end, Ends(nodes, end)
  PROVE  \A n \in 0..Len(nodes) :
           /\ \A j \in ToSet(Branch(nodes, end[n])), k \in 1..n :
                nodes[k].parent = nodes[j].parent => k <= j
           /\ \A k \in 1..n : nodes[k].parent # end[n]
<1>. DEFINE B(i) == ToSet(Branch(nodes, i))
            L == Len(nodes)
            Latest(n) == /\ \A j \in B(end[n]), k \in 1..n : nodes[k].parent = nodes[j].parent => k <= j
                         /\ \A k \in 1..n : nodes[k].parent # end[n]
            T == {n \in 0..L : Latest(n)}
<1>1. /\ Rooted(nodes) /\ L \in Nat
      /\ \A i \in 1..L : nodes[i].parent \in 0..(i - 1)
  BY SpokenIsRooted DEF Rooted
<1>2. B(0) = {} /\ \A i \in 1..L : B(i) = B(nodes[i].parent) \cup {i}
  BY <1>1, BranchGrows
<1>3. \A i \in 0..L : /\ \A j \in B(i) : j \in 1..i /\ B(j) \subseteq B(i)
                      /\ i # 0 => i \in B(i)
  BY <1>1, BranchClosed
<1>4. \A i \in 1..L : end[i] = IF nodes[i].parent = 0 \/ nodes[i].parent \in B(end[i - 1])
                               THEN i ELSE end[i - 1]
  BY DEF Ends, GoesOn
<1>. HIDE DEF B
<1>5. \A n \in 0..L : end[n] \in 0..n /\ (n # 0 => end[n] # 0)
  BY <1>1, EndMovesOn
<1>6. ASSUME NEW n \in 0..L, \A m \in 0..(n - 1) : m \in T PROVE n \in T
  <2>1. CASE n = 0
    <3>1. end[n] = 0
      BY <1>5, <2>1
    <3>. QED BY <1>2, <2>1, <3>1
  <2>2. CASE n # 0
    <3>1. PICK p \in 0..(n - 1) : p = nodes[n].parent
      BY <1>1, <2>2
    <3>2. PICK e \in 0..(n - 1) : e = end[n - 1]
      BY <1>1, <1>5, <2>2
    <3>3. /\ n \in 1..L /\ n - 1 \in 0..L /\ e \in 0..L /\ p \in 0..L /\ Latest(n - 1)
          /\ \A k \in 1..n : k = n \/ k \in 1..(n - 1)
      BY <1>1, <1>6, <2>2
    <3>4. CASE p = 0 \/ p \in B(e)
      <4>1. end[n] = n /\ B(n) = B(p) \cup {n}
        BY <1>2, <1>4, <3>1, <3>2, <3>3, <3>4
      <4>2. B(p) \subseteq B(e) /\ \A j \in B(p) : j \in 1..p
        BY <1>2, <1>3, <3>3, <3>4
      <4>3. ASSUME NEW j \in B(n), NEW k \in 1..n, nodes[k].parent = nodes[j].parent PROVE k <= j
        <5>1. CASE j = n
          BY <5>1
        <5>2. CASE j \in B(p) /\ k = n
          <6>1. j \in 1..p /\ nodes[j].parent \in 0..(j - 1) /\ nodes[j].parent = p
            BY <1>1, <3>1, <3>3, <4>2, <4>3, <5>2
          <6>. QED BY <3>1, <6>1
        <5>3. CASE j \in B(p) /\ k # n
          <6>1. k \in 1..(n - 1) /\ j \in B(end[n - 1])
            BY <3>2, <3>3, <4>2, <5>3
          <6>. QED BY <3>3, <4>3, <6>1
        <5>. QED BY <4>1, <5>1, <5>2, <5>3
      <4>4. \A k \in 1..n : nodes[k].parent # n
        BY <1>1, <3>3
      <4>. QED BY <4>1, <4>3, <4>4
    <3>5. CASE p # 0 /\ p \notin B(e)
      <4>1. end[n] = e
        BY <1>4, <3>1, <3>2, <3>3, <3>5
      <4>2. n - 1 # 0 /\ e # 0
        BY <1>5, <3>1, <3>2, <3>3, <3>5
      <4>3. ASSUME NEW j \in B(e) PROVE nodes[j].parent = 0 \/ nodes[j].parent \in B(e)
        <5>1. j \in 1..L /\ B(j) \subseteq B(e) /\ B(j) = B(nodes[j].parent) \cup {j}
          BY <1>1, <1>2, <1>3, <3>3, SMTT(30)
        <5>2. nodes[j].parent \in 0..L
          BY <1>1, <5>1
        <5>. QED BY <1>3, <5>1, <5>2
      <4>4. ASSUME NEW j \in B(e), NEW k \in 1..n, nodes[k].parent = nodes[j].parent PROVE k <= j
        <5>1. k # n
          BY <3>1, <3>5, <4>3, <4>4
        <5>. QED BY <3>2, <3>3, <4>4, <5>1
      <4>5. \A k \in 1..n : nodes[k].parent # e
        <5>1. p # e
          BY <1>3, <3>3, <3>5, <4>2
        <5>. QED BY <3>1, <3>2, <3>3, <5>1
      <4>. QED BY <4>1, <4>4, <4>5
    <3>. QED BY <3>4, <3>5
  <2>. QED BY <2>1, <2>2
<1>. HIDE DEF T
<1>7. \A n \in 0..L : n \in T
  BY <1>1, <1>6, ByTheSmaller
<1>. QED BY <1>7 DEF T, B

(* The walk down is the newest branch.                                      *)
LEMMA WalkIsNewest ==
  ASSUME NEW nodes, Spoken(nodes), NEW end, Ends(nodes, end)
  PROVE  walk_linear(nodes) = Branch(nodes, end[Len(nodes)])
<1>. DEFINE L == Len(nodes)
            e == end[L]
            B == ToSet(Branch(nodes, e))
            Node0(i) == i = 0 \/ i \in B
<1>1. /\ Rooted(nodes) /\ L \in Nat /\ L \in 0..Len(nodes) /\ DOMAIN nodes = 1..L
      /\ \A i \in 1..L : nodes[i].parent \in 0..(i - 1)
  BY SpokenIsRooted DEF Rooted
<1>2. PICK down \in [0..L -> Seq(Nat)] :
        /\ walk_linear(nodes) = down[0]
        /\ \A i \in 0..L :
             down[i] = IF Children(nodes, i) = {} THEN <<>>
                       ELSE <<Max(Children(nodes, i))>> \o down[Max(Children(nodes, i))]
  BY <1>1, WalkUnfolds
<1>3. e \in 0..L
  BY <1>1, EndMovesOn
<1>4. /\ \A j \in B, k \in 1..L : nodes[k].parent = nodes[j].parent => k <= j
      /\ \A k \in 1..L : nodes[k].parent # e
  BY <1>1, NewestIsLatest
<1>. HIDE DEF e
<1>5. /\ e # 0 => (\E k \in B : nodes[k].parent = 0) /\ e \in B
      /\ \A j \in B : j \in 1..L /\ (j # e => \E k \in B : nodes[k].parent = j)
  <2>1. \A i \in 0..Len(nodes) :
          /\ i # 0 => \E k \in ToSet(Branch(nodes, i)) : nodes[k].parent = 0
          /\ i # 0 => i \in ToSet(Branch(nodes, i))
          /\ \A j \in ToSet(Branch(nodes, i)) :
               j \in 1..i /\ (j # i => \E k \in ToSet(Branch(nodes, i)) : nodes[k].parent = j)
    BY <1>1, BranchClosed
  <2>2. \A j \in 1..e : j \in 1..L
    BY <1>1, <1>3
  <2>. QED BY <1>3, <2>1, <2>2
<1>6. /\ Branch(nodes, 0) = <<>> /\ \A i \in 0..L : Branch(nodes, i) \in Seq(Nat)
      /\ \A i \in 1..L : Branch(nodes, i) = Append(Branch(nodes, nodes[i].parent), i)
  BY <1>1, BranchUnfolds
<1>. DEFINE T == {i \in 0..L : Node0(i) => Branch(nodes, i) \o down[i] = Branch(nodes, e)}
<1>. HIDE DEF B
<1>7. ASSUME NEW i \in 0..L, \A j \in (i + 1)..L : j \in T, Node0(i)
      PROVE  Branch(nodes, i) \o down[i] = Branch(nodes, e)
  <2>1. CASE i = e
    <3>1. Children(nodes, e) = {}
      BY <1>1, <1>4 DEF Children
    <3>2. down[e] = <<>>
      BY <1>2, <1>3, <3>1
    <3>3. Branch(nodes, e) \in Seq(Nat)
      BY <1>3, <1>6
    <3>. QED BY <2>1, <3>2, <3>3, ConcatEmptySeq
  <2>2. CASE i # e
    <3>1. PICK k \in B : nodes[k].parent = i
      BY <1>5, <1>7, <2>2
    <3>2. k \in 1..L /\ k \in (i + 1)..L /\ k \in Nat
      BY <1>1, <1>5, <3>1
    <3>3. Max(Children(nodes, i)) = k /\ Children(nodes, i) # {}
      <4>1. k \in Children(nodes, i) /\ Children(nodes, i) \in SUBSET (0..L)
        BY <1>1, <3>1, <3>2 DEF Children
      <4>2. \A m \in Children(nodes, i) : m \in 1..L /\ m <= k
        BY <1>1, <1>4, <3>1 DEF Children
      <4>3. Max(Children(nodes, i)) \in Children(nodes, i) /\ k <= Max(Children(nodes, i))
        BY <1>1, <4>1, MaxOfNumbers
      <4>. QED BY <3>2, <4>1, <4>2, <4>3
    <3>4. down[i] = <<k>> \o down[k]
      BY <1>2, <3>3
    <3>5. Branch(nodes, i) \o (<<k>> \o down[k]) = Append(Branch(nodes, i), k) \o down[k]
      <4>1. Branch(nodes, i) \in Seq(Nat)
        BY <1>6
      <4>2. down[k] \in Seq(Nat)
        <5>1. k \in 0..L
          BY <1>1, <3>2
        <5>2. down \in [0..L -> Seq(Nat)]
          BY <1>2
        <5>. QED BY <5>1, <5>2
      <4>. QED BY <3>2, <4>1, <4>2, ConcatAppend
    <3>6. Branch(nodes, k) \o down[k] = Branch(nodes, e)
      BY <1>7, <3>1, <3>2
    <3>. QED BY <1>6, <3>1, <3>2, <3>4, <3>5, <3>6
  <2>. QED BY <2>1, <2>2
<1>8. \A i \in 0..L : i \in T
  <2>1. ASSUME NEW i \in 0..L, \A j \in (i + 1)..L : j \in T PROVE i \in T
    BY <1>7, <2>1
  <2>. HIDE DEF T
  <2>. QED BY <1>1, <2>1, ByTheGreater
<1>9. Branch(nodes, 0) \o down[0] = Branch(nodes, e) /\ down[0] \in Seq(Nat)
  BY <1>1, <1>2, <1>8
<1>10. walk_linear(nodes) = Branch(nodes, e)
  BY <1>2, <1>6, <1>9, ConcatEmptySeq
<1>. QED BY <1>10 DEF e

(* A conversation as far as it had got.                                     *)
LEMMA SpokenPrefix ==
  ASSUME NEW nodes, Spoken(nodes), NEW n \in 0..Len(nodes)
  PROVE  LET prefix == SubSeq(nodes, 1, n)
         IN  /\ Spoken(prefix) /\ Len(prefix) = n
             /\ \A i \in 1..n : prefix[i] = nodes[i]
             /\ \A i \in 0..n : Branch(prefix, i) = Branch(nodes, i)
<1>. DEFINE prefix == SubSeq(nodes, 1, n)
<1>1. nodes \in Seq(Node) /\ Rooted(nodes) /\ Len(nodes) \in Nat
  BY SpokenIsRooted DEF Spoken
<1>2. prefix \in Seq(Node) /\ Len(prefix) = n /\ DOMAIN prefix = 1..n
      /\ \A i \in 1..n : prefix[i] = nodes[i] /\ i \in DOMAIN nodes
  BY <1>1
<1>. HIDE DEF prefix
<1>3. Rooted(prefix)
  BY <1>1, <1>2 DEF Rooted
<1>4. \A i \in 0..n : Branch(prefix, i) = Branch(nodes, i)
  BY <1>1, <1>2, <1>3, BranchStays
<1>5. Spoken(prefix)
  BY <1>2, <1>3 DEF Spoken, Rooted
<1>. QED BY <1>2, <1>4, <1>5 DEF prefix

LEMMA EndsPrefix ==
  ASSUME NEW nodes, Spoken(nodes), NEW end, Ends(nodes, end), NEW n \in 0..Len(nodes)
  PROVE  Ends(SubSeq(nodes, 1, n), [i \in 0..n |-> end[i]])
<1>. DEFINE prefix == SubSeq(nodes, 1, n)
            fewer == [i \in 0..n |-> end[i]]
<1>1. /\ Len(prefix) = n /\ \A i \in 1..n : prefix[i] = nodes[i]
      /\ \A i \in 0..n : Branch(prefix, i) = Branch(nodes, i)
  BY SpokenPrefix
<1>. HIDE DEF prefix
<1>2. Rooted(nodes) /\ Len(nodes) \in Nat /\ n \in Nat /\ n <= Len(nodes)
  BY SpokenIsRooted
<1>3. /\ end[0] = 0
      /\ \A i \in 0..n : end[i] \in Nat /\ end[i] \in 0..n
      /\ \A i \in 1..n : end[i] = IF GoesOn(nodes, nodes[i].parent, end[i - 1]) THEN i ELSE end[i - 1]
  <2>1. \A i \in 0..n : i \in 0..Len(nodes)
    BY <1>2
  <2>2. \A i \in 0..n : end[i] \in 0..i
    BY <1>2, <2>1, EndMovesOn
  <2>3. \A i \in 0..n : end[i] \in Nat /\ end[i] \in 0..n
    BY <1>2, <2>2
  <2>4. \A i \in 1..n : i \in 1..Len(nodes)
    BY <1>2
  <2>. QED BY <2>3, <2>4 DEF Ends
<1>4. \A i \in 1..n : GoesOn(prefix, prefix[i].parent, end[i - 1]) = GoesOn(nodes, nodes[i].parent, end[i - 1])
  <2>1. \A i \in 1..n : i - 1 \in 0..n
    BY <1>2
  <2>. QED BY <1>1, <1>3, <2>1 DEF GoesOn
<1>5. fewer \in [0..n -> Nat] /\ fewer[0] = 0
      /\ \A i \in 1..n : fewer[i] = end[i] /\ fewer[i - 1] = end[i - 1]
  BY <1>2, <1>3
<1>. HIDE DEF fewer
<1>6. Ends(prefix, fewer)
  BY <1>1, <1>3, <1>4, <1>5 DEF Ends
<1>. QED BY <1>6 DEF prefix, fewer

(* ... and with one more message.                                           *)
LEMMA SpokenAppend ==
  ASSUME NEW nodes, Spoken(nodes), NEW said \in Node, said.parent \in 0..Len(nodes),
         \A i \in DOMAIN nodes : nodes[i].at < said.at
  PROVE  /\ Spoken(Append(nodes, said))
         /\ \A i \in 0..Len(nodes) : Branch(Append(nodes, said), i) = Branch(nodes, i)
<1>. DEFINE more == Append(nodes, said)
            n == Len(nodes)
<1>1. nodes \in Seq(Node) /\ Rooted(nodes) /\ n \in Nat /\ DOMAIN nodes = 1..n
  BY SpokenIsRooted DEF Spoken
<1>2. more \in Seq(Node) /\ Len(more) = n + 1 /\ DOMAIN more = 1..(n + 1)
      /\ more[n + 1] = said /\ \A i \in 1..n : more[i] = nodes[i]
  BY <1>1
<1>. HIDE DEF more
<1>3. \A i \in 1..(n + 1) : i \in 1..n \/ i = n + 1
  BY <1>1
<1>4. Rooted(more)
  BY <1>1, <1>2, <1>3 DEF Rooted
<1>5. \A i \in 0..n : Branch(more, i) = Branch(nodes, i)
  BY <1>1, <1>2, <1>4, BranchStays
<1>6. \A i, j \in 1..(n + 1) : i < j => more[i].at < more[j].at
  <2>1. \A i, j \in 1..n : i < j => nodes[i].at < nodes[j].at
    BY <1>1 DEF Spoken
  <2>. QED BY <1>1, <1>2, <1>3, <2>1
<1>7. Spoken(more)
  BY <1>2, <1>4, <1>6 DEF Spoken, Rooted
<1>. QED BY <1>5, <1>7 DEF more

LEMMA EndsAppend ==
  ASSUME NEW nodes, Spoken(nodes), NEW said \in Node, said.parent \in 0..Len(nodes),
         \A i \in DOMAIN nodes : nodes[i].at < said.at, NEW end, Ends(nodes, end)
  PROVE  \E further :
           /\ Ends(Append(nodes, said), further)
           /\ further[Len(nodes) + 1] = IF GoesOn(nodes, said.parent, end[Len(nodes)])
                                        THEN Len(nodes) + 1 ELSE end[Len(nodes)]
<1>. DEFINE more == Append(nodes, said)
            n == Len(nodes)
            last == IF GoesOn(nodes, said.parent, end[n]) THEN n + 1 ELSE end[n]
            further == [i \in 0..(n + 1) |-> IF i = n + 1 THEN last ELSE end[i]]
<1>1. nodes \in Seq(Node) /\ Rooted(nodes) /\ n \in Nat /\ DOMAIN nodes = 1..n
  BY SpokenIsRooted DEF Spoken
<1>2. /\ Len(more) = n + 1 /\ more[n + 1] = said /\ \A i \in 1..n : more[i] = nodes[i]
      /\ \A i \in 0..n : Branch(more, i) = Branch(nodes, i)
  BY <1>1, SpokenAppend
<1>. HIDE DEF more
<1>3. /\ end[0] = 0 /\ \A i \in 0..n : end[i] \in 0..n
      /\ \A i \in 1..n : end[i] = IF GoesOn(nodes, nodes[i].parent, end[i - 1]) THEN i ELSE end[i - 1]
  <2>1. \A i \in 0..n : end[i] \in 0..i
    BY <1>1, EndMovesOn
  <2>. QED BY <1>1, <2>1 DEF Ends
<1>4. \A parent : \A i \in 0..n : GoesOn(more, parent, end[i]) = GoesOn(nodes, parent, end[i])
  BY <1>2, <1>3 DEF GoesOn
<1>5. last \in Nat
  BY <1>1, <1>3
<1>6. \A i \in 0..(n + 1) : i = n + 1 \/ (i \in 0..n /\ i # n + 1)
  BY <1>1
<1>7. further \in [0..(n + 1) -> Nat] /\ further[n + 1] = last /\ \A i \in 0..n : further[i] = end[i]
  <2>. HIDE DEF last
  <2>1. \A i \in 0..n : end[i] \in Nat
    BY <1>3
  <2>. QED BY <1>1, <1>5, <1>6, <2>1
<1>. HIDE DEF further
<1>8. ASSUME NEW i \in 1..(n + 1)
      PROVE  further[i] = IF GoesOn(more, more[i].parent, further[i - 1]) THEN i ELSE further[i - 1]
  <2>1. CASE i = n + 1
    <3>1. i - 1 = n /\ n \in 0..n
      BY <1>1, <2>1
    <3>. QED BY <1>2, <1>4, <1>7, <2>1, <3>1
  <2>2. CASE i # n + 1
    <3>1. i \in 1..n /\ i \in 0..n /\ i - 1 \in 0..n
      BY <1>1, <2>2
    <3>2. more[i] = nodes[i] /\ further[i] = end[i] /\ further[i - 1] = end[i - 1]
      BY <1>2, <1>7, <3>1
    <3>3. GoesOn(more, nodes[i].parent, end[i - 1]) = GoesOn(nodes, nodes[i].parent, end[i - 1])
      BY <1>4, <3>1
    <3>. QED BY <1>3, <3>1, <3>2, <3>3
  <2>. QED BY <2>1, <2>2
<1>9. further[0] = 0
  BY <1>1, <1>3, <1>7
<1>10. Ends(more, further)
  BY <1>2, <1>7, <1>8, <1>9 DEF Ends
<1>. QED BY <1>7, <1>10 DEF more

-----------------------------------------------------------------------------
(* Records.                                                                 *)

(* A function on 0..n by its first value and, from there, the one before.   *)
Stepwise(n, D, base, F) == n \in Nat /\ base \in D /\ F \in [(0..n) \X D -> D]

LEMMA StepwiseDefines ==
  ASSUME NEW n, NEW D, NEW base, NEW F, Stepwise(n, D, base, F)
  PROVE  \E f \in [0..n -> D] : f[0] = base /\ \A i \in 1..n : f[i] = F[<<i, f[i - 1]>>]
<1>. DEFINE I == 0..n
            rank == [i \in I |-> i]
            Stop == {0}
            pre == [i \in I |-> i - 1]
<1>. USE DEF Stepwise
<1>1. Recursion(I, n, rank, Stop, pre, D, base, F)
  BY DEF Recursion
<1>2. (\A i \in 1..n : i \in I /\ i \notin Stop /\ pre[i] = i - 1) /\ 0 \in I /\ 0 \in Stop
  OBVIOUS
<1>. HIDE DEF I, rank, Stop, pre
<1>3. PICK f \in [I -> D] : \A i \in I : f[i] = IF i \in Stop THEN base ELSE F[<<i, f[pre[i]]>>]
  BY <1>1, RecursionDefines
<1>4. f[0] = base /\ \A i \in 1..n : f[i] = F[<<i, f[i - 1]>>]
  BY <1>2, <1>3
<1>. QED BY <1>3, <1>4 DEF I

(* Membership in sequences over a set.                                      *)
LEMMA SequenceOver ==
  ASSUME NEW S, NEW R, NEW s \in Seq(R), \A i \in 1..Len(s) : s[i] \in S
  PROVE  s \in Seq(S)
OBVIOUS

LEMMA AppendOver ==
  ASSUME NEW S, NEW s \in Seq(S), NEW e \in S
  PROVE  Append(s, e) \in Seq(S)
OBVIOUS

LEMMA SequenceElements ==
  ASSUME NEW S, NEW s \in Seq(S)
  PROVE  Len(s) \in Nat /\ \A i \in 1..Len(s) : s[i] \in S
OBVIOUS

(* The walk of a conversation ends where its newest branch does.            *)
LEMMA WalkEndsNewest ==
  ASSUME NEW nodes, Spoken(nodes), NEW end, Ends(nodes, end), NEW e, e = end[Len(nodes)]
  PROVE  /\ e \in 0..Len(nodes)
         /\ walk_linear(nodes) \in Seq(1..e)
         /\ nodes # <<>> => /\ Len(walk_linear(nodes)) > 0 /\ e # 0
                            /\ walk_linear(nodes)[Len(walk_linear(nodes))] = e
<1>. DEFINE L == Len(nodes)
            w == Branch(nodes, e)
<1>1. Rooted(nodes) /\ L \in Nat /\ L \in 0..Len(nodes) /\ walk_linear(nodes) = w
  BY SpokenIsRooted, WalkIsNewest
<1>2. e \in 0..L /\ (L # 0 => e # 0)
  BY <1>1, EndMovesOn
<1>3. w \in Seq(Nat)
  BY <1>1, <1>2, BranchUnfolds
<1>4. \A j \in ToSet(w) : j \in 1..e
  BY <1>1, <1>2, BranchClosed
<1>5. w \in Seq(1..e)
  <2>. HIDE DEF w, L
  <2>1. \A i \in 1..Len(w) : w[i] \in ToSet(w)
    BY <1>3 DEF ToSet
  <2>2. \A i \in 1..Len(w) : w[i] \in 1..e
    BY <1>4, <2>1
  <2>. QED BY <1>3, <2>2, SequenceOver
<1>6. ASSUME nodes # <<>> PROVE Len(w) > 0 /\ w[Len(w)] = e /\ e # 0
  <2>1. e \in 1..Len(nodes) /\ nodes \in Seq(Node)
    BY <1>1, <1>2, <1>6 DEF Spoken
  <2>2. w = Append(Branch(nodes, nodes[e].parent), e)
    BY <1>1, <2>1, BranchUnfolds
  <2>3. nodes[e].parent \in 0..Len(nodes)
    BY <1>1, <2>1 DEF Rooted
  <2>4. Branch(nodes, nodes[e].parent) \in Seq(Nat)
    BY <1>1, <2>3, BranchUnfolds
  <2>. HIDE DEF w
  <2>. QED BY <2>1, <2>2, <2>4
<1>. QED BY <1>1, <1>2, <1>5, <1>6

(* The turns are the nodes of the walk that are seen.                       *)
Keeps(nodes, kept) ==
  /\ kept[0] = <<>>
  /\ \A i \in 1..Len(walk_linear(nodes)) :
       kept[i] = IF nodes[walk_linear(nodes)[i]].kind.role = "unseen" THEN kept[i - 1]
                 ELSE Append(kept[i - 1], walk_linear(nodes)[i])

LEMMA TurnsUnfold ==
  ASSUME NEW nodes, Spoken(nodes), NEW end, Ends(nodes, end), NEW e, e = end[Len(nodes)]
  PROVE  \E kept \in [0..Len(walk_linear(nodes)) -> Seq(1..e)] :
           Turns(nodes) = kept[Len(walk_linear(nodes))] /\ Keeps(nodes, kept)
<1>. DEFINE walk == walk_linear(nodes)
            n == Len(walk)
            D == Seq(1..e)
            unseen(i) == nodes[walk[i]].kind.role = "unseen"
            F == [p \in (0..n) \X D |-> IF p[1] = 0 \/ unseen(p[1]) THEN p[2] ELSE Append(p[2], walk[p[1]])]
            kept == CHOOSE kept : kept = [i \in 0..n |->
                      IF i = 0 THEN <<>>
                      ELSE IF nodes[walk[i]].kind.role = "unseen" THEN kept[i - 1]
                      ELSE Append(kept[i - 1], walk[i])]
<1>1. walk \in D
  BY WalkEndsNewest
<1>2. Turns(nodes) = kept[n]
  BY DEF Turns
<1>. HIDE DEF walk
<1>3. n \in Nat /\ \A i \in 1..n : walk[i] \in 1..e
  BY <1>1, SequenceElements
<1>4. F \in [(0..n) \X D -> D] /\ <<>> \in D
  <2>1. \A i \in 1..n, x \in D : Append(x, walk[i]) \in D
    BY <1>3, AppendOver
  <2>2. <<>> \in D
    OBVIOUS
  <2>. HIDE DEF D
  <2>3. \A i \in 0..n, x \in D : (IF i = 0 \/ unseen(i) THEN x ELSE Append(x, walk[i])) \in D
    BY <1>3, <2>1
  <2>. QED BY <2>2, <2>3
<1>5. \A i \in 1..n, x \in D : F[<<i, x>>] = IF unseen(i) THEN x ELSE Append(x, walk[i])
  BY <1>3
<1>. HIDE DEF F
<1>6. PICK f \in [0..n -> D] : f[0] = <<>> /\ \A i \in 1..n : f[i] = F[<<i, f[i - 1]>>]
  <2>. DEFINE base == <<>>
  <2>1. base \in D /\ n \in Nat /\ F \in [(0..n) \X D -> D]
    BY <1>3, <1>4
  <2>. HIDE DEF D, n, base
  <2>2. PICK f \in [0..n -> D] : f[0] = base /\ \A i \in 1..n : f[i] = F[<<i, f[i - 1]>>]
    <3>1. Stepwise(n, D, base, F)
      BY <2>1 DEF Stepwise
    <3>. QED BY <3>1, StepwiseDefines
  <2>. QED BY <2>2 DEF base
<1>7. \A i \in 1..n : f[i - 1] \in D /\ f[i] = IF unseen(i) THEN f[i - 1] ELSE Append(f[i - 1], walk[i])
  <2>1. \A i \in 1..n : f[i - 1] \in D
    BY <1>3, <1>6
  <2>. HIDE DEF D
  <2>. QED BY <1>5, <1>6, <2>1
<1>8. f = [i \in 0..n |-> IF i = 0 THEN <<>>
                          ELSE IF nodes[walk[i]].kind.role = "unseen" THEN f[i - 1]
                          ELSE Append(f[i - 1], walk[i])]
  <2>1. \A i \in 0..n : f[i] = IF i = 0 THEN <<>>
                                ELSE IF nodes[walk[i]].kind.role = "unseen" THEN f[i - 1]
                                ELSE Append(f[i - 1], walk[i])
    <3>1. \A i \in 0..n : i = 0 \/ i \in 1..n
      BY <1>3
    <3>. HIDE DEF D, n
    <3>. QED BY <1>6, <1>7, <3>1
  <2>. HIDE DEF D, n
  <2>. QED BY <1>6, <2>1
<1>9. kept = [i \in 0..n |-> IF i = 0 THEN <<>>
                             ELSE IF nodes[walk[i]].kind.role = "unseen" THEN kept[i - 1]
                             ELSE Append(kept[i - 1], walk[i])]
  BY <1>8
<1>. HIDE DEF kept
<1>10. \A i \in 0..n : kept[i] \in D
  <2>. DEFINE T == {i \in 0..n : kept[i] \in D}
  <2>1. ASSUME NEW i \in 0..n, \A j \in 0..(i - 1) : j \in T PROVE i \in T
    <3>1. CASE i = 0
      <4>1. kept[i] \in D
        BY <1>9, <3>1
      <4>. QED BY <4>1
    <3>2. CASE i # 0
      <4>1. kept[i - 1] \in D /\ walk[i] \in 1..e
        BY <1>3, <2>1, <3>2
      <4>2. kept[i] \in {kept[i - 1], Append(kept[i - 1], walk[i])}
        BY <1>9, <3>2
      <4>3. kept[i] \in D
        BY <4>1, <4>2, AppendOver, ZenonT(30)
      <4>. HIDE DEF D
      <4>. QED BY <4>3
    <3>. QED BY <3>1, <3>2
  <2>. HIDE DEF T
  <2>2. \A i \in 0..n : i \in T
    BY <1>3, <2>1, ByTheSmaller
  <2>. QED BY <2>2 DEF T
<1>11. kept \in [0..n -> D]
  <2>. HIDE DEF D, n
  <2>. QED BY <1>9, <1>10
<1>12. kept[0] = <<>> /\ \A i \in 1..n : kept[i] = IF unseen(i) THEN kept[i - 1]
                                                   ELSE Append(kept[i - 1], walk[i])
  <2>1. 0 \in 0..n /\ \A i \in 1..n : i \in 0..n /\ i # 0
    BY <1>3
  <2>. HIDE DEF n
  <2>2. \A i \in 0..n : kept[i] = IF i = 0 THEN <<>>
                                  ELSE IF unseen(i) THEN kept[i - 1]
                                  ELSE Append(kept[i - 1], walk[i])
    BY <1>9
  <2>. QED BY <2>1, <2>2
<1>13. Keeps(nodes, kept)
  BY <1>12 DEF Keeps, walk
<1>. HIDE DEF D
<1>14. \E k \in [0..n -> D] : Turns(nodes) = k[n] /\ Keeps(nodes, k)
  BY <1>2, <1>11, <1>13
<1>. QED BY <1>14 DEF D, walk

(* What was said last on the newest branch is a turn if it is seen.         *)
LEMMA TurnsOfWalk ==
  ASSUME NEW nodes, Spoken(nodes), NEW end, Ends(nodes, end), NEW e, e = end[Len(nodes)]
  PROVE  /\ Turns(nodes) \in Seq(1..e)
         /\ nodes # <<>> /\ nodes[e].kind.role # "unseen" => e \in ToSet(Turns(nodes))
<1>. DEFINE walk == walk_linear(nodes)
            n == Len(walk)
<1>1. /\ walk \in Seq(1..e) /\ e \in 0..Len(nodes)
      /\ nodes # <<>> => n > 0 /\ walk[n] = e
  BY WalkEndsNewest
<1>2. PICK kept \in [0..n -> Seq(1..e)] : Turns(nodes) = kept[n] /\ Keeps(nodes, kept)
  BY TurnsUnfold
<1>3. n \in Nat /\ \A i \in 0..n : kept[i] \in Seq(1..e)
  <2>1. n \in Nat
    BY <1>1, SequenceElements
  <2>. QED BY <1>2, <2>1
<1>4. ASSUME nodes # <<>>, nodes[e].kind.role # "unseen" PROVE e \in ToSet(kept[n])
  <2>1. n \in 1..n /\ n - 1 \in 0..n
    BY <1>1, <1>3, <1>4
  <2>2. kept[n] = Append(kept[n - 1], e)
    BY <1>1, <1>2, <1>4, <2>1 DEF Keeps
  <2>3. kept[n - 1] \in Seq(Nat) /\ e \in Nat
    <3>1. kept[n - 1] \in Seq(1..e)
      BY <1>3, <2>1
    <3>. QED BY <1>1, <3>1
  <2>. HIDE DEF n
  <2>. QED BY <2>2, <2>3, ToSetAppend
<1>5. kept[n] \in Seq(1..e)
  <2>1. n \in 0..n
    BY <1>3
  <2>. QED BY <1>3, <2>1
<1>. QED BY <1>2, <1>4, <1>5

(* The turns are the same whatever was said besides on other branches.      *)
LEMMA SameTurns ==
  ASSUME NEW nodes, Spoken(nodes), NEW end, Ends(nodes, end),
         NEW more, Spoken(more), NEW further, Ends(more, further),
         NEW e, e = end[Len(nodes)], e = further[Len(more)],
         Branch(more, e) = Branch(nodes, e), \A i \in 1..e : more[i] = nodes[i]
  PROVE  Turns(more) = Turns(nodes)
<1>. DEFINE walk == walk_linear(nodes)
            n == Len(walk)
<1>1. walk_linear(more) = walk
  BY WalkIsNewest
<1>2. walk \in Seq(1..e)
  BY WalkEndsNewest
<1>3. PICK kept \in [0..n -> Seq(1..e)] : Turns(nodes) = kept[n] /\ Keeps(nodes, kept)
  BY TurnsUnfold
<1>4. PICK kept2 \in [0..n -> Seq(1..e)] : Turns(more) = kept2[n] /\ Keeps(more, kept2)
  BY <1>1, TurnsUnfold
<1>5. /\ kept[0] = <<>> /\ kept2[0] = <<>>
      /\ \A i \in 1..n : kept[i] = IF nodes[walk[i]].kind.role = "unseen" THEN kept[i - 1]
                                   ELSE Append(kept[i - 1], walk[i])
      /\ \A i \in 1..n : kept2[i] = IF more[walk[i]].kind.role = "unseen" THEN kept2[i - 1]
                                    ELSE Append(kept2[i - 1], walk[i])
  BY <1>1, <1>3, <1>4 DEF Keeps
<1>. HIDE DEF walk
<1>6. n \in Nat /\ \A i \in 1..n : more[walk[i]] = nodes[walk[i]]
  BY <1>2
<1>. DEFINE T == {i \in 0..n : kept2[i] = kept[i]}
<1>7. ASSUME NEW i \in 0..n, \A j \in 0..(i - 1) : j \in T PROVE i \in T
  <2>1. CASE i = 0
    BY <1>5, <2>1
  <2>2. CASE i # 0
    <3>1. i \in 1..n /\ kept2[i - 1] = kept[i - 1]
      BY <1>6, <1>7, <2>2
    <3>. QED BY <1>5, <1>6, <3>1
  <2>. QED BY <2>1, <2>2
<1>. HIDE DEF T
<1>8. \A i \in 0..n : i \in T
  BY <1>6, <1>7, ByTheSmaller
<1>9. kept2[n] = kept[n]
  BY <1>6, <1>8 DEF T
<1>. QED BY <1>3, <1>4, <1>9

(* A record is dated: its activity is the time of what was said last, or,   *)
(* without an update time, of what was said last on the newest branch.      *)
Dated(t, nodes) ==
  /\ Spoken(nodes)
  /\ \E B \in Nat : \A i \in DOMAIN nodes :
       /\ nodes[i].at \in 1..B
       /\ nodes[i].kind.role = "unseen" => "update" \in Stamps[t]

Mark(t, end, n) == IF "update" \in Stamps[t] THEN n ELSE end[n]

LEMMA ActivityIsLast ==
  ASSUME NEW t \in Talks, NEW nodes, Dated(t, nodes), NEW end, Ends(nodes, end)
  PROVE  LET R == conversation_to_record(t, nodes)
         IN  /\ R \in Record
             /\ R # NoRecord => nodes # <<>> /\ R.activity = nodes[Mark(t, end, Len(nodes))].at
<1>. DEFINE L == Len(nodes)
            e == end[L]
            m == Mark(t, end, L)
            turns == Turns(nodes)
            times == IF "message" \in Stamps[t] THEN {nodes[i].at : i \in ToSet(turns)} ELSE {}
            update == IF "update" \in Stamps[t] THEN {nodes[L].at} ELSE {}
            created == IF "create" \in Stamps[t] THEN nodes[1].at
                       ELSE IF times # {} THEN Min(times) ELSE Min(update)
            S == {created} \cup update \cup times
            R == conversation_to_record(t, nodes)
            kinds == [i \in DOMAIN turns |-> nodes[turns[i]].kind]
<1>1. /\ Spoken(nodes) /\ L \in Nat /\ DOMAIN nodes = 1..L /\ turns \in Seq(1..e) /\ nodes \in Seq(Node)
      /\ e \in 0..L /\ (nodes # <<>> => e # 0)
      /\ nodes # <<>> /\ nodes[e].kind.role # "unseen" => e \in ToSet(turns)
  BY SpokenIsRooted, TurnsOfWalk, WalkEndsNewest DEF Dated, Spoken
<1>2. PICK B \in Nat : \A i \in 1..L :
        /\ nodes[i].at \in 1..B
        /\ nodes[i].kind.role = "unseen" => "update" \in Stamps[t]
  BY <1>1 DEF Dated
<1>3. R = IF turns = <<>> THEN NoRecord
          ELSE [occurred |-> created, activity |-> Max(S), turns |-> kinds]
  BY DEF conversation_to_record
<1>4. NoRecord \in Record
  BY DEF NoRecord, Record
<1>. SUFFICES ASSUME turns # <<>>
     PROVE  nodes # <<>> /\ R \in Record /\ R.activity = nodes[m].at
  BY <1>3, <1>4
<1>5. /\ \A i \in 1..L : nodes[i].kind \in Kinds
      /\ \A i, j \in 1..L : i < j => nodes[i].at < nodes[j].at
  <2>1. \A i \in 1..L : nodes[i] \in Node
    BY <1>1
  <2>2. \A i, j \in DOMAIN nodes : i < j => nodes[i].at < nodes[j].at
    BY <1>1 DEF Spoken
  <2>. HIDE DEF L
  <2>. QED BY <1>1, <2>1, <2>2 DEF Node
<1>6. ToSet(turns) # {} /\ ToSet(turns) \subseteq 1..e /\ L # 0 /\ nodes # <<>> /\ e \in 1..L
  <2>1. Len(turns) \in Nat /\ Len(turns) # 0 /\ DOMAIN turns = 1..Len(turns)
        /\ \A i \in 1..Len(turns) : turns[i] \in 1..e
    <3>. HIDE DEF turns, e, L
    <3>. QED BY <1>1
  <2>. HIDE DEF turns, e, L
  <2>2. ToSet(turns) # {} /\ ToSet(turns) \subseteq 1..e
    BY <2>1 DEF ToSet
  <2>3. L # 0 /\ nodes # <<>>
    BY <1>1, <2>2 DEF L
  <2>. QED BY <1>1, <2>2, <2>3
<1>7. m = (IF "update" \in Stamps[t] THEN L ELSE e) /\ m \in 1..L /\ e <= m
  BY <1>1, <1>6 DEF Mark
<1>. HIDE DEF turns, m, e, L, R
<1>8. \A i \in 1..m : nodes[i].at <= nodes[m].at /\ nodes[i].at \in 1..B
  <2>1. \A i \in 1..m : i \in 1..L /\ (i = m \/ i < m)
    BY <1>1, <1>7
  <2>2. \A i \in 1..m : i < m => nodes[i].at < nodes[m].at
    BY <1>5, <1>7, <2>1
  <2>. QED BY <1>2, <1>7, <2>1, <2>2
<1>9. 1 \in 1..m /\ m \in 1..m /\ 1..e \subseteq 1..m
  BY <1>1, <1>7
<1>. DEFINE U == {x \in 1..B : x <= nodes[m].at}
<1>10. times \in SUBSET U /\ update \in SUBSET U /\ nodes[1].at \in U /\ nodes[m].at \in U
  <2>1. nodes[1].at \in U /\ nodes[m].at \in U
    BY <1>8, <1>9
  <2>2. update \in SUBSET U
    BY <1>7, <2>1
  <2>3. times \in SUBSET U
    BY <1>6, <1>8, <1>9
  <2>. QED BY <2>1, <2>2, <2>3
<1>11. times # {} \/ update # {}
  <2>1. "message" \in Stamps[t] \/ "update" \in Stamps[t]
    BY ConversationAssumption
  <2>. QED BY <1>6, <2>1
<1>12. nodes[m].at \in update \cup times
  <2>1. CASE "update" \in Stamps[t]
    BY <1>7, <2>1
  <2>2. CASE "update" \notin Stamps[t]
    <3>1. "message" \in Stamps[t]
      BY <2>2, ConversationAssumption
    <3>2. e \in ToSet(turns) /\ m = e
      BY <1>1, <1>2, <1>6, <1>7, <2>2
    <3>. QED BY <3>1, <3>2
  <2>. QED BY <2>1, <2>2
<1>. HIDE DEF times, update
<1>13. created \in U
  <2>1. times # {} => Min(times) \in times
    BY <1>10, MinOfNumbers
  <2>2. update # {} => Min(update) \in update
    BY <1>10, MinOfNumbers
  <2>. QED BY <1>10, <1>11, <2>1, <2>2
<1>14. U \subseteq 0..B
  OBVIOUS
<1>. HIDE DEF created
<1>15. S \in SUBSET U /\ S \in SUBSET (0..B) /\ nodes[m].at \in S /\ S # {}
  <2>. HIDE DEF U
  <2>. QED BY <1>10, <1>12, <1>13, <1>14
<1>. HIDE DEF S
<1>16. Max(S) = nodes[m].at /\ Max(S) \in Nat
  <2>1. Max(S) \in S /\ nodes[m].at <= Max(S)
    BY <1>15, MaxOfNumbers
  <2>. QED BY <1>10, <1>15, <2>1
<1>17. kinds \in Seq(Kinds)
  <2>1. Len(turns) \in Nat /\ DOMAIN turns = 1..Len(turns) /\ \A i \in 1..Len(turns) : turns[i] \in 1..L
    <3>1. Len(turns) \in Nat /\ DOMAIN turns = 1..Len(turns) /\ \A i \in 1..Len(turns) : turns[i] \in 1..e
      BY <1>1
    <3>2. \A i \in 1..e : i \in 1..L
      BY <1>1
    <3>. QED BY <3>1, <3>2
  <2>2. kinds = [i \in 1..Len(turns) |-> nodes[turns[i]].kind]
    BY <2>1
  <2>3. \A i \in 1..Len(turns) : nodes[turns[i]].kind \in Kinds
    BY <1>5, <2>1
  <2>. QED BY <2>1, <2>2, <2>3
<1>. HIDE DEF kinds
<1>18. R = [occurred |-> created, activity |-> Max(S), turns |-> kinds]
  BY <1>3 DEF S, created
<1>19. created \in Nat
  BY <1>13
<1>. HIDE DEF U
<1>20. R \in Record /\ R.activity = nodes[m].at
  BY <1>16, <1>17, <1>18, <1>19 DEF Record
<1>. QED BY <1>6, <1>20

(* The record of a conversation as far as its first n messages.             *)
RecordOf(talks, t, n) == conversation_to_record(t, SubSeq(talks[t], 1, n))

LEMMA RecordOfPrefix ==
  ASSUME NEW t \in Talks, NEW talks, Dated(t, talks[t]), NEW end, Ends(talks[t], end),
         NEW n \in 0..Len(talks[t])
  PROVE  /\ RecordOf(talks, t, n) \in Record
         /\ RecordOf(talks, t, n) # NoRecord =>
              /\ n # 0 /\ Mark(t, end, n) \in 1..n
              /\ RecordOf(talks, t, n).activity = talks[t][Mark(t, end, n)].at
<1>. DEFINE nodes == talks[t]
            prefix == SubSeq(nodes, 1, n)
            fewer == [i \in 0..n |-> end[i]]
<1>1. Spoken(nodes) /\ Rooted(nodes) /\ Len(nodes) \in Nat /\ DOMAIN nodes = 1..Len(nodes) /\ n \in Nat
  BY SpokenIsRooted DEF Dated
<1>2. Spoken(prefix) /\ Len(prefix) = n /\ \A i \in 1..n : prefix[i] = nodes[i]
  BY <1>1, SpokenPrefix
<1>3. RecordOf(talks, t, n) = conversation_to_record(t, prefix)
  BY DEF RecordOf
<1>4. Ends(prefix, fewer)
  BY <1>1, EndsPrefix
<1>5. Mark(t, fewer, n) = Mark(t, end, n)
  BY <1>1 DEF Mark
<1>. HIDE DEF prefix, fewer
<1>6. DOMAIN prefix = 1..n
  BY <1>2, SpokenIsRooted
<1>7. Dated(t, prefix)
  <2>1. PICK B \in Nat : \A i \in DOMAIN nodes :
          /\ nodes[i].at \in 1..B
          /\ nodes[i].kind.role = "unseen" => "update" \in Stamps[t]
    BY DEF Dated
  <2>2. \A i \in 1..n : i \in DOMAIN nodes
    BY <1>1
  <2>3. \A i \in DOMAIN prefix :
          /\ prefix[i].at \in 1..B
          /\ prefix[i].kind.role = "unseen" => "update" \in Stamps[t]
    BY <1>2, <1>6, <2>1, <2>2
  <2>. QED BY <1>2, <2>3 DEF Dated
<1>8. prefix # <<>> => n # 0
  <2>1. prefix \in Seq(Node)
    BY <1>2 DEF Spoken
  <2>. QED BY <1>2, <2>1
<1>9. n # 0 => Mark(t, end, n) \in 1..n
  <2>1. end[n] \in 0..n /\ (n # 0 => end[n] # 0)
    BY <1>1, EndMovesOn
  <2>. QED BY <1>1, <2>1 DEF Mark
<1>10. /\ RecordOf(talks, t, n) \in Record
       /\ RecordOf(talks, t, n) # NoRecord =>
            prefix # <<>> /\ RecordOf(talks, t, n).activity = prefix[Mark(t, end, n)].at
  BY <1>2, <1>3, <1>4, <1>5, <1>7, ActivityIsLast
<1>. QED BY <1>2, <1>8, <1>9, <1>10

(* Where what a record is dated by is the same, so is the record.           *)
LEMMA SameRecord ==
  ASSUME NEW t \in Talks, NEW talks, Spoken(talks[t]), NEW end, Ends(talks[t], end),
         NEW r \in 0..Len(talks[t]), NEW s \in 0..Len(talks[t]),
         Mark(t, end, r) = Mark(t, end, s)
  PROVE  RecordOf(talks, t, r) = RecordOf(talks, t, s)
<1>1. CASE "update" \in Stamps[t]
  BY <1>1 DEF Mark
<1>2. CASE "update" \notin Stamps[t]
  <2>. DEFINE nodes == talks[t]
              R == SubSeq(nodes, 1, r)
              S == SubSeq(nodes, 1, s)
              endR == [i \in 0..r |-> end[i]]
              endS == [i \in 0..s |-> end[i]]
  <2>1. PICK e : e = end[r] /\ e = end[s]
    BY <1>2 DEF Mark
  <2>2. /\ Rooted(nodes) /\ Len(nodes) \in Nat /\ r \in Nat /\ s \in Nat
        /\ e \in 0..r /\ e \in 0..s /\ (e = 0 => r = 0 /\ s = 0)
    <3>1. Rooted(nodes) /\ Len(nodes) \in Nat
      BY SpokenIsRooted
    <3>2. end[r] \in 0..r /\ (r # 0 => end[r] # 0)
      BY <3>1, EndMovesOn
    <3>3. end[s] \in 0..s /\ (s # 0 => end[s] # 0)
      BY <3>1, EndMovesOn
    <3>. QED BY <2>1, <3>1, <3>2, <3>3
  <2>3. /\ Spoken(R) /\ Len(R) = r /\ \A i \in 1..r : R[i] = nodes[i]
        /\ Spoken(S) /\ Len(S) = s /\ \A i \in 1..s : S[i] = nodes[i]
        /\ Branch(R, e) = Branch(nodes, e) /\ Branch(S, e) = Branch(nodes, e)
    BY <2>2, SpokenPrefix
  <2>4. Ends(R, endR) /\ Ends(S, endS)
    BY EndsPrefix
  <2>5. endR[r] = e /\ endS[s] = e
    <3>1. r \in 0..r /\ s \in 0..s
      BY <2>2
    <3>. QED BY <2>1, <3>1
  <2>6. RecordOf(talks, t, r) = conversation_to_record(t, R)
        /\ RecordOf(talks, t, s) = conversation_to_record(t, S)
    BY DEF RecordOf
  <2>. HIDE DEF R, S, endR, endS
  <2>7. \A i \in 1..e : R[i] = S[i]
    BY <2>2, <2>3
  <2>8. Turns(R) = Turns(S)
    BY <2>3, <2>4, <2>5, <2>7, SameTurns
  <2>9. Turns(R) \in Seq(1..e)
    BY <2>3, <2>4, <2>5, TurnsOfWalk
  <2>. DEFINE turns == Turns(R)
  <2>10. /\ \A i \in ToSet(turns) : R[i] = S[i]
         /\ \A i \in DOMAIN turns : R[turns[i]] = S[turns[i]]
         /\ turns # <<>> => R[1] = S[1]
    <3>1. turns \in Seq(1..e)
      BY <2>9
    <3>. HIDE DEF turns
    <3>2. \A i \in DOMAIN turns : turns[i] \in 1..e
      <4>1. DOMAIN turns = 1..Len(turns)
        BY <3>1
      <4>. QED BY <3>1, <4>1, SequenceElements
    <3>3. turns # <<>> => 1 \in DOMAIN turns
      BY <3>1
    <3>4. turns # <<>> => 1 \in 1..e
      BY <2>2, <3>2, <3>3
    <3>. QED BY <2>7, <3>2, <3>4 DEF ToSet
  <2>. DEFINE times(x) == IF "message" \in Stamps[t] THEN {x[i].at : i \in ToSet(turns)} ELSE {}
              created(x) == IF "create" \in Stamps[t] THEN x[1].at
                            ELSE IF times(x) # {} THEN Min(times(x)) ELSE Min({})
              kinds(x) == [i \in DOMAIN turns |-> x[turns[i]].kind]
              record(x) == [occurred |-> created(x), activity |-> Max({created(x)} \cup {} \cup times(x)),
                            turns |-> kinds(x)]
  <2>11. conversation_to_record(t, R) = IF turns = <<>> THEN NoRecord ELSE record(R)
    BY <1>2 DEF conversation_to_record
  <2>12. conversation_to_record(t, S) = IF turns = <<>> THEN NoRecord ELSE record(S)
    BY <1>2, <2>8 DEF conversation_to_record
  <2>. HIDE DEF turns
  <2>13. times(R) = times(S)
    <3>. DEFINE seen == ToSet(turns)
    <3>1. \A i \in seen : R[i].at = S[i].at
      BY <2>10
    <3>. HIDE DEF seen
    <3>2. {R[i].at : i \in seen} = {S[i].at : i \in seen}
      BY <3>1
    <3>. QED BY <3>2 DEF seen
  <2>14. turns # <<>> => kinds(R) = kinds(S)
    BY <2>10
  <2>. HIDE DEF times, kinds
  <2>15. turns # <<>> => created(R) = created(S)
    BY <2>10, <2>13
  <2>. HIDE DEF created
  <2>16. turns # <<>> => record(R) = record(S)
    BY <2>13, <2>14, <2>15
  <2>. QED BY <2>6, <2>11, <2>12, <2>16
<1>. QED BY <1>1, <1>2

(* The mark moves on, and stays while it is within what had been said.      *)
LEMMA MarkMovesOn ==
  ASSUME NEW t \in Talks, NEW nodes, Spoken(nodes), NEW end, Ends(nodes, end),
         NEW r \in 0..Len(nodes), NEW s \in 0..Len(nodes), r <= s
  PROVE  /\ Mark(t, end, r) \in 0..r /\ Mark(t, end, s) \in 0..s
         /\ Mark(t, end, r) <= Mark(t, end, s)
         /\ Mark(t, end, s) <= r => Mark(t, end, r) = Mark(t, end, s)
<1>1. Rooted(nodes) /\ Len(nodes) \in Nat /\ r \in Nat /\ s \in Nat /\ r \in 0..s
  BY SpokenIsRooted
<1>2. /\ end[r] \in 0..r /\ end[s] \in 0..s
      /\ end[r] <= end[s] /\ (end[s] <= r => end[r] = end[s])
  BY <1>1, EndMovesOn
<1>. QED BY <1>1, <1>2 DEF Mark

-----------------------------------------------------------------------------
(* Snapshots.                                                               *)

(* What is said later is in no snapshot.                                    *)
LEMMA SnapshotStays ==
  ASSUME NEW talks \in [Talks -> Seq(Node)], NEW t \in Talks, NEW said,
         NEW snapshot, NEW time \in Nat, said.at \in Nat, said.at > time,
         TakenAt(talks, snapshot, time)
  PROVE  TakenAt([talks EXCEPT ![t] = Append(@, said)], snapshot, time)
<1>. DEFINE more == [talks EXCEPT ![t] = Append(@, said)]
<1>1. ASSUME NEW u \in Talks
      PROVE  /\ snapshot[u] \in 0..Len(more[u])
             /\ \A i \in DOMAIN more[u] : more[u][i].at <= time <=> i <= snapshot[u]
  <2>1. /\ talks[u] \in Seq(Node) /\ Len(talks[u]) \in Nat /\ DOMAIN talks[u] = 1..Len(talks[u])
        /\ snapshot[u] \in 0..Len(talks[u])
        /\ \A i \in 1..Len(talks[u]) : talks[u][i].at <= time <=> i <= snapshot[u]
    BY DEF TakenAt
  <2>2. CASE u # t
    <3>1. more[u] = talks[u]
      BY <2>2
    <3>. QED BY <2>1, <3>1
  <2>3. CASE u = t
    <3>1. more[u] = Append(talks[u], said)
      BY <2>3
    <3>2. /\ Len(more[u]) = Len(talks[u]) + 1 /\ DOMAIN more[u] = 1..(Len(talks[u]) + 1)
          /\ more[u][Len(talks[u]) + 1] = said
          /\ \A i \in 1..Len(talks[u]) : more[u][i] = talks[u][i]
      BY <2>1, <3>1
    <3>3. \A i \in 1..(Len(talks[u]) + 1) : i \in 1..Len(talks[u]) \/ i = Len(talks[u]) + 1
      BY <2>1
    <3>. HIDE DEF more
    <3>. QED BY <2>1, <3>2, <3>3
  <2>. QED BY <2>2, <2>3
<1>. HIDE DEF more
<1>2. TakenAt(more, snapshot, time)
  BY <1>1 DEF TakenAt
<1>. QED BY <1>2 DEF more

(* A later snapshot holds no less of any conversation.                      *)
LEMMA LaterSnapshot ==
  ASSUME NEW talks \in [Talks -> Seq(Node)], NEW s, NEW r, NEW sigma \in Nat, NEW rho \in Nat,
         TakenAt(talks, s, sigma), TakenAt(talks, r, rho), sigma <= rho, NEW t \in Talks
  PROVE  s[t] \in Nat /\ r[t] \in Nat /\ s[t] <= r[t]
<1>1. /\ talks[t] \in Seq(Node) /\ Len(talks[t]) \in Nat /\ DOMAIN talks[t] = 1..Len(talks[t])
      /\ s[t] \in 0..Len(talks[t]) /\ r[t] \in 0..Len(talks[t])
      /\ \A i \in 1..Len(talks[t]) : talks[t][i].at \in Nat
      /\ \A i \in 1..Len(talks[t]) : talks[t][i].at <= sigma <=> i <= s[t]
      /\ \A i \in 1..Len(talks[t]) : talks[t][i].at <= rho <=> i <= r[t]
  <2>1. talks[t] \in Seq(Node) /\ Len(talks[t]) \in Nat /\ DOMAIN talks[t] = 1..Len(talks[t])
    OBVIOUS
  <2>2. \A i \in 1..Len(talks[t]) : talks[t][i].at \in Nat
    <3>1. \A i \in 1..Len(talks[t]) : talks[t][i] \in Node
      BY <2>1
    <3>. QED BY <3>1 DEF Node
  <2>. QED BY <2>1, <2>2 DEF TakenAt
<1>2. CASE s[t] # 0
  <2>1. s[t] \in 1..Len(talks[t]) /\ s[t] <= s[t]
    BY <1>1, <1>2
  <2>2. talks[t][s[t]].at <= sigma /\ talks[t][s[t]].at \in Nat
    BY <1>1, <2>1
  <2>. QED BY <1>1, <2>1, <2>2
<1>. QED BY <1>1, <1>2

(* Snapshots are compared conversation by conversation.                     *)
LEMMA SameSnapshot ==
  ASSUME NEW talks, NEW s, NEW r, NEW time, TakenAt(talks, s, time), \A t \in Talks : r[t] = s[t]
  PROVE  TakenAt(talks, r, time)
BY DEF TakenAt

LEMMA MaxOfPair ==
  ASSUME NEW a \in Nat, NEW b \in Nat
  PROVE  Max({a, b}) = IF a >= b THEN a ELSE b
<1>1. {a, b} \in SUBSET (0..(a + b)) /\ {a, b} # {} /\ a + b \in Nat
  OBVIOUS
<1>2. Max({a, b}) \in {a, b} /\ a <= Max({a, b}) /\ b <= Max({a, b})
  BY <1>1, MaxOfNumbers
<1>. QED BY <1>2

(* The most of two snapshots is the later one.                              *)
LEMMA MostIsLater ==
  ASSUME NEW talks \in [Talks -> Seq(Node)], NEW s, NEW r, NEW sigma \in Nat, NEW rho \in Nat,
         TakenAt(talks, s, sigma), TakenAt(talks, r, rho)
  PROVE  LET most == [t \in Talks |-> Max({r[t], s[t]})]
         IN  /\ sigma <= rho => TakenAt(talks, most, rho) /\ \A t \in Talks : most[t] = r[t]
             /\ rho <= sigma => TakenAt(talks, most, sigma) /\ \A t \in Talks : most[t] = s[t]
<1>. DEFINE most == [t \in Talks |-> Max({r[t], s[t]})]
<1>1. CASE sigma <= rho
  <2>1. \A t \in Talks : s[t] \in Nat /\ r[t] \in Nat /\ s[t] <= r[t]
    BY <1>1, LaterSnapshot
  <2>2. \A t \in Talks : most[t] = r[t]
    BY <2>1, MaxOfPair
  <2>. HIDE DEF most
  <2>3. TakenAt(talks, most, rho)
    BY <2>2, SameSnapshot
  <2>4. rho <= sigma => sigma = rho /\ \A t \in Talks : r[t] = s[t]
    BY <1>1, LaterSnapshot
  <2>. QED BY <1>1, <2>2, <2>3, <2>4 DEF most
<1>2. CASE rho <= sigma
  <2>1. \A t \in Talks : s[t] \in Nat /\ r[t] \in Nat /\ r[t] <= s[t]
    BY <1>2, LaterSnapshot
  <2>2. \A t \in Talks : most[t] = s[t]
    BY <2>1, MaxOfPair
  <2>. HIDE DEF most
  <2>3. TakenAt(talks, most, sigma)
    BY <2>2, SameSnapshot
  <2>4. sigma <= rho => sigma = rho /\ \A t \in Talks : r[t] = s[t]
    BY <1>2, LaterSnapshot
  <2>. QED BY <1>2, <2>2, <2>3, <2>4 DEF most
<1>. QED BY <1>1, <1>2

-----------------------------------------------------------------------------
(* Steps of the provider and the person.                                    *)

LEMMA ThreadsAreDated ==
  ASSUME TalkInv
  PROVE  \A t \in Talks : Dated(t, thread[t])
BY DEF TalkInv, Dated

(* A message keeps the conversations in order, and every record as it was.  *)
LEMMA SayKeeps ==
  ASSUME TalkInv, NEW t \in Talks, NEW kind \in Kinds, NEW parent \in 0..Len(thread[t]),
         Say(t, parent, kind)
  PROVE  /\ TalkInv'
         /\ \E said : said.at = clock + 1 /\ thread' = [thread EXCEPT ![t] = Append(@, said)]
         /\ \A u \in Talks : \A n \in 0..Len(thread[u]) : RecordOf(thread', u, n) = RecordOf(thread, u, n)
<1>. DEFINE said == [parent |-> parent, at |-> clock + 1, kind |-> kind]
<1>1. /\ clock \in Nat /\ thread \in [Talks -> Seq(Node)]
      /\ \A u \in Talks :
           /\ Spoken(thread[u])
           /\ \A i \in DOMAIN thread[u] :
                /\ thread[u][i].at \in 1..clock
                /\ thread[u][i].kind.role = "unseen" => "update" \in Stamps[u]
           /\ \E end : Ends(thread[u], end) /\ newest[u] = end[Len(thread[u])]
      /\ newest \in [Talks -> Nat]
  BY DEF TalkInv
<1>2. /\ kind.role = "unseen" => "update" \in Stamps[t]
      /\ clock' = clock + 1
      /\ thread' = [thread EXCEPT ![t] = Append(@, said)]
      /\ newest' = IF GoesOn(thread[t], parent, newest[t])
                   THEN [newest EXCEPT ![t] = Len(thread[t]) + 1] ELSE newest
  BY <1>1 DEF Say, GoesOn
<1>3. \A u \in Talks : /\ thread[u] \in Seq(Node) /\ Len(thread[u]) \in Nat
                       /\ DOMAIN thread[u] = 1..Len(thread[u])
  BY <1>1
<1>4. said \in Node /\ said.at = clock + 1 /\ said.parent = parent /\ said.kind = kind
  BY <1>1, <1>3 DEF Node
<1>. HIDE DEF said
<1>5. /\ thread'[t] = Append(thread[t], said)
      /\ \A u \in Talks : u # t => thread'[u] = thread[u]
  BY <1>1, <1>2
<1>6. /\ thread'[t] \in Seq(Node)
      /\ Len(thread'[t]) = Len(thread[t]) + 1 /\ DOMAIN thread'[t] = 1..(Len(thread[t]) + 1)
      /\ thread'[t][Len(thread[t]) + 1] = said
      /\ \A i \in 1..Len(thread[t]) : thread'[t][i] = thread[t][i]
  BY <1>3, <1>4, <1>5
<1>7. Spoken(thread'[t])
  <2>1. \A i \in DOMAIN thread[t] : thread[t][i].at < said.at
    BY <1>1, <1>4
  <2>2. said.parent \in 0..Len(thread[t])
    BY <1>4
  <2>3. Spoken(thread[t])
    BY <1>1
  <2>. QED BY <1>4, <1>5, <2>1, <2>2, <2>3, SpokenAppend
<1>8. \A i \in DOMAIN thread'[t] :
        /\ thread'[t][i].at \in 1..(clock + 1)
        /\ thread'[t][i].kind.role = "unseen" => "update" \in Stamps[t]
  <2>1. \A i \in 1..(Len(thread[t]) + 1) : i \in 1..Len(thread[t]) \/ i = Len(thread[t]) + 1
    BY <1>3
  <2>2. said.at \in 1..(clock + 1) /\ (said.kind.role = "unseen" => "update" \in Stamps[t])
    BY <1>1, <1>2, <1>4
  <2>3. \A i \in 1..Len(thread[t]) :
          /\ thread[t][i].at \in 1..(clock + 1)
          /\ thread[t][i].kind.role = "unseen" => "update" \in Stamps[t]
    BY <1>1, <1>3
  <2>. QED BY <1>6, <2>1, <2>2, <2>3
<1>9. \A u \in Talks : /\ Spoken(thread'[u])
                       /\ \A i \in DOMAIN thread'[u] :
                            /\ thread'[u][i].at \in 1..(clock + 1)
                            /\ thread'[u][i].kind.role = "unseen" => "update" \in Stamps[u]
  <2>1. ASSUME NEW u \in Talks, u # t
        PROVE  /\ Spoken(thread'[u])
               /\ \A i \in DOMAIN thread'[u] :
                    /\ thread'[u][i].at \in 1..(clock + 1)
                    /\ thread'[u][i].kind.role = "unseen" => "update" \in Stamps[u]
    BY <1>1, <1>5, <2>1
  <2>. QED BY <1>7, <1>8, <2>1
<1>10. thread' \in [Talks -> Seq(Node)] /\ newest' \in [Talks -> Nat]
  <2>1. thread' \in [Talks -> Seq(Node)]
    BY <1>1, <1>2, <1>5, <1>6
  <2>2. Len(thread[t]) + 1 \in Nat
    BY <1>3
  <2>. QED BY <1>1, <1>2, <2>1, <2>2
<1>11. \A u \in Talks : \E end : Ends(thread'[u], end) /\ newest'[u] = end[Len(thread'[u])]
  <2>1. ASSUME NEW u \in Talks, u # t
        PROVE  \E end : Ends(thread'[u], end) /\ newest'[u] = end[Len(thread'[u])]
    <3>1. newest'[u] = newest[u]
      BY <1>1, <1>2, <2>1
    <3>. QED BY <1>1, <1>5, <2>1, <3>1
  <2>2. PICK end : Ends(thread[t], end) /\ newest[t] = end[Len(thread[t])]
    BY <1>1
  <2>3. newest'[t] = IF GoesOn(thread[t], said.parent, end[Len(thread[t])])
                     THEN Len(thread[t]) + 1 ELSE end[Len(thread[t])]
    BY <1>1, <1>2, <1>4, <2>2
  <2>4. Spoken(thread[t]) /\ said.parent \in 0..Len(thread[t])
        /\ \A i \in DOMAIN thread[t] : thread[t][i].at < said.at
    BY <1>1, <1>4
  <2>5. PICK further :
          /\ Ends(Append(thread[t], said), further)
          /\ further[Len(thread[t]) + 1] = IF GoesOn(thread[t], said.parent, end[Len(thread[t])])
                                           THEN Len(thread[t]) + 1 ELSE end[Len(thread[t])]
    BY <1>4, <2>2, <2>4, EndsAppend
  <2>6. Ends(thread'[t], further) /\ newest'[t] = further[Len(thread'[t])]
    BY <1>5, <1>6, <2>3, <2>5
  <2>. QED BY <2>1, <2>6
<1>12. TalkInv'
  <2>1. clock' \in Nat
    BY <1>1, <1>2
  <2>. QED BY <1>2, <1>9, <1>10, <1>11, <2>1 DEF TalkInv
<1>13. ASSUME NEW u \in Talks, NEW n \in 0..Len(thread[u])
       PROVE  RecordOf(thread', u, n) = RecordOf(thread, u, n)
  <2>1. CASE u # t
    BY <1>5, <2>1 DEF RecordOf
  <2>2. CASE u = t
    <3>1. n \in Nat /\ 1..n \subseteq 1..Len(thread[t])
      BY <1>3, <2>2
    <3>2. SubSeq(thread'[t], 1, n) = [i \in 1..n |-> thread'[t][i]]
      BY <1>6, <3>1
    <3>3. SubSeq(thread[t], 1, n) = [i \in 1..n |-> thread[t][i]]
      BY <1>3, <3>1
    <3>4. SubSeq(thread'[t], 1, n) = SubSeq(thread[t], 1, n)
      BY <1>6, <3>1, <3>2, <3>3
    <3>. QED BY <2>2, <3>4 DEF RecordOf
  <2>. QED BY <2>1, <2>2
<1>. QED BY <1>2, <1>4, <1>12, <1>13

(* Nothing that was exported or fetched changes with what is said.          *)
LEMMA SayKeepsExports ==
  ASSUME TalkInv, ExportInv, MemoryInv,
         NEW t \in Talks, NEW kind \in Kinds, NEW parent \in 0..Len(thread[t]),
         Say(t, parent, kind)
  PROVE  ExportInv' /\ MemoryInv'
<1>1. clock \in Nat /\ thread \in [Talks -> Seq(Node)]
  BY DEF TalkInv
<1>2. /\ clock' = clock + 1 /\ export' = export
      /\ memory' = memory /\ given' = given /\ read' = read /\ inOrder' = inOrder
  BY DEF Say, memo
<1>3. PICK said : said.at = clock + 1 /\ thread' = [thread EXCEPT ![t] = Append(@, said)]
  BY SayKeeps
<1>4. ASSUME NEW snapshot, NEW time \in 0..clock, TakenAt(thread, snapshot, time)
      PROVE  TakenAt(thread', snapshot, time)
  <2>1. time \in Nat /\ said.at \in Nat /\ said.at > time
    BY <1>1, <1>3
  <2>. QED BY <1>1, <1>3, <1>4, <2>1, SnapshotStays
<1>5. ExportInv'
  <2>1. \A p \in ToSet(Places) : \E time \in 0..clock' : TakenAt(thread', export[p], time)
    <3>1. \A p \in ToSet(Places) : \E time \in 0..clock : TakenAt(thread, export[p], time)
      BY DEF ExportInv
    <3>2. \A time \in 0..clock : time \in 0..clock'
      BY <1>1, <1>2
    <3>. QED BY <1>4, <3>1, <3>2
  <2>2. export \in [ToSet(Places) -> [Talks -> Nat]]
    BY DEF ExportInv
  <2>. QED BY <1>2, <2>1, <2>2 DEF ExportInv
<1>6. MemoryInv'
  <2>1. /\ memory \in [Talks -> Record] /\ given \in 0..clock /\ read \in [Talks -> Nat]
        /\ inOrder \in BOOLEAN
        /\ \A u \in Talks : memory[u] # NoRecord => memory[u].activity <= given
        /\ NewsIsFetched
    BY DEF MemoryInv
  <2>2. PICK time \in given..clock : TakenAt(thread, read, time)
    BY DEF MemoryInv
  <2>3. time \in 0..clock /\ time \in given..clock' /\ given \in 0..clock'
    BY <1>1, <1>2, <2>1
  <2>4. TakenAt(thread', read, time)
    BY <1>4, <2>2, <2>3
  <2>5. NewsIsFetched'
    <3>1. ASSUME inOrder, NEW u \in Talks PROVE RecordOf(thread', u, read[u]) \in {memory[u], NoRecord}
      <4>1. read[u] \in 0..Len(thread[u])
        BY <2>2 DEF TakenAt
      <4>2. RecordOf(thread', u, read[u]) = RecordOf(thread, u, read[u])
        BY <4>1, SayKeeps
      <4>3. RecordOf(thread, u, read[u]) \in {memory[u], NoRecord}
        BY <2>1, <3>1 DEF NewsIsFetched, RecordIn, RecordOf
      <4>. QED BY <4>2, <4>3
    <3>. QED BY <1>2, <3>1 DEF NewsIsFetched, RecordIn, RecordOf
  <2>. QED BY <1>2, <2>1, <2>3, <2>4, <2>5 DEF MemoryInv
<1>. QED BY <1>5, <1>6

(* An export is a snapshot of the moment; a place without one is empty.     *)
LEMMA DropKeepsExports ==
  ASSUME TalkInv, ExportInv, NEW p \in ToSet(Places), DropExport(p) \/ RemoveExport(p)
  PROVE  ExportInv'
<1>1. /\ clock \in Nat /\ thread \in [Talks -> Seq(Node)]
      /\ \A t \in Talks : \A i \in DOMAIN thread[t] : thread[t][i].at \in 1..clock
  BY DEF TalkInv
<1>2. /\ clock' = clock /\ thread' = thread
      /\ export' = [export EXCEPT ![p] = [t \in Talks |-> Len(thread[t])]]
         \/ export' = [export EXCEPT ![p] = NoExport]
  BY DEF DropExport, RemoveExport, talking
<1>3. \A t \in Talks : /\ Len(thread[t]) \in Nat /\ DOMAIN thread[t] = 1..Len(thread[t])
                       /\ \A i \in 1..Len(thread[t]) : thread[t][i].at \in 1..clock
  BY <1>1
<1>4. /\ export \in [ToSet(Places) -> [Talks -> Nat]]
      /\ \A q \in ToSet(Places) : \E time \in 0..clock : TakenAt(thread, export[q], time)
  BY DEF ExportInv
<1>5. PICK snapshot \in [Talks -> Nat] :
        export' = [export EXCEPT ![p] = snapshot] /\ \E time \in 0..clock : TakenAt(thread, snapshot, time)
  <2>1. /\ [t \in Talks |-> Len(thread[t])] \in [Talks -> Nat]
        /\ TakenAt(thread, [t \in Talks |-> Len(thread[t])], clock)
    BY <1>1, <1>3 DEF TakenAt
  <2>2. NoExport \in [Talks -> Nat] /\ TakenAt(thread, NoExport, 0)
    BY <1>1, <1>3 DEF TakenAt, NoExport
  <2>3. clock \in 0..clock /\ 0 \in 0..clock
    BY <1>1
  <2>. QED BY <1>2, <2>1, <2>2, <2>3
<1>6. \A q \in ToSet(Places) : export'[q] \in {export[q], snapshot}
  BY <1>4, <1>5
<1>7. export' \in [ToSet(Places) -> [Talks -> Nat]]
  BY <1>4, <1>5
<1>. QED BY <1>2, <1>4, <1>5, <1>6, <1>7 DEF ExportInv

(* A part of the invariant whose variables a step leaves alone.             *)
LEMMA ExportKept ==
  ASSUME ExportInv, UNCHANGED <<clock, thread, export>>
  PROVE  ExportInv'
BY DEF ExportInv

LEMMA MemoryKept ==
  ASSUME MemoryInv, UNCHANGED <<clock, thread, memory, given, inOrder, read>>
  PROVE  MemoryInv'
BY DEF MemoryInv, NewsIsFetched, RecordIn

LEMMA TalkKept ==
  ASSUME TalkInv, UNCHANGED talking
  PROVE  TalkInv'
BY DEF TalkInv, talking

(* An export that is found is at one of the owner's places.                 *)
LEMMA ResolvedPlace ==
  ASSUME NEW p \in resolve_export_path
  PROVE  p \in ToSet(Places)
<1>. DEFINE S == {i \in DOMAIN Places : export[Places[i]] # NoExport}
<1>1. Len(Places) \in Nat /\ DOMAIN Places = 1..Len(Places)
  BY ConversationAssumption
<1>2. S \in SUBSET Nat /\ S \subseteq DOMAIN Places
  BY <1>1
<1>3. resolve_export_path = IF S = {} THEN {} ELSE {Places[Min(S)]}
  BY DEF resolve_export_path
<1>. HIDE DEF S
<1>4. S # {} /\ p = Places[Min(S)]
  BY <1>3
<1>5. Min(S) \in S
  BY <1>2, <1>4, MinOfNumbers
<1>. QED BY <1>2, <1>4, <1>5 DEF ToSet

-----------------------------------------------------------------------------
(* Fetching.                                                                *)

(* The times of records that a snapshot yields.                             *)
LEMMA RecordTimes ==
  ASSUME TalkInv, NEW s, NEW sigma \in 0..clock, TakenAt(thread, s, sigma), NEW t \in Talks,
         NEW end, Ends(thread[t], end)
  PROVE  /\ RecordOf(thread, t, s[t]) \in Record
         /\ RecordOf(thread, t, s[t]) # NoRecord =>
              /\ s[t] \in 1..Len(thread[t]) /\ Mark(t, end, s[t]) \in 1..s[t]
              /\ RecordOf(thread, t, s[t]).activity = thread[t][Mark(t, end, s[t])].at
              /\ RecordOf(thread, t, s[t]).activity \in 1..sigma
<1>1. Dated(t, thread[t])
  BY ThreadsAreDated
<1>2. /\ s[t] \in 0..Len(thread[t]) /\ thread[t] \in Seq(Node) /\ Len(thread[t]) \in Nat
      /\ DOMAIN thread[t] = 1..Len(thread[t])
      /\ \A i \in 1..Len(thread[t]) : thread[t][i].at \in 1..clock
      /\ \A i \in 1..Len(thread[t]) : thread[t][i].at <= sigma <=> i <= s[t]
      /\ clock \in Nat
  BY DEF TakenAt, TalkInv
<1>3. /\ RecordOf(thread, t, s[t]) \in Record
      /\ RecordOf(thread, t, s[t]) # NoRecord =>
           /\ s[t] # 0 /\ Mark(t, end, s[t]) \in 1..s[t]
           /\ RecordOf(thread, t, s[t]).activity = thread[t][Mark(t, end, s[t])].at
  <2>1. PICK n \in 0..Len(thread[t]) : n = s[t]
    BY <1>2
  <2>2. PICK talks : talks = thread
    OBVIOUS
  <2>3. /\ RecordOf(talks, t, n) \in Record
        /\ RecordOf(talks, t, n) # NoRecord =>
             /\ n # 0 /\ Mark(t, end, n) \in 1..n
             /\ RecordOf(talks, t, n).activity = talks[t][Mark(t, end, n)].at
    BY <1>1, <2>2, RecordOfPrefix
  <2>. QED BY <2>1, <2>2, <2>3
<1>4. ASSUME NEW m \in 1..s[t], s[t] # 0
      PROVE  s[t] \in 1..Len(thread[t]) /\ thread[t][m].at \in 1..sigma
  <2>1. s[t] \in 1..Len(thread[t]) /\ m \in 1..Len(thread[t]) /\ m <= s[t]
    BY <1>2, <1>4
  <2>2. thread[t][m].at <= sigma /\ thread[t][m].at \in 1..clock
    BY <1>2, <2>1
  <2>. QED BY <1>2, <2>1, <2>2
<1>. QED BY <1>3, <1>4

(* What Fetch does, in terms of the snapshot it reads and of those that     *)
(* yield a record.                                                          *)
Yields(talks, s, since, t) ==
  RecordOf(talks, t, s[t]) # NoRecord /\ RecordOf(talks, t, s[t]).activity >= since

LEMMA WhatFetchDoes ==
  ASSUME TalkInv, ExportInv, MemoryInv, Fetch
  PROVE  \E s \in [Talks -> Nat], sigma \in 0..clock, since \in 0..clock, yielded \in SUBSET Talks :
           /\ TakenAt(thread, s, sigma)
           /\ \A t \in Talks : t \in yielded <=> Yields(thread, s, since, t)
           /\ memory' = [t \in Talks |-> IF t \in yielded THEN RecordOf(thread, t, s[t]) ELSE memory[t]]
           /\ read' = [t \in Talks |-> Max({read[t], s[t]})]
           /\ given' = Max({given} \cup {RecordOf(thread, t, s[t]).activity : t \in yielded})
           /\ inOrder' = AsksForTheNews(s, since)
<1>1. PICK p \in resolve_export_path :
        \E record \in {[t \in Talks |-> RecordIn(export[p], t)]}, since \in 0..clock :
        /\ memory' = [t \in Talks |-> IF t \in parse_export(record, since) THEN record[t] ELSE memory[t]]
        /\ read' = [t \in Talks |-> Max({read[t], export[p][t]})]
        /\ given' = Max({given} \cup {record[t].activity : t \in parse_export(record, since)})
        /\ inOrder' = AsksForTheNews(export[p], since)
  BY DEF Fetch
<1>2. PICK record \in {[t \in Talks |-> RecordIn(export[p], t)]}, since \in 0..clock :
        /\ memory' = [t \in Talks |-> IF t \in parse_export(record, since) THEN record[t] ELSE memory[t]]
        /\ read' = [t \in Talks |-> Max({read[t], export[p][t]})]
        /\ given' = Max({given} \cup {record[t].activity : t \in parse_export(record, since)})
        /\ inOrder' = AsksForTheNews(export[p], since)
  BY <1>1
<1>. DEFINE s == export[p]
            yielded == parse_export(record, since)
<1>3. s \in [Talks -> Nat]
  BY ResolvedPlace DEF ExportInv
<1>4. PICK sigma \in 0..clock : TakenAt(thread, s, sigma)
  BY ResolvedPlace DEF ExportInv
<1>5. \A t \in Talks : record[t] = RecordOf(thread, t, s[t])
  BY <1>2 DEF RecordIn, RecordOf
<1>6. yielded \in SUBSET Talks
      /\ \A t \in Talks : t \in yielded <=> record[t] # NoRecord /\ record[t].activity >= since
  BY DEF parse_export
<1>. HIDE DEF s, yielded
<1>7. \A t \in Talks : t \in yielded <=> Yields(thread, s, since, t)
  BY <1>5, <1>6 DEF Yields
<1>8. memory' = [t \in Talks |-> IF t \in yielded THEN RecordOf(thread, t, s[t]) ELSE memory[t]]
  BY <1>2, <1>5 DEF yielded
<1>9. {record[t].activity : t \in yielded} = {RecordOf(thread, t, s[t]).activity : t \in yielded}
  BY <1>5, <1>6
<1>10. given' = Max({given} \cup {RecordOf(thread, t, s[t]).activity : t \in yielded})
  BY <1>2, <1>9 DEF yielded
<1>11. read' = [t \in Talks |-> Max({read[t], s[t]})] /\ inOrder' = AsksForTheNews(s, since)
  BY <1>2 DEF s
<1>. QED BY <1>3, <1>4, <1>6, <1>7, <1>8, <1>10, <1>11

(* The last activity that was given, after what is yielded.                 *)
LEMMA GivenMoves ==
  ASSUME TalkInv, MemoryInv, NEW s, NEW sigma \in 0..clock, TakenAt(thread, s, sigma),
         NEW yielded \in SUBSET Talks,
         \A t \in yielded : RecordOf(thread, t, s[t]) # NoRecord
  PROVE  LET most == Max({given} \cup {RecordOf(thread, t, s[t]).activity : t \in yielded})
         IN  /\ most \in 0..clock /\ given <= most
             /\ most = given \/ most <= sigma
             /\ \A t \in yielded : RecordOf(thread, t, s[t]).activity <= most
<1>. DEFINE A == {RecordOf(thread, t, s[t]).activity : t \in yielded}
            S == {given} \cup A
<1>1. clock \in Nat /\ given \in 0..clock
  BY DEF TalkInv, MemoryInv
<1>2. \A a \in A : a \in 0..sigma
  <2>1. ASSUME NEW t \in yielded PROVE RecordOf(thread, t, s[t]).activity \in 0..sigma
    <3>1. PICK end : Ends(thread[t], end)
      BY DEF TalkInv
    <3>2. RecordOf(thread, t, s[t]).activity \in 1..sigma
      BY <3>1, RecordTimes
    <3>. QED BY <1>1, <3>2
  <2>. QED BY <2>1
<1>3. \A t \in yielded : RecordOf(thread, t, s[t]).activity \in A
  OBVIOUS
<1>. HIDE DEF A
<1>4. S \in SUBSET (0..clock) /\ S # {}
  BY <1>1, <1>2
<1>5. Max(S) \in S /\ \A m \in S : m <= Max(S)
  BY <1>1, <1>4, MaxOfNumbers
<1>6. /\ Max(S) \in 0..clock /\ given <= Max(S)
      /\ Max(S) = given \/ Max(S) <= sigma
      /\ \A a \in A : a <= Max(S)
  BY <1>1, <1>2, <1>4, <1>5
<1>. QED BY <1>3, <1>6 DEF A

(* The record of the most that was read is in the memory, or there is none: *)
(* what was not yielded was dated before what is asked for, so nothing was  *)
(* said since on the branch it is the transcript of.                        *)
LEMMA FetchIsEnough ==
  ASSUME TalkInv, MemoryInv, NEW s, NEW sigma \in 0..clock, TakenAt(thread, s, sigma),
         NEW since \in 0..clock, AsksForTheNews(s, since), NEW t \in Talks
  PROVE  RecordOf(thread, t, Max({read[t], s[t]}))
           \in {IF Yields(thread, s, since, t) THEN RecordOf(thread, t, s[t]) ELSE memory[t], NoRecord}
<1>. DEFINE R == RecordOf(thread, t, s[t])
            yields == Yields(thread, s, since, t)
            at(i) == thread[t][i].at
<1>1. PICK rho \in given..clock : TakenAt(thread, read, rho)
  BY DEF MemoryInv
<1>2. PICK end : Ends(thread[t], end)
  BY DEF TalkInv
<1>3. /\ clock \in Nat /\ given \in 0..clock /\ rho \in 0..clock /\ given <= rho
      /\ Spoken(thread[t])
  BY <1>1 DEF TalkInv, MemoryInv
<1>4. inOrder => RecordOf(thread, t, read[t]) \in {memory[t], NoRecord}
  BY DEF MemoryInv, NewsIsFetched, RecordIn, RecordOf
<1>5. /\ Len(thread[t]) \in Nat
      /\ read[t] \in 0..Len(thread[t]) /\ s[t] \in 0..Len(thread[t])
      /\ \A i \in 1..Len(thread[t]) : at(i) \in 1..clock
      /\ \A i \in 1..Len(thread[t]) : at(i) <= rho <=> i <= read[t]
      /\ \A i, j \in 1..Len(thread[t]) : i < j => at(i) < at(j)
  <2>1. thread[t] \in Seq(Node) /\ Len(thread[t]) \in Nat /\ DOMAIN thread[t] = 1..Len(thread[t])
    BY <1>3 DEF Spoken
  <2>2. \A i, j \in DOMAIN thread[t] : i < j => at(i) < at(j)
    BY <1>3 DEF Spoken
  <2>3. \A i \in DOMAIN thread[t] : at(i) \in 1..clock
    BY DEF TalkInv
  <2>4. /\ read[t] \in 0..Len(thread[t]) /\ s[t] \in 0..Len(thread[t])
        /\ \A i \in DOMAIN thread[t] : at(i) <= rho <=> i <= read[t]
    BY <1>1 DEF TakenAt
  <2>. QED BY <2>1, <2>2, <2>3, <2>4
<1>. DEFINE m(n) == Mark(t, end, n)
<1>6. R # NoRecord => s[t] # 0 /\ m(s[t]) \in 1..s[t] /\ R.activity = at(m(s[t]))
  BY <1>2, RecordTimes
<1>7. CASE read[t] <= s[t]
  <2>1. Max({read[t], s[t]}) = s[t]
    BY <1>5, <1>7, MaxOfPair
  <2>2. CASE R = NoRecord \/ yields
    BY <2>1, <2>2
  <2>3. CASE R # NoRecord /\ ~yields
    <3>1. m(s[t]) \in 1..Len(thread[t]) /\ at(m(s[t])) \in 1..clock /\ at(m(s[t])) < since
      <4>1. m(s[t]) \in 1..Len(thread[t])
        BY <1>5, <1>6, <2>3
      <4>2. at(m(s[t])) \in 1..clock
        BY <1>5, <4>1
      <4>3. ~ (at(m(s[t])) >= since)
        BY <1>6, <2>3 DEF Yields
      <4>. QED BY <4>1, <4>2, <4>3
    <3>2. inOrder /\ since <= given
      <4>1. since # 0 /\ given <= given
        BY <1>3, <3>1
      <4>. QED BY <1>3, <4>1 DEF AsksForTheNews
    <3>3. m(s[t]) <= read[t]
      <4>1. at(m(s[t])) <= rho
        BY <1>3, <3>1, <3>2
      <4>. QED BY <1>5, <3>1, <4>1
    <3>4. m(read[t]) = m(s[t])
      BY <1>2, <1>3, <1>5, <1>7, <3>3, MarkMovesOn
    <3>5. RecordOf(thread, t, read[t]) = R
      BY <1>2, <1>3, <1>5, <3>4, SameRecord
    <3>. QED BY <1>4, <2>1, <2>3, <3>2, <3>5
  <2>. QED BY <2>2, <2>3
<1>8. CASE s[t] < read[t]
  <2>1. Max({read[t], s[t]}) = read[t]
    BY <1>5, <1>8, MaxOfPair
  <2>2. inOrder /\ since = given
    <3>1. ~ (read[t] <= s[t])
      BY <1>5, <1>8
    <3>. QED BY <3>1 DEF AsksForTheNews
  <2>3. CASE ~yields \/ RecordOf(thread, t, read[t]) = NoRecord
    BY <1>4, <2>1, <2>2, <2>3
  <2>4. CASE yields /\ RecordOf(thread, t, read[t]) # NoRecord
    <3>1. memory[t] # NoRecord /\ RecordOf(thread, t, read[t]) = memory[t] /\ memory[t].activity <= given
      BY <1>4, <2>2, <2>4 DEF MemoryInv
    <3>2. m(read[t]) \in 1..read[t] /\ memory[t].activity = at(m(read[t]))
      BY <1>1, <1>2, <1>3, <2>4, <3>1, RecordTimes
    <3>3. m(s[t]) \in 1..s[t] /\ at(m(s[t])) >= given
      BY <1>6, <2>2, <2>4 DEF Yields
    <3>4. m(s[t]) \in 1..Len(thread[t]) /\ m(read[t]) \in 1..Len(thread[t])
      BY <1>5, <3>2, <3>3
    <3>5. m(s[t]) <= m(read[t])
      BY <1>2, <1>3, <1>5, <1>8, MarkMovesOn
    <3>6. ~ (m(s[t]) < m(read[t]))
      <4>1. at(m(s[t])) \in 1..clock /\ at(m(read[t])) \in 1..clock
        BY <1>5, <3>4
      <4>2. at(m(read[t])) <= at(m(s[t]))
        BY <1>3, <3>1, <3>2, <3>3, <4>1
      <4>. QED BY <1>5, <3>4, <4>1, <4>2
    <3>7. m(s[t]) = m(read[t])
      BY <1>5, <3>4, <3>5, <3>6
    <3>8. R = RecordOf(thread, t, read[t])
      BY <1>2, <1>3, <1>5, <3>7, SameRecord
    <3>. QED BY <2>1, <2>4, <3>8
  <2>. QED BY <2>3, <2>4
<1>. QED BY <1>5, <1>7, <1>8

LEMMA FetchKeepsMemory ==
  ASSUME TalkInv, ExportInv, MemoryInv, Fetch
  PROVE  MemoryInv'
<1>1. PICK s \in [Talks -> Nat], sigma \in 0..clock, since \in 0..clock, yielded \in SUBSET Talks :
           /\ TakenAt(thread, s, sigma)
           /\ \A t \in Talks : t \in yielded <=> Yields(thread, s, since, t)
           /\ memory' = [t \in Talks |-> IF t \in yielded THEN RecordOf(thread, t, s[t]) ELSE memory[t]]
           /\ read' = [t \in Talks |-> Max({read[t], s[t]})]
           /\ given' = Max({given} \cup {RecordOf(thread, t, s[t]).activity : t \in yielded})
           /\ inOrder' = AsksForTheNews(s, since)
  BY WhatFetchDoes
<1>2. /\ clock' = clock /\ thread' = thread /\ clock \in Nat
      /\ thread \in [Talks -> Seq(Node)]
      /\ memory \in [Talks -> Record] /\ given \in 0..clock /\ read \in [Talks -> Nat]
      /\ inOrder \in BOOLEAN
      /\ \A u \in Talks : memory[u] # NoRecord => memory[u].activity <= given
  BY DEF Fetch, talking, TalkInv, MemoryInv
<1>3. PICK rho \in given..clock : TakenAt(thread, read, rho)
  BY DEF MemoryInv
<1>4. ASSUME NEW t \in yielded
      PROVE  /\ RecordOf(thread, t, s[t]) # NoRecord /\ RecordOf(thread, t, s[t]) \in Record
             /\ RecordOf(thread, t, s[t]).activity \in Nat
  <2>1. PICK end : Ends(thread[t], end)
    BY DEF TalkInv
  <2>2. RecordOf(thread, t, s[t]) # NoRecord
    BY <1>1 DEF Yields
  <2>3. RecordOf(thread, t, s[t]) \in Record
    BY <1>1, <2>1, RecordTimes
  <2>. QED BY <2>2, <2>3 DEF Record
<1>5. /\ given' \in 0..clock /\ given <= given'
      /\ given' = given \/ given' <= sigma
      /\ \A t \in yielded : RecordOf(thread, t, s[t]).activity <= given'
  BY <1>1, <1>4, GivenMoves
<1>6. \A t \in Talks : memory'[t] = IF t \in yielded THEN RecordOf(thread, t, s[t]) ELSE memory[t]
  BY <1>1
<1>7. memory' \in [Talks -> Record]
  BY <1>1, <1>2, <1>4
<1>8. \E time \in given'..clock : TakenAt(thread, read', time)
  <2>1. /\ sigma <= rho => TakenAt(thread, read', rho)
        /\ rho <= sigma => TakenAt(thread, read', sigma)
    <3>1. sigma \in Nat /\ rho \in Nat
      BY <1>2, <1>3
    <3>. QED BY <1>1, <1>2, <1>3, <3>1, MostIsLater
  <2>2. CASE sigma <= rho
    <3>1. rho \in given'..clock
      BY <1>2, <1>3, <1>5, <2>2
    <3>. QED BY <2>1, <2>2, <3>1
  <2>3. CASE rho <= sigma
    <3>1. sigma \in given'..clock
      BY <1>2, <1>3, <1>5, <2>3
    <3>. QED BY <2>1, <2>3, <3>1
  <2>. QED BY <1>2, <1>3, <2>2, <2>3
<1>9. read' \in [Talks -> Nat]
  <2>1. ASSUME NEW t \in Talks PROVE Max({read[t], s[t]}) \in Nat
    <3>1. read[t] \in Nat /\ s[t] \in Nat
      BY <1>1, <1>2 DEF TakenAt
    <3>. QED BY <3>1, MaxOfPair
  <2>. QED BY <1>1, <2>1
<1>10. \A t \in Talks : memory'[t] # NoRecord => memory'[t].activity <= given'
  <2>1. ASSUME NEW t \in Talks, t \notin yielded, memory[t] # NoRecord PROVE memory[t].activity <= given'
    <3>1. memory[t].activity \in Nat
      BY <1>2 DEF Record
    <3>. QED BY <1>2, <1>5, <2>1, <3>1
  <2>. QED BY <1>5, <1>6, <2>1
<1>11. NewsIsFetched'
  <2>1. ASSUME inOrder', NEW t \in Talks PROVE RecordOf(thread, t, read'[t]) \in {memory'[t], NoRecord}
    <3>1. read'[t] = Max({read[t], s[t]})
      BY <1>1
    <3>2. AsksForTheNews(s, since)
      BY <1>1, <2>1
    <3>. QED BY <1>1, <1>6, <3>1, <3>2, FetchIsEnough
  <2>. QED BY <1>2, <2>1 DEF NewsIsFetched, RecordIn, RecordOf
<1>12. inOrder' \in BOOLEAN
  BY <1>1, <1>2 DEF AsksForTheNews
<1>. QED BY <1>2, <1>5, <1>7, <1>8, <1>9, <1>10, <1>11, <1>12 DEF MemoryInv

-----------------------------------------------------------------------------
(* Transcripts.                                                             *)

(* Sequences of paragraphs that begin with one of H.                        *)
Headed(P, H) == {x \in Seq(P) : x # <<>> => x[1] \in H}

LEMMA HeadedConcat ==
  ASSUME NEW P, NEW H, NEW x \in Headed(P, H), NEW y \in Headed(P, H)
  PROVE  x \o y \in Headed(P, H)
<1>1. x \in Seq(P) /\ y \in Seq(P) /\ x \o y \in Seq(P)
  BY DEF Headed
<1>2. CASE x = <<>>
  <2>1. x \o y = y
    BY <1>1, <1>2
  <2>. QED BY <2>1
<1>3. CASE x # <<>>
  <2>1. (x \o y)[1] = x[1]
    BY <1>1, <1>3
  <2>. QED BY <1>1, <1>3, <2>1 DEF Headed
<1>. QED BY <1>2, <1>3

LEMMA FlattenHeaded ==
  ASSUME NEW P, NEW H, NEW seqs \in Seq(Headed(P, H))
  PROVE  FlattenSeq(seqs) \in Headed(P, H)
<1>. DEFINE n == Len(seqs)
            I == 1..n
            D == Headed(P, H)
            rank == [i \in I |-> i]
            Stop == {1}
            pre == [i \in I |-> i - 1]
            base == seqs[1]
            F == [p \in I \X D |-> p[2] \o seqs[p[1]]]
            flatten == CHOOSE flatten : flatten = [i \in I |->
                         IF i = 1 THEN seqs[i] ELSE flatten[i - 1] \o seqs[i]]
<1>1. n \in Nat /\ DOMAIN seqs = I /\ \A i \in I : seqs[i] \in D
  OBVIOUS
<1>2. CASE n = 0
  <2>1. seqs = <<>> /\ FlattenSeq(seqs) = <<>>
    BY <1>2 DEF FlattenSeq
  <2>2. <<>> \in Headed(P, H)
    BY DEF Headed
  <2>. QED BY <2>1, <2>2
<1>3. CASE n # 0
  <2>1. FlattenSeq(seqs) = flatten[n]
    BY <1>3 DEF FlattenSeq
  <2>2. Recursion(I, n, rank, Stop, pre, D, base, F)
    <3>1. base \in D
      BY <1>1, <1>3
    <3>2. \A i \in I, x \in D : x \o seqs[i] \in D
      BY <1>1, HeadedConcat
    <3>3. F \in [I \X D -> D]
      BY <3>2
    <3>4. rank \in [I -> 0..n] /\ \A i \in I \ Stop : pre[i] \in I /\ rank[pre[i]] < rank[i]
      BY <1>1
    <3>. HIDE DEF I, D, rank, Stop, pre, base, F, n
    <3>. QED BY <1>1, <3>1, <3>3, <3>4 DEF Recursion
  <2>3. PICK f \in [I -> D] : \A i \in I : f[i] = IF i \in Stop THEN base ELSE F[<<i, f[pre[i]]>>]
    <3>. HIDE DEF I, D, rank, Stop, pre, base, F, n
    <3>. QED BY <2>2, RecursionDefines
  <2>4. \A i \in I : i # 1 => pre[i] = i - 1 /\ i - 1 \in I /\ f[i - 1] \in D
    BY <1>1, <2>3
  <2>5. \A i \in I, x \in D : F[<<i, x>>] = x \o seqs[i]
    OBVIOUS
  <2>. HIDE DEF D, F, pre, n, base, I
  <2>6. \A i \in I : f[i] = IF i = 1 THEN seqs[i] ELSE f[i - 1] \o seqs[i]
    <3>1. ASSUME NEW i \in I, i # 1 PROVE f[i] = f[i - 1] \o seqs[i]
      <4>1. f[i] = F[<<i, f[i - 1]>>] /\ f[i - 1] \in D
        BY <2>3, <2>4, <3>1
      <4>. QED BY <2>5, <4>1
    <3>2. ASSUME NEW i \in I, i = 1 PROVE f[i] = seqs[i]
      BY <2>3, <3>2 DEF base
    <3>. QED BY <3>1, <3>2
  <2>7. f = [i \in I |-> IF i = 1 THEN seqs[i] ELSE f[i - 1] \o seqs[i]]
    BY <2>3, <2>6
  <2>8. flatten = [i \in I |-> IF i = 1 THEN seqs[i] ELSE flatten[i - 1] \o seqs[i]]
    BY <2>7
  <2>. HIDE DEF flatten
  <2>. DEFINE T == {i \in 0..n : i # 0 => flatten[i] \in D}
  <2>9. ASSUME NEW i \in 0..n, \A j \in 0..(i - 1) : j \in T PROVE i \in T
    <3>1. CASE i = 0
      BY <1>1, <3>1
    <3>2. CASE i = 1
      <4>1. i \in I
        BY <3>2 DEF I
      <4>2. flatten[i] = seqs[i]
        BY <2>8, <3>2, <4>1
      <4>3. flatten[i] \in D
        BY <1>1, <4>1, <4>2
      <4>. QED BY <4>3
    <3>3. CASE i # 0 /\ i # 1
      <4>1. i \in I /\ i - 1 \in 0..(i - 1) /\ i - 1 # 0
        BY <1>1, <3>3 DEF I
      <4>2. flatten[i] = flatten[i - 1] \o seqs[i] /\ flatten[i - 1] \in D /\ seqs[i] \in D
        BY <1>1, <2>8, <2>9, <3>3, <4>1
      <4>3. flatten[i] \in D
        BY <4>2, HeadedConcat DEF D
      <4>. QED BY <4>3
    <3>. QED BY <3>1, <3>2, <3>3
  <2>. HIDE DEF T
  <2>10. \A i \in 0..n : i \in T
    BY <1>1, <2>9, ByTheSmaller
  <2>11. n \in 0..n
    BY <1>1
  <2>12. flatten[n] \in D
    BY <1>3, <2>10, <2>11 DEF T
  <2>. QED BY <2>1, <2>12 DEF D
<1>. QED BY <1>2, <1>3

(* Every paragraph adds a character at least and what joins it.             *)
Sums(f, n, w) == f[0] = 0 /\ \A i \in 1..n : f[i] = f[i - 1] + w[i] + 2

LEMMA SumsExist ==
  ASSUME NEW n \in Nat, NEW w \in [1..n -> Nat \ {0}]
  PROVE  \E f \in [0..n -> Nat] : Sums(f, n, w)
<1>. DEFINE F == [p \in (0..n) \X Nat |-> IF p[1] = 0 THEN 0 ELSE p[2] + w[p[1]] + 2]
            D == Nat
            base == 0
<1>1. \A i \in 1..n, x \in Nat : F[<<i, x>>] = x + w[i] + 2
  OBVIOUS
<1>2. F \in [(0..n) \X Nat -> Nat]
  <2>1. \A i \in 1..n, x \in Nat : x + w[i] + 2 \in Nat
    OBVIOUS
  <2>2. \A i \in 0..n : i = 0 \/ i \in 1..n
    OBVIOUS
  <2>. QED BY <2>1, <2>2
<1>. HIDE DEF F
<1>3. Stepwise(n, D, base, F)
  BY <1>2 DEF Stepwise
<1>. HIDE DEF D, base
<1>4. PICK f \in [0..n -> D] : f[0] = base /\ \A i \in 1..n : f[i] = F[<<i, f[i - 1]>>]
  <2>. DEFINE m == n
  <2>1. Stepwise(m, D, base, F)
    BY <1>3
  <2>. HIDE DEF m
  <2>2. \E f \in [0..m -> D] : f[0] = base /\ \A i \in 1..m : f[i] = F[<<i, f[i - 1]>>]
    BY <2>1, StepwiseDefines
  <2>. QED BY <2>2 DEF m
<1>5. \A i \in 1..n : f[i - 1] \in Nat
  BY <1>4 DEF D
<1>6. f \in [0..n -> Nat] /\ f[0] = 0
  BY <1>4 DEF D, base
<1>7. \A i \in 1..n : f[i] = f[i - 1] + w[i] + 2
  BY <1>1, <1>4, <1>5
<1>8. Sums(f, n, w)
  BY <1>6, <1>7 DEF Sums
<1>. QED BY <1>6, <1>8

LEMMA SumsGrow ==
  ASSUME NEW n \in Nat, NEW w \in [1..n -> Nat \ {0}], NEW f, Sums(f, n, w)
  PROVE  /\ \A i \in 0..n : f[i] \in Nat
         /\ \A i, j \in 0..n : i < j => f[j] - f[i] >= 3
<1>. DEFINE Grown(j) == f[j] \in Nat /\ \A i \in 0..(j - 1) : f[i] \in Nat /\ f[j] - f[i] >= 3
            T == {j \in 0..n : Grown(j)}
<1>1. ASSUME NEW j \in 0..n, \A k \in 0..(j - 1) : k \in T PROVE j \in T
  <2>1. CASE j = 0
    BY <2>1 DEF Sums
  <2>2. CASE j # 0
    <3>1. j - 1 \in 0..(j - 1) /\ Grown(j - 1)
      BY <1>1, <2>2
    <3>2. f[j] = f[j - 1] + w[j] + 2 /\ w[j] \in Nat /\ w[j] >= 1
      BY <2>2 DEF Sums
    <3>3. \A i \in 0..(j - 1) : i = j - 1 \/ i \in 0..(j - 1 - 1)
      OBVIOUS
    <3>4. \A i \in 0..(j - 1) : f[i] \in Nat /\ f[j] - f[i] >= 3
      <4>1. ASSUME NEW i \in 0..(j - 1), i # j - 1 PROVE f[i] \in Nat /\ f[j - 1] - f[i] >= 3
        BY <3>1, <3>3, <4>1
      <4>2. f[j - 1] \in Nat
        BY <3>1
      <4>3. f[j] - f[j - 1] >= 3 /\ f[j] \in Nat
        BY <3>2, <4>2
      <4>4. ASSUME NEW i \in 0..(j - 1) PROVE f[i] \in Nat /\ f[j] - f[i] >= 3
        <5>1. CASE i = j - 1
          BY <4>2, <4>3, <5>1
        <5>2. CASE i # j - 1
          <6>1. f[i] \in Nat /\ f[j - 1] - f[i] >= 3
            BY <4>1, <5>2
          <6>. QED BY <4>2, <4>3, <6>1
        <5>. QED BY <5>1, <5>2
      <4>. QED BY <4>4
    <3>. QED BY <3>1, <3>2, <3>4
  <2>. QED BY <2>1, <2>2
<1>. HIDE DEF T
<1>2. \A j \in 0..n : j \in T
  BY <1>1, ByTheSmaller
<1>3. \A i, j \in 0..n : i < j => i \in 0..(j - 1)
  OBVIOUS
<1>. QED BY <1>2, <1>3 DEF T

(* The transcript of a record is a text.                                    *)
LEMMA TranscriptIsText ==
  ASSUME NEW turns \in Seq(Kinds)
  PROVE  IsText(render_transcript(turns))
<1>. DEFINE P == [raw : Nat \ {0}, net : Nat \ {0}, opens : BOOLEAN]
            H == {p \in P : p.opens}
            seqs == [i \in DOMAIN turns |-> turns[i].paragraphs]
            paragraphs == FlattenSeq(seqs)
            n == Len(paragraphs)
            raw == CHOOSE raw : raw = [i \in 0..n |-> IF i = 0 THEN 0 ELSE raw[i - 1] + paragraphs[i].raw + 2]
            net == CHOOSE net : net = [i \in 0..n |-> IF i = 0 THEN 0 ELSE net[i - 1] + paragraphs[i].net + 2]
            starts == {i \in 1..n : paragraphs[i].opens}
            t == render_transcript(turns)
<1>1. t = [n |-> n, raw |-> raw, net |-> net, starts |-> starts]
  BY DEF render_transcript
<1>2. seqs \in Seq(Headed(P, H))
  <2>1. \A k \in Kinds : k.paragraphs \in Seq(P) /\ (k.paragraphs # <<>> => k.paragraphs[1].opens)
    BY ConversationAssumption
  <2>2. ASSUME NEW k \in Kinds PROVE k.paragraphs \in Headed(P, H)
    <3>1. k.paragraphs \in Seq(P) /\ (k.paragraphs # <<>> => k.paragraphs[1].opens)
      BY <2>1
    <3>2. k.paragraphs # <<>> => k.paragraphs[1] \in P
      <4>1. k.paragraphs \in Seq(P)
        BY <3>1
      <4>. HIDE DEF P
      <4>. QED BY <4>1
    <3>3. k.paragraphs # <<>> => k.paragraphs[1] \in H
      <4>1. \A p \in P : p.opens => p \in H
        OBVIOUS
      <4>. HIDE DEF P, H
      <4>. QED BY <3>1, <3>2, <4>1
    <3>. HIDE DEF P, H
    <3>. QED BY <3>1, <3>3 DEF Headed
  <2>3. Len(turns) \in Nat /\ DOMAIN turns = 1..Len(turns) /\ \A i \in 1..Len(turns) : turns[i] \in Kinds
    OBVIOUS
  <2>. HIDE DEF P, H
  <2>4. seqs = [i \in 1..Len(turns) |-> turns[i].paragraphs]
    BY <2>3
  <2>5. \A i \in 1..Len(turns) : turns[i].paragraphs \in Headed(P, H)
    BY <2>2, <2>3
  <2>. QED BY <2>3, <2>4, <2>5
<1>3. paragraphs \in Headed(P, H)
  <2>. HIDE DEF P, H, seqs
  <2>. QED BY <1>2, FlattenHeaded
<1>. HIDE DEF paragraphs, t
<1>4. /\ paragraphs \in Seq(P) /\ n \in Nat /\ \A i \in 1..n : paragraphs[i] \in P
      /\ n > 0 => paragraphs[1].opens
  <2>1. \A p \in H : p.opens
    OBVIOUS
  <2>2. paragraphs \in Seq(P) /\ (paragraphs # <<>> => paragraphs[1] \in H)
    <3>. HIDE DEF P, H
    <3>. QED BY <1>3 DEF Headed
  <2>. HIDE DEF P, H
  <2>3. n \in Nat /\ (n > 0 => paragraphs # <<>>) /\ \A i \in 1..n : paragraphs[i] \in P
    BY <2>2
  <2>. QED BY <2>1, <2>2, <2>3
<1>. DEFINE wr == [i \in 1..n |-> paragraphs[i].raw]
            wn == [i \in 1..n |-> paragraphs[i].net]
<1>5. wr \in [1..n -> Nat \ {0}] /\ wn \in [1..n -> Nat \ {0}]
  BY <1>4
<1>. HIDE DEF P, H
<1>6. raw \in [0..n -> Nat] /\ Sums(raw, n, wr)
  <2>1. PICK f \in [0..n -> Nat] : Sums(f, n, wr)
    <3>. HIDE DEF wr, n
    <3>. QED BY <1>4, <1>5, SumsExist
  <2>2. \A i \in 0..n : i = 0 \/ i \in 1..n
    BY <1>4
  <2>3. \A i \in 0..n : f[i] = IF i = 0 THEN 0 ELSE f[i - 1] + paragraphs[i].raw + 2
    BY <2>1, <2>2 DEF Sums
  <2>. HIDE DEF n
  <2>4. f = [i \in 0..n |-> IF i = 0 THEN 0 ELSE f[i - 1] + paragraphs[i].raw + 2]
    BY <2>1, <2>3
  <2>5. raw = [i \in 0..n |-> IF i = 0 THEN 0 ELSE raw[i - 1] + paragraphs[i].raw + 2]
    BY <2>4
  <2>. HIDE DEF raw
  <2>6. raw[0] = 0 /\ \A i \in 1..n : raw[i] = raw[i - 1] + paragraphs[i].raw + 2
    <3>1. 0 \in 0..n /\ \A i \in 1..n : i \in 0..n /\ i # 0
      BY <1>4
    <3>2. \A i \in 0..n : raw[i] = IF i = 0 THEN 0 ELSE raw[i - 1] + paragraphs[i].raw + 2
      BY <2>5
    <3>. QED BY <3>1, <3>2
  <2>7. Sums(raw, n, wr)
    BY <2>6 DEF Sums
  <2>8. \A i \in 0..n : raw[i] \in Nat
    <3>. HIDE DEF wr
    <3>. QED BY <1>4, <1>5, <2>7, SumsGrow
  <2>. QED BY <2>5, <2>7, <2>8
<1>7. net \in [0..n -> Nat] /\ Sums(net, n, wn)
  <2>1. PICK f \in [0..n -> Nat] : Sums(f, n, wn)
    <3>. HIDE DEF wn, n
    <3>. QED BY <1>4, <1>5, SumsExist
  <2>2. \A i \in 0..n : i = 0 \/ i \in 1..n
    BY <1>4
  <2>3. \A i \in 0..n : f[i] = IF i = 0 THEN 0 ELSE f[i - 1] + paragraphs[i].net + 2
    BY <2>1, <2>2 DEF Sums
  <2>. HIDE DEF n
  <2>4. f = [i \in 0..n |-> IF i = 0 THEN 0 ELSE f[i - 1] + paragraphs[i].net + 2]
    BY <2>1, <2>3
  <2>5. net = [i \in 0..n |-> IF i = 0 THEN 0 ELSE net[i - 1] + paragraphs[i].net + 2]
    BY <2>4
  <2>. HIDE DEF net
  <2>6. net[0] = 0 /\ \A i \in 1..n : net[i] = net[i - 1] + paragraphs[i].net + 2
    <3>1. 0 \in 0..n /\ \A i \in 1..n : i \in 0..n /\ i # 0
      BY <1>4
    <3>2. \A i \in 0..n : net[i] = IF i = 0 THEN 0 ELSE net[i - 1] + paragraphs[i].net + 2
      BY <2>5
    <3>. QED BY <3>1, <3>2
  <2>7. Sums(net, n, wn)
    BY <2>6 DEF Sums
  <2>8. \A i \in 0..n : net[i] \in Nat
    <3>. HIDE DEF wn
    <3>. QED BY <1>4, <1>5, <2>7, SumsGrow
  <2>. QED BY <2>5, <2>7, <2>8
<1>. HIDE DEF raw, net, n, wr, wn
<1>8. \A i, j \in 0..n : i < j => raw[j] - raw[i] >= 3 /\ net[j] - net[i] >= 3
  <2>1. \A i, j \in 0..n : i < j => raw[j] - raw[i] >= 3
    BY <1>4, <1>5, <1>6, SumsGrow
  <2>2. \A i, j \in 0..n : i < j => net[j] - net[i] >= 3
    BY <1>4, <1>5, <1>7, SumsGrow
  <2>. QED BY <2>1, <2>2
<1>9. starts \subseteq 1..n /\ (n > 0 => 1 \in starts)
  BY <1>4
<1>. HIDE DEF starts
<1>10. t.n = n /\ t.raw = raw /\ t.net = net /\ t.starts = starts
  BY <1>1
<1>11. IsText(t)
  BY <1>4, <1>6, <1>7, <1>8, <1>9, <1>10 DEF IsText
<1>. QED BY <1>11 DEF t

-----------------------------------------------------------------------------
(* The invariant is inductive.                                              *)

LEMMA ConversationsInitInv == Init => ConvInv
<1>. SUFFICES ASSUME Init PROVE ConvInv
  OBVIOUS
<1>1. /\ clock = 0 /\ thread = [t \in Talks |-> <<>>] /\ newest = [t \in Talks |-> 0]
      /\ export = [p \in ToSet(Places) |-> NoExport]
      /\ memory = [t \in Talks |-> NoRecord] /\ given = 0 /\ inOrder = TRUE /\ read = NoExport
  BY DEF Init
<1>2. CInv
  BY ChunkerInitCInv DEF Init
<1>3. Spoken(<<>>)
  BY DEF Spoken
<1>4. TalkInv
  <2>1. Ends(<<>>, [i \in 0..0 |-> 0])
    BY DEF Ends
  <2>2. \A t \in Talks : thread[t] = <<>> /\ newest[t] = 0
    BY <1>1
  <2>3. \E end : Ends(<<>>, end) /\ 0 = end[Len(<<>>)]
    BY <2>1
  <2>. QED BY <1>1, <1>3, <2>2, <2>3 DEF TalkInv
<1>5. TakenAt(thread, NoExport, 0) /\ NoExport \in [Talks -> Nat]
  BY <1>1 DEF TakenAt, NoExport
<1>6. ExportInv
  BY <1>1, <1>5 DEF ExportInv
<1>7. NewsIsFetched
  <2>1. \A t \in Talks : RecordOf(thread, t, 0) = NoRecord
    <3>1. ASSUME NEW t \in Talks PROVE RecordOf(thread, t, 0) = NoRecord
      <4>1. Dated(t, thread[t]) /\ Len(thread[t]) = 0
        BY <1>1, <1>4, ThreadsAreDated
      <4>2. 0 \in 0..Len(thread[t])
        BY <4>1
      <4>3. PICK end : Ends(thread[t], end)
        BY <1>4 DEF TalkInv
      <4>. QED BY <4>1, <4>2, <4>3, RecordOfPrefix
    <3>. QED BY <3>1
  <2>2. \A t \in Talks : RecordIn(read, t) = RecordOf(thread, t, 0)
    BY <1>1 DEF RecordIn, RecordOf, NoExport
  <2>. QED BY <2>1, <2>2 DEF NewsIsFetched
<1>8. MemoryInv
  <2>1. NoRecord \in Record
    BY DEF NoRecord, Record
  <2>2. 0 \in given..clock /\ given \in 0..clock
    BY <1>1
  <2>. QED BY <1>1, <1>5, <1>7, <2>1, <2>2 DEF MemoryInv
<1>. QED BY <1>2, <1>4, <1>6, <1>8 DEF ConvInv

(* Talks change by Say, exports by a drop or a removal, the memory by Fetch. *)
LEMMA ConversationsNextInv == ConvInv /\ [Next]_vars => ConvInv'
<1>. SUFFICES ASSUME ConvInv, [Next]_vars PROVE ConvInv'
  OBVIOUS
<1>1. TalkInv /\ ExportInv /\ MemoryInv /\ CInv
  BY DEF ConvInv
<1>2. ASSUME NoChunker PROVE CInv'
  <2>1. ChunkerInit' => CInv'
    BY ChunkerInitCInv, PTL
  <2>. QED BY <1>2, <2>1 DEF NoChunker, ChunkerInit
<1>3. ASSUME NEW t \in Talks, NEW k \in Kinds, NEW parent \in 0..Len(thread[t]), Say(t, parent, k)
      PROVE  ConvInv'
  <2>1. TalkInv' /\ ExportInv' /\ MemoryInv'
    BY <1>1, <1>3, SayKeeps, SayKeepsExports
  <2>2. CInv'
    BY <1>2, <1>3 DEF Say
  <2>. QED BY <2>1, <2>2 DEF ConvInv
<1>4. ASSUME NEW p \in ToSet(Places), DropExport(p) \/ RemoveExport(p)
      PROVE  ConvInv'
  <2>1. ExportInv'
    BY <1>1, <1>4, DropKeepsExports
  <2>2. UNCHANGED talking /\ UNCHANGED memo /\ NoChunker
    BY <1>4 DEF DropExport, RemoveExport
  <2>3. UNCHANGED <<clock, thread, memory, given, inOrder, read>>
    BY <2>2 DEF talking, memo
  <2>4. TalkInv' /\ MemoryInv'
    BY <1>1, <2>2, <2>3, TalkKept, MemoryKept
  <2>. QED BY <1>2, <2>1, <2>2, <2>4 DEF ConvInv
<1>5. CASE Fetch
  <2>1. UNCHANGED talking /\ UNCHANGED export /\ NoChunker
    BY <1>5 DEF Fetch
  <2>2. UNCHANGED <<clock, thread, export>>
    BY <2>1 DEF talking
  <2>3. TalkInv' /\ ExportInv' /\ MemoryInv'
    BY <1>1, <1>5, <2>1, <2>2, TalkKept, ExportKept, FetchKeepsMemory
  <2>. QED BY <1>2, <2>1, <2>3 DEF ConvInv
<1>6. ASSUME UNCHANGED <<talking, export, drops, memo>>, CInv' PROVE ConvInv'
  <2>1. UNCHANGED talking /\ UNCHANGED <<clock, thread, memory, given, inOrder, read>>
        /\ UNCHANGED <<clock, thread, export>>
    BY <1>6 DEF talking, memo
  <2>2. TalkInv' /\ ExportInv' /\ MemoryInv'
    BY <1>1, <2>1, TalkKept, ExportKept, MemoryKept
  <2>. QED BY <1>6, <2>2 DEF ConvInv
<1>7. ASSUME NEW t \in Talks, NEW registered \in BOOLEAN, Split(t, registered)
      PROVE  ConvInv'
  <2>1. memory[t].turns \in Seq(Kinds)
    BY <1>1 DEF MemoryInv, Record
  <2>2. IsText(render_transcript(memory[t].turns))
    BY <2>1, TranscriptIsText
  <2>3. Chunk(render_transcript(memory[t].turns), registered)
    BY <1>7 DEF Split
  <2>4. CInv'
    BY <1>1, <2>2, <2>3, ChunkStep
  <2>. QED BY <1>6, <1>7, <2>4 DEF Split
<1>8. CASE SplitStep
  <2>1. CInv'
    BY <1>1, <1>8, ChunkerNextCInv DEF SplitStep, ChunkerNext
  <2>. QED BY <1>6, <1>8, <2>1 DEF SplitStep
<1>9. CASE UNCHANGED vars
  <2>1. UNCHANGED <<talking, export, drops, memo>> /\ UNCHANGED chunker
    BY <1>9 DEF vars
  <2>2. CInv'
    BY <1>1, <2>1, ChunkerNextCInv
  <2>. QED BY <1>6, <2>1, <2>2
<1>. QED BY <1>3, <1>4, <1>5, <1>7, <1>8, <1>9 DEF Next

LEMMA ConversationsInvariant == Spec => []ConvInv
BY ConversationsInitInv, ConversationsNextInv, PTL DEF Spec

-----------------------------------------------------------------------------
(* The theorems.                                                            *)

(* The variables keep their shape; in particular what chunk_for_source      *)
(* hands to a chunker is always a text, the transcript of a record.         *)
THEOREM ConversationsTypeCorrect == Spec => []TypeOK
<1>1. ConvInv => TypeOK
  <2>. SUFFICES ASSUME ConvInv PROVE TypeOK
    OBVIOUS
  <2>1. clock \in Nat /\ given \in 0..clock /\ inOrder \in BOOLEAN /\ IsText(text)
    BY DEF ConvInv, TalkInv, MemoryInv, CInv, ChunkerTypeOK
  <2>2. \A t \in Talks : \A i \in DOMAIN thread[t] :
          thread[t][i].parent \in 0..(i - 1) /\ thread[t][i].at \in 1..clock
    BY DEF ConvInv, TalkInv, Spoken
  <2>3. \A t \in Talks : newest[t] \in 0..Len(thread[t]) /\ read[t] \in 0..Len(thread[t])
    <3>1. ASSUME NEW t \in Talks PROVE newest[t] \in 0..Len(thread[t])
      <4>1. Spoken(thread[t]) /\ \E end : Ends(thread[t], end) /\ newest[t] = end[Len(thread[t])]
        BY DEF ConvInv, TalkInv
      <4>2. Rooted(thread[t]) /\ Len(thread[t]) \in 0..Len(thread[t])
        BY <4>1, SpokenIsRooted
      <4>. QED BY <4>1, <4>2, EndMovesOn
    <3>2. \A t \in Talks : read[t] \in 0..Len(thread[t])
      BY DEF ConvInv, MemoryInv, TakenAt
    <3>. QED BY <3>1, <3>2
  <2>4. \A p \in ToSet(Places) : \A t \in Talks : export[p][t] \in 0..Len(thread[t])
    BY DEF ConvInv, ExportInv, TakenAt
  <2>. QED BY <2>1, <2>2, <2>3, <2>4 DEF TypeOK
<1>. QED BY <1>1, ConversationsInvariant, PTL

(* walk_linear returns the branch that was forked off last, with what was   *)
(* said on it since: however often and wherever a conversation was forked,  *)
(* and also where the person went back to an older branch and went on from  *)
(* there, which no transcript shows.                                        *)
THEOREM TranscriptAlwaysNewest == Spec => []TranscriptIsNewest
<1>1. ConvInv => TranscriptIsNewest
  <2>. SUFFICES ASSUME ConvInv, NEW t \in Talks
                PROVE  walk_linear(thread[t]) = Branch(thread[t], newest[t])
    BY DEF TranscriptIsNewest
  <2>1. Spoken(thread[t]) /\ \E end : Ends(thread[t], end) /\ newest[t] = end[Len(thread[t])]
    BY DEF ConvInv, TalkInv
  <2>. QED BY <2>1, WalkIsNewest
<1>. QED BY <1>1, ConversationsInvariant, PTL

(* A caller that starts over, or asks for what is no older than the last    *)
(* activity it was given, lacks nothing of the most recent export it        *)
(* fetched, whichever of the owner's exports resolve_export_path found.     *)
THEOREM NewsAlwaysFetched == Spec => []NewsIsFetched
<1>1. ConvInv => NewsIsFetched
  BY DEF ConvInv, MemoryInv
<1>. QED BY <1>1, ConversationsInvariant, PTL

(* The transcript of a conversation is chunked as any text is: nothing is   *)
(* lost, turns stay whole, and chunks are within budget and as few as they  *)
(* can be.                                                                  *)
THEOREM TranscriptsAreChunked ==
  Spec => [](NothingLost /\ TurnsStayWhole /\ WithinBudget /\ NoNeedlessSplit)
<1>1. ConvInv => NothingLost /\ TurnsStayWhole /\ WithinBudget /\ NoNeedlessSplit
  BY GoodChunks DEF ConvInv
<1>. QED BY <1>1, ConversationsInvariant, PTL
=============================================================================
