------------------------- MODULE MerkleTree_proofs -------------------------
(***************************************************************************)
(* What the root of a snapshot promises, for every snapshot: the proof the *)
(* client finds for a claimant is accepted, and no sequence of hashes      *)
(* whatsoever makes the program accept what is not an allocation.          *)
(*                                                                         *)
(* verify and find_proof are loops, in the model folds over a sequence.    *)
(* The first part proves of the two folds what a reader expects of a loop: *)
(* no turn leaves the start, and one more turn is taken after the turns    *)
(* before it.                                                              *)
(***************************************************************************)
EXTENDS MerkleTree, SumTheorems, SequenceTheorems

-----------------------------------------------------------------------------
(* Sequences of anything *)

IsSeq(s) == s \in Seq({s[i] : i \in DOMAIN s})

\* A sequence is a function on the positions up to its length.
LEMMA SeqPositions ==
  \A s : IsSeq(s) => Len(s) \in Nat /\ DOMAIN s = 1..Len(s)
<1> SUFFICES ASSUME NEW s, IsSeq(s)
             PROVE  Len(s) \in Nat /\ DOMAIN s = 1..Len(s)
  OBVIOUS
<1> DEFINE S == {s[i] : i \in DOMAIN s}
<1>1. s \in Seq(S)
  BY DEF IsSeq
<1> HIDE DEF S
<1> QED BY <1>1, LenProperties

\* And such a function is a sequence.
LEMMA FunctionIsSeq ==
  ASSUME NEW n \in Nat, NEW s, s = [i \in 1..n |-> s[i]]
  PROVE  IsSeq(s) /\ Len(s) = n
<1> DEFINE S == {s[i] : i \in DOMAIN s}
<1>1. DOMAIN s = 1..n
  OBVIOUS
<1>2. s \in [1..n -> S]
  <2>1. \A i \in 1..n : s[i] \in S
    BY <1>1
  <2> HIDE DEF S
  <2> QED BY <2>1
<1>3. s \in Seq(S) /\ Len(s) = n
  <2> HIDE DEF S
  <2> QED BY <1>2
<1> QED BY <1>3 DEF IsSeq

IsLonger(t, s, x) ==
  /\ IsSeq(t) /\ Len(t) = Len(s) + 1
  /\ t[Len(s) + 1] = x /\ \A i \in 1..Len(s) : t[i] = s[i]

\* Appending adds one element at the end.
LEMMA LongerSeq ==
  ASSUME NEW s, IsSeq(s), NEW x
  PROVE  IsLonger(Append(s, x), s, x)
<1> DEFINE T == {s[i] : i \in DOMAIN s}
           S == T \cup {x}
           t == Append(s, x)
<1>1. s \in Seq(S) /\ x \in S
  <2>1. s \in Seq(T) /\ T \subseteq S /\ x \in S
    BY DEF IsSeq
  <2> HIDE DEF S, T
  <2> QED BY <2>1, SeqMonotonic
<1> HIDE DEF S
<1>2. /\ t \in Seq(S) /\ Len(t) = Len(s) + 1
      /\ t[Len(s) + 1] = x /\ \A i \in 1..Len(s) : t[i] = s[i]
  BY <1>1, AppendProperties
<1>3. Len(t) \in Nat /\ t = [i \in 1..Len(t) |-> t[i]]
  BY <1>2, LenProperties
<1>4. IsSeq(t)
  <2> HIDE DEF t
  <2> QED BY <1>3, FunctionIsSeq
<1> QED BY <1>2, <1>4 DEF IsLonger

-----------------------------------------------------------------------------
(* The two loops *)

Turn(loop, a, x) == IF loop = "verify" THEN CombineHash(a, x) ELSE AddPair(a, x)

\* g takes the turns of a loop at the positions in every member of D, from v.
IsRun(g, loop, v, seq, D) ==
  g = [s \in D |->
         IF s = {} THEN v ELSE Turn(loop, g[s \ {Max(s)}], seq[Max(s)])]

Runs(loop, v, seq) == CHOOSE g : IsRun(g, loop, v, seq, SUBSET DOMAIN seq)

\* What the loop computes from v and the whole sequence.
After(loop, v, seq) == Runs(loop, v, seq)[DOMAIN seq]

\* The fold of verify is its loop.
LEMMA ComputedHashIsLoop ==
  ASSUME NEW leaf, NEW proof
  PROVE  ComputedHash(leaf, proof) = After("verify", leaf, proof)
BY DEF ComputedHash, FoldLeft, MapThenFoldSet, After, Runs, IsRun, Turn

\* The fold of find_proof is its loop.
LEMMA FindProofIsLoop ==
  ASSUME NEW hash
  PROVE  FindProof(hash) =
           After("find", [idx |-> Place(hash), proof |-> <<>>], tree).proof
BY DEF FindProof, FoldLeft, MapThenFoldSet, After, Runs, IsRun, Turn

\* The function the folds choose exists.
LEMMA RunExists ==
  ASSUME NEW loop, NEW v, NEW n \in Nat, NEW seq
  PROVE  \E g : IsRun(g, loop, v, seq, SUBSET (1..n))
<1> DEFINE S == 1..n
           Level(m) == {s \in SUBSET S : Cardinality(s) <= m}
           Bad == {m \in Nat : ~ \E g : IsRun(g, loop, v, seq, Level(m))}
<1>0. IsFiniteSet(S)
  BY FS_Interval
<1>1. ASSUME NEW s \in SUBSET S
      PROVE  Cardinality(s) \in Nat /\ IsFiniteSet(s)
  <2> HIDE DEF S
  <2> QED BY <1>0, FS_Subset, FS_CardinalityType
<1>2. ASSUME NEW s \in SUBSET S, s # {}
      PROVE  Cardinality(s \ {Max(s)}) = Cardinality(s) - 1
  BY <1>1, <1>2, MaxInSet, FS_RemoveElement
<1> HIDE DEF S
<1>3. 0 \notin Bad
  <2> DEFINE g == [s \in Level(0) |-> v]
  <2>1. \A s \in Level(0) : s = {}
    BY <1>1, FS_EmptySet
  <2>2. IsRun(g, loop, v, seq, Level(0))
    BY <2>1 DEF IsRun
  <2> QED BY <2>2
<1>4. ASSUME NEW m \in Nat, m \notin Bad
      PROVE  m + 1 \notin Bad
  <2>1. PICK g : IsRun(g, loop, v, seq, Level(m))
    BY <1>4
  <2> DEFINE G(s, f) == IF s = {} THEN v ELSE Turn(loop, f[s \ {Max(s)}], seq[Max(s)])
             h == [s \in Level(m + 1) |-> IF s \in Level(m) THEN g[s] ELSE G(s, g)]
  <2>2. ASSUME NEW s \in Level(m + 1), s # {}
        PROVE  s \ {Max(s)} \in Level(m) /\ s \ {Max(s)} \in Level(m + 1)
    BY <1>1, <1>2, <2>2
  <2>3. \A s \in Level(m) : g[s] = G(s, g)
    BY <2>1 DEF IsRun
  <2>4. \A s \in Level(m) : h[s] = g[s] /\ s \in Level(m + 1)
    BY <1>1
  <2>5. \A s \in Level(m + 1) : h[s] = G(s, h)
    <3> SUFFICES ASSUME NEW s \in Level(m + 1)
                 PROVE  h[s] = G(s, h)
      OBVIOUS
    <3>1. h[s] = G(s, g)
      BY <2>3
    <3>2. CASE s = {}
      BY <3>1, <3>2
    <3>3. CASE s # {}
      <4>1. h[s \ {Max(s)}] = g[s \ {Max(s)}]
        BY <3>3, <2>2, <2>4
      <4> HIDE DEF h
      <4> QED BY <3>1, <3>3, <4>1
    <3> QED BY <3>2, <3>3
  <2>6. IsRun(h, loop, v, seq, Level(m + 1))
    <3> DEFINE k == [s \in Level(m + 1) |-> G(s, h)]
    <3>1. \A s \in Level(m + 1) : h[s] = k[s]
      BY <2>5
    <3>2. h = k
      <4> HIDE DEF Level, G
      <4>1. DOMAIN h = Level(m + 1) /\ DOMAIN k = Level(m + 1)
        OBVIOUS
      <4>2. h = [s \in Level(m + 1) |-> h[s]]
        OBVIOUS
      <4>3. k = [s \in Level(m + 1) |-> k[s]]
        OBVIOUS
      <4> HIDE DEF h, k
      <4> QED BY <3>1, <4>1, <4>2, <4>3
    <3> QED BY <3>2 DEF IsRun
  <2> HIDE DEF h
  <2> QED BY <2>6
<1>5. Bad = {}
  <2> SUFFICES ASSUME Bad # {} PROVE FALSE
    OBVIOUS
  <2> HIDE DEF Bad
  <2>1. PICK m \in Bad : \A k \in Bad : m <= k
    <3>1. Bad \subseteq Nat
      BY DEF Bad
    <3> QED BY <3>1, NatMinimum
  <2>2. m \in Nat /\ m # 0
    BY <1>3, <2>1 DEF Bad
  <2>3. m - 1 \in Nat /\ m - 1 \notin Bad
    BY <2>1, <2>2
  <2>4. (m - 1) + 1 \notin Bad
    BY <1>4, <2>3
  <2> QED BY <2>4, <2>2, <2>1
<1>6. Level(Cardinality(S)) = SUBSET S
  BY <1>0, FS_Subset
<1>7. Cardinality(S) \in Nat
  BY <1>0, FS_CardinalityType
<1>8. Cardinality(S) \notin Bad
  BY <1>5, <1>7
<1> QED BY <1>6, <1>7, <1>8 DEF S

\* What g is at every set of the positions up to n.
TakesTurns(g, loop, v, seq, n) ==
  \A s \in SUBSET (1..n) :
    g[s] = IF s = {} THEN v ELSE Turn(loop, g[s \ {Max(s)}], seq[Max(s)])

\* So the chosen function takes the turns.
LEMMA RunsTakeTurns ==
  ASSUME NEW loop, NEW v, NEW n \in Nat, NEW seq, DOMAIN seq = 1..n
  PROVE  TakesTurns(Runs(loop, v, seq), loop, v, seq, n)
<1>1. IsRun(Runs(loop, v, seq), loop, v, seq, SUBSET (1..n))
  BY RunExists DEF Runs
<1> QED BY <1>1 DEF IsRun, TakesTurns

\* A loop of no turn leaves the start.
LEMMA NoTurn ==
  ASSUME NEW loop, NEW v, NEW seq, DOMAIN seq = {}
  PROVE  After(loop, v, seq) = v
<1>1. DOMAIN seq = 1..0 /\ 0 \in Nat
  OBVIOUS
<1>2. Runs(loop, v, seq)[{}] = v
  <2>1. TakesTurns(Runs(loop, v, seq), loop, v, seq, 0)
    BY <1>1, RunsTakeTurns
  <2> QED BY <2>1 DEF TakesTurns
<1> QED BY <1>2 DEF After

\* Sequences that agree on some positions make the same turns there.
LEMMA RunsAgree ==
  ASSUME NEW loop, NEW v, NEW n \in Nat, NEW m \in Nat, m <= n,
         NEW seq, DOMAIN seq = 1..n, NEW t, DOMAIN t = 1..m,
         \A i \in 1..m : t[i] = seq[i]
  PROVE  Runs(loop, v, seq)[1..m] = Runs(loop, v, t)[1..m]
<1> DEFINE g == Runs(loop, v, seq)
           h == Runs(loop, v, t)
           D == 1..m
           P == {s \in SUBSET D : g[s] = h[s]}
<1>1. \A s \in SUBSET (1..m) :
        /\ g[s] = IF s = {} THEN v ELSE Turn(loop, g[s \ {Max(s)}], seq[Max(s)])
        /\ h[s] = IF s = {} THEN v ELSE Turn(loop, h[s \ {Max(s)}], t[Max(s)])
  <2>1. \A s \in SUBSET (1..m) : s \in SUBSET (1..n)
    OBVIOUS
  <2>2. TakesTurns(g, loop, v, seq, n) /\ TakesTurns(h, loop, v, t, m)
    BY RunsTakeTurns
  <2> HIDE DEF g, h
  <2> QED BY <2>1, <2>2 DEF TakesTurns
<1> HIDE DEF g, h
<1>2. {} \in P
  BY <1>1
<1>3. ASSUME NEW s \in SUBSET D, s # {}, \A x \in s : s \ {x} \in P
      PROVE  s \in P
  <2>1. Max(s) \in s
    BY <1>3, MaxInSet
  <2>2. g[s \ {Max(s)}] = h[s \ {Max(s)}] /\ seq[Max(s)] = t[Max(s)]
    BY <1>3, <2>1
  <2> QED BY <1>1, <1>3, <2>2
<1>4. IsFiniteSet(D)
  BY FS_Interval
<1>5. \A s \in SUBSET D : s \in P
  <2> HIDE DEF P, D
  <2> QED BY <1>2, <1>3, <1>4, SubsetInduction
<1> QED BY <1>5 DEF g, h

\* The last turn is taken after the turns before it.
LEMMA LastTurn ==
  ASSUME NEW loop, NEW v, NEW n \in Nat, NEW seq, DOMAIN seq = 1..(n + 1),
         NEW t, DOMAIN t = 1..n, \A i \in 1..n : t[i] = seq[i]
  PROVE  After(loop, v, seq) = Turn(loop, After(loop, v, t), seq[n + 1])
<1> DEFINE s == 1..(n + 1)
<1>1. Max(s) = n + 1
  <2>1. n + 1 \in s /\ \A i \in s : n + 1 >= i
    OBVIOUS
  <2>2. \A i \in s : (\A j \in s : i >= j) => i = n + 1
    BY <2>1
  <2> HIDE DEF s
  <2> QED BY <2>1, <2>2 DEF Max
<1>2. s \ {n + 1} = 1..n
  OBVIOUS
<1>3. s # {}
  OBVIOUS
<1>4. Runs(loop, v, seq)[s] = Turn(loop, Runs(loop, v, seq)[s \ {Max(s)}], seq[Max(s)])
  <2>1. n + 1 \in Nat
    OBVIOUS
  <2>2. TakesTurns(Runs(loop, v, seq), loop, v, seq, n + 1)
    BY <2>1, RunsTakeTurns
  <2>3. s \in SUBSET (1..(n + 1))
    OBVIOUS
  <2> HIDE DEF s
  <2> QED BY <1>3, <2>2, <2>3 DEF TakesTurns
<1>5. Runs(loop, v, seq)[1..n] = Runs(loop, v, t)[1..n]
  BY RunsAgree
<1> QED BY <1>1, <1>2, <1>4, <1>5 DEF After

\* Without hashes, verify computes the leaf.
LEMMA ComputedFromNothing ==
  ASSUME NEW leaf, NEW proof, DOMAIN proof = {}
  PROVE  ComputedHash(leaf, proof) = leaf
BY ComputedHashIsLoop, NoTurn

\* With one hash more, it combines that with what it computes without.
LEMMA ComputedWithOneMore ==
  ASSUME NEW leaf, NEW n \in Nat, NEW proof, DOMAIN proof = 1..(n + 1),
         NEW part, DOMAIN part = 1..n, \A i \in 1..n : part[i] = proof[i]
  PROVE  ComputedHash(leaf, proof) = CombineHash(ComputedHash(leaf, part), proof[n + 1])
<1>1. After("verify", leaf, proof) = Turn("verify", After("verify", leaf, part), proof[n + 1])
  BY LastTurn
<1> QED BY <1>1, ComputedHashIsLoop DEF Turn

-----------------------------------------------------------------------------
(* The tree *)

\* The first layer has the hashes of the allocations, and every further layer
\* is made from the one before it.
TreeInv ==
  /\ snapshot \in Snapshots
  /\ IsSeq(tree) /\ Len(tree) > 0
  /\ \A l \in 1..Len(tree) : IsSeq(tree[l]) /\ Len(tree[l]) > 0
  /\ {tree[1][i] : i \in 1..Len(tree[1])} = {HashOf(i) : i \in DOMAIN snapshot}
  /\ \A l \in 1..(Len(tree) - 1) : tree[l + 1] = NextLayer(tree[l])

\* Half the hashes, rounded up, are in the next layer.
LEMMA NextLayerSize ==
  ASSUME NEW layer, IsSeq(layer), Len(layer) > 0
  PROVE  /\ IsSeq(NextLayer(layer))
         /\ Len(NextLayer(layer)) = (Len(layer) + 1) \div 2
         /\ Len(NextLayer(layer)) > 0
<1> DEFINE n == (Len(layer) + 1) \div 2
<1>1. Len(layer) \in Nat
  BY SeqPositions
<1>2. n \in Nat /\ n > 0
  BY <1>1
<1>3. NextLayer(layer) = [i \in 1..n |-> NextLayer(layer)[i]]
  <2> HIDE DEF n
  <2>1. \E f : NextLayer(layer) = [i \in 1..n |-> f[i]]
    <3> DEFINE f == [i \in 1..n |-> IF 2 * i > Len(layer) THEN layer[2 * i - 1]
                                    ELSE CombineHash(layer[2 * i - 1], layer[2 * i])]
    <3>1. NextLayer(layer) = f
      BY DEF NextLayer, n
    <3>2. f = [i \in 1..n |-> f[i]]
      OBVIOUS
    <3> HIDE DEF f
    <3> QED BY <3>1, <3>2
  <2> QED BY <2>1
<1> HIDE DEF n
<1>4. IsSeq(NextLayer(layer)) /\ Len(NextLayer(layer)) = n
  BY <1>2, <1>3, FunctionIsSeq
<1> QED BY <1>2, <1>4 DEF n

MadeFrom(layer, h) ==
  \/ \E j \in 1..Len(layer) : h = layer[j]
  \/ \E j, k \in 1..Len(layer) : h = CombineHash(layer[j], layer[k])

\* A hash of the next layer is one of the layer or combines two of it.
LEMMA NextLayerHashes ==
  ASSUME NEW layer, IsSeq(layer), Len(layer) > 0, NEW i \in 1..Len(NextLayer(layer))
  PROVE  MadeFrom(layer, NextLayer(layer)[i])
<1> DEFINE n == (Len(layer) + 1) \div 2
<1>1. Len(layer) \in Nat
  BY SeqPositions
<1>2. i \in 1..n
  BY NextLayerSize
<1>3. NextLayer(layer)[i] = IF 2 * i > Len(layer) THEN layer[2 * i - 1]
                            ELSE CombineHash(layer[2 * i - 1], layer[2 * i])
  BY <1>2 DEF NextLayer
<1>4. 2 * i - 1 \in 1..Len(layer)
  BY <1>1, <1>2
<1>5. 2 * i <= Len(layer) => 2 * i \in 1..Len(layer)
  BY <1>1, <1>2
<1> QED BY <1>1, <1>3, <1>4, <1>5 DEF MadeFrom

\* The sequences of a finite set have exactly its elements.
LEMMA SequencesOfSet ==
  ASSUME NEW S, IsFiniteSet(S), NEW f \in SetToSeqs(S)
  PROVE  /\ IsSeq(f) /\ Len(f) = Cardinality(S)
         /\ {f[i] : i \in 1..Len(f)} = S
<1> DEFINE n == Cardinality(S)
           D == 1..n
<1>1. n \in Nat
  BY FS_CardinalityType
<1>2. IsFiniteSet(D) /\ Cardinality(D) = n
  BY <1>1, FS_Interval
<1>3. f \in [D -> S] /\ \A i, j \in D : i # j => f[i] # f[j]
  BY DEF SetToSeqs
<1> HIDE DEF D
<1>4. f \in Injection(D, S)
  BY <1>3 DEF Injection, IsInjective
<1>5. f \in Surjection(D, S)
  BY <1>2, <1>4, FS_Injection
<1>6. \A x \in S : \E i \in D : f[i] = x
  BY <1>5 DEF Surjection
<1>7. {f[i] : i \in D} = S
  BY <1>3, <1>6
<1>8. f = [i \in D |-> f[i]]
  BY <1>3
<1>9. IsSeq(f) /\ Len(f) = n
  BY <1>1, <1>8, FunctionIsSeq DEF D
<1> QED BY <1>7, <1>9 DEF D

\* A snapshot is a sequence of allocations to different claimants.
LEMMA SnapshotShape ==
  ASSUME NEW s \in Snapshots
  PROVE  /\ Len(s) \in Nat /\ Len(s) > 0 /\ DOMAIN s = 1..Len(s)
         /\ \A i \in DOMAIN s : s[i] \in [pubkey : Claimants, amount : Nat]
         /\ \A i, j \in DOMAIN s : s[i].pubkey = s[j].pubkey => i = j
<1>1. s \in Seq([pubkey : Claimants, amount : Nat]) /\ s # <<>>
  BY SnapshotAssumption
<1> DEFINE n == Len(s)
           D == 1..n
           f == [i \in D |-> s[i].pubkey]
<1>2. n \in Nat /\ n > 0 /\ DOMAIN s = D
  BY <1>1, LenProperties, EmptySeq
<1>3. \A i \in D : s[i] \in [pubkey : Claimants, amount : Nat]
  BY <1>1, ElementOfSeq
<1>4. Pubkeys(s) = {s[i].pubkey : i \in D} /\ Cardinality(Pubkeys(s)) = n
  BY <1>2, SnapshotAssumption DEF Pubkeys
<1>5. IsFiniteSet(D) /\ Cardinality(D) = n
  BY <1>2, FS_Interval
<1> HIDE DEF D, n
<1>6. f \in Surjection(D, Pubkeys(s))
  BY <1>4 DEF Surjection
<1>7. f \in Injection(D, Pubkeys(s))
  <2> HIDE DEF f
  <2> QED BY <1>4, <1>5, <1>6, FS_Surjection
<1>8. \A i, j \in D : f[i] = f[j] => i = j
  <2>1. DOMAIN f = D
    OBVIOUS
  <2> HIDE DEF f
  <2> QED BY <1>7, <2>1 DEF Injection, IsInjective
<1> QED BY <1>2, <1>3, <1>8 DEF n, D

\* The first layer holds the hash of every allocation, whatever their order.
LEMMA TreeInitInv == TreeInit => TreeInv
<1> SUFFICES ASSUME TreeInit PROVE TreeInv
  OBVIOUS
<1> DEFINE D == DOMAIN snapshot
           H == {HashOf(i) : i \in D}
           f == [i \in D |-> HashOf(i)]
<1>1. snapshot \in Snapshots
  BY DEF TreeInit
<1>2. Len(snapshot) \in Nat /\ Len(snapshot) > 0 /\ D = 1..Len(snapshot)
  BY <1>1, SnapshotShape
<1>3. IsFiniteSet(D) /\ 1 \in D
  BY <1>2, FS_Interval
<1>4. IsFiniteSet(H)
  <2>1. f \in Surjection(D, H)
    BY DEF Surjection
  <2> HIDE DEF f, H, D
  <2> QED BY <1>3, <2>1, FS_Surjection
<1>5. PICK b \in SetToSeqs(H) : tree = <<b>>
  BY DEF TreeInit
<1>6. IsSeq(b) /\ Len(b) = Cardinality(H) /\ {b[i] : i \in 1..Len(b)} = H
  <2> HIDE DEF H
  <2> QED BY <1>4, SequencesOfSet
<1>7. Len(b) > 0
  <2>1. HashOf(1) \in H
    BY <1>3
  <2> HIDE DEF H, D
  <2> QED BY <1>4, <1>6, <2>1, FS_EmptySet, FS_CardinalityType
<1>8. IsSeq(tree) /\ Len(tree) = 1 /\ tree[1] = b
  <2>1. tree = [i \in 1..1 |-> tree[i]]
    BY <1>5
  <2>2. IsSeq(tree) /\ Len(tree) = 1
    BY <2>1, FunctionIsSeq
  <2> QED BY <1>5, <2>2
<1>9. \A l \in 1..Len(tree) : l = 1
  BY <1>8
<1>10. \A l \in 1..(Len(tree) - 1) : tree[l + 1] = NextLayer(tree[l])
  BY <1>8
<1>11. {tree[1][i] : i \in 1..Len(tree[1])} = {HashOf(i) : i \in DOMAIN snapshot}
  BY <1>6, <1>8
<1>12. \A l \in 1..Len(tree) : IsSeq(tree[l]) /\ Len(tree[l]) > 0
  BY <1>6, <1>7, <1>8, <1>9
<1>13. IsSeq(tree) /\ Len(tree) > 0
  BY <1>8
<1> HIDE DEF D, H, f
<1> QED BY <1>1, <1>10, <1>11, <1>12, <1>13 DEF TreeInv

\* A layer more.
LEMMA BuildLayerInv == TreeInv /\ [BuildLayer]_treeState => TreeInv'
<1> SUFFICES ASSUME TreeInv, [BuildLayer]_treeState
             PROVE  TreeInv'
  OBVIOUS
<1>1. CASE UNCHANGED treeState
  BY <1>1 DEF treeState, TreeInv, HashOf
<1>2. CASE BuildLayer
  <2> DEFINE n == Len(tree)
             next == NextLayer(tree[n])
  <2>1. /\ n \in Nat /\ n > 0 /\ DOMAIN tree = 1..n
        /\ IsSeq(tree[n]) /\ Len(tree[n]) > 0
    BY SeqPositions DEF TreeInv
  <2>2. tree' = Append(tree, next) /\ snapshot' = snapshot
    BY <1>2 DEF BuildLayer, Last
  <2>3. IsSeq(next) /\ Len(next) > 0
    BY <2>1, NextLayerSize
  <2>0. n = Len(tree)
    OBVIOUS
  <2> HIDE DEF next, n
  <2>4. /\ IsSeq(tree') /\ Len(tree') = n + 1
        /\ tree'[n + 1] = next /\ \A l \in 1..n : tree'[l] = tree[l]
    <3>1. IsSeq(tree)
      BY DEF TreeInv
    <3>2. IsLonger(Append(tree, next), tree, next)
      BY <3>1, LongerSeq
    <3>3. IsLonger(tree', tree, next)
      BY <2>2, <3>2
    <3> QED BY <2>0, <3>3 DEF IsLonger
  <2>5. \A l \in 1..Len(tree') : IsSeq(tree'[l]) /\ Len(tree'[l]) > 0
    <3> SUFFICES ASSUME NEW l \in 1..(n + 1)
                 PROVE  IsSeq(tree'[l]) /\ Len(tree'[l]) > 0
      BY <2>4
    <3>1. CASE l = n + 1
      BY <2>3, <2>4, <3>1
    <3>2. CASE l # n + 1
      <4>1. l \in 1..n
        BY <2>1, <3>2
      <4>2. IsSeq(tree[l]) /\ Len(tree[l]) > 0
        BY <2>0, <4>1 DEF TreeInv
      <4> QED BY <2>4, <4>1, <4>2
    <3> QED BY <3>1, <3>2
  <2>6. {tree'[1][i] : i \in 1..Len(tree'[1])} = {HashOf(i)' : i \in DOMAIN snapshot'}
    <3>1. tree'[1] = tree[1]
      BY <2>1, <2>4
    <3>2. \A i : HashOf(i)' = HashOf(i)
      BY <2>2 DEF HashOf
    <3> QED BY <2>2, <3>1, <3>2 DEF TreeInv
  <2>7. \A l \in 1..(Len(tree') - 1) : tree'[l + 1] = NextLayer(tree'[l])
    <3> SUFFICES ASSUME NEW l \in 1..n
                 PROVE  tree'[l + 1] = NextLayer(tree'[l])
      BY <2>1, <2>4
    <3>1. CASE l = n
      BY <2>4, <3>1 DEF next
    <3>2. CASE l # n
      <4>1. l \in 1..(n - 1) /\ l + 1 \in 1..n
        BY <2>1, <3>2
      <4>2. tree[l + 1] = NextLayer(tree[l])
        BY <2>0, <4>1 DEF TreeInv
      <4> QED BY <2>4, <4>1, <4>2
    <3> QED BY <3>1, <3>2
  <2>8. snapshot' \in Snapshots
    BY <2>2 DEF TreeInv
  <2>9. Len(tree') > 0
    BY <2>1, <2>4
  <2> QED BY <2>4, <2>5, <2>6, <2>7, <2>8, <2>9 DEF TreeInv
<1> QED BY <1>1, <1>2

\* Every tree the client builds is such a tree.
THEOREM TreeIsLayered == TreeSpec => []TreeInv
<1>1. TreeInit => TreeInv
  BY TreeInitInv
<1>2. TreeInv /\ [BuildLayer]_treeState => TreeInv'
  BY BuildLayerInv
<1> QED BY <1>1, <1>2, PTL DEF TreeSpec

-----------------------------------------------------------------------------
(* Every allocation verifies *)

\* Concatenating one element appends it, and none leaves a sequence alone.
LEMMA OneOrNoneMore ==
  ASSUME NEW s, IsSeq(s), NEW x
  PROVE  IsLonger(s \o <<x>>, s, x) /\ s \o <<>> = s
<1> DEFINE T == {s[i] : i \in DOMAIN s}
           S == T \cup {x}
<1>1. s \in Seq(S) /\ x \in S
  <2>1. s \in Seq(T) /\ T \subseteq S /\ x \in S
    BY DEF IsSeq
  <2> HIDE DEF S, T
  <2> QED BY <2>1, SeqMonotonic
<1> HIDE DEF S
<1>2. Append(s, x) = s \o <<x>>
  BY <1>1, AppendIsConcat
<1>3. s \o <<>> = s
  BY <1>1, ConcatEmptySeq
<1> QED BY <1>2, <1>3, LongerSeq

\* The path from the hash h has come to its place in a layer: what verify
\* computes from the proof so far is the hash there.
Climbed(h, path, layer) ==
  /\ path.idx \in Nat /\ path.idx < Len(layer)
  /\ IsSeq(path.proof)
  /\ ComputedHash(h, path.proof) = layer[path.idx + 1]

\* A proof that is longer by a hash x computes the pair with x.
LEMMA ComputedWithPair ==
  ASSUME NEW h, NEW proof, IsSeq(proof), NEW x
  PROVE  /\ IsSeq(proof \o <<x>>)
         /\ ComputedHash(h, proof \o <<x>>) = CombineHash(ComputedHash(h, proof), x)
<1> DEFINE n == Len(proof)
           longer == proof \o <<x>>
<1>1. n \in Nat /\ DOMAIN proof = 1..n
  BY SeqPositions
<1>2. IsLonger(longer, proof, x)
  BY OneOrNoneMore
<1> HIDE DEF longer
<1>3. IsSeq(longer) /\ DOMAIN longer = 1..(n + 1)
  BY <1>2, SeqPositions DEF IsLonger
<1>4. longer[n + 1] = x /\ \A i \in 1..n : proof[i] = longer[i]
  BY <1>2 DEF IsLonger
<1> HIDE DEF n
<1>5. ComputedHash(h, longer) = CombineHash(ComputedHash(h, proof), longer[n + 1])
  BY <1>1, <1>3, <1>4, ComputedWithOneMore
<1> QED BY <1>3, <1>4, <1>5 DEF longer

\* One turn of find_proof climbs one layer, also from the last hash of a layer
\* of odd length, which has no hash beside it.
LEMMA ClimbOne ==
  ASSUME NEW h, NEW layer, IsSeq(layer), Len(layer) > 0,
         NEW path, Climbed(h, path, layer)
  PROVE  Climbed(h, AddPair(path, layer), NextLayer(layer))
<1> DEFINE n == Len(layer)
           i == path.idx
           j == i \div 2
           next == NextLayer(layer)
           pair == PairElement(i, layer)
<1>1. n \in Nat /\ n > 0 /\ i \in Nat /\ i < n /\ IsSeq(path.proof)
  BY SeqPositions DEF Climbed
<1>2. ComputedHash(h, path.proof) = layer[i + 1]
  BY DEF Climbed
<1>3. AddPair(path, layer) = [idx |-> j, proof |-> path.proof \o pair]
  BY DEF AddPair
<1>4. Len(next) = (n + 1) \div 2
  BY NextLayerSize
<1>5. j \in Nat /\ j < Len(next) /\ j + 1 \in 1..((n + 1) \div 2)
  <2> HIDE DEF n, i, next
  <2> QED BY <1>1, <1>4
<1>6. next[j + 1] = IF 2 * (j + 1) > n THEN layer[2 * (j + 1) - 1]
                    ELSE CombineHash(layer[2 * (j + 1) - 1], layer[2 * (j + 1)])
  <2> HIDE DEF j
  <2> QED BY <1>5 DEF NextLayer
<1> HIDE DEF next
<1>7. CASE i % 2 = 0 /\ i + 1 > n - 1
  <2>1. pair = <<>>
    BY <1>7 DEF PairElement
  <2>2. path.proof \o pair = path.proof
    BY <1>1, <2>1, OneOrNoneMore
  <2>3. 2 * (j + 1) > n /\ 2 * (j + 1) - 1 = i + 1
    <3> HIDE DEF n, i
    <3> QED BY <1>1, <1>7
  <2>4. next[j + 1] = layer[i + 1]
    BY <1>6, <2>3
  <2> HIDE DEF i, j, n, pair
  <2> QED BY <1>1, <1>2, <1>3, <1>5, <2>2, <2>4 DEF Climbed, next
<1>8. CASE i % 2 = 0 /\ ~ (i + 1 > n - 1)
  <2>1. pair = <<layer[i + 2]>>
    <3>1. pair = <<layer[(i + 1) + 1]>>
      BY <1>8 DEF PairElement
    <3>2. (i + 1) + 1 = i + 2
      BY <1>1
    <3> QED BY <3>1, <3>2
  <2>2. 2 * (j + 1) <= n /\ 2 * (j + 1) - 1 = i + 1 /\ 2 * (j + 1) = i + 2
    <3> HIDE DEF n, i
    <3> QED BY <1>1, <1>8
  <2>3. next[j + 1] = CombineHash(layer[i + 1], layer[i + 2])
    <3>1. ~ (2 * (j + 1) > n)
      <4> HIDE DEF n, i
      <4> QED BY <1>1, <2>2
    <3> QED BY <1>6, <2>2, <3>1
  <2> HIDE DEF i, j, n, pair
  <2>4. /\ IsSeq(path.proof \o pair)
        /\ ComputedHash(h, path.proof \o pair) = CombineHash(layer[i + 1], layer[i + 2])
    BY <1>1, <1>2, <2>1, ComputedWithPair
  <2> QED BY <1>1, <1>3, <1>5, <2>3, <2>4 DEF Climbed, next
<1>9. CASE i % 2 # 0
  <2>1. i - 1 <= n - 1
    <3> HIDE DEF n, i
    <3> QED BY <1>1
  <2>2. pair = <<layer[i]>>
    <3>1. ~ (i - 1 > n - 1)
      <4> HIDE DEF n, i
      <4> QED BY <1>1, <2>1
    <3>2. pair = <<layer[(i - 1) + 1]>>
      BY <1>9, <3>1 DEF PairElement
    <3>3. (i - 1) + 1 = i
      <4> HIDE DEF i
      <4> QED BY <1>1
    <3> QED BY <3>2, <3>3
  <2>3. ~ (2 * (j + 1) > n) /\ 2 * (j + 1) - 1 = i /\ 2 * (j + 1) = i + 1
    <3> HIDE DEF n, i
    <3> QED BY <1>1, <1>9
  <2>4. next[j + 1] = CombineHash(layer[i], layer[i + 1])
    BY <1>6, <2>3
  <2> HIDE DEF i, j, n, pair
  <2>5. /\ IsSeq(path.proof \o pair)
        /\ ComputedHash(h, path.proof \o pair) = CombineHash(layer[i + 1], layer[i])
    BY <1>1, <1>2, <2>2, ComputedWithPair
  <2>6. CombineHash(layer[i + 1], layer[i]) = CombineHash(layer[i], layer[i + 1])
    <3>1. {layer[i + 1], layer[i]} = {layer[i], layer[i + 1]}
      OBVIOUS
    <3> QED BY <3>1 DEF CombineHash
  <2> QED BY <1>1, <1>3, <1>5, <2>4, <2>5, <2>6 DEF Climbed, next
<1> QED BY <1>7, <1>8, <1>9

\* At the root there is nothing to add.
LEMMA ClimbLast ==
  ASSUME NEW h, NEW layer, Len(layer) = 1, NEW path, Climbed(h, path, layer)
  PROVE  /\ IsSeq(AddPair(path, layer).proof)
         /\ ComputedHash(h, AddPair(path, layer).proof) = layer[1]
<1>1. path.idx = 0 /\ IsSeq(path.proof) /\ ComputedHash(h, path.proof) = layer[1]
  BY DEF Climbed
<1>2. PairElement(0, layer) = <<>>
  BY DEF PairElement
<1>3. AddPair(path, layer).proof = path.proof \o <<>>
  BY <1>1, <1>2 DEF AddPair
<1>4. path.proof \o <<>> = path.proof
  BY <1>1, OneOrNoneMore
<1> QED BY <1>1, <1>3, <1>4

\* The hash of an allocation has a place in the first layer.
LEMMA PlaceOfHash ==
  ASSUME TreeInv, NEW i \in DOMAIN snapshot
  PROVE  /\ Place(HashOf(i)) \in Nat /\ Place(HashOf(i)) < Len(tree[1])
         /\ tree[1][Place(HashOf(i)) + 1] = HashOf(i)
<1> DEFINE h == HashOf(i)
           places == {j \in DOMAIN tree[1] : tree[1][j] = h}
<1>1. Len(tree[1]) \in Nat /\ DOMAIN tree[1] = 1..Len(tree[1])
  <2>1. 1 \in 1..Len(tree)
    BY SeqPositions DEF TreeInv
  <2> QED BY <2>1, SeqPositions DEF TreeInv
<1>2. h \in {tree[1][j] : j \in 1..Len(tree[1])}
  <2>1. h \in {HashOf(j) : j \in DOMAIN snapshot}
    OBVIOUS
  <2> HIDE DEF h
  <2> QED BY <2>1 DEF TreeInv
<1> HIDE DEF h
<1>3. places # {} /\ places \subseteq Nat
  BY <1>1, <1>2
<1> DEFINE first == CHOOSE p \in places : \A q \in places : p <= q
<1>4. Place(h) = first - 1
  BY <1>3 DEF Place
<1>5. first \in places
  <2> HIDE DEF places
  <2> QED BY <1>3, NatMinimum
<1>6. first \in 1..Len(tree[1]) /\ tree[1][first] = h
  BY <1>1, <1>5
<1> HIDE DEF first
<1> QED BY <1>1, <1>4, <1>6 DEF h

\* find_proof after the first l layers of the tree.
Start(h) == [idx |-> Place(h), proof |-> <<>>]
PathTo(h, l) == After("find", Start(h), [k \in 1..l |-> tree[k]])

\* One layer more is one turn more.
LEMMA NextOnPath ==
  ASSUME TreeInv, NEW h, NEW l \in Nat, l + 1 <= Len(tree)
  PROVE  PathTo(h, l + 1) = AddPair(PathTo(h, l), tree[l + 1])
<1> DEFINE s == [k \in 1..(l + 1) |-> tree[k]]
           t == [k \in 1..l |-> tree[k]]
<1>1. DOMAIN s = 1..(l + 1) /\ DOMAIN t = 1..l
  OBVIOUS
<1>2. s[l + 1] = tree[l + 1] /\ \A i \in 1..l : t[i] = s[i]
  OBVIOUS
<1>3. PathTo(h, l + 1) = After("find", Start(h), s) /\ PathTo(h, l) = After("find", Start(h), t)
  BY DEF PathTo
<1> HIDE DEF s, t
<1>4. After("find", Start(h), s) = Turn("find", After("find", Start(h), t), s[l + 1])
  BY <1>1, <1>2, LastTurn
<1> QED BY <1>2, <1>3, <1>4 DEF Turn

\* And after all of them.
LEMMA WholePath ==
  ASSUME TreeInv, NEW h
  PROVE  FindProof(h) = PathTo(h, Len(tree)).proof
<1>1. tree = [k \in 1..Len(tree) |-> tree[k]]
  <2> DEFINE S == {tree[k] : k \in DOMAIN tree}
  <2>1. tree \in Seq(S)
    BY DEF TreeInv, IsSeq
  <2> HIDE DEF S
  <2> QED BY <2>1, LenProperties
<1> QED BY <1>1, FindProofIsLoop DEF PathTo, Start

\* On its way find_proof always is at a hash that verify has come to, too.
LEMMA PathClimbs ==
  ASSUME TreeInv, NEW i \in DOMAIN snapshot
  PROVE  \A l \in 0..(Len(tree) - 1) : Climbed(HashOf(i), PathTo(HashOf(i), l), tree[l + 1])
<1> DEFINE h == HashOf(i)
           Bad == {l \in 0..(Len(tree) - 1) : ~ Climbed(h, PathTo(h, l), tree[l + 1])}
<1>1. Len(tree) \in Nat
  BY SeqPositions DEF TreeInv
<1>2. 0 \notin Bad
  <2>1. PathTo(h, 0) = Start(h)
    <3> DEFINE none == [k \in 1..0 |-> tree[k]]
    <3>1. DOMAIN none = {}
      OBVIOUS
    <3>2. PathTo(h, 0) = After("find", Start(h), none)
      BY DEF PathTo
    <3> HIDE DEF none, h
    <3> QED BY <3>1, <3>2, NoTurn
  <2>2. IsSeq(<<>>) /\ DOMAIN <<>> = {}
    <3>1. IsSeq(<<>>)
      BY EmptySeq DEF IsSeq
    <3> QED BY <3>1
  <2>3. ComputedHash(h, <<>>) = h
    BY <2>2, ComputedFromNothing
  <2>4. Climbed(h, Start(h), tree[1])
    BY <2>2, <2>3, PlaceOfHash DEF Climbed, Start
  <2> QED BY <2>1, <2>4
<1> HIDE DEF h
<1>3. ASSUME NEW m \in Bad, \A k \in Bad : m <= k
      PROVE  FALSE
  <2> DEFINE l == m - 1
  <2>1. /\ l \in Nat /\ m = l + 1 /\ l \in 0..(Len(tree) - 1)
        /\ m \in 1..(Len(tree) - 1) /\ l + 1 <= Len(tree) /\ m \in 1..Len(tree)
    BY <1>1, <1>2, <1>3
  <2>2. l \notin Bad
    BY <1>3, <2>1
  <2> HIDE DEF l
  <2>3. Climbed(h, PathTo(h, l), tree[m])
    BY <2>1, <2>2
  <2>4. PathTo(h, m) = AddPair(PathTo(h, l), tree[m])
    BY <2>1, NextOnPath
  <2>5. tree[m + 1] = NextLayer(tree[m]) /\ IsSeq(tree[m]) /\ Len(tree[m]) > 0
    BY <2>1 DEF TreeInv
  <2>6. Climbed(h, PathTo(h, m), tree[m + 1])
    BY <2>3, <2>4, <2>5, ClimbOne
  <2> QED BY <2>6
<1>4. Bad = {}
  <2>1. Bad \subseteq Nat
    BY <1>1
  <2> HIDE DEF Bad
  <2> QED BY <1>3, <2>1, NatMinimum
<1> QED BY <1>4 DEF h

\* So the proof of an allocation computes the root.
LEMMA FoundProofVerifies ==
  ASSUME TreeInv, Built, NEW i \in DOMAIN snapshot
  PROVE  IsSeq(FindProof(HashOf(i))) /\ Verify(FindProof(HashOf(i)), Root, HashOf(i))
<1> DEFINE h == HashOf(i)
           l == Len(tree) - 1
<1>1. Len(tree) \in Nat /\ Len(tree) > 0
  BY SeqPositions DEF TreeInv
<1>2. l \in Nat /\ Len(tree) = l + 1 /\ l \in 0..(Len(tree) - 1)
  BY <1>1
<1>3. Climbed(h, PathTo(h, l), tree[l + 1])
  <2> HIDE DEF l
  <2> QED BY <1>2, PathClimbs
<1> HIDE DEF h, l
<1>4. PathTo(h, Len(tree)) = AddPair(PathTo(h, l), tree[l + 1])
  BY <1>2, NextOnPath
<1>5. Len(tree[l + 1]) = 1 /\ Root = tree[l + 1][1]
  BY <1>2 DEF Built, Root, Last
<1>6. FindProof(h) = AddPair(PathTo(h, l), tree[l + 1]).proof
  BY <1>4, WholePath
<1> QED BY <1>3, <1>5, <1>6, ClimbLast DEF Verify, h

\* What the client of a claimant sends is the proof of his allocation.
LEMMA ClaimOfAllocation ==
  ASSUME TreeInv, NEW k \in Pubkeys(snapshot)
  PROVE  \E i \in DOMAIN snapshot :
           /\ ClaimInfo(k).proof = FindProof(HashOf(i))
           /\ LeafHash(ClaimInfo(k).index, k, ClaimInfo(k).amount) = HashOf(i)
<1> DEFINE i == CHOOSE j \in DOMAIN snapshot : snapshot[j].pubkey = k
<1>1. i \in DOMAIN snapshot /\ snapshot[i].pubkey = k
  BY DEF Pubkeys
<1>2. ClaimInfo(k) = [index |-> i - 1, amount |-> snapshot[i].amount, proof |-> FindProof(HashOf(i))]
  BY DEF ClaimInfo
<1> HIDE DEF i
<1> QED BY <1>1, <1>2 DEF HashOf

\* Every claimant of every snapshot can claim.
THEOREM EveryClaimAlwaysVerifies == TreeSpec => []EveryClaimVerifies
<1>1. ASSUME TreeInv PROVE EveryClaimVerifies
  <2> SUFFICES ASSUME Built, NEW k \in Pubkeys(snapshot)
               PROVE  Verify(ClaimInfo(k).proof, Root,
                             LeafHash(ClaimInfo(k).index, k, ClaimInfo(k).amount))
    BY DEF EveryClaimVerifies
  <2> QED BY <1>1, ClaimOfAllocation, FoundProofVerifies
<1> QED BY <1>1, TreeIsLayered, PTL

-----------------------------------------------------------------------------
(* Nothing but an allocation verifies *)

IsHash(h) == \E l \in 1..Len(tree) : \E i \in 1..Len(tree[l]) : h = tree[l][i]

Explained(h) ==
  \/ \E i \in DOMAIN snapshot : h = HashOf(i)
  \/ \E a, b : IsHash(a) /\ IsHash(b) /\ h = CombineHash(a, b)

\* A hash of the tree is that of an allocation or combines two of the tree.
LEMMA HashesExplained ==
  ASSUME TreeInv, NEW h, IsHash(h)
  PROVE  Explained(h)
<1> DEFINE Bad == {l \in 1..Len(tree) : \E i \in 1..Len(tree[l]) : ~ Explained(tree[l][i])}
<1>1. Len(tree) \in Nat
  BY SeqPositions DEF TreeInv
<1>2. ASSUME NEW m \in Bad, \A k \in Bad : m <= k
      PROVE  FALSE
  <2>1. PICK i \in 1..Len(tree[m]) : ~ Explained(tree[m][i])
    OBVIOUS
  <2>2. CASE m = 1
    <3>1. tree[1][i] \in {HashOf(j) : j \in DOMAIN snapshot}
      BY <2>1, <2>2 DEF TreeInv
    <3> QED BY <2>1, <2>2, <3>1 DEF Explained
  <2>3. CASE m # 1
    <3> DEFINE k == m - 1
    <3>1. k \in 1..(Len(tree) - 1) /\ k \in 1..Len(tree) /\ m = k + 1
      BY <1>1, <2>3
    <3>2. k \notin Bad
      BY <1>2, <3>1
    <3>3. tree[m] = NextLayer(tree[k]) /\ IsSeq(tree[k]) /\ Len(tree[k]) > 0
      BY <3>1 DEF TreeInv
    <3> HIDE DEF k
    <3>4. \A j \in 1..Len(tree[k]) : Explained(tree[k][j]) /\ IsHash(tree[k][j])
      BY <3>1, <3>2 DEF IsHash
    <3>5. MadeFrom(tree[k], tree[m][i])
      BY <2>1, <3>3, NextLayerHashes
    <3>6. CASE \E j \in 1..Len(tree[k]) : tree[m][i] = tree[k][j]
      BY <2>1, <3>4, <3>6
    <3>7. CASE \E j, p \in 1..Len(tree[k]) : tree[m][i] = CombineHash(tree[k][j], tree[k][p])
      <4>1. Explained(tree[m][i])
        BY <3>4, <3>7 DEF Explained
      <4> QED BY <2>1, <4>1
    <3> QED BY <3>5, <3>6, <3>7 DEF MadeFrom
  <2> QED BY <2>2, <2>3
<1>3. Bad = {}
  <2>1. Bad \subseteq Nat
    BY <1>1
  <2> HIDE DEF Bad
  <2> QED BY <1>2, <2>1, NatMinimum
<1>4. PICK l \in 1..Len(tree) : \E i \in 1..Len(tree[l]) : h = tree[l][i]
  BY DEF IsHash
<1> QED BY <1>3, <1>4

\* What combines to a hash of the tree is in the tree: the hash of a leaf is
\* that of no pair, and the pair of a hash is one pair.
LEMMA PartsAreHashes ==
  ASSUME TreeInv, NEW a, NEW b, IsHash(CombineHash(a, b))
  PROVE  IsHash(a)
<1>1. Explained(CombineHash(a, b))
  BY HashesExplained
<1>2. \A i : HashOf(i) # CombineHash(a, b)
  BY DEF HashOf, LeafHash, CombineHash
<1>3. PICK x, y : IsHash(x) /\ IsHash(y) /\ CombineHash(a, b) = CombineHash(x, y)
  BY <1>1, <1>2 DEF Explained
<1>4. {a, b} = {x, y}
  BY <1>3 DEF CombineHash
<1>5. a = x \/ a = y
  BY <1>4
<1> QED BY <1>3, <1>5

IsProof(proof) == \E n \in Nat : DOMAIN proof = 1..n

\* A proof that leads to a hash of the tree starts from one.
LEMMA ProofsStartInTree ==
  ASSUME TreeInv, NEW leaf, NEW proof, IsProof(proof), IsHash(ComputedHash(leaf, proof))
  PROVE  IsHash(leaf)
<1> DEFINE Bad == {n \in Nat : \E p : DOMAIN p = 1..n /\ IsHash(ComputedHash(leaf, p))}
<1>1. PICK m \in Bad : \A k \in Bad : m <= k
  <2>1. Bad # {} /\ Bad \subseteq Nat
    BY DEF IsProof
  <2> HIDE DEF Bad
  <2> QED BY <2>1, NatMinimum
<1>2. m \in Nat
  OBVIOUS
<1>3. PICK p : DOMAIN p = 1..m /\ IsHash(ComputedHash(leaf, p))
  OBVIOUS
<1>4. CASE m = 0
  <2>1. DOMAIN p = {}
    BY <1>3, <1>4
  <2> QED BY <1>3, <2>1, ComputedFromNothing
<1>5. CASE m # 0
  <2> DEFINE n == m - 1
             part == [i \in 1..n |-> p[i]]
  <2>1. n \in Nat /\ m = n + 1
    BY <1>2, <1>5
  <2>2. DOMAIN part = 1..n /\ \A i \in 1..n : part[i] = p[i]
    OBVIOUS
  <2> HIDE DEF n, part
  <2>3. DOMAIN p = 1..(n + 1)
    BY <1>3, <2>1
  <2>4. ComputedHash(leaf, p) = CombineHash(ComputedHash(leaf, part), p[n + 1])
    BY <2>1, <2>2, <2>3, ComputedWithOneMore
  <2>5. IsHash(ComputedHash(leaf, part))
    BY <1>3, <2>4, PartsAreHashes
  <2>6. n \in Bad
    BY <2>1, <2>2, <2>5
  <2> HIDE DEF Bad
  <2> QED BY <1>1, <2>1, <2>6
<1> QED BY <1>4, <1>5

\* An index, claimant and amount that verify with the proof are an allocation.
OnlyAllocationsVerify(proof) ==
  \A index, claimant, amount :
    Verify(proof, Root, LeafHash(index, claimant, amount)) =>
      \E i \in DOMAIN snapshot :
        index = i - 1 /\ snapshot[i] = [pubkey |-> claimant, amount |-> amount]

\* Whatever the proof is.
LEMMA ProofsOfAllocations ==
  ASSUME TreeInv, NEW proof, IsProof(proof)
  PROVE  OnlyAllocationsVerify(proof)
<1> SUFFICES ASSUME NEW index, NEW claimant, NEW amount,
                    Verify(proof, Root, LeafHash(index, claimant, amount))
             PROVE  \E i \in DOMAIN snapshot :
                      index = i - 1 /\ snapshot[i] = [pubkey |-> claimant, amount |-> amount]
  BY DEF OnlyAllocationsVerify
<1> DEFINE leaf == LeafHash(index, claimant, amount)
<1>1. IsHash(Root)
  <2>1. Len(tree) \in 1..Len(tree) /\ 1 \in 1..Len(tree[Len(tree)])
    BY SeqPositions DEF TreeInv
  <2> QED BY <2>1 DEF IsHash, Root, Last
<1>2. IsHash(leaf)
  <2>1. ComputedHash(leaf, proof) = Root
    BY DEF Verify
  <2> HIDE DEF leaf
  <2> QED BY <1>1, <2>1, ProofsStartInTree
<1>3. Explained(leaf)
  <2> HIDE DEF leaf
  <2> QED BY <1>2, HashesExplained
<1>4. \A a, b : leaf # CombineHash(a, b)
  BY DEF LeafHash, CombineHash
<1>5. PICK i \in DOMAIN snapshot : leaf = HashOf(i)
  BY <1>3, <1>4 DEF Explained
<1>6. index = i - 1 /\ claimant = snapshot[i].pubkey /\ amount = snapshot[i].amount
  BY <1>5 DEF HashOf, LeafHash
<1>7. snapshot[i] \in [pubkey : Claimants, amount : Nat]
  BY SnapshotShape DEF TreeInv
<1> QED BY <1>6, <1>7

\* Nobody can make the program accept what is not an allocation of the snapshot,
\* whatever sequence of hashes he sends.
THEOREM NothingElseEverVerifies ==
  TreeSpec => [](\A proof : IsProof(proof) => OnlyAllocationsVerify(proof))
<1>1. TreeInv => \A proof : IsProof(proof) => OnlyAllocationsVerify(proof)
  BY ProofsOfAllocations
<1> QED BY <1>1, TreeIsLayered, PTL

\* In particular not with what the client found for the allocations.
THEOREM OnlyClaimsEverVerify == TreeSpec => []OnlyClaimsVerify
<1>1. ASSUME TreeInv PROVE OnlyClaimsVerify
  <2>1. ASSUME Built, NEW proof \in FoundProofs PROVE IsProof(proof)
    <3>1. PICK k \in Pubkeys(snapshot) :
            \E a \in 1..(Len(ClaimInfo(k).proof) + 1), b \in 0..Len(ClaimInfo(k).proof) :
               proof = SubSeq(ClaimInfo(k).proof, a, b)
      BY DEF FoundProofs
    <3> DEFINE s == ClaimInfo(k).proof
    <3>2. Len(s) \in Nat
      BY <1>1, <2>1, ClaimOfAllocation, FoundProofVerifies, SeqPositions
    <3>3. PICK a \in 1..(Len(s) + 1), b \in 0..Len(s) : proof = SubSeq(s, a, b)
      BY <3>1
    <3> HIDE DEF s
    <3>4. a \in Int /\ b \in Int
      BY <3>2
    <3> DEFINE S == {s[i] : i \in a..b}
    <3>5. \A i \in a..b : s[i] \in S
      OBVIOUS
    <3> HIDE DEF S
    <3>6. proof \in Seq(S)
      BY <3>3, <3>4, <3>5, SubSeqProperties
    <3> QED BY <3>6, LenProperties DEF IsProof
  <2>2. Built => \A proof \in FoundProofs : OnlyAllocationsVerify(proof)
    BY <1>1, <2>1, ProofsOfAllocations
  <2> QED BY <2>2 DEF OnlyClaimsVerify, OnlyAllocationsVerify
<1> QED BY <1>1, TreeIsLayered, PTL

\* The leaves that MerkleDistributor takes a root to commit to.
Leaves == {[index |-> i - 1, claimant |-> snapshot[i].pubkey, amount |-> snapshot[i].amount] :
             i \in DOMAIN snapshot}

Accepted(index, claimant, amount) ==
  \E proof : IsProof(proof) /\ Verify(proof, Root, LeafHash(index, claimant, amount))

CommitsToLeaves ==
  Built => \A index, claimant, amount :
             Accepted(index, claimant, amount) <=>
               [index |-> index, claimant |-> claimant, amount |-> amount] \in Leaves

\* There is a proof for exactly the allocations: what MerkleDistributor takes
\* for granted of a root holds of the roots the client makes.
THEOREM RootCommitsToLeaves == TreeSpec => []CommitsToLeaves
<1>1. ASSUME TreeInv PROVE CommitsToLeaves
  <2> SUFFICES ASSUME Built, NEW index, NEW claimant, NEW amount
               PROVE  Accepted(index, claimant, amount) <=>
                        [index |-> index, claimant |-> claimant, amount |-> amount] \in Leaves
    BY DEF CommitsToLeaves
  <2>1. ASSUME Accepted(index, claimant, amount)
        PROVE  [index |-> index, claimant |-> claimant, amount |-> amount] \in Leaves
    <3>1. PICK proof : IsProof(proof) /\ Verify(proof, Root, LeafHash(index, claimant, amount))
      BY <2>1 DEF Accepted
    <3>2. PICK i \in DOMAIN snapshot :
            index = i - 1 /\ snapshot[i] = [pubkey |-> claimant, amount |-> amount]
      BY <1>1, <3>1, ProofsOfAllocations DEF OnlyAllocationsVerify
    <3> QED BY <3>2 DEF Leaves
  <2>2. ASSUME [index |-> index, claimant |-> claimant, amount |-> amount] \in Leaves
        PROVE  Accepted(index, claimant, amount)
    <3>1. PICK i \in DOMAIN snapshot :
            index = i - 1 /\ claimant = snapshot[i].pubkey /\ amount = snapshot[i].amount
      BY <2>2 DEF Leaves
    <3>2. LeafHash(index, claimant, amount) = HashOf(i)
      BY <3>1 DEF HashOf
    <3> DEFINE proof == FindProof(HashOf(i))
    <3>3. IsSeq(proof) /\ Verify(proof, Root, HashOf(i))
      BY <1>1, FoundProofVerifies
    <3> HIDE DEF proof
    <3>4. IsProof(proof)
      BY <3>3, SeqPositions DEF IsProof
    <3> QED BY <3>2, <3>3, <3>4 DEF Accepted
  <2> QED BY <2>1, <2>2
<1> QED BY <1>1, TreeIsLayered, PTL
=============================================================================
