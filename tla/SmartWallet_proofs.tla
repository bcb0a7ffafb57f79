------------------------- MODULE SmartWallet_proofs -------------------------
(***************************************************************************)
(* Proofs about SmartWallet, for every set of keys, lists of owners,       *)
(* thresholds, delays and instructions that WalletAssumption admits: what  *)
(* it promises its owners, that it is a Multisig, and that an owner of a   *)
(* wallet with derived addresses (Subaccounts) has all of it too.          *)
(***************************************************************************)
EXTENDS SmartWalletRefinement, Subaccounts, SumTheorems

-----------------------------------------------------------------------------
(* Any eta *)

\* A wallet whose owners, among them programs that propose in their own name,
\* create transactions with any eta.
AnyEtaStep ==
  \/ /\ \/ WalletNext
        \/ \E k \in WalletKeys, instructions \in Instructions, eta \in Nat \cup {NO_ETA} :
             CreateTransaction(k, instructions, eta)
     /\ UNCHANGED now
  \/ Tick /\ UNCHANGED walletVars

AnyEtaSpec == WalletStart /\ [][AnyEtaStep]_walletState

\* The wallet of SmartWallet, whose etas are those in Etas, is one of them.
LEMMA WalletStepsWithAnyEta == [WalletStep]_walletState => [AnyEtaStep]_walletState
BY DEF WalletStep, AnyEtaStep

\* Creating transactions is then all that the etas matter to.
LEMMA AnyEtaCases ==
  ASSUME AnyEtaStep
  PROVE  \/ UNCHANGED now
            /\ \E k \in WalletKeys, instructions \in Instructions, eta \in Nat \cup {NO_ETA} :
                 CreateTransaction(k, instructions, eta)
         \/ UNCHANGED now
            /\ \E x \in Indices :
                 \/ \E k \in WalletKeys : Approve(k, x) \/ Unapprove(k, x)
                 \/ ExecuteTransaction(x)
                 \/ RemoveTransaction(x)
         \/ Tick /\ UNCHANGED walletVars
<1>1. Etas \subseteq Nat
  BY WalletAssumption
<1> QED BY <1>1 DEF AnyEtaStep, WalletNext

-----------------------------------------------------------------------------
(* The instructions of a transaction *)

\* What the wallet is after some instructions, seen from what it was before
\* them: as long as they succeed it is a wallet, and one whose owner set seqno
\* is what it was still has the same owners.
InvokeResult == [owners : Seq(WalletKeys), owner_set_seqno : Nat, threshold : Int, ok : BOOLEAN]

Follows(v, w) ==
  /\ w \in InvokeResult
  /\ w.owner_set_seqno >= v.owner_set_seqno
  /\ w.owner_set_seqno = v.owner_set_seqno => w.owners = v.owners
  /\ w.ok => /\ w.threshold \in Nat
             /\ Len(w.owners) <= MaxOwners
             /\ v.threshold < Len(v.owners) => w.threshold < Len(w.owners)

\* One instruction keeps all that.
LEMMA InvokeFollows ==
  ASSUME NEW v \in InvokeResult, NEW w, Follows(v, w), NEW ix,
         ix.op = "set_owners" => ix.owners \in Seq(WalletKeys),
         ix.op = "change_threshold" => ix.threshold \in Nat
  PROVE  Follows(v, Invoke(w, ix))
<1>0. /\ w \in InvokeResult /\ w.owner_set_seqno \in Nat /\ v.owner_set_seqno \in Nat
      /\ w.owners \in Seq(WalletKeys) /\ w.threshold \in Int /\ w.ok \in BOOLEAN
      /\ Len(w.owners) \in Nat /\ MaxOwners \in Nat /\ Len(v.owners) \in Nat
      /\ v.threshold \in Int
  BY WalletAssumption DEF Follows, InvokeResult
<1>1. CASE ix.op = "set_owners"
  <2> DEFINE s == ix.owners
             r == SetOwners(w, s)
  <2>1. s \in Seq(WalletKeys) /\ Len(s) \in Nat
    BY <1>1
  <2>2. Invoke(w, ix) = r
    BY <1>1 DEF Invoke
  <2>3. /\ r.owners = s /\ r.owner_set_seqno = w.owner_set_seqno + 1
        /\ r.threshold = (IF Len(s) <= w.threshold THEN Len(s) - 1 ELSE w.threshold)
        /\ r.ok => w.ok /\ s # <<>> /\ Len(s) <= MaxOwners
    BY DEF SetOwners
  <2>4. r \in InvokeResult
    <3>1. w.owner_set_seqno + 1 \in Nat
      BY <1>0
    <3>2. (IF Len(s) <= w.threshold THEN Len(s) - 1 ELSE w.threshold) \in Int
      BY <1>0, <2>1
    <3> QED BY <2>1, <3>1, <3>2 DEF SetOwners, InvokeResult
  <2>5. s # <<>> => Len(s) > 0
    BY <2>1
  <2> HIDE DEF r, s
  <2>6. r.ok => /\ r.threshold \in Nat
                /\ Len(r.owners) <= MaxOwners
                /\ r.threshold < Len(r.owners)
    <3>1. w.ok => w.threshold \in Nat
      BY DEF Follows
    <3> QED BY <1>0, <2>1, <2>3, <2>5, <3>1
  <2> QED BY <1>0, <2>2, <2>3, <2>4, <2>6 DEF Follows
<1>2. CASE ix.op = "change_threshold"
  <2> DEFINE n == ix.threshold
             r == ChangeThreshold(w, n)
  <2>1. n \in Nat
    BY <1>2
  <2>2. Invoke(w, ix) = r
    BY <1>2 DEF Invoke
  <2>3. /\ r.owners = w.owners /\ r.owner_set_seqno = w.owner_set_seqno
        /\ r.threshold = n
    BY <1>0, <2>1 DEF ChangeThreshold, InvokeResult
  <2>4. r.ok => w.ok /\ n < Len(w.owners)
    BY <1>0, <2>1 DEF ChangeThreshold, InvokeResult
  <2>5. r \in InvokeResult
    <3> DEFINE b == w.ok /\ n < Len(w.owners)
    <3>1. r = [w EXCEPT !.threshold = n, !.ok = b]
      BY DEF ChangeThreshold
    <3>2. b \in BOOLEAN
      OBVIOUS
    <3> HIDE DEF b, r, n
    <3>3. r = [owners |-> w.owners, owner_set_seqno |-> w.owner_set_seqno, threshold |-> n, ok |-> b]
      BY <1>0, <3>1 DEF InvokeResult
    <3>4. n \in Int
      BY <2>1
    <3> QED BY <1>0, <3>2, <3>3, <3>4 DEF InvokeResult
  <2> HIDE DEF r, n
  <2>6. r.ok => /\ r.threshold \in Nat
                /\ Len(r.owners) <= MaxOwners
                /\ r.threshold < Len(r.owners)
    <3>1. w.ok => Len(w.owners) <= MaxOwners
      BY DEF Follows
    <3> QED BY <1>0, <2>1, <2>3, <2>4, <3>1
  <2>7. /\ r.owner_set_seqno >= v.owner_set_seqno
        /\ r.owner_set_seqno = v.owner_set_seqno => r.owners = v.owners
    BY <2>3 DEF Follows
  <2> QED BY <2>2, <2>5, <2>6, <2>7 DEF Follows
<1>3. CASE ix.op # "set_owners" /\ ix.op # "change_threshold"
  BY <1>3 DEF Invoke
<1> QED BY <1>1, <1>2, <1>3

\* g folds F over every member of D, a family of sets of positions closed under
\* removing the greatest, starting with v.
IsFold(g, v, F, D) ==
  g = [s \in D |-> IF s = {} THEN v ELSE F[<<g[s \ {Max(s)}], Max(s)>>]]

\* There is such a function over all sets of positions.
LEMMA FoldExists ==
  ASSUME NEW v, NEW F, NEW n \in Nat
  PROVE  \E g : IsFold(g, v, F, SUBSET (1..n))
<1> DEFINE S == 1..n
           Level(m) == {s \in SUBSET S : Cardinality(s) <= m}
           Bad == {m \in Nat : ~ \E g : IsFold(g, v, F, Level(m))}
<1>0. IsFiniteSet(S)
  BY FS_Interval
<1>1. ASSUME NEW s \in SUBSET S
      PROVE  Cardinality(s) \in Nat /\ IsFiniteSet(s)
  <2> HIDE DEF S
  <2> QED BY <1>0, FS_Subset, FS_CardinalityType
<1>2. ASSUME NEW s \in SUBSET S, s # {}
      PROVE  Cardinality(s \ {Max(s)}) = Cardinality(s) - 1
  BY <1>1, <1>2, MaxInSet, FS_RemoveElement
<1> HIDE DEF S
<1>3. 0 \notin Bad
  <2> DEFINE g == [s \in Level(0) |-> v]
  <2>1. \A s \in Level(0) : s = {}
    BY <1>1, FS_EmptySet
  <2>2. IsFold(g, v, F, Level(0))
    BY <2>1 DEF IsFold
  <2> QED BY <2>2
<1>4. ASSUME NEW m \in Nat, m \notin Bad
      PROVE  m + 1 \notin Bad
  <2>1. PICK g : IsFold(g, v, F, Level(m))
    BY <1>4
  <2> DEFINE G(s, f) == IF s = {} THEN v ELSE F[<<f[s \ {Max(s)}], Max(s)>>]
             h == [s \in Level(m + 1) |-> IF s \in Level(m) THEN g[s] ELSE G(s, g)]
  <2>2. ASSUME NEW s \in Level(m + 1), s # {}
        PROVE  s \ {Max(s)} \in Level(m) /\ s \ {Max(s)} \in Level(m + 1)
    BY <1>1, <1>2, <2>2
  <2>3. \A s \in Level(m) : g[s] = G(s, g)
    BY <2>1 DEF IsFold
  <2>4. \A s \in Level(m) : h[s] = g[s] /\ s \in Level(m + 1)
    BY <1>1
  <2>5. \A s \in Level(m + 1) : h[s] = G(s, h)
    <3> SUFFICES ASSUME NEW s \in Level(m + 1)
                 PROVE  h[s] = G(s, h)
      OBVIOUS
    <3>1. h[s] = G(s, g)
      BY <2>3
    <3>2. CASE s = {}
      BY <3>1, <3>2
    <3>3. CASE s # {}
      <4>1. h[s \ {Max(s)}] = g[s \ {Max(s)}]
        BY <3>3, <2>2, <2>4
      <4> HIDE DEF h
      <4> QED BY <3>1, <3>3, <4>1
    <3> QED BY <3>2, <3>3
  <2>6. IsFold(h, v, F, Level(m + 1))
    <3> DEFINE k == [s \in Level(m + 1) |-> G(s, h)]
    <3>1. \A s \in Level(m + 1) : h[s] = k[s]
      BY <2>5
    <3>2. h = k
      <4> HIDE DEF Level, G
      <4>1. DOMAIN h = Level(m + 1) /\ DOMAIN k = Level(m + 1)
        OBVIOUS
      <4>2. h = [s \in Level(m + 1) |-> h[s]]
        OBVIOUS
      <4>3. k = [s \in Level(m + 1) |-> k[s]]
        OBVIOUS
      <4> HIDE DEF h, k
      <4> QED BY <3>1, <4>1, <4>2, <4>3
    <3> QED BY <3>2 DEF IsFold
  <2> HIDE DEF h
  <2> QED BY <2>6
<1>5. Bad = {}
  <2> SUFFICES ASSUME Bad # {} PROVE FALSE
    OBVIOUS
  <2> HIDE DEF Bad
  <2>1. PICK m \in Bad : \A k \in Bad : m <= k
    <3>1. Bad \subseteq Nat
      BY DEF Bad
    <3> QED BY <3>1, NatMinimum
  <2>2. m \in Nat /\ m # 0
    BY <1>3, <2>1 DEF Bad
  <2>3. m - 1 \in Nat /\ m - 1 \notin Bad
    BY <2>1, <2>2
  <2>4. (m - 1) + 1 \notin Bad
    BY <1>4, <2>3
  <2> QED BY <2>4, <2>2, <2>1
<1>6. Level(Cardinality(S)) = SUBSET S
  BY <1>0, FS_Subset
<1>7. Cardinality(S) \in Nat
  BY <1>0, FS_CardinalityType
<1>8. Cardinality(S) \notin Bad
  BY <1>5, <1>7
<1> QED BY <1>6, <1>7, <1>8 DEF S

\* A fold stays within a set that each of its steps stays within.
LEMMA StaysWithin ==
  ASSUME NEW n \in Nat, NEW V, NEW g, g[{}] \in V,
         \A s \in SUBSET (1..n) : s # {} /\ g[s \ {Max(s)}] \in V => g[s] \in V
  PROVE  g[1..n] \in V /\ \A s \in SUBSET (1..n) : g[s] \in V
<1> DEFINE S == 1..n
           P == {s \in SUBSET S : g[s] \in V}
<1>1. IsFiniteSet(S)
  BY FS_Interval
<1>2. {} \in P
  OBVIOUS
<1>3. ASSUME NEW s \in SUBSET S, s # {}, \A x \in s : s \ {x} \in P
      PROVE  s \in P
  BY <1>3, MaxInSet
<1>4. \A s \in SUBSET S : s \in P
  <2> HIDE DEF P, S
  <2> QED BY <1>1, <1>2, <1>3, SubsetInduction
<1> QED BY <1>4

\* g runs the instructions ins one after the other on the wallet v.
IsInvoked(g, v, ins) ==
  g = [s \in SUBSET DOMAIN ins |->
         IF s = {} THEN v ELSE Invoke(g[s \ {Max(s)}], ins[Max(s)])]

\* InvokeAll is such a function over all positions, if there is one.
LEMMA InvokeAllUnfolds ==
  ASSUME NEW ins
  PROVE  InvokeAll(ins) =
           (CHOOSE g : IsInvoked(g, [owners |-> owners, threshold |-> threshold,
                                     owner_set_seqno |-> owner_set_seqno, ok |-> TRUE],
                                 ins))[DOMAIN ins]
BY DEF InvokeAll, FoldLeft, MapThenFoldSet, IsInvoked

\* A whole transaction leaves the wallet within a set that each of its
\* instructions leaves it within.
LEMMA InvokeAllWithin ==
  ASSUME NEW V, NEW v \in V,
         v = [owners |-> owners, threshold |-> threshold,
              owner_set_seqno |-> owner_set_seqno, ok |-> TRUE],
         NEW n \in Nat, NEW ins, DOMAIN ins = 1..n,
         \A w \in V : \A i \in 1..n : Invoke(w, ins[i]) \in V
  PROVE  InvokeAll(ins) \in V
<1> DEFINE F == [a \in V \X (1..n) |-> Invoke(a[1], ins[a[2]])]
<1>1. ASSUME NEW s \in SUBSET (1..n), s # {}
      PROVE  Max(s) \in 1..n
  BY <1>1, MaxInSet
<1>2. \A w \in V : \A i \in 1..n : F[<<w, i>>] = Invoke(w, ins[i])
  OBVIOUS
<1> HIDE DEF F
<1>3. PICK h : IsFold(h, v, F, SUBSET (1..n))
  BY FoldExists
<1>4. \A s \in SUBSET (1..n) : h[s] = IF s = {} THEN v ELSE F[<<h[s \ {Max(s)}], Max(s)>>]
  BY <1>3 DEF IsFold
<1>5. \A s \in SUBSET (1..n) : h[s] \in V
  <2>1. h[{}] \in V
    BY <1>4
  <2>2. ASSUME NEW s \in SUBSET (1..n), s # {}, h[s \ {Max(s)}] \in V
        PROVE  h[s] \in V
    <3>1. Max(s) \in 1..n
      BY <1>1, <2>2
    <3>2. h[s] = F[<<h[s \ {Max(s)}], Max(s)>>]
      BY <1>4, <2>2
    <3> DEFINE w == h[s \ {Max(s)}]
    <3>3. w \in V
      BY <2>2
    <3>4. h[s] = F[<<w, Max(s)>>]
      BY <3>2
    <3> HIDE DEF w
    <3>5. F[<<w, Max(s)>>] = Invoke(w, ins[Max(s)])
      BY <1>2, <3>1, <3>3
    <3>6. Invoke(w, ins[Max(s)]) \in V
      BY <3>1, <3>3
    <3> QED BY <3>4, <3>5, <3>6
  <2> QED BY <2>1, <2>2, StaysWithin
<1>6. IsInvoked(h, v, ins)
  <2> DEFINE k == [s \in SUBSET (1..n) |->
                     IF s = {} THEN v ELSE Invoke(h[s \ {Max(s)}], ins[Max(s)])]
  <2>1. ASSUME NEW s \in SUBSET (1..n) PROVE h[s] = k[s]
    <3>1. CASE s = {}
      BY <1>4, <3>1
    <3>2. CASE s # {}
      <4>1. s \ {Max(s)} \in SUBSET (1..n)
        OBVIOUS
      <4>2. h[s \ {Max(s)}] \in V /\ Max(s) \in 1..n
        BY <1>1, <1>5, <3>2, <4>1
      <4> QED BY <1>2, <1>4, <3>2, <4>2
    <3> QED BY <3>1, <3>2
  <2>2. h = [s \in SUBSET (1..n) |-> h[s]]
    BY <1>3 DEF IsFold
  <2>3. h = k
    <3>1. k = [s \in SUBSET (1..n) |-> k[s]]
      OBVIOUS
    <3> HIDE DEF k
    <3> QED BY <2>1, <2>2, <3>1
  <2> QED BY <2>3 DEF IsInvoked
<1>7. PICK g : IsInvoked(g, v, ins) /\ InvokeAll(ins) = g[1..n]
  BY <1>6, InvokeAllUnfolds
<1>8. \A s \in SUBSET (1..n) : g[s] = IF s = {} THEN v ELSE Invoke(g[s \ {Max(s)}], ins[Max(s)])
  BY <1>7 DEF IsInvoked
<1>9. g[1..n] \in V
  <2>1. g[{}] \in V
    BY <1>8
  <2>2. ASSUME NEW s \in SUBSET (1..n), s # {}, g[s \ {Max(s)}] \in V
        PROVE  g[s] \in V
    BY <1>1, <1>8, <2>2
  <2> QED BY <2>1, <2>2, StaysWithin
<1> QED BY <1>7, <1>9

\* So what one instruction keeps, a whole transaction does.
LEMMA InvokeAllFollows ==
  ASSUME NEW v \in InvokeResult,
         v = [owners |-> owners, threshold |-> threshold,
              owner_set_seqno |-> owner_set_seqno, ok |-> TRUE],
         Len(owners) <= MaxOwners, threshold \in Nat,
         NEW ins, WellFormed(ins)
  PROVE  Follows(v, InvokeAll(ins))
<1> DEFINE V == {w \in InvokeResult : Follows(v, w)}
<1>1. Len(ins) \in Nat /\ DOMAIN ins = 1..Len(ins)
  BY DEF WellFormed
<1>2. v \in V
  <2>1. v.owners = owners /\ v.threshold = threshold /\ v.ok = TRUE
    OBVIOUS
  <2>2. Follows(v, v)
    BY <2>1 DEF Follows, InvokeResult
  <2> QED BY <2>2
<1>3. ASSUME NEW w \in V, NEW i \in 1..Len(ins)
      PROVE  Invoke(w, ins[i]) \in V
  <2>1. /\ ins[i].op = "set_owners" => ins[i].owners \in Seq(WalletKeys)
        /\ ins[i].op = "change_threshold" => ins[i].threshold \in Nat
    BY <1>1 DEF WellFormed
  <2>2. Follows(v, Invoke(w, ins[i]))
    BY <2>1, InvokeFollows
  <2> QED BY <2>2 DEF Follows
<1>4. InvokeAll(ins) \in V
  <2> HIDE DEF V
  <2> QED BY <1>1, <1>2, <1>3, InvokeAllWithin
<1> QED BY <1>4

-----------------------------------------------------------------------------
(* The inductive invariant *)

\* Accounts that do not exist are empty, and what is still there was created in
\* the past, under owners of the past or present, with the delay asked for.
AccountsInv ==
  /\ \A x \in Indices : x >= num_transactions => transactions[x] = ClosedTransaction
  /\ \A x \in Indices : transactions[x].open =>
       /\ transactions[x].owner_set_seqno <= owner_set_seqno
       /\ transactions[x].created_at <= now
       /\ minimum_delay # 0 => transactions[x].eta >= transactions[x].created_at + minimum_delay

\* The first position of the key that is at position i.
FirstAt(i) == \A j \in 1..(i - 1) : owners[j] # owners[i]

\* Flags stand at first positions only, and there for the keys that approve.
FlagsInv ==
  \A x \in Indices : SameOwnerSet(x) =>
    /\ \A i \in DOMAIN owners : transactions[x].signers[i] =>
         FirstAt(i) /\ owners[i] \in approved_by[x]
    /\ \A k \in approved_by[x] : \E i \in DOMAIN owners :
         FirstAt(i) /\ owners[i] = k /\ transactions[x].signers[i]

WalletInv == now \in Nat /\ WalletTypeOK /\ AccountsInv /\ FlagsInv

\* An owner's index is the one first position of his key.
LEMMA OwnerIndexIsFirst ==
  ASSUME owners \in Seq(WalletKeys), NEW k, IsOwner(k)
  PROVE  /\ OwnerIndex(k) \in DOMAIN owners
         /\ owners[OwnerIndex(k)] = k
         /\ FirstAt(OwnerIndex(k))
         /\ \A i \in DOMAIN owners : FirstAt(i) /\ owners[i] = k => i = OwnerIndex(k)
<1> DEFINE B == {i \in DOMAIN owners : owners[i] = k}
<1>1. DOMAIN owners = 1..Len(owners) /\ Len(owners) \in Nat
  OBVIOUS
<1>2. B \subseteq Nat /\ B # {}
  BY <1>1 DEF IsOwner
<1>3. PICK m \in B : \A i \in B : m <= i
  <2> HIDE DEF B
  <2> QED BY <1>2, NatMinimum
<1>4. m \in DOMAIN owners /\ owners[m] = k /\ \A j \in 1..(m - 1) : owners[j] # k
  BY <1>1, <1>3
<1>5. /\ OwnerIndex(k) \in DOMAIN owners /\ owners[OwnerIndex(k)] = k
      /\ \A j \in 1..(OwnerIndex(k) - 1) : owners[j] # k
  BY <1>4 DEF OwnerIndex
<1>6. FirstAt(OwnerIndex(k))
  BY <1>5 DEF FirstAt
<1>7. ASSUME NEW i \in DOMAIN owners, FirstAt(i), owners[i] = k
      PROVE  i = OwnerIndex(k)
  <2> DEFINE j == OwnerIndex(k)
  <2>1. i \in Nat /\ j \in Nat /\ i >= 1 /\ j >= 1
    BY <1>1, <1>5
  <2>2. ~ (i < j)
    BY <1>5, <1>7, <2>1
  <2>3. ~ (j < i)
    BY <1>5, <1>7, <2>1 DEF FirstAt
  <2> HIDE DEF j
  <2>4. i = j
    BY <2>1, <2>2, <2>3
  <2> QED BY <2>4 DEF j
<1> QED BY <1>5, <1>6, <1>7

\* Flags are as many as the owners, before and after one is set or cleared.
LEMMA FlagTyped ==
  ASSUME owners \in Seq(WalletKeys), NEW k, IsOwner(k), NEW b \in BOOLEAN,
         NEW s \in Seq(BOOLEAN), Len(s) = Len(owners)
  PROVE  /\ Flag(s, k, b) \in Seq(BOOLEAN) /\ Len(Flag(s, k, b)) = Len(owners)
         /\ Flag(s, k, b)[OwnerIndex(k)] = b
         /\ \A i \in DOMAIN owners : i # OwnerIndex(k) => Flag(s, k, b)[i] = s[i]
BY OwnerIndexIsFirst DEF Flag

\* The state create_smart_wallet leaves behind.
LEMMA InitInv == WalletStart => WalletInv
<1> SUFFICES ASSUME WalletStart PROVE WalletInv
  OBVIOUS
<1>1. transactions = [x \in Indices |-> ClosedTransaction] /\ owners \in Seq(WalletKeys)
  BY WalletAssumption DEF WalletStart, WalletInit
<1>2. ClosedTransaction \in Transaction /\ ~ ClosedTransaction.open
  BY DEF ClosedTransaction, Transaction
<1>3. \A x \in Indices : ~ transactions[x].open /\ ~ SameOwnerSet(x)
  BY <1>1, <1>2 DEF SameOwnerSet
<1>4. WalletTypeOK
  BY <1>1, <1>2, <1>3, WalletAssumption, ClockAssumption
     DEF WalletStart, WalletInit, ClockInit, WalletTypeOK
<1>5. AccountsInv /\ FlagsInv
  BY <1>1, <1>3 DEF AccountsInv, FlagsInv
<1> QED BY <1>4, <1>5, ClockAssumption DEF WalletInv, WalletStart, ClockInit

\* Proposing a transaction.
LEMMA CreateInv ==
  ASSUME WalletInv, UNCHANGED now,
         NEW k \in WalletKeys, NEW ixs \in Instructions, NEW eta \in Nat \cup {NO_ETA},
         CreateTransaction(k, ixs, eta)
  PROVE  WalletInv'
<1> DEFINE n == num_transactions
           none == [i \in DOMAIN owners |-> FALSE]
           flags == Flag(none, k, TRUE)
           new == [open |-> TRUE, proposer |-> k, instructions |-> ixs, signers |-> flags,
                   owner_set_seqno |-> owner_set_seqno, eta |-> eta, executed_at |-> -1,
                   created_at |-> now]
<1>1. n \in Indices /\ n \in Nat
  BY WalletAssumption DEF CreateTransaction, WalletInv, WalletTypeOK, Indices
<1>2. owners \in Seq(WalletKeys) /\ IsOwner(k) /\ owner_set_seqno \in Nat
  BY DEF CreateTransaction, WalletInv, WalletTypeOK
<1>3. none \in Seq(BOOLEAN) /\ Len(none) = Len(owners)
  <2>1. DOMAIN owners = 1..Len(owners) /\ Len(owners) \in Nat
    BY <1>2
  <2>2. none \in [1..Len(owners) -> BOOLEAN]
    BY <2>1
  <2> HIDE DEF none
  <2> QED BY <2>1, <2>2
<1>4. /\ flags \in Seq(BOOLEAN) /\ Len(flags) = Len(owners)
      /\ flags[OwnerIndex(k)] /\ \A i \in DOMAIN owners : i # OwnerIndex(k) => ~ flags[i]
  BY <1>2, <1>3, FlagTyped
<1>6. new \in Transaction
  <2>1. -1 \in Nat \cup {-1} /\ TRUE \in BOOLEAN /\ k \in WalletKeys \cup {NoKey}
        /\ ixs \in Instructions \cup {<<>>} /\ now \in Nat
    BY DEF WalletInv
  <2> HIDE DEF flags
  <2> QED BY <1>2, <1>4, <2>1 DEF Transaction
<1>7. /\ transactions' = [transactions EXCEPT ![n] = new]
      /\ approved_by' = [approved_by EXCEPT ![n] = {k}]
      /\ num_transactions' = n + 1 /\ n < MaxTransactions
      /\ UNCHANGED <<owners, threshold, minimum_delay, owner_set_seqno>>
  BY DEF CreateTransaction
<1>8. minimum_delay # 0 => eta >= now + minimum_delay
  BY DEF CreateTransaction, EtaAllowed
<1>9. /\ new.open /\ new.owner_set_seqno = owner_set_seqno /\ new.created_at = now
      /\ new.eta = eta /\ new.signers = flags
  OBVIOUS
<1> HIDE DEF new, flags, none, n
<1>10. \A x \in Indices \ {n} :
         /\ transactions'[x] = transactions[x] /\ approved_by'[x] = approved_by[x]
         /\ SameOwnerSet(x)' <=> SameOwnerSet(x)
  BY <1>7 DEF WalletInv, WalletTypeOK, SameOwnerSet
<1>11. transactions'[n] = new /\ approved_by'[n] = {k}
  BY <1>1, <1>7 DEF WalletInv, WalletTypeOK
<1>12. WalletTypeOK'
  <2>1. transactions' \in [Indices -> Transaction]
    BY <1>6, <1>7 DEF WalletInv, WalletTypeOK
  <2>2. approved_by' \in [Indices -> SUBSET WalletKeys]
    BY <1>7 DEF WalletInv, WalletTypeOK
  <2>3. num_transactions' \in 0..MaxTransactions
    BY <1>1, <1>7, WalletAssumption
  <2>4. \A x \in Indices : SameOwnerSet(x)' => Len(transactions'[x].signers) = Len(owners')
    BY <1>4, <1>7, <1>9, <1>10, <1>11 DEF WalletInv, WalletTypeOK
  <2> QED BY <1>7, <2>1, <2>2, <2>3, <2>4 DEF WalletInv, WalletTypeOK
<1>13. AccountsInv'
  <2> SUFFICES ASSUME NEW x \in Indices
               PROVE  /\ x >= num_transactions' => transactions'[x] = ClosedTransaction
                      /\ transactions'[x].open =>
                           /\ transactions'[x].owner_set_seqno <= owner_set_seqno'
                           /\ transactions'[x].created_at <= now'
                           /\ minimum_delay' # 0 =>
                                transactions'[x].eta >= transactions'[x].created_at + minimum_delay'
    BY DEF AccountsInv, ClosedTransaction
  <2>1. CASE x = n
    BY <2>1, <1>1, <1>2, <1>7, <1>8, <1>9, <1>11 DEF WalletInv
  <2>2. CASE x # n
    <3>1. x \in Nat /\ (x >= n + 1 => x >= n)
      BY <1>1 DEF Indices
    <3>2. transactions'[x] = transactions[x]
      BY <2>2, <1>10
    <3> QED BY <3>1, <3>2, <1>7 DEF WalletInv, AccountsInv, n
  <2> QED BY <2>1, <2>2
<1>14. FlagsInv'
  <2> SUFFICES ASSUME NEW x \in Indices, SameOwnerSet(x)'
               PROVE  /\ \A i \in DOMAIN owners : transactions'[x].signers[i] =>
                           FirstAt(i) /\ owners[i] \in approved_by'[x]
                      /\ \A q \in approved_by'[x] : \E i \in DOMAIN owners :
                           FirstAt(i) /\ owners[i] = q /\ transactions'[x].signers[i]
    BY <1>7 DEF FlagsInv, FirstAt
  <2>1. CASE x = n
    BY <2>1, <1>2, <1>4, <1>9, <1>11, OwnerIndexIsFirst
  <2>2. CASE x # n
    <3>1. SameOwnerSet(x) /\ transactions'[x] = transactions[x] /\ approved_by'[x] = approved_by[x]
      BY <2>2, <1>10
    <3> QED BY <3>1 DEF WalletInv, FlagsInv
  <2> QED BY <2>1, <2>2
<1> QED BY <1>12, <1>13, <1>14 DEF WalletInv

\* Setting or clearing the flag of an owner.
LEMMA FlagInv ==
  ASSUME WalletInv, UNCHANGED now, NEW x \in Indices, NEW k \in WalletKeys, NEW b \in BOOLEAN,
         NEW agree, agree = IF b THEN approved_by[x] \cup {k} ELSE approved_by[x] \ {k},
         SameOwnerSet(x), IsOwner(k),
         transactions' = [transactions EXCEPT ![x].signers = Flag(@, k, b)],
         approved_by' = [approved_by EXCEPT ![x] = agree],
         UNCHANGED <<owners, threshold, minimum_delay, owner_set_seqno, num_transactions>>
  PROVE  WalletInv'
<1> DEFINE t == transactions[x]
           flags == Flag(t.signers, k, b)
           u == transactions'[x]
<1>1. owners \in Seq(WalletKeys) /\ t \in Transaction /\ t.signers \in Seq(BOOLEAN)
      /\ Len(t.signers) = Len(owners)
  BY DEF WalletInv, WalletTypeOK, Transaction
<1>2. /\ flags \in Seq(BOOLEAN) /\ Len(flags) = Len(owners)
      /\ flags[OwnerIndex(k)] = b
      /\ \A i \in DOMAIN owners : i # OwnerIndex(k) => flags[i] = t.signers[i]
  BY <1>1, FlagTyped
<1>3. u = [t EXCEPT !.signers = flags]
  BY DEF WalletInv, WalletTypeOK
<1> HIDE DEF flags
<1>4. /\ u \in Transaction /\ u.signers = flags /\ u.open = t.open
      /\ u.owner_set_seqno = t.owner_set_seqno /\ u.created_at = t.created_at /\ u.eta = t.eta
  BY <1>1, <1>2, <1>3 DEF Transaction
<1>5. \A y \in Indices \ {x} : transactions'[y] = transactions[y] /\ approved_by'[y] = approved_by[y]
  BY DEF WalletInv, WalletTypeOK
<1>6. approved_by'[x] = agree /\ agree \subseteq WalletKeys
  BY DEF WalletInv, WalletTypeOK
<1> HIDE DEF u
<1>7. \A y \in Indices : SameOwnerSet(y)' <=> SameOwnerSet(y)
  BY <1>4, <1>5 DEF SameOwnerSet, u
<1>8. WalletTypeOK'
  <2>1. transactions' \in [Indices -> Transaction]
    BY <1>4, <1>5 DEF WalletInv, WalletTypeOK, u
  <2>2. approved_by' \in [Indices -> SUBSET WalletKeys]
    BY <1>6 DEF WalletInv, WalletTypeOK
  <2>3. \A y \in Indices : SameOwnerSet(y)' => Len(transactions'[y].signers) = Len(owners')
    BY <1>2, <1>4, <1>5, <1>7 DEF WalletInv, WalletTypeOK, u
  <2> QED BY <2>1, <2>2, <2>3 DEF WalletInv, WalletTypeOK
<1>9. x < num_transactions
  BY DEF WalletInv, WalletTypeOK, AccountsInv, SameOwnerSet, ClosedTransaction, Indices
<1>10. AccountsInv'
  <2> SUFFICES ASSUME NEW y \in Indices
               PROVE  /\ y >= num_transactions => transactions'[y] = ClosedTransaction
                      /\ transactions'[y].open =>
                           /\ transactions'[y].owner_set_seqno <= owner_set_seqno
                           /\ transactions'[y].created_at <= now
                           /\ minimum_delay # 0 =>
                                transactions'[y].eta >= transactions'[y].created_at + minimum_delay
    BY DEF AccountsInv, ClosedTransaction
  <2>1. CASE y = x
    BY <2>1, <1>4, <1>9 DEF WalletInv, WalletTypeOK, AccountsInv, u, Indices
  <2>2. CASE y # x
    BY <2>2, <1>5 DEF WalletInv, AccountsInv
  <2> QED BY <2>1, <2>2
<1>11. FlagsInv'
  <2> SUFFICES ASSUME NEW y \in Indices, SameOwnerSet(y)
               PROVE  /\ \A i \in DOMAIN owners : transactions'[y].signers[i] =>
                           FirstAt(i) /\ owners[i] \in approved_by'[y]
                      /\ \A q \in approved_by'[y] : \E i \in DOMAIN owners :
                           FirstAt(i) /\ owners[i] = q /\ transactions'[y].signers[i]
    BY <1>7 DEF FlagsInv, FirstAt
  <2>1. CASE y = x
    <3>1. /\ \A i \in DOMAIN owners : t.signers[i] => FirstAt(i) /\ owners[i] \in approved_by[x]
          /\ \A q \in approved_by[x] : \E i \in DOMAIN owners :
               FirstAt(i) /\ owners[i] = q /\ t.signers[i]
      BY DEF WalletInv, FlagsInv
    <3>2. /\ OwnerIndex(k) \in DOMAIN owners /\ owners[OwnerIndex(k)] = k /\ FirstAt(OwnerIndex(k))
          /\ \A i \in DOMAIN owners : FirstAt(i) /\ owners[i] = k => i = OwnerIndex(k)
      BY <1>1, OwnerIndexIsFirst
    <3> DEFINE j == OwnerIndex(k)
    <3> HIDE DEF j
    <3>3. ASSUME NEW i \in DOMAIN owners, flags[i]
          PROVE  FirstAt(i) /\ owners[i] \in agree
      <4>1. CASE i = j
        BY <1>2, <3>2, <3>3, <4>1 DEF j
      <4>2. CASE i # j
        <5>1. t.signers[i]
          BY <1>2, <3>3, <4>2 DEF j
        <5>2. FirstAt(i) /\ owners[i] \in approved_by[x]
          BY <3>1, <5>1
        <5>3. owners[i] # k
          BY <3>2, <5>2, <4>2 DEF j
        <5> QED BY <5>2, <5>3
      <4> QED BY <4>1, <4>2
    <3>4. ASSUME NEW q \in agree
          PROVE  \E i \in DOMAIN owners : FirstAt(i) /\ owners[i] = q /\ flags[i]
      <4>1. CASE q = k
        <5>1. b = TRUE
          BY <4>1, <3>4
        <5> QED BY <1>2, <3>2, <4>1, <5>1
      <4>2. CASE q # k
        <5>1. q \in approved_by[x]
          BY <3>4, <4>2
        <5>2. PICK i \in DOMAIN owners : FirstAt(i) /\ owners[i] = q /\ t.signers[i]
          BY <3>1, <5>1
        <5>3. i # OwnerIndex(k)
          BY <3>2, <4>2, <5>2
        <5> QED BY <1>2, <5>2, <5>3
      <4> QED BY <4>1, <4>2
    <3> QED BY <2>1, <3>3, <3>4, <1>4, <1>6 DEF u
  <2>2. CASE y # x
    <3>1. transactions'[y] = transactions[y] /\ approved_by'[y] = approved_by[y]
      BY <2>2, <1>5
    <3> QED BY <3>1 DEF WalletInv, FlagsInv
  <2> QED BY <2>1, <2>2
<1> QED BY <1>8, <1>10, <1>11 DEF WalletInv

\* What an execution, by whichever signer, leaves of the wallet.
LEMMA InvokedTyped ==
  ASSUME WalletInv, NEW x \in Indices, transactions[x].open
  PROVE  \E v \in InvokeResult :
           /\ v = [owners |-> owners, threshold |-> threshold,
                   owner_set_seqno |-> owner_set_seqno, ok |-> TRUE]
           /\ Follows(v, InvokeAll(transactions[x].instructions))
<1> DEFINE v == [owners |-> owners, threshold |-> threshold,
                 owner_set_seqno |-> owner_set_seqno, ok |-> TRUE]
           ins == transactions[x].instructions
<1>1. v \in InvokeResult /\ Len(owners) <= MaxOwners /\ threshold \in Nat
  BY DEF InvokeResult, WalletInv, WalletTypeOK
<1>2. WellFormed(<<>>)
  BY DEF WellFormed
<1>3. WellFormed(ins)
  <2>1. transactions[x] \in Transaction
    BY DEF WalletInv, WalletTypeOK
  <2>2. ins \in Instructions \cup {<<>>}
    BY <2>1 DEF Transaction
  <2> QED BY <1>2, <2>2, WalletAssumption
<1> HIDE DEF ins
<1>4. Follows(v, InvokeAll(ins))
  BY <1>1, <1>3, InvokeAllFollows
<1> QED BY <1>1, <1>4 DEF ins

\* An execution leaves a wallet, and one whose owner set seqno is what it was
\* has the same owners.
LEMMA ExecutionChanges ==
  ASSUME WalletInv, NEW x \in Indices, ExecuteTransaction(x)
  PROVE  /\ owners' \in Seq(WalletKeys) /\ Len(owners') <= MaxOwners
         /\ threshold' \in Nat
         /\ owner_set_seqno' \in Nat /\ owner_set_seqno' >= owner_set_seqno
         /\ owner_set_seqno' = owner_set_seqno => owners' = owners
         /\ threshold < Len(owners) => threshold' < Len(owners')
<1> DEFINE w == InvokeAll(transactions[x].instructions)
<1>1. transactions[x].open
  BY DEF ExecuteTransaction, Executable, SameOwnerSet
<1>2. PICK v \in InvokeResult :
        /\ v = [owners |-> owners, threshold |-> threshold,
                owner_set_seqno |-> owner_set_seqno, ok |-> TRUE]
        /\ Follows(v, w)
  BY <1>1, InvokedTyped
<1>3. /\ w.ok /\ owners' = w.owners /\ threshold' = w.threshold
      /\ owner_set_seqno' = w.owner_set_seqno
  BY DEF ExecuteTransaction
<1>4. /\ v.owners = owners /\ v.threshold = threshold /\ v.owner_set_seqno = owner_set_seqno
  BY <1>2
<1> HIDE DEF w
<1> QED BY <1>2, <1>3, <1>4 DEF Follows, InvokeResult

\* An execution, with or without a change of the owners: under new owners no
\* transaction's flags are read any more.
LEMMA ExecutedInv ==
  ASSUME WalletInv, UNCHANGED now, NEW x \in Indices, transactions[x].open,
         transactions' = [transactions EXCEPT ![x].executed_at = now],
         owners' \in Seq(WalletKeys), Len(owners') <= MaxOwners, threshold' \in Nat,
         owner_set_seqno' \in Nat, owner_set_seqno' >= owner_set_seqno,
         owner_set_seqno' = owner_set_seqno => owners' = owners,
         UNCHANGED <<minimum_delay, num_transactions, approved_by>>
  PROVE  WalletInv'
<1> DEFINE t == transactions[x]
           u == transactions'[x]
<1>1. t \in Transaction /\ now \in Nat /\ owner_set_seqno \in Nat
  BY DEF WalletInv, WalletTypeOK
<1>2. u = [t EXCEPT !.executed_at = now] /\ now \in Nat \cup {-1}
  BY DEF WalletInv, WalletTypeOK
<1>3. /\ u \in Transaction /\ u.signers = t.signers /\ u.open = t.open
      /\ u.owner_set_seqno = t.owner_set_seqno /\ u.created_at = t.created_at /\ u.eta = t.eta
  <2> HIDE DEF u, t
  <2> QED BY <1>1, <1>2 DEF Transaction
<1>4. \A y \in Indices \ {x} : transactions'[y] = transactions[y]
  BY DEF WalletInv, WalletTypeOK
<1> HIDE DEF u
<1>5. \A y \in Indices :
        /\ transactions'[y].open = transactions[y].open
        /\ transactions'[y].signers = transactions[y].signers
        /\ transactions'[y].owner_set_seqno = transactions[y].owner_set_seqno
        /\ transactions'[y].created_at = transactions[y].created_at
        /\ transactions'[y].eta = transactions[y].eta
  BY <1>3, <1>4 DEF u
<1>6. ASSUME NEW y \in Indices, SameOwnerSet(y)'
      PROVE  SameOwnerSet(y) /\ owners' = owners
  <2>1. transactions[y].open /\ transactions[y].owner_set_seqno = owner_set_seqno'
    BY <1>5, <1>6 DEF SameOwnerSet
  <2>2. transactions[y].owner_set_seqno <= owner_set_seqno
    BY <2>1 DEF WalletInv, AccountsInv
  <2>3. owner_set_seqno' = owner_set_seqno
    BY <1>1, <2>1, <2>2
  <2> QED BY <2>1, <2>3 DEF SameOwnerSet
<1>7. x < num_transactions
  BY DEF WalletInv, WalletTypeOK, AccountsInv, ClosedTransaction, Indices
<1>8. WalletTypeOK'
  <2>1. transactions' \in [Indices -> Transaction]
    BY <1>3, <1>4 DEF WalletInv, WalletTypeOK, u
  <2>2. \A y \in Indices : SameOwnerSet(y)' => Len(transactions'[y].signers) = Len(owners')
    BY <1>5, <1>6 DEF WalletInv, WalletTypeOK
  <2> QED BY <2>1, <2>2 DEF WalletInv, WalletTypeOK
<1>9. AccountsInv'
  <2> SUFFICES ASSUME NEW y \in Indices
               PROVE  /\ y >= num_transactions => transactions'[y] = ClosedTransaction
                      /\ transactions'[y].open =>
                           /\ transactions'[y].owner_set_seqno <= owner_set_seqno'
                           /\ transactions'[y].created_at <= now
                           /\ minimum_delay # 0 =>
                                transactions'[y].eta >= transactions'[y].created_at + minimum_delay
    BY DEF AccountsInv, ClosedTransaction
  <2>1. y >= num_transactions => transactions'[y] = ClosedTransaction
    <3>1. CASE y = x
      BY <1>7, <3>1 DEF WalletInv, WalletTypeOK, Indices
    <3>2. CASE y # x
      BY <1>4, <3>2 DEF WalletInv, AccountsInv
    <3> QED BY <3>1, <3>2
  <2>2. transactions[y] \in Transaction
    BY DEF WalletInv, WalletTypeOK
  <2>3. ASSUME transactions[y].open PROVE transactions[y].owner_set_seqno <= owner_set_seqno'
    <3>1. transactions[y].owner_set_seqno \in Nat
      BY <2>2 DEF Transaction
    <3>2. transactions[y].owner_set_seqno <= owner_set_seqno
      BY <2>3 DEF WalletInv, AccountsInv
    <3> QED BY <3>1, <3>2, <1>1
  <2> QED BY <1>5, <2>1, <2>3 DEF WalletInv, AccountsInv
<1>10. FlagsInv'
  <2> SUFFICES ASSUME NEW y \in Indices, SameOwnerSet(y)'
               PROVE  (/\ \A i \in DOMAIN owners : transactions[y].signers[i] =>
                            FirstAt(i) /\ owners[i] \in approved_by[y]
                       /\ \A k \in approved_by[y] : \E i \in DOMAIN owners :
                            FirstAt(i) /\ owners[i] = k /\ transactions[y].signers[i])'
    BY DEF FlagsInv
  <2>1. SameOwnerSet(y) /\ owners' = owners
    BY <1>6
  <2> QED BY <1>5, <2>1 DEF WalletInv, FlagsInv, FirstAt
<1> QED BY <1>8, <1>9, <1>10 DEF WalletInv

\* Closing a transaction's account.
LEMMA RemoveInv ==
  ASSUME WalletInv, UNCHANGED now, NEW x \in Indices, RemoveTransaction(x)
  PROVE  WalletInv'
<1>1. ClosedTransaction \in Transaction /\ ~ ClosedTransaction.open
  BY DEF ClosedTransaction, Transaction
<1>2. /\ transactions'[x] = ClosedTransaction
      /\ \A y \in Indices \ {x} :
           transactions'[y] = transactions[y] /\ approved_by'[y] = approved_by[y]
      /\ UNCHANGED <<owners, threshold, minimum_delay, owner_set_seqno, num_transactions>>
  BY DEF RemoveTransaction, WalletInv, WalletTypeOK
<1>3. \A y \in Indices : SameOwnerSet(y)' =>
        /\ y # x /\ SameOwnerSet(y)
        /\ transactions'[y] = transactions[y] /\ approved_by'[y] = approved_by[y]
  BY <1>1, <1>2 DEF SameOwnerSet
<1>4. WalletTypeOK'
  <2>1. transactions' \in [Indices -> Transaction]
    BY <1>1 DEF RemoveTransaction, WalletInv, WalletTypeOK
  <2>2. approved_by' \in [Indices -> SUBSET WalletKeys]
    BY DEF RemoveTransaction, WalletInv, WalletTypeOK
  <2> QED BY <1>2, <1>3, <2>1, <2>2 DEF WalletInv, WalletTypeOK
<1>5. AccountsInv'
  BY <1>1, <1>2 DEF WalletInv, AccountsInv
<1>6. FlagsInv'
  <2> SUFFICES ASSUME NEW y \in Indices, SameOwnerSet(y)'
               PROVE  (/\ \A i \in DOMAIN owners : transactions[y].signers[i] =>
                            FirstAt(i) /\ owners[i] \in approved_by[y]
                       /\ \A k \in approved_by[y] : \E i \in DOMAIN owners :
                            FirstAt(i) /\ owners[i] = k /\ transactions[y].signers[i])'
    BY DEF FlagsInv
  <2> QED BY <1>2, <1>3 DEF WalletInv, FlagsInv, FirstAt
<1> QED BY <1>4, <1>5, <1>6 DEF WalletInv

\* Every step of the wallet preserves the invariant.
LEMMA NextInv == WalletInv /\ [AnyEtaStep]_walletState => WalletInv'
<1> SUFFICES ASSUME WalletInv, [AnyEtaStep]_walletState PROVE WalletInv'
  OBVIOUS
<1>1. ASSUME NEW k \in WalletKeys, NEW ixs \in Instructions, NEW eta \in Nat \cup {NO_ETA},
             CreateTransaction(k, ixs, eta), UNCHANGED now
      PROVE  WalletInv'
  BY <1>1, CreateInv
<1>2. ASSUME NEW x \in Indices, NEW k \in WalletKeys, Approve(k, x), UNCHANGED now
      PROVE  WalletInv'
  <2> DEFINE agree == approved_by[x] \cup {k}
  <2>1. /\ agree = IF TRUE THEN approved_by[x] \cup {k} ELSE approved_by[x] \ {k}
        /\ approved_by' = [approved_by EXCEPT ![x] = agree]
    BY <1>2 DEF Approve
  <2> HIDE DEF agree
  <2> QED BY <1>2, <2>1, FlagInv DEF Approve
<1>3. ASSUME NEW x \in Indices, NEW k \in WalletKeys, Unapprove(k, x), UNCHANGED now
      PROVE  WalletInv'
  <2> DEFINE agree == approved_by[x] \ {k}
  <2>1. /\ agree = IF FALSE THEN approved_by[x] \cup {k} ELSE approved_by[x] \ {k}
        /\ approved_by' = [approved_by EXCEPT ![x] = agree]
    BY <1>3 DEF Unapprove
  <2> HIDE DEF agree
  <2> QED BY <1>3, <2>1, FlagInv DEF Unapprove
<1>4. ASSUME NEW x \in Indices, ExecuteTransaction(x), UNCHANGED now
      PROVE  WalletInv'
  <2>1. transactions[x].open
    BY <1>4 DEF ExecuteTransaction, Executable, SameOwnerSet
  <2> QED BY <1>4, <2>1, ExecutionChanges, ExecutedInv DEF ExecuteTransaction
<1>5. ASSUME NEW x \in Indices, RemoveTransaction(x), UNCHANGED now
      PROVE  WalletInv'
  BY <1>5, RemoveInv
<1>6. ASSUME UNCHANGED walletVars, now' = now \/ now' = now + 1
      PROVE  WalletInv'
  <2>1. WalletTypeOK' /\ FlagsInv' /\ now' \in Nat
    BY <1>6 DEF walletVars, WalletInv, WalletTypeOK, FlagsInv, FirstAt, SameOwnerSet
  <2>2. \A x \in Indices : transactions[x].created_at \in Nat
    BY DEF WalletInv, WalletTypeOK, Transaction
  <2>3. AccountsInv'
    BY <1>6, <2>2 DEF walletVars, WalletInv, AccountsInv
  <2> QED BY <2>1, <2>3 DEF WalletInv
<1>7. ASSUME Tick, UNCHANGED walletVars PROVE WalletInv'
  BY <1>6, <1>7 DEF Tick
<1>8. ASSUME UNCHANGED walletState PROVE WalletInv'
  BY <1>6, <1>8 DEF walletState
<1> QED BY <1>1, <1>2, <1>3, <1>4, <1>5, <1>7, <1>8, AnyEtaCases

\* Together: the invariant of every behaviour of the wallet.
LEMMA WalletAlwaysInv == AnyEtaSpec => []WalletInv
BY InitInv, NextInv, PTL DEF AnyEtaSpec

\* Every account holds values of its type, and a transaction of the present
\* owner set has one flag for each owner, so approve never indexes past it.
THEOREM WalletTypeCorrect == AnyEtaSpec => []WalletTypeOK
<1>1. WalletInv => WalletTypeOK
  BY DEF WalletInv
<1> QED BY <1>1, WalletAlwaysInv, PTL

-----------------------------------------------------------------------------
(* What the flags say *)

\* The invariant makes the flags of a transaction the approvals of its owners.
LEMMA FlagsAreApprovals == WalletInv => SignersAreApprovers
<1> SUFFICES ASSUME WalletInv, NEW x \in Indices, SameOwnerSet(x)
             PROVE  LET signed == {i \in DOMAIN owners : transactions[x].signers[i]}
                    IN  /\ {owners[i] : i \in signed} = approved_by[x]
                        /\ NumSigners(transactions[x]) = Cardinality(approved_by[x])
  BY DEF SignersAreApprovers
<1> DEFINE t == transactions[x]
           signed == {i \in DOMAIN owners : t.signers[i]}
           f == [i \in signed |-> owners[i]]
<1>1. /\ owners \in Seq(WalletKeys) /\ t.signers \in Seq(BOOLEAN)
      /\ Len(t.signers) = Len(owners)
  BY DEF WalletInv, WalletTypeOK, Transaction
<1>2. DOMAIN t.signers = DOMAIN owners /\ DOMAIN owners = 1..Len(owners) /\ Len(owners) \in Nat
  BY <1>1
<1>3. /\ \A i \in DOMAIN owners : t.signers[i] => FirstAt(i) /\ owners[i] \in approved_by[x]
      /\ \A k \in approved_by[x] : \E i \in DOMAIN owners :
           FirstAt(i) /\ owners[i] = k /\ t.signers[i]
  BY DEF WalletInv, FlagsInv
<1>4. {owners[i] : i \in signed} = approved_by[x]
  BY <1>3
<1>5. IsFiniteSet(signed)
  <2>1. signed \subseteq 1..Len(owners)
    BY <1>2
  <2>2. IsFiniteSet(1..Len(owners))
    BY <1>2, FS_Interval
  <2> HIDE DEF signed
  <2> QED BY <2>1, <2>2, FS_Subset
<1>6. ExistsBijection(signed, approved_by[x])
  <2>1. f \in [signed -> approved_by[x]]
    BY <1>3
  <2>2. ASSUME NEW i \in signed, NEW j \in signed, f[i] = f[j]
        PROVE  i = j
    <3>1. FirstAt(i) /\ FirstAt(j) /\ owners[i] = owners[j] /\ IsOwner(owners[i])
      BY <1>3, <2>2 DEF IsOwner
    <3> QED BY <1>1, <3>1, OwnerIndexIsFirst
  <2>3. \A k \in approved_by[x] : \E i \in signed : f[i] = k
    BY <1>3
  <2>4. DOMAIN f = signed
    OBVIOUS
  <2> HIDE DEF f, signed
  <2>5. f \in Bijection(signed, approved_by[x])
    BY <2>1, <2>2, <2>3, <2>4 DEF Bijection, Injection, Surjection, IsInjective
  <2> QED BY <2>5 DEF ExistsBijection
<1>7. Cardinality(approved_by[x]) = Cardinality(signed)
  <2> HIDE DEF signed
  <2> QED BY <1>5, <1>6, FS_Bijection
<1>8. NumSigners(t) = Cardinality(signed)
  BY <1>2 DEF NumSigners
<1> QED BY <1>4, <1>7, <1>8

\* The flags of a transaction of the present owner set are its owners'
\* approvals, each counted once even if a key is listed twice.
THEOREM SignersAreAlwaysApprovers == AnyEtaSpec => []SignersAreApprovers
BY FlagsAreApprovals, WalletAlwaysInv, PTL

-----------------------------------------------------------------------------
(* Execution *)

\* What happens to one transaction in a step: it is created, flagged, executed
\* or removed, or it stays what it was.
LEMMA StepOfTransaction ==
  ASSUME WalletInv, AnyEtaStep, NEW x \in Indices
  PROVE  \/ /\ x = num_transactions /\ num_transactions' = num_transactions + 1
            /\ transactions'[x].open /\ transactions'[x].executed_at = -1
         \/ /\ transactions'[x].executed_at = transactions[x].executed_at
            /\ transactions'[x].open = transactions[x].open
            /\ num_transactions' >= num_transactions
         \/ /\ ExecuteTransaction(x) /\ UNCHANGED now
            /\ transactions'[x].executed_at = now /\ transactions'[x].open
            /\ num_transactions' = num_transactions
         \/ /\ transactions[x].open /\ ~ transactions'[x].open
            /\ num_transactions' = num_transactions
<1> DEFINE Created == /\ x = num_transactions /\ num_transactions' = num_transactions + 1
                      /\ transactions'[x].open /\ transactions'[x].executed_at = -1
           Kept == /\ transactions'[x].executed_at = transactions[x].executed_at
                   /\ transactions'[x].open = transactions[x].open
                   /\ num_transactions' >= num_transactions
           Executed == /\ ExecuteTransaction(x) /\ UNCHANGED now
                       /\ transactions'[x].executed_at = now /\ transactions'[x].open
                       /\ num_transactions' = num_transactions
           Removed == /\ transactions[x].open /\ ~ transactions'[x].open
                      /\ num_transactions' = num_transactions
           Goal == Created \/ Kept \/ Executed \/ Removed
<1>0. /\ num_transactions \in Nat
      /\ transactions \in [Indices -> Transaction] /\ transactions[x] \in Transaction
  BY WalletAssumption DEF WalletInv, WalletTypeOK
<1>1. ASSUME NEW k \in WalletKeys, NEW ixs \in Instructions, NEW eta \in Nat \cup {NO_ETA},
             CreateTransaction(k, ixs, eta)
      PROVE  Goal
  <2>1. CASE x = num_transactions
    BY <1>0, <1>1, <2>1 DEF CreateTransaction
  <2>2. CASE x # num_transactions
    <3>1. transactions'[x] = transactions[x] /\ num_transactions' >= num_transactions
      BY <1>0, <1>1, <2>2 DEF CreateTransaction
    <3> QED BY <3>1
  <2> QED BY <2>1, <2>2
<1>2. ASSUME NEW y \in Indices, NEW k \in WalletKeys, Approve(k, y) \/ Unapprove(k, y)
      PROVE  Goal
  <2>1. num_transactions' >= num_transactions
    <3>1. num_transactions' = num_transactions
      BY <1>2 DEF Approve, Unapprove
    <3> QED BY <1>0, <3>1
  <2>2. PICK s : transactions' = [transactions EXCEPT ![y].signers = s]
    <3>1. CASE Approve(k, y)
      BY <3>1 DEF Approve
    <3>2. CASE Unapprove(k, y)
      BY <3>2 DEF Unapprove
    <3> QED BY <1>2, <3>1, <3>2
  <2>3. /\ transactions'[x].executed_at = transactions[x].executed_at
        /\ transactions'[x].open = transactions[x].open
    BY <1>0, <2>2 DEF Transaction
  <2> QED BY <2>1, <2>3
<1>3. ASSUME NEW y \in Indices, ExecuteTransaction(y), UNCHANGED now
      PROVE  Goal
  <2>1. CASE y = x
    BY <1>0, <1>3, <2>1 DEF ExecuteTransaction, Executable, SameOwnerSet, Transaction
  <2>2. CASE y # x
    BY <1>0, <1>3, <2>2 DEF ExecuteTransaction
  <2> QED BY <2>1, <2>2
<1>4. ASSUME NEW y \in Indices, RemoveTransaction(y)
      PROVE  Goal
  <2>1. num_transactions' >= num_transactions
    BY <1>0, <1>4 DEF RemoveTransaction
  <2>2. CASE y = x
    <3>1. transactions'[x] = ClosedTransaction /\ transactions[x].open
      BY <1>0, <1>4, <2>2 DEF RemoveTransaction
    <3>2. ~ ClosedTransaction.open
      BY DEF ClosedTransaction
    <3> QED BY <1>4, <3>1, <3>2 DEF RemoveTransaction
  <2>3. CASE y # x
    <3>1. transactions'[x] = transactions[x]
      BY <1>0, <1>4, <2>3 DEF RemoveTransaction
    <3> QED BY <2>1, <3>1
  <2> QED BY <2>2, <2>3
<1>5. ASSUME UNCHANGED walletVars PROVE Goal
  BY <1>0, <1>5 DEF walletVars
<1> HIDE DEF Goal
<1>6. Goal
  BY <1>1, <1>2, <1>3, <1>4, <1>5, AnyEtaCases
<1> QED BY <1>6 DEF Goal

\* A transaction runs only under the owners it was created under, with the
\* approval of threshold different ones, minimum_delay after its creation.
LEMMA ExecutableAuthorized ==
  ASSUME WalletInv, NEW x \in Indices, Executable(x)
  PROVE  /\ transactions[x].owner_set_seqno = owner_set_seqno
         /\ Cardinality({k \in approved_by[x] : IsOwner(k)}) >= threshold
         /\ now >= transactions[x].created_at + minimum_delay
<1>1. SameOwnerSet(x) /\ NumSigners(transactions[x]) >= threshold /\ now >= transactions[x].eta
  BY DEF Executable
<1>2. {k \in approved_by[x] : IsOwner(k)} = approved_by[x]
  BY <1>1 DEF WalletInv, FlagsInv, IsOwner
<1>3. NumSigners(transactions[x]) = Cardinality(approved_by[x])
  BY <1>1, FlagsAreApprovals DEF SignersAreApprovers
<1>4. transactions[x] \in Transaction /\ minimum_delay \in Nat /\ now \in Nat
  BY DEF WalletInv, WalletTypeOK
<1>5. transactions[x].created_at \in Nat /\ transactions[x].eta \in Int
  BY <1>4 DEF Transaction, NO_ETA
<1>6. /\ transactions[x].created_at <= now
      /\ minimum_delay # 0 => transactions[x].eta >= transactions[x].created_at + minimum_delay
  BY <1>1 DEF WalletInv, AccountsInv, SameOwnerSet
<1>7. now >= transactions[x].created_at + minimum_delay
  BY <1>1, <1>4, <1>5, <1>6
<1>8. Cardinality({k \in approved_by[x] : IsOwner(k)}) >= threshold
  BY <1>1, <1>2, <1>3
<1> QED BY <1>1, <1>7, <1>8 DEF SameOwnerSet

\* Whatever becomes executed was approved by enough of its own owners, in time.
THEOREM ExecutionAlwaysAuthorized == AnyEtaSpec => ExecutionIsAuthorized
<1> DEFINE Authorized ==
             \A x \in Indices :
               transactions'[x].executed_at # transactions[x].executed_at /\ transactions'[x].open =>
                 /\ transactions[x].owner_set_seqno = owner_set_seqno
                 /\ Cardinality({k \in approved_by[x] : IsOwner(k)}) >= threshold
                 /\ now >= transactions[x].created_at + minimum_delay
<1>1. WalletInv /\ [AnyEtaStep]_walletState => [Authorized]_walletState
  <2> SUFFICES ASSUME WalletInv, AnyEtaStep, NEW x \in Indices,
                      transactions'[x].executed_at # transactions[x].executed_at,
                      transactions'[x].open
               PROVE  /\ transactions[x].owner_set_seqno = owner_set_seqno
                      /\ Cardinality({k \in approved_by[x] : IsOwner(k)}) >= threshold
                      /\ now >= transactions[x].created_at + minimum_delay
    OBVIOUS
  <2>1. x >= num_transactions => transactions[x].executed_at = -1
    BY DEF WalletInv, AccountsInv, ClosedTransaction
  <2>2. x \in Int /\ num_transactions \in Int
    BY WalletAssumption DEF WalletInv, WalletTypeOK, Indices
  <2>3. ExecuteTransaction(x)
    BY <2>1, <2>2, StepOfTransaction
  <2> QED BY <2>3, ExecutableAuthorized DEF ExecuteTransaction
<1>2. AnyEtaSpec => [][Authorized]_walletState
  <2> HIDE DEF Authorized
  <2> QED BY <1>1, WalletAlwaysInv, PTL DEF AnyEtaSpec
<1> QED BY <1>2 DEF ExecutionIsAuthorized

\* What was executed is not executed again, and no address is used twice.
THEOREM AlwaysExecutedOnce == AnyEtaSpec => ExecutedOnce
<1> DEFINE Once ==
             \A x \in Indices :
               /\ transactions[x].executed_at # -1 =>
                    transactions'[x].executed_at = transactions[x].executed_at \/ ~ transactions'[x].open
               /\ x < num_transactions /\ ~ transactions[x].open => ~ transactions'[x].open
               /\ num_transactions' >= num_transactions
<1>1. WalletInv /\ [AnyEtaStep]_walletState => [Once]_walletState
  <2> SUFFICES ASSUME WalletInv, AnyEtaStep, NEW x \in Indices
               PROVE  /\ transactions[x].executed_at # -1 =>
                           \/ transactions'[x].executed_at = transactions[x].executed_at
                           \/ ~ transactions'[x].open
                      /\ x < num_transactions /\ ~ transactions[x].open => ~ transactions'[x].open
                      /\ num_transactions' >= num_transactions
    OBVIOUS
  <2>1. x >= num_transactions => transactions[x].executed_at = -1
    BY DEF WalletInv, AccountsInv, ClosedTransaction
  <2>2. x \in Int /\ num_transactions \in Nat
    BY WalletAssumption DEF WalletInv, WalletTypeOK, Indices
  <2>3. ASSUME ExecuteTransaction(x) PROVE transactions[x].executed_at = -1 /\ transactions[x].open
    BY <2>3 DEF ExecuteTransaction, Executable, SameOwnerSet
  <2> QED BY <2>1, <2>2, <2>3, StepOfTransaction
<1>2. AnyEtaSpec => [][Once]_walletState
  <2> HIDE DEF Once
  <2> QED BY <1>1, WalletAlwaysInv, PTL DEF AnyEtaSpec
<1> QED BY <1>2 DEF ExecutedOnce

\* A wallet with fewer signatures required than owners never loses that,
\* whatever owners and thresholds its transactions set.
THEOREM ThresholdAlwaysBelowOwners == AnyEtaSpec => ThresholdStaysBelowOwners
<1> DEFINE Below == threshold < Len(owners) => threshold' < Len(owners')
<1>1. WalletInv /\ [AnyEtaStep]_walletState => [Below]_walletState
  <2> SUFFICES ASSUME WalletInv, AnyEtaStep, threshold < Len(owners)
               PROVE  threshold' < Len(owners')
    OBVIOUS
  <2>1. CASE UNCHANGED <<threshold, owners>>
    BY <2>1
  <2>2. ASSUME NEW x \in Indices, ExecuteTransaction(x)
        PROVE  threshold' < Len(owners')
    BY <2>2, ExecutionChanges
  <2>3. \/ UNCHANGED <<threshold, owners>>
        \/ \E x \in Indices : ExecuteTransaction(x)
    BY AnyEtaCases DEF CreateTransaction, Approve, Unapprove, RemoveTransaction, walletVars
  <2> QED BY <2>1, <2>2, <2>3
<1>2. AnyEtaSpec => [][Below]_walletState
  <2> HIDE DEF Below
  <2> QED BY <1>1, WalletAlwaysInv, PTL DEF AnyEtaSpec
<1> QED BY <1>2 DEF ThresholdStaysBelowOwners

-----------------------------------------------------------------------------
(* The wallet as a multisig *)

\* What is left of transaction x, by the approvals of keys instead of flags.
DecisionOn(x) ==
  IF transactions[x].open
  THEN (IF transactions[x].executed_at = -1 THEN "proposed" ELSE "made")
  ELSE IF x < num_transactions THEN "dropped" ELSE "unused"

Approvals(x) == [status |-> DecisionOn(x), live |-> SameOwnerSet(x),
                 agree |-> IF SameOwnerSet(x) THEN approved_by[x] ELSE {}]

FlagsDecide == \A x \in Indices : DecisionOf(x) = Approvals(x)

\* Reading the flags of a transaction by position is reading who approved it.
LEMMA FlagsAreDecisions == WalletInv => FlagsDecide
<1> SUFFICES ASSUME WalletInv, NEW x \in Indices PROVE DecisionOf(x) = Approvals(x)
  BY DEF FlagsDecide
<1> DEFINE agree == {owners[i] : i \in {j \in DOMAIN owners : transactions[x].signers[j]}}
<1>1. SameOwnerSet(x) => agree = approved_by[x]
  BY FlagsAreApprovals DEF SignersAreApprovers
<1>2. DecisionOf(x) = [status |-> DecisionOn(x), live |-> SameOwnerSet(x),
                       agree |-> IF SameOwnerSet(x) THEN agree ELSE {}]
  BY DEF DecisionOf, DecisionOn
<1> HIDE DEF agree
<1> QED BY <1>1, <1>2 DEF Approvals

\* So it is after a step.
LEMMA FlagsAreDecisionsNext == WalletInv' => FlagsDecide'
BY FlagsAreDecisions, PTL

\* The multisig's decisions, by approvals.
Decisions == [x \in Indices |-> Approvals(x)]

\* Both readings are one.
LEMMA DecisionsAre ==
  /\ FlagsDecide => [x \in Indices |-> DecisionOf(x)] = Decisions
  /\ FlagsDecide' => [x \in Indices |-> DecisionOf(x)]' = Decisions'
BY DEF FlagsDecide, Decisions

\* Transactions that a step leaves alone, under an owner set that it leaves
\* alone, are the same decisions.
LEMMA SameApprovals ==
  ASSUME WalletInv, NEW x \in Indices,
         transactions'[x] = transactions[x], approved_by'[x] = approved_by[x],
         owner_set_seqno' = owner_set_seqno,
         x < num_transactions' <=> x < num_transactions
  PROVE  Approvals(x)' = Approvals(x)
BY DEF Approvals, DecisionOn, SameOwnerSet

\* A decision that nobody agrees to any more.
LEMMA GivenUp ==
  ASSUME NEW s
  PROVE  /\ [Abstract!Unused EXCEPT !.status = s] = [status |-> s, live |-> FALSE, agree |-> {}]
         /\ \A d : d.status = s => Abstract!Lapsed(d) = [status |-> s, live |-> FALSE, agree |-> {}]
<1>1. \A u, live, agree :
        [[status |-> u, live |-> live, agree |-> agree] EXCEPT !.status = s] =
          [status |-> s, live |-> live, agree |-> agree]
  OBVIOUS
<1>2. [Abstract!Unused EXCEPT !.status = s] = [status |-> s, live |-> FALSE, agree |-> {}]
  <2>1. PICK none, no : none = {} /\ no = FALSE
    OBVIOUS
  <2>2. Abstract!Unused = [status |-> "unused", live |-> no, agree |-> none]
    BY <2>1 DEF Abstract!Unused
  <2>3. [Abstract!Unused EXCEPT !.status = s] = [status |-> s, live |-> no, agree |-> none]
    BY <1>1, <2>2
  <2> QED BY <2>1, <2>3
<1> QED BY <1>2 DEF Abstract!Lapsed

\* create_transaction suggests a decision.
LEMMA CreateSuggests ==
  ASSUME WalletInv, NEW k \in WalletKeys, NEW ixs, NEW eta, CreateTransaction(k, ixs, eta),
         NEW n, n = num_transactions
  PROVE  /\ n \in Indices /\ Decisions[n].status = "unused" /\ IsOwner(k)
         /\ Decisions' = [Decisions EXCEPT ![n] =
                            [status |-> "proposed", live |-> TRUE, agree |-> {k}]]
<1>1. n \in Indices /\ n \in Nat /\ num_transactions' = n + 1
  BY WalletAssumption DEF CreateTransaction, WalletInv, WalletTypeOK, Indices
<1>2. /\ transactions'[n].open /\ transactions'[n].executed_at = -1
      /\ transactions'[n].owner_set_seqno = owner_set_seqno
      /\ approved_by'[n] = {k} /\ owner_set_seqno' = owner_set_seqno
  BY <1>1 DEF CreateTransaction, WalletInv, WalletTypeOK
<1>3. transactions[n] = ClosedTransaction
  BY <1>1 DEF WalletInv, AccountsInv
<1>4. Decisions[n].status = "unused"
  BY <1>1, <1>3 DEF Decisions, Approvals, DecisionOn, ClosedTransaction
<1>5. Approvals(n)' = [status |-> "proposed", live |-> TRUE, agree |-> {k}]
  BY <1>2 DEF Approvals, DecisionOn, SameOwnerSet
<1>6. ASSUME NEW x \in Indices, x # n PROVE Approvals(x)' = Approvals(x)
  <2>1. /\ transactions'[x] = transactions[x] /\ approved_by'[x] = approved_by[x]
    BY <1>6 DEF CreateTransaction, WalletInv, WalletTypeOK
  <2>2. x < n + 1 <=> x < n
    BY <1>1, <1>6 DEF Indices
  <2> QED BY <1>1, <1>2, <2>1, <2>2, SameApprovals
<1>7. Decisions' = [Decisions EXCEPT ![n] =
                      [status |-> "proposed", live |-> TRUE, agree |-> {k}]]
  BY <1>5, <1>6 DEF Decisions
<1> QED BY <1>1, <1>4, <1>7 DEF CreateTransaction

\* approve and unapprove are a member's agreement and its withdrawal.
LEMMA FlagAgrees ==
  ASSUME WalletInv, NEW x \in Indices, NEW k, NEW s, NEW agree, SameOwnerSet(x),
         transactions' = [transactions EXCEPT ![x].signers = s],
         approved_by' = [approved_by EXCEPT ![x] = agree],
         UNCHANGED <<owner_set_seqno, num_transactions>>
  PROVE  /\ Decisions[x].live
         /\ Decisions' = [Decisions EXCEPT ![x].agree = agree]
<1>1. /\ transactions'[x] = [transactions[x] EXCEPT !.signers = s]
      /\ transactions[x] \in Transaction /\ approved_by'[x] = agree
  BY DEF WalletInv, WalletTypeOK
<1>2. /\ transactions'[x].open = transactions[x].open
      /\ transactions'[x].executed_at = transactions[x].executed_at
      /\ transactions'[x].owner_set_seqno = transactions[x].owner_set_seqno
  BY <1>1 DEF Transaction
<1>3. Approvals(x)' = [Approvals(x) EXCEPT !.agree = agree]
  BY <1>1, <1>2 DEF Approvals, DecisionOn, SameOwnerSet
<1>4. ASSUME NEW y \in Indices, y # x PROVE Approvals(y)' = Approvals(y)
  <2>1. transactions'[y] = transactions[y] /\ approved_by'[y] = approved_by[y]
    BY <1>4 DEF WalletInv, WalletTypeOK
  <2> QED BY <2>1, SameApprovals
<1> QED BY <1>3, <1>4 DEF Decisions, Approvals

\* execute_transaction makes a decision; under new owners all lapse.
LEMMA ExecutionDecides ==
  ASSUME WalletInv, UNCHANGED now, NEW x \in Indices, ExecuteTransaction(x),
         NEW made, made = [Decisions EXCEPT ![x].status = "made"]
  PROVE  /\ Decisions[x].status = "proposed" /\ Decisions[x].live
         /\ Cardinality(Decisions[x].agree) >= threshold
         /\ \/ Decisions' = made /\ owners' = owners
            \/ Decisions' = [y \in Indices |-> Abstract!Lapsed(made[y])]
<1>1. /\ transactions' = [transactions EXCEPT ![x].executed_at = now]
      /\ UNCHANGED <<num_transactions, approved_by>>
      /\ SameOwnerSet(x) /\ transactions[x].executed_at = -1
      /\ NumSigners(transactions[x]) >= threshold
  BY DEF ExecuteTransaction, Executable
<1>2. now \in Nat /\ transactions[x] \in Transaction /\ owner_set_seqno \in Nat
  BY DEF WalletInv, WalletTypeOK
<1>3. NumSigners(transactions[x]) = Cardinality(approved_by[x])
  BY <1>1, FlagsAreApprovals DEF SignersAreApprovers
<1>4. /\ Decisions[x].status = "proposed" /\ Decisions[x].live
      /\ Cardinality(Decisions[x].agree) >= threshold
  BY <1>1, <1>3 DEF Decisions, Approvals, DecisionOn, SameOwnerSet
<1>5. \A y \in Indices :
        /\ transactions'[y].open = transactions[y].open
        /\ transactions'[y].owner_set_seqno = transactions[y].owner_set_seqno
        /\ approved_by'[y] = approved_by[y]
        /\ DecisionOn(y)' = IF y = x THEN "made" ELSE DecisionOn(y)
  <2> SUFFICES ASSUME NEW y \in Indices
               PROVE  /\ transactions'[y].open = transactions[y].open
                      /\ transactions'[y].owner_set_seqno = transactions[y].owner_set_seqno
                      /\ approved_by'[y] = approved_by[y]
                      /\ DecisionOn(y)' = IF y = x THEN "made" ELSE DecisionOn(y)
    OBVIOUS
  <2>1. CASE y = x
    <3>1. /\ transactions'[y].executed_at = now
          /\ transactions'[y].open = transactions[y].open
          /\ transactions'[y].owner_set_seqno = transactions[y].owner_set_seqno
      BY <1>1, <1>2, <2>1 DEF WalletInv, WalletTypeOK, Transaction
    <3>2. now # -1 /\ transactions[y].open
      BY <1>1, <1>2, <2>1 DEF SameOwnerSet
    <3> QED BY <1>1, <2>1, <3>1, <3>2 DEF DecisionOn
  <2>2. CASE y # x
    <3>1. transactions'[y] = transactions[y]
      BY <1>1, <2>2 DEF WalletInv, WalletTypeOK
    <3> QED BY <1>1, <2>2, <3>1 DEF DecisionOn
  <2> QED BY <2>1, <2>2
<1>6. CASE owner_set_seqno' = owner_set_seqno
  <2>1. owners' = owners
    BY <1>6, ExecutionChanges
  <2>2. ASSUME NEW y \in Indices PROVE Decisions'[y] = made[y]
    <3>1. SameOwnerSet(y)' = SameOwnerSet(y)
      BY <1>5, <1>6 DEF SameOwnerSet
    <3>2. Decisions[y] = [status |-> DecisionOn(y), live |-> SameOwnerSet(y),
                          agree |-> IF SameOwnerSet(y) THEN approved_by[y] ELSE {}]
      BY DEF Decisions, Approvals
    <3>3. Decisions'[y] = [status |-> DecisionOn(y)', live |-> SameOwnerSet(y),
                           agree |-> IF SameOwnerSet(y) THEN approved_by[y] ELSE {}]
      <4>1. approved_by'[y] = approved_by[y]
        BY <1>5
      <4> QED BY <3>1, <4>1 DEF Decisions, Approvals
    <3>4. CASE y = x
      <4>1. made[y] = [Decisions[y] EXCEPT !.status = "made"]
        BY <3>4 DEF Decisions
      <4>2. DecisionOn(y)' = "made"
        BY <1>5, <3>4
      <4> QED BY <3>2, <3>3, <4>1, <4>2
    <3>5. CASE y # x
      BY <1>5, <3>2, <3>3, <3>5 DEF Decisions
    <3> QED BY <3>4, <3>5
  <2>3. Decisions' = made
    BY <2>2 DEF Decisions
  <2> QED BY <1>4, <2>1, <2>3
<1>7. CASE owner_set_seqno' # owner_set_seqno
  <2>1. owner_set_seqno' \in Nat /\ owner_set_seqno' > owner_set_seqno
    BY <1>2, <1>7, ExecutionChanges
  <2>2. \A y \in Indices : ~ SameOwnerSet(y)'
    <3> SUFFICES ASSUME NEW y \in Indices, transactions[y].open
                 PROVE  transactions[y].owner_set_seqno # owner_set_seqno'
      BY <1>5 DEF SameOwnerSet
    <3>1. transactions[y].owner_set_seqno <= owner_set_seqno
      BY DEF WalletInv, AccountsInv
    <3>2. transactions[y].owner_set_seqno \in Nat
      BY DEF WalletInv, WalletTypeOK, Transaction
    <3> QED BY <1>2, <2>1, <3>1, <3>2
  <2>3. ASSUME NEW y \in Indices PROVE Decisions'[y] = Abstract!Lapsed(made[y])
    <3>1. Decisions'[y] = [status |-> DecisionOn(y)', live |-> FALSE, agree |-> {}]
      <4>1. SameOwnerSet(y)' = FALSE
        BY <2>2 DEF SameOwnerSet
      <4> QED BY <4>1 DEF Decisions, Approvals
    <3>2. Decisions[y] = [status |-> DecisionOn(y), live |-> SameOwnerSet(y),
                          agree |-> IF SameOwnerSet(y) THEN approved_by[y] ELSE {}]
      BY DEF Decisions, Approvals
    <3>3. made[y] = IF y = x THEN [Decisions[y] EXCEPT !.status = "made"] ELSE Decisions[y]
      BY DEF Decisions
    <3>4. made[y].status = DecisionOn(y)'
      <4>1. DecisionOn(y)' = IF y = x THEN "made" ELSE DecisionOn(y)
        BY <1>5
      <4>2. CASE y = x BY <3>2, <3>3, <4>1, <4>2
      <4>3. CASE y # x BY <3>2, <3>3, <4>1, <4>3
      <4> QED BY <4>2, <4>3
    <3> QED BY <3>1, <3>4, GivenUp
  <2>4. Decisions' = [y \in Indices |-> Abstract!Lapsed(made[y])]
    BY <2>3 DEF Decisions
  <2> QED BY <1>4, <2>4
<1> QED BY <1>6, <1>7

\* remove_transaction drops what no present member agrees to.
LEMMA RemoveDrops ==
  ASSUME WalletInv, NEW x \in Indices, RemoveTransaction(x)
  PROVE  /\ Decisions[x].status \in {"proposed", "made"} /\ Decisions[x].agree = {}
         /\ Decisions' = [Decisions EXCEPT ![x] =
                            [status |-> "dropped", live |-> FALSE, agree |-> {}]]
<1>1. /\ transactions' = [transactions EXCEPT ![x] = ClosedTransaction]
      /\ approved_by' = [approved_by EXCEPT ![x] = {}]
      /\ UNCHANGED <<owner_set_seqno, num_transactions>>
      /\ transactions[x].open /\ NumSigners(transactions[x]) = 0
  BY DEF RemoveTransaction
<1>2. SameOwnerSet(x) => approved_by[x] = {}
  <2> SUFFICES ASSUME SameOwnerSet(x), NEW k \in approved_by[x] PROVE FALSE
    OBVIOUS
  <2>1. PICK i \in DOMAIN owners : transactions[x].signers[i]
    BY DEF WalletInv, FlagsInv
  <2>2. Cardinality(approved_by[x]) = 0
    BY <1>1, FlagsAreApprovals DEF SignersAreApprovers
  <2> DEFINE signed == {j \in DOMAIN transactions[x].signers : transactions[x].signers[j]}
  <2>3. /\ transactions[x].signers \in Seq(BOOLEAN) /\ owners \in Seq(WalletKeys)
        /\ Len(transactions[x].signers) = Len(owners)
    BY DEF WalletInv, WalletTypeOK, Transaction
  <2>4. IsFiniteSet(signed) /\ i \in signed
    <3>1. signed \subseteq 1..Len(owners) /\ i \in signed /\ Len(owners) \in Nat
      BY <2>1, <2>3
    <3>2. IsFiniteSet(1..Len(owners))
      BY <3>1, FS_Interval
    <3> HIDE DEF signed
    <3> QED BY <3>1, <3>2, FS_Subset
  <2>5. Cardinality(signed) = 0
    BY <1>1 DEF NumSigners
  <2> HIDE DEF signed
  <2> QED BY <2>4, <2>5, FS_EmptySet
<1>3. /\ Decisions[x].status \in {"proposed", "made"} /\ Decisions[x].agree = {}
  BY <1>1, <1>2 DEF Decisions, Approvals, DecisionOn
<1>4. x < num_transactions
  <2>1. ~ (x >= num_transactions)
    BY <1>1 DEF WalletInv, AccountsInv, ClosedTransaction
  <2>2. x \in Int /\ num_transactions \in Int
    BY WalletAssumption DEF WalletInv, WalletTypeOK, Indices
  <2> QED BY <2>1, <2>2
<1>5. Approvals(x)' = [status |-> "dropped", live |-> FALSE, agree |-> {}]
  <2>1. transactions'[x] = ClosedTransaction
    BY <1>1 DEF WalletInv, WalletTypeOK
  <2>2. ~ transactions'[x].open /\ x < num_transactions'
    BY <1>1, <1>4, <2>1 DEF ClosedTransaction
  <2>3. SameOwnerSet(x)' = FALSE /\ DecisionOn(x)' = "dropped"
    BY <2>2 DEF SameOwnerSet, DecisionOn
  <2> QED BY <2>3 DEF Approvals
<1>6. ASSUME NEW y \in Indices, y # x PROVE Approvals(y)' = Approvals(y)
  <2>1. transactions'[y] = transactions[y] /\ approved_by'[y] = approved_by[y]
    BY <1>1, <1>6 DEF WalletInv, WalletTypeOK
  <2> QED BY <1>1, <2>1, SameApprovals
<1>7. Decisions' = [Decisions EXCEPT ![x] =
                      [status |-> "dropped", live |-> FALSE, agree |-> {}]]
  BY <1>5, <1>6 DEF Decisions
<1> QED BY <1>3, <1>7

\* The initial states of the wallet are those of a multisig.
LEMMA WalletStartsMultisig ==
  ASSUME WalletStart, WalletInv
  PROVE  Abstract!MultisigInit
<1>1. {owners[i] : i \in DOMAIN owners} \in SUBSET WalletKeys /\ threshold \in Nat
  BY DEF WalletInv, WalletTypeOK
<1>2. ASSUME NEW x \in Indices PROVE DecisionOf(x) = Abstract!Unused
  <2>1. transactions[x] = ClosedTransaction /\ num_transactions = 0 /\ x >= 0
    BY WalletAssumption, <1>2 DEF WalletStart, WalletInit, Indices
  <2>2. SameOwnerSet(x) = FALSE /\ ~ (x < num_transactions) /\ ~ transactions[x].open
    BY <1>2, <2>1, WalletAssumption DEF SameOwnerSet, ClosedTransaction, Indices
  <2> QED BY <2>2 DEF DecisionOf, Abstract!Unused
<1> QED BY <1>1, <1>2 DEF Abstract!MultisigInit

\* Every step of the wallet is one of the multisig, or none.
LEMMA WalletStepsAsMultisig ==
  ASSUME WalletInv, WalletInv', [AnyEtaStep]_walletState
  PROVE  [Abstract!MultisigNext]_(Abstract!multisigVars)
<1> DEFINE members == {owners[i] : i \in DOMAIN owners}
           decisions == [x \in Indices |-> DecisionOf(x)]
           Goal == [Abstract!MultisigNext]_(Abstract!multisigVars)
<1>1. decisions = Decisions /\ decisions' = Decisions'
  BY FlagsAreDecisions, FlagsAreDecisionsNext, DecisionsAre
<1>2. ASSUME NEW k \in WalletKeys, NEW ixs, NEW eta, CreateTransaction(k, ixs, eta) PROVE Goal
  <2>1. \A n : n = num_transactions =>
          /\ n \in Indices /\ Decisions[n].status = "unused" /\ IsOwner(k)
          /\ Decisions' = [Decisions EXCEPT ![n] =
                             [status |-> "proposed", live |-> TRUE, agree |-> {k}]]
    BY <1>2, CreateSuggests
  <2>2. k \in members /\ members' = members /\ threshold' = threshold
    BY <1>2, <2>1 DEF CreateTransaction, IsOwner
  <2>3. Abstract!Suggest(num_transactions, k)
    BY <1>1, <2>1, <2>2 DEF Abstract!Suggest
  <2> QED BY <2>1, <2>3 DEF Abstract!MultisigNext
<1>3. ASSUME NEW k \in WalletKeys, NEW x \in Indices, Approve(k, x) PROVE Goal
  <2>1. /\ Decisions[x].live
        /\ Decisions' = [Decisions EXCEPT ![x].agree = approved_by[x] \cup {k}]
    <3>1. approved_by' = [approved_by EXCEPT ![x] = approved_by[x] \cup {k}]
      BY <1>3 DEF Approve
    <3> QED BY <1>3, <3>1, FlagAgrees DEF Approve
  <2>2. Decisions[x].agree = approved_by[x]
    BY <1>3 DEF Approve, Decisions, Approvals
  <2>3. k \in members /\ members' = members /\ threshold' = threshold
    BY <1>3 DEF Approve, IsOwner
  <2>4. Abstract!Agree(x, k)
    BY <1>1, <2>1, <2>2, <2>3 DEF Abstract!Agree
  <2> QED BY <2>4 DEF Abstract!MultisigNext
<1>4. ASSUME NEW k \in WalletKeys, NEW x \in Indices, Unapprove(k, x) PROVE Goal
  <2>1. /\ Decisions[x].live
        /\ Decisions' = [Decisions EXCEPT ![x].agree = approved_by[x] \ {k}]
    <3>1. approved_by' = [approved_by EXCEPT ![x] = approved_by[x] \ {k}]
      BY <1>4 DEF Unapprove
    <3> QED BY <1>4, <3>1, FlagAgrees DEF Unapprove
  <2>2. Decisions[x].agree = approved_by[x]
    BY <1>4 DEF Unapprove, Decisions, Approvals
  <2>3. k \in members /\ members' = members /\ threshold' = threshold
    BY <1>4 DEF Unapprove, IsOwner
  <2>4. Abstract!Agree(x, k)
    BY <1>1, <2>1, <2>2, <2>3 DEF Abstract!Agree
  <2> QED BY <2>4 DEF Abstract!MultisigNext
<1>5. ASSUME NEW x \in Indices, ExecuteTransaction(x), UNCHANGED now PROVE Goal
  <2>1. \A made : made = [Decisions EXCEPT ![x].status = "made"] =>
          /\ Decisions[x].status = "proposed" /\ Decisions[x].live
          /\ Cardinality(Decisions[x].agree) >= threshold
          /\ \/ Decisions' = made /\ owners' = owners
             \/ Decisions' = [y \in Indices |-> Abstract!Lapsed(made[y])]
    BY <1>5, ExecutionDecides
  <2>2. threshold' \in Nat /\ members' \in SUBSET WalletKeys
    BY DEF WalletInv, WalletTypeOK
  <2>3. owners' = owners => members' = members
    OBVIOUS
  <2>4. \A S : Abstract!Cardinality(S) = Cardinality(S)
    BY DEF Abstract!Cardinality, Cardinality
  <2>5. Abstract!Decide(x)
    BY <1>1, <2>1, <2>2, <2>3, <2>4 DEF Abstract!Decide
  <2> QED BY <2>5 DEF Abstract!MultisigNext
<1>6. ASSUME NEW x \in Indices, RemoveTransaction(x) PROVE Goal
  <2>1. /\ Decisions[x].status \in {"proposed", "made"} /\ Decisions[x].agree = {}
        /\ Decisions' = [Decisions EXCEPT ![x] =
                           [status |-> "dropped", live |-> FALSE, agree |-> {}]]
    BY <1>6, RemoveDrops
  <2>2. [Abstract!Unused EXCEPT !.status = "dropped"] =
          [status |-> "dropped", live |-> FALSE, agree |-> {}]
    BY GivenUp
  <2>3. members' = members /\ threshold' = threshold
    BY <1>6 DEF RemoveTransaction
  <2>4. Abstract!Drop(x)
    BY <1>1, <2>1, <2>2, <2>3 DEF Abstract!Drop
  <2> QED BY <2>4 DEF Abstract!MultisigNext
<1>7. ASSUME UNCHANGED walletVars PROVE Goal
  <2>1. UNCHANGED <<owners, threshold>>
    BY <1>7 DEF walletVars
  <2>2. \A x \in Indices : Approvals(x)' = Approvals(x)
    BY <1>7 DEF walletVars, Approvals, DecisionOn, SameOwnerSet
  <2>3. Decisions' = Decisions
    BY <2>2 DEF Decisions
  <2> QED BY <1>1, <2>1, <2>3 DEF Abstract!multisigVars
<1> HIDE DEF Goal
<1>8. ASSUME AnyEtaStep PROVE Goal
  BY <1>2, <1>3, <1>4, <1>5, <1>6, <1>7, <1>8, AnyEtaCases
<1> QED BY <1>7, <1>8 DEF walletState, Goal

\* A smart wallet is a multisig: flags, positions and sequence numbers decide
\* as members who agree under the membership of the proposal, each decision
\* once, and no agreement outlives a change of the membership.
THEOREM WalletImplementsMultisig == AnyEtaSpec => ImplementsMultisig
<1>1. WalletStart => WalletInv
  BY InitInv
<1>2. WalletInv /\ [AnyEtaStep]_walletState => WalletInv'
  BY NextInv
<1>3. WalletStart /\ WalletInv => Abstract!MultisigInit
  BY WalletStartsMultisig
<1>4. WalletInv /\ WalletInv' /\ [AnyEtaStep]_walletState =>
        [Abstract!MultisigNext]_(Abstract!multisigVars)
  BY WalletStepsAsMultisig
<1> QED BY <1>1, <1>2, <1>3, <1>4, PTL DEF AnyEtaSpec, ImplementsMultisig, Abstract!MultisigSpec

\* All of it in the words of SmartWallet's own specification.
THEOREM WalletKeepsItsPromises ==
  WalletSpec => /\ [](WalletTypeOK /\ SignersAreApprovers)
                /\ ExecutionIsAuthorized /\ ExecutedOnce /\ ThresholdStaysBelowOwners
                /\ ImplementsMultisig
<1>1. WalletSpec => AnyEtaSpec
  BY WalletStepsWithAnyEta, PTL DEF WalletSpec, AnyEtaSpec
<1> QED BY <1>1, WalletTypeCorrect, SignersAreAlwaysApprovers, ExecutionAlwaysAuthorized,
           AlwaysExecutedOnce, ThresholdAlwaysBelowOwners, WalletImplementsMultisig, PTL

-----------------------------------------------------------------------------
(* Derived executions are executions *)

\* Instructions for other programs leave the wallet what it was.
LEMMA InvokeAllOfOthers ==
  ASSUME NEW ins, WellFormed(ins), \A i \in DOMAIN ins : ins[i].op = "signed_as"
  PROVE  InvokeAll(ins) = [owners |-> owners, threshold |-> threshold,
                           owner_set_seqno |-> owner_set_seqno, ok |-> TRUE]
<1> DEFINE v == [owners |-> owners, threshold |-> threshold,
                 owner_set_seqno |-> owner_set_seqno, ok |-> TRUE]
<1>1. Len(ins) \in Nat /\ DOMAIN ins = 1..Len(ins)
  BY DEF WellFormed
<1>2. \A w \in {v} : \A i \in 1..Len(ins) : Invoke(w, ins[i]) \in {v}
  BY <1>1 DEF Invoke
<1>3. InvokeAll(ins) \in {v}
  BY <1>1, <1>2, InvokeAllWithin
<1> QED BY <1>3

\* To the wallet, execute_transaction_derived is execute_transaction.
LEMMA DerivedIsExecution ==
  ASSUME WalletInv, NEW x \in Indices, NEW index, NEW bump,
         ExecuteTransactionDerived(x, index, bump)
  PROVE  ExecuteTransaction(x)
<1> DEFINE ins == transactions[x].instructions
           w == InvokeAll(ins)
<1>1. transactions[x] \in Transaction
  BY DEF WalletInv, WalletTypeOK
<1>2. ins \in Instructions \cup {<<>>}
  BY <1>1 DEF Transaction
<1>3. WellFormed(ins)
  <2>1. WellFormed(<<>>)
    BY DEF WellFormed
  <2> HIDE DEF ins
  <2> QED BY <1>2, <2>1, WalletAssumption
<1>4. w = [owners |-> owners, threshold |-> threshold,
           owner_set_seqno |-> owner_set_seqno, ok |-> TRUE]
  BY <1>3, InvokeAllOfOthers DEF ExecuteTransactionDerived
<1>5. w.ok /\ w.owners = owners /\ w.threshold = threshold /\ w.owner_set_seqno = owner_set_seqno
  BY <1>4
<1> HIDE DEF w
<1> QED BY <1>5 DEF ExecuteTransaction, ExecuteTransactionDerived, w

\* Every step is one of the wallet's, or leaves the wallet alone.
LEMMA StepIsWalletStep ==
  WalletInv /\ [SubaccountStep]_subaccountState => [WalletStep]_walletState
<1> SUFFICES ASSUME WalletInv, SubaccountStep PROVE [WalletStep]_walletState
  BY DEF subaccountState
<1>1. CASE Tick /\ UNCHANGED walletVars
  BY <1>1 DEF WalletStep
<1>2. ASSUME UNCHANGED now, NEW x \in Indices, ExecuteAsWallet(x)
      PROVE  WalletStep
  BY <1>2 DEF WalletStep, WalletNext, ExecuteAsWallet
<1>3. ASSUME UNCHANGED now, NEW x \in Indices, NEW index \in SubaccountIndices, NEW bump \in Bumps,
             ExecuteTransactionDerived(x, index, bump)
      PROVE  WalletStep
  <2>1. ExecuteTransaction(x)
    BY <1>3, DerivedIsExecution
  <2> QED BY <1>3, <2>1 DEF WalletStep, WalletNext
<1>4. ASSUME UNCHANGED now, UNCHANGED walletVars PROVE UNCHANGED walletState
  BY <1>4 DEF walletState
<1>5. ASSUME UNCHANGED now, NEW k, NEW index, NEW bump, OwnerInvoke(k, index, bump)
      PROVE  UNCHANGED walletState
  BY <1>4, <1>5 DEF OwnerInvoke
<1>6. ASSUME UNCHANGED now, NEW a, NEW type, NEW index, CreateSubaccountInfo(a, type, index)
      PROVE  UNCHANGED walletState
  BY <1>4, <1>6 DEF CreateSubaccountInfo
<1>7. ASSUME UNCHANGED now,
             \/ \E k \in WalletKeys, instructions \in Instructions, eta \in Etas \cup {NO_ETA} :
                  CreateTransaction(k, instructions, eta)
             \/ \E x \in Indices :
                  \/ \E k \in WalletKeys : Approve(k, x) \/ Unapprove(k, x)
                  \/ RemoveTransaction(x)
      PROVE  WalletStep
  BY <1>7 DEF WalletStep, WalletNext
<1> QED BY <1>1, <1>2, <1>3, <1>5, <1>6, <1>7 DEF SubaccountStep, SubaccountNext

\* The wallet's invariant, with subaccounts too.
LEMMA SubaccountAlwaysWalletInv == SubaccountSpec => []WalletInv
<1>1. SubaccountInit => WalletInv
  BY InitInv DEF SubaccountInit
<1>2. WalletInv /\ [SubaccountStep]_subaccountState => WalletInv'
  BY StepIsWalletStep, WalletStepsWithAnyEta, NextInv
<1> QED BY <1>1, <1>2, PTL DEF SubaccountSpec

\* With subaccounts the program still implements the smart wallet.
THEOREM SubaccountsImplementWallet == SubaccountSpec => ImplementsSmartWallet
<1>1. SubaccountInit => WalletStart
  BY DEF SubaccountInit
<1> QED BY <1>1, StepIsWalletStep, SubaccountAlwaysWalletInv, PTL
       DEF SubaccountSpec, WalletSpec, ImplementsSmartWallet

-----------------------------------------------------------------------------
(* Records of addresses *)

\* A record says of which type its address is, and an address was signed for
\* the way its type demands.
SubaccountInv ==
  /\ \A a \in Addresses : subaccount_info[a].open => subaccount_info[a].type = a.type
  /\ \A act \in acted :
       /\ act.address \in Addresses
       /\ (act.address.type = "Derived") <=> (act.by = ByTransaction)

\* Every step keeps both.
LEMMA NextSubaccountInv ==
  /\ subaccount_info \in [Addresses -> [open : BOOLEAN, type : SubaccountTypes, index : SubaccountIndices \cup {0}]]
  /\ SubaccountInv /\ [SubaccountStep]_subaccountState
  => /\ SubaccountInv'
     /\ subaccount_info' \in [Addresses -> [open : BOOLEAN, type : SubaccountTypes, index : SubaccountIndices \cup {0}]]
<1> DEFINE Infos == [open : BOOLEAN, type : SubaccountTypes, index : SubaccountIndices \cup {0}]
<1> SUFFICES ASSUME subaccount_info \in [Addresses -> Infos], SubaccountInv,
                    [SubaccountStep]_subaccountState
             PROVE  SubaccountInv' /\ subaccount_info' \in [Addresses -> Infos]
  OBVIOUS
<1> DEFINE Goal == SubaccountInv' /\ subaccount_info' \in [Addresses -> Infos]
<1>1. ASSUME UNCHANGED <<subaccount_info, acted>> PROVE Goal
  BY <1>1 DEF SubaccountInv
<1>2. ASSUME NEW x \in Indices, NEW index \in SubaccountIndices, NEW bump \in Bumps,
             ExecuteTransactionDerived(x, index, bump)
      PROVE  Goal
  <2> DEFINE a == Address("Derived", index, bump)
  <2>1. a \in Addresses /\ a.type = "Derived"
    BY DEF Address, Addresses, SubaccountTypes
  <2>2. /\ acted' = acted \cup {[address |-> s, by |-> ByTransaction] : s \in Signers(x)}
        /\ Signers(x) \subseteq {a} /\ UNCHANGED subaccount_info
    BY <1>2 DEF ExecuteTransactionDerived
  <2> HIDE DEF a
  <2> QED BY <2>1, <2>2 DEF SubaccountInv
<1>3. ASSUME NEW k \in WalletKeys, NEW index \in SubaccountIndices, NEW bump \in Bumps,
             OwnerInvoke(k, index, bump)
      PROVE  Goal
  <2> DEFINE a == Address("OwnerInvoker", index, bump)
  <2>1. a \in Addresses /\ a.type = "OwnerInvoker"
    BY DEF Address, Addresses, SubaccountTypes
  <2>2. acted' = acted \cup {[address |-> a, by |-> k]} /\ UNCHANGED subaccount_info
    BY <1>3 DEF OwnerInvoke
  <2>3. k # ByTransaction
    BY SubaccountAssumption
  <2> HIDE DEF a
  <2> QED BY <2>1, <2>2, <2>3 DEF SubaccountInv
<1>4. ASSUME NEW a \in Addresses, NEW type \in SubaccountTypes, NEW index \in SubaccountIndices,
             CreateSubaccountInfo(a, type, index)
      PROVE  Goal
  <2> DEFINE info == [open |-> TRUE, type |-> type, index |-> index]
  <2>1. info \in Infos /\ info.type = type
    OBVIOUS
  <2>2. a.type = type
    BY <1>4 DEF CreateSubaccountInfo, FindAddress, Address
  <2>3. subaccount_info' = [subaccount_info EXCEPT ![a] = info] /\ acted' = acted
    BY <1>4 DEF CreateSubaccountInfo
  <2> HIDE DEF info, Infos
  <2>4. \A b \in Addresses : subaccount_info'[b] = IF b = a THEN info ELSE subaccount_info[b]
    BY <2>3
  <2> QED BY <2>1, <2>2, <2>3, <2>4 DEF SubaccountInv
<1>5. ASSUME UNCHANGED subaccountState PROVE Goal
  BY <1>1, <1>5 DEF subaccountState
<1>6. ASSUME NEW x \in Indices, ExecuteAsWallet(x) PROVE Goal
  BY <1>1, <1>6 DEF ExecuteAsWallet
<1> HIDE DEF Goal
<1>7. Goal
  BY <1>1, <1>2, <1>3, <1>4, <1>5, <1>6 DEF SubaccountStep, SubaccountNext
<1> QED BY <1>7 DEF Goal

\* Whoever recorded an address, its record says how it was and will be signed for.
THEOREM InfoAlwaysTellsWhoSigns == SubaccountSpec => []InfoTellsWhoSigns
<1> DEFINE Infos == [open : BOOLEAN, type : SubaccountTypes, index : SubaccountIndices \cup {0}]
           Inv == subaccount_info \in [Addresses -> Infos] /\ SubaccountInv
<1>1. SubaccountInit => Inv
  BY DEF SubaccountInit, SubaccountInv, NoInfo, SubaccountTypes
<1>2. Inv /\ [SubaccountStep]_subaccountState => Inv'
  BY NextSubaccountInv
<1>3. Inv => InfoTellsWhoSigns
  BY DEF SubaccountInv, InfoTellsWhoSigns
<1> HIDE DEF Inv
<1> QED BY <1>1, <1>2, <1>3, PTL DEF SubaccountSpec

\* Nobody signs for an address but an approved transaction that runs for the
\* first time, or a present owner.
THEOREM ActsAlwaysAuthorized == SubaccountSpec => ActsAreAuthorized
<1> DEFINE Authorized ==
             \A act \in acted' \ acted :
               IF act.by = ByTransaction
               THEN \E x \in Indices :
                      /\ transactions[x].executed_at = -1 /\ transactions'[x].executed_at = now
                      /\ act.address \in Signers(x)
                      /\ Cardinality({k \in approved_by[x] : IsOwner(k)}) >= threshold
               ELSE IsOwner(act.by)
<1>1. WalletInv /\ [SubaccountStep]_subaccountState => [Authorized]_subaccountState
  <2> SUFFICES ASSUME WalletInv, SubaccountStep, NEW act \in acted' \ acted
               PROVE  IF act.by = ByTransaction
                      THEN \E x \in Indices :
                             /\ transactions[x].executed_at = -1 /\ transactions'[x].executed_at = now
                             /\ act.address \in Signers(x)
                             /\ Cardinality({k \in approved_by[x] : IsOwner(k)}) >= threshold
                      ELSE IsOwner(act.by)
    OBVIOUS
  <2>1. ASSUME NEW x \in Indices, NEW index \in SubaccountIndices, NEW bump \in Bumps,
               ExecuteTransactionDerived(x, index, bump)
        PROVE  /\ act.by = ByTransaction /\ act.address \in Signers(x)
               /\ transactions[x].executed_at = -1 /\ transactions'[x].executed_at = now
               /\ Cardinality({k \in approved_by[x] : IsOwner(k)}) >= threshold
    <3>1. act.by = ByTransaction /\ act.address \in Signers(x)
      BY <2>1 DEF ExecuteTransactionDerived
    <3>2. Executable(x) /\ transactions' = [transactions EXCEPT ![x].executed_at = now]
      BY <2>1 DEF ExecuteTransactionDerived
    <3>3. transactions[x].executed_at = -1 /\ transactions'[x].executed_at = now
      BY <3>2 DEF Executable, WalletInv, WalletTypeOK, Transaction
    <3> QED BY <3>1, <3>2, <3>3, ExecutableAuthorized
  <2>2. ASSUME NEW k \in WalletKeys, NEW index \in SubaccountIndices, NEW bump \in Bumps,
               OwnerInvoke(k, index, bump)
        PROVE  act.by # ByTransaction /\ IsOwner(act.by)
    <3>1. act.by = k
      BY <2>2 DEF OwnerInvoke
    <3> QED BY <2>2, <3>1, SubaccountAssumption DEF OwnerInvoke
  <2>3. acted' # acted
    OBVIOUS
  <2>4. \/ \E x \in Indices, index \in SubaccountIndices, bump \in Bumps :
             ExecuteTransactionDerived(x, index, bump)
        \/ \E k \in WalletKeys, index \in SubaccountIndices, bump \in Bumps :
             OwnerInvoke(k, index, bump)
    BY <2>3 DEF SubaccountStep, SubaccountNext, ExecuteAsWallet, CreateSubaccountInfo
  <2> QED BY <2>1, <2>2, <2>4
<1>2. SubaccountSpec => [][Authorized]_subaccountState
  <2> HIDE DEF Authorized
  <2> QED BY <1>1, SubaccountAlwaysWalletInv, PTL DEF SubaccountSpec
<1> QED BY <1>2 DEF ActsAreAuthorized
=============================================================================
