---------------------------- MODULE TxIndexProofs ----------------------------
(***************************************************************************)
(* Proofs about TxIndex, for every tree of blocks and any number of        *)
(* reorganizations and restarts: the block the index says it is in sync    *)
(* with, in memory and on disk, has all its ancestors in the index; a      *)
(* synced index that has been told everything is with the chain; and       *)
(* BlockUntilSyncedToCurrentChain returns true only when the tip its       *)
(* caller saw is indexed.                                                  *)
(*                                                                         *)
(* The last section is about Callbacks, for any number of scheduler        *)
(* threads and of threads that add callbacks: the queue is a SerialQueue,  *)
(* as TxIndex takes it to be, and no callback is left behind.              *)
(***************************************************************************)
EXTENDS TxIndex, FiniteSetTheorems, TLAPS

\* leaves are tried with Zenon unless they ask for SMT
USE Zenon

\* the types the argument needs
IndexTypes ==
  /\ tip \in Blocks /\ flushed \in Blocks
  /\ best \in Blocks /\ pindex \in Blocks
  /\ sync \in {"next", "locate", "write", "done", "stopped"}
  /\ locator \in Blocks \cup {NONE}

\* ThreadSync has written pindex, or is about to and has written its parent; here
\* and below, what is indexed is so but for skipped blocks
SyncIndexed ==
  IF sync \in {"locate", "write"}
  THEN pindex # Genesis /\ IndexedButSkipped(Parent[pindex])
  ELSE IndexedButSkipped(pindex)

IInv == IndexTypes /\ IndexComplete /\ SyncIndexed /\ LocatorIndexed

-----------------------------------------------------------------------------

LEMMA ForkIsCommon ==
  ASSUME NEW a \in Blocks, NEW b \in Blocks
  PROVE  Fork(a, b) \in Path[a] \cap Path[b]
  <1> DEFINE common == Path[a] \cap Path[b]
  <1>1. \E c \in common : common \subseteq Path[c]
    BY TxIndexAssumption, SMT
  <1>2. Fork(a, b) = CHOOSE c \in common : common \subseteq Path[c]
    BY DEF Fork
  <1> HIDE DEF common
  <1>3. Fork(a, b) \in common
    BY <1>1, <1>2
  <1>4. QED
    BY <1>3 DEF common

LEMMA PathInBlocks ==
  ASSUME NEW b \in Blocks
  PROVE  Path[b] \subseteq Blocks
  BY TxIndexAssumption

\* what is indexed stays so while the index grows
LEMMA IndexedGrows ==
  ASSUME NEW b, IndexedButSkipped(b), written \subseteq written', skipped \subseteq skipped'
  PROVE  IndexedButSkipped(b)'
  BY DEF IndexedButSkipped

\* and so are the ancestors of what is indexed
LEMMA AncestorIndexed ==
  ASSUME NEW b \in Blocks, IndexedButSkipped(b), NEW a \in Path[b]
  PROVE  a \in Blocks /\ IndexedButSkipped(a)
  BY TxIndexAssumption DEF IndexedButSkipped

LEMMA GenesisIndexed == IndexedButSkipped(Genesis)
  BY TxIndexAssumption DEF IndexedButSkipped

\* a block is indexed once its parent is and it has been written or skipped
LEMMA ChildIndexed ==
  ASSUME NEW b \in Blocks \ {Genesis}, IndexedButSkipped(Parent[b]),
         written \subseteq written', skipped \subseteq skipped',
         b \in written' \cup skipped'
  PROVE  IndexedButSkipped(b)'
  BY TxIndexAssumption, SMT DEF IndexedButSkipped

\* the invariant where only the blocks of the index have grown
LEMMA GrowthKeepsInv ==
  ASSUME IInv, written \subseteq written', UNCHANGED skipped,
         UNCHANGED <<sync, pindex, locator>>
  PROVE  SyncIndexed' /\ LocatorIndexed'
  BY DEF IInv, SyncIndexed, LocatorIndexed, IndexedButSkipped

LEMMA InitInv ==
  ASSUME Init
  PROVE  IInv
  BY GenesisIndexed, TxIndexAssumption
  DEF Init, IInv, IndexTypes, IndexComplete, SyncIndexed, LocatorIndexed

\* the steps that leave the index alone
LEMMA SameIndexInv ==
  ASSUME IInv, UNCHANGED index, tip' \in Blocks, flushed' \in Blocks
  PROVE  IInv'
  BY DEF index, IInv, IndexTypes, IndexComplete, SyncIndexed, LocatorIndexed, IndexedButSkipped

LEMMA ChangeTipInv ==
  ASSUME IInv, NEW b \in Blocks, ChangeTip(b)
  PROVE  IInv'
  <1>1. flushed' \in Blocks
    <2>1. ASSUME NEW f \in FlushPoints(tip, b)
          PROVE  f[1] \in Blocks
      <3>1. tip \in Blocks
        BY DEF IInv, IndexTypes
      <3>2. \A d \in (Path[tip] \ Path[b]) \cup (Path[b] \ Path[tip]) :
              d \in Blocks \ {Genesis}
        BY <3>1, TxIndexAssumption
      <3>3. QED
        BY <2>1, <3>2, TxIndexAssumption, SMT DEF FlushPoints
    <2>2. QED
      BY <2>1 DEF ChangeTip, IInv, IndexTypes
  <1>2. QED
    BY <1>1, SameIndexInv DEF ChangeTip

LEMMA ThreadSyncInv ==
  ASSUME IInv, ThreadSync \/ Interrupted
  PROVE  IInv'
  <1> USE DEF IInv
  <1>1. CASE NextSyncBlock
    <2>1. PICK b \in Blocks : IsNextSyncBlock(b) /\ pindex' = b
      BY <1>1 DEF NextSyncBlock
    <2>2. Parent[b] \in Path[pindex]
      BY <2>1, ForkIsCommon DEF IsNextSyncBlock, IndexTypes
    <2>3. Parent[b] \in Blocks /\ IndexedButSkipped(Parent[b])
      BY <1>1, <2>2, AncestorIndexed DEF NextSyncBlock, SyncIndexed, IndexTypes
    <2>4. b # Genesis
      BY <2>3, TxIndexAssumption
    <2>5. IndexTypes' /\ IndexComplete'
      BY <1>1, <2>1 DEF NextSyncBlock, IndexTypes, chain, IndexComplete, IndexedButSkipped
    <2>6. SyncIndexed'
      BY <1>1, <2>1, <2>3, <2>4 DEF NextSyncBlock, SyncIndexed, IndexedButSkipped
    <2>7. LocatorIndexed'
      BY <1>1 DEF NextSyncBlock, LocatorIndexed, IndexedButSkipped
    <2>8. QED
      BY <2>5, <2>6, <2>7
  <1>2. CASE CaughtUp
    BY <1>2 DEF CaughtUp, IndexTypes, chain, IndexComplete, SyncIndexed,
                LocatorIndexed, IndexedButSkipped
  <1>3. CASE WriteBestBlock
    BY <1>3 DEF WriteBestBlock, IndexTypes, chain, IndexComplete, SyncIndexed,
                LocatorIndexed, IndexedButSkipped
  <1>4. CASE WriteBlock
    <2>1. IndexedButSkipped(pindex)'
      <3>1. pindex \in Blocks \ {Genesis} /\ IndexedButSkipped(Parent[pindex])
        BY <1>4 DEF WriteBlock, SyncIndexed, IndexTypes
      <3>2. \A b : b = pindex => IndexedButSkipped(b)'
        BY <1>4, <3>1, ChildIndexed DEF WriteBlock
      <3>3. QED
        BY <1>4, <3>2 DEF WriteBlock, IndexedButSkipped
    <2>2. IndexTypes' /\ IndexComplete'
      BY <1>4 DEF WriteBlock, IndexTypes, chain, IndexComplete, IndexedButSkipped
    <2>3. SyncIndexed'
      BY <1>4, <2>1 DEF WriteBlock, SyncIndexed
    <2>4. LocatorIndexed'
      BY <1>4, <2>1 DEF WriteBlock, LocatorIndexed, IndexedButSkipped
    <2>5. QED
      BY <2>2, <2>3, <2>4
  <1>5. CASE Interrupted
    BY <1>5 DEF Interrupted, IndexTypes, chain, IndexComplete, SyncIndexed,
                LocatorIndexed, IndexedButSkipped
  <1>6. QED
    BY <1>1, <1>2, <1>3, <1>4, <1>5 DEF ThreadSync

LEMMA BlockConnectedInv ==
  ASSUME IInv, NEW b \in Blocks, BlockConnected(b)
  PROVE  IInv'
  <1> USE DEF IInv
  <1>1. CASE synced /\ Parent[b] \in Path[best]
    <2>1. Parent[b] \in Blocks /\ IndexedButSkipped(Parent[b])
      BY <1>1, AncestorIndexed DEF IndexTypes, IndexComplete
    <2>2. b # Genesis
      BY <2>1, TxIndexAssumption
    <2>3. IndexComplete'
      <3>1. IndexedButSkipped(b)'
        BY <1>1, <2>1, <2>2, ChildIndexed DEF BlockConnected
      <3>2. QED
        BY <1>1, <3>1 DEF BlockConnected, IndexComplete, IndexedButSkipped
    <2>4. SyncIndexed' /\ LocatorIndexed'
      BY <1>1, GrowthKeepsInv DEF BlockConnected
    <2>5. IndexTypes'
      BY <1>1 DEF BlockConnected, IndexTypes, chain
    <2>6. QED
      BY <2>3, <2>4, <2>5
  <1>2. CASE ~ (synced /\ Parent[b] \in Path[best])
    BY <1>2, SameIndexInv DEF BlockConnected, index, IndexTypes, chain
  <1>3. QED
    BY <1>1, <1>2

LEMMA ChainStateFlushedInv ==
  ASSUME IInv, NEW b \in Blocks, ChainStateFlushed(b)
  PROVE  IInv'
  <1> USE DEF IInv
  <1>1. CASE synced /\ b \in Path[best]
    <2>1. IndexedButSkipped(b)
      BY <1>1, AncestorIndexed DEF IndexTypes, IndexComplete
    <2>2. QED
      BY <1>1, <2>1 DEF ChainStateFlushed, IndexTypes, chain, IndexComplete,
                        SyncIndexed, LocatorIndexed, IndexedButSkipped
  <1>2. CASE ~ (synced /\ b \in Path[best])
    BY <1>2, SameIndexInv DEF ChainStateFlushed, index, IndexTypes, chain
  <1>3. QED
    BY <1>1, <1>2

LEMMA RestartInv ==
  ASSUME IInv, Restart
  PROVE  IInv'
  <1> USE DEF IInv
  <1>1. written' = written /\ skipped \subseteq skipped' /\ locator' = locator
    BY DEF Restart
  <1>2. locator \in Blocks => IndexedButSkipped(locator)'
    <2>1. CASE IndexedButSkipped(locator)
      BY <1>1, <2>1 DEF IndexedButSkipped
    <2>2. CASE sync = "write" /\ locator = pindex /\ IndexedButSkipped(Parent[pindex])
      <3>1. pindex \in Blocks \ {Genesis}
        BY <2>2 DEF SyncIndexed, IndexTypes
      <3>2. pindex \in written' \cup skipped'
        BY <2>2, <1>1 DEF Restart
      <3>3. \A b : b = pindex => IndexedButSkipped(b)'
        BY <1>1, <2>2, <3>1, <3>2, ChildIndexed
      <3>4. QED
        BY <1>1, <2>2, <3>3 DEF IndexedButSkipped
    <2>3. QED
      BY <2>1, <2>2, TxIndexAssumption DEF LocatorIndexed
  <1>3. best' \in Blocks /\ IndexedButSkipped(best)'
    <2>1. CASE locator = NONE
      BY <2>1, GenesisIndexed, TxIndexAssumption DEF Restart, Start, IndexedButSkipped
    <2>2. CASE locator # NONE
      <3>1. locator \in Blocks /\ flushed \in Blocks
        BY <2>2 DEF IndexTypes
      <3>2. best' \in Path[locator]
        BY <2>2, <3>1, ForkIsCommon DEF Restart, Start
      <3>3. best' \in Blocks /\ Path[best'] \subseteq Path[locator]
        BY <3>1, <3>2, TxIndexAssumption
      <3>4. QED
        BY <1>1, <1>2, <3>1, <3>3 DEF IndexedButSkipped
    <2>3. QED
      BY <2>1, <2>2
  <1>4. IndexTypes' /\ IndexComplete' /\ SyncIndexed'
    BY <1>1, <1>3
    DEF Restart, Start, IndexTypes, IndexComplete, SyncIndexed, IndexedButSkipped
  <1>5. LocatorIndexed'
    BY <1>1, <1>2 DEF LocatorIndexed, IndexedButSkipped, IndexTypes
  <1>6. QED
    BY <1>4, <1>5

LEMMA StepInv ==
  ASSUME IInv, [Next]_vars
  PROVE  IInv'
  <1>1. ASSUME \/ FlushStateToDisk \/ Notify \/ LimitQueue \/ BeginCallback
               \/ Ask \/ Drain \/ Drained \/ UNCHANGED vars
               \/ \E p \in Clients : KeepPromise(p)
        PROVE  IInv'
    <2>1. UNCHANGED index
      BY <1>1 DEF FlushStateToDisk, Notify, LimitQueue, BeginCallback, Ask, Drain,
                  Drained, KeepPromise, vars
    <2>2. tip' = tip /\ flushed' \in {flushed, tip}
      BY <1>1 DEF FlushStateToDisk, Notify, LimitQueue, BeginCallback, Ask, Drain,
                  Drained, KeepPromise, vars, chain
    <2>3. QED
      BY <2>1, <2>2, SameIndexInv DEF IInv, IndexTypes
  <1>2. QED
    BY <1>1, ChangeTipInv, ThreadSyncInv, BlockConnectedInv, ChainStateFlushedInv,
       RestartInv
    DEF Next, RunCallback

LEMMA AlwaysInv == Spec => []IInv
  BY InitInv, StepInv, PTL DEF Spec

-----------------------------------------------------------------------------

\* m_best_block_index: the index has all blocks up to it, but for those that a
\* killed ThreadSync had named and not written
THEOREM AlwaysIndexComplete == Spec => []IndexComplete
  <1>1. IInv => IndexComplete
    BY DEF IInv
  <1>2. QED
    BY <1>1, AlwaysInv, PTL

\* DB_BEST_BLOCK: a start from it leaves no hole but the one of a killed ThreadSync
THEOREM AlwaysLocatorIndexed == Spec => []LocatorIndexed
  <1>1. IInv => LocatorIndexed
    BY DEF IInv
  <1>2. QED
    BY <1>1, AlwaysInv, PTL

-----------------------------------------------------------------------------
(* The notifications of one change of the chain.                           *)

Branch(a, b) == Path[b] \ Path[a]
Rank(a, b, x) == Cardinality(Path[x] \cap Branch(a, b))

LEMMA OwnPath ==
  ASSUME NEW b \in Blocks
  PROVE  b \in Path[b]
  <1>1. CASE b = Genesis
    BY <1>1, TxIndexAssumption
  <1>2. CASE b # Genesis
    <2>1. Path[b] = Path[Parent[b]] \cup {b}
      BY <1>2, TxIndexAssumption
    <2>2. QED
      BY <2>1
  <1>3. QED
    BY <1>1, <1>2

LEMMA BranchParent ==
  ASSUME NEW a \in Blocks, NEW b \in Blocks, NEW x \in Branch(a, b)
  PROVE  /\ x \in Blocks \ {Genesis} /\ x \in Path[x]
         /\ Parent[x] \in Blocks /\ Parent[x] \in Path[b]
         /\ Path[x] = Path[Parent[x]] \cup {x} /\ x \notin Path[Parent[x]]
         /\ Path[x] \subseteq Path[b]
  <1>1. x \in Blocks \ {Genesis}
    BY TxIndexAssumption, SMT DEF Branch
  <1>2. Parent[x] \in Blocks /\ Path[x] = Path[Parent[x]] \cup {x} /\ x \notin Path[Parent[x]]
    BY <1>1, TxIndexAssumption
  <1>3. Path[x] \subseteq Path[b]
    BY TxIndexAssumption DEF Branch
  <1>4. Parent[x] \in Path[Parent[x]]
    BY <1>2, OwnPath
  <1>5. QED
    BY <1>1, <1>2, <1>3, <1>4

LEMMA BranchFinite ==
  ASSUME NEW a \in Blocks, NEW b \in Blocks
  PROVE  /\ IsFiniteSet(Branch(a, b)) /\ Cardinality(Branch(a, b)) \in Nat
         /\ \A x : /\ IsFiniteSet(Path[x] \cap Branch(a, b))
                   /\ Rank(a, b, x) \in Nat /\ Rank(a, b, x) <= Cardinality(Branch(a, b))
  <1>1. IsFiniteSet(Path[b])
    BY TxIndexAssumption
  <1>2. IsFiniteSet(Branch(a, b))
    BY <1>1, FS_Subset DEF Branch
  <1>3. ASSUME NEW x
        PROVE  /\ IsFiniteSet(Path[x] \cap Branch(a, b))
               /\ Rank(a, b, x) \in Nat /\ Rank(a, b, x) <= Cardinality(Branch(a, b))
    <2>1. Path[x] \cap Branch(a, b) \subseteq Branch(a, b)
      OBVIOUS
    <2>2. QED
      BY <1>2, <2>1, FS_Subset, FS_CardinalityType DEF Rank
  <1>4. QED
    BY <1>2, <1>3, FS_CardinalityType

\* the first block of the branch, and the step from a block to its parent
LEMMA RankOfParent ==
  ASSUME NEW a \in Blocks, NEW b \in Blocks, NEW x \in Branch(a, b)
  PROVE  /\ Parent[x] \in Path[a] => Rank(a, b, x) = 1
         /\ Parent[x] \notin Path[a] =>
              Parent[x] \in Branch(a, b) /\ Rank(a, b, x) = Rank(a, b, Parent[x]) + 1
  <1>1. CASE Parent[x] \in Path[a]
    <2>1. Path[Parent[x]] \subseteq Path[a]
      BY <1>1, TxIndexAssumption
    <2>2. Path[x] \cap Branch(a, b) = {x}
      BY <2>1, BranchParent, SMT DEF Branch
    <2>3. QED
      BY <1>1, <2>2, FS_Singleton DEF Rank
  <1>2. CASE Parent[x] \notin Path[a]
    <2>1. Parent[x] \in Branch(a, b)
      BY <1>2, BranchParent DEF Branch
    <2>2. Path[x] \cap Branch(a, b) = (Path[Parent[x]] \cap Branch(a, b)) \cup {x}
      BY BranchParent, SMT
    <2>3. x \notin Path[Parent[x]] \cap Branch(a, b)
      BY BranchParent
    <2>4. IsFiniteSet(Path[Parent[x]] \cap Branch(a, b))
      BY BranchFinite
    <2>5. QED
      BY <1>2, <2>1, <2>2, <2>3, <2>4, FS_AddElement DEF Rank
  <1>3. QED
    BY <1>1, <1>2

LEMMA RankInjective ==
  ASSUME NEW a \in Blocks, NEW b \in Blocks,
         NEW x \in Branch(a, b), NEW y \in Branch(a, b),
         Rank(a, b, x) = Rank(a, b, y)
  PROVE  x = y
  <1>1. ASSUME NEW u \in Branch(a, b), NEW v \in Branch(a, b),
               Rank(a, b, u) = Rank(a, b, v), u \in Path[v]
        PROVE  u = v
    <2>1. Path[u] \subseteq Path[v]
      BY <1>1, BranchParent, TxIndexAssumption, SMT
    <2>2. Path[u] \cap Branch(a, b) \subseteq Path[v] \cap Branch(a, b)
      BY <2>1
    <2>3. Path[u] \cap Branch(a, b) = Path[v] \cap Branch(a, b)
      BY <1>1, <2>2, BranchFinite, FS_Subset DEF Rank
    <2>4. v \in Path[u]
      BY <2>3, BranchParent
    <2>5. QED
      BY <1>1, <2>4, BranchParent, TxIndexAssumption, ZenonT(30)
  <1>2. x \in Path[y] \/ y \in Path[x]
    BY TxIndexAssumption DEF Branch
  <1>3. QED
    BY <1>1, <1>2

\* b itself comes last
LEMMA RankOfLast ==
  ASSUME NEW a \in Blocks, NEW b \in Blocks, NEW x \in Branch(a, b)
  PROVE  /\ b \in Branch(a, b) /\ Rank(a, b, b) = Cardinality(Branch(a, b))
         /\ Rank(a, b, x) \in 1 .. Cardinality(Branch(a, b))
  <1>1. b \in Path[b]
    BY OwnPath
  <1>2. b \in Branch(a, b)
    <2>1. b \in Path[a] => Path[b] \subseteq Path[a]
      BY TxIndexAssumption
    <2>2. QED
      BY <1>1, <2>1 DEF Branch
  <1>3. Path[b] \cap Branch(a, b) = Branch(a, b)
    BY DEF Branch
  <1>4. Rank(a, b, b) = Cardinality(Branch(a, b))
    BY <1>3 DEF Rank
  <1>5. Rank(a, b, x) # 0
    <2>1. x \in Path[x] \cap Branch(a, b)
      BY BranchParent
    <2>2. IsFiniteSet(Path[x] \cap Branch(a, b))
      BY BranchFinite
    <2>3. QED
      BY <2>1, <2>2, FS_EmptySet DEF Rank
  <1>6. /\ Rank(a, b, x) \in Nat /\ Cardinality(Branch(a, b)) \in Nat
        /\ Rank(a, b, x) <= Cardinality(Branch(a, b))
    BY BranchFinite
  <1>7. QED
    BY <1>2, <1>4, <1>5, <1>6, SMT

\* a set of numbers has a least one
LEMMA LeastNumber ==
  ASSUME NEW N \in SUBSET Nat, N # {}
  PROVE  \E n \in N : \A m \in N : n <= m
  <1>1. PICK n \in N : \A m \in N : ~ (<<m, n>> \in OpToRel(<, Nat))
    BY NatLessThanWellFounded, WFMin
  <1>2. ASSUME NEW m \in N PROVE n <= m
    <2>1. <<m, n>> \in Nat \X Nat /\ ~ (m < n)
      BY <1>1 DEF OpToRel
    <2>2. QED
      BY <2>1, SMT
  <1>3. QED
    BY <1>2

\* every place of the notifications has its block
LEMMA RankOnto ==
  ASSUME NEW a \in Blocks, NEW b \in Blocks,
         NEW i \in 1 .. Cardinality(Branch(a, b))
  PROVE  \E x \in Branch(a, b) : Rank(a, b, x) = i
  <1> DEFINE n == Cardinality(Branch(a, b))
             Taken(k) == \E x \in Branch(a, b) : Rank(a, b, x) = k
             Gaps == {m \in Nat : m < n /\ ~ Taken(n - m)}
  <1>1. n \in Nat /\ Branch(a, b) # {}
    BY BranchFinite, FS_EmptySet, SMT
  <1>2. SUFFICES ASSUME ~ Taken(i)
                 PROVE  FALSE
    OBVIOUS
  <1> HIDE DEF n
  <1>3. n - i \in Gaps
    <2>1. n - i \in Nat /\ n - i < n /\ n - (n - i) = i
      BY <1>1, SMT DEF n
    <2>2. QED
      BY <1>2, <2>1
  <1>4. PICK m \in Gaps : \A k \in Gaps : m <= k
    <2>1. Gaps \subseteq Nat /\ Gaps # {}
      BY <1>3
    <2> HIDE DEF Gaps
    <2>2. QED
      BY <2>1, LeastNumber
  <1>5. m # 0
    BY <1>1, <1>4, RankOfLast, SMT DEF n
  <1>6. m \in Nat /\ m - 1 \in Nat /\ m - 1 < n /\ m - 1 \notin Gaps
    BY <1>1, <1>4, <1>5, SMT
  <1>7. PICK x \in Branch(a, b) : Rank(a, b, x) = n - (m - 1)
    BY <1>6
  <1>8. Rank(a, b, x) # 1 /\ Rank(a, b, x) \in Nat
    BY <1>1, <1>4, <1>6, <1>7, SMT
  <1>9. Parent[x] \in Branch(a, b) /\ Rank(a, b, x) = Rank(a, b, Parent[x]) + 1
    BY <1>8, RankOfParent
  <1>10. Rank(a, b, Parent[x]) \in Nat
    BY BranchFinite
  <1>11. Rank(a, b, Parent[x]) = n - m
    BY <1>1, <1>6, <1>7, <1>9, <1>10, SMT
  <1>12. QED
    BY <1>4, <1>9, <1>11

LEMMA ConnectedAt ==
  ASSUME NEW a \in Blocks, NEW b \in Blocks
  PROVE  /\ Connected(a, b) \in Seq(Callback)
         /\ Len(Connected(a, b)) = Cardinality(Branch(a, b))
         /\ \A i \in 1 .. Cardinality(Branch(a, b)) : \E x \in Branch(a, b) :
              Connected(a, b)[i] = <<"connected", x>> /\ Rank(a, b, x) = i
  <1> DEFINE n == Cardinality(Branch(a, b))
             At(i) == CHOOSE x \in Branch(a, b) : Rank(a, b, x) = i
  <1>1. Connected(a, b) = [i \in 1 .. n |-> <<"connected", At(i)>>]
    BY DEF Connected, Branch, Rank
  <1>2. n \in Nat
    BY BranchFinite
  <1>3. ASSUME NEW i \in 1 .. n
        PROVE  At(i) \in Branch(a, b) /\ Rank(a, b, At(i)) = i
    <2>1. \E x \in Branch(a, b) : Rank(a, b, x) = i
      BY RankOnto, ZenonT(30)
    <2>2. QED
      BY <2>1
  <1> HIDE DEF At
  <1>4. \A i \in 1 .. n : <<"connected", At(i)>> \in Callback
    BY <1>3, BranchParent DEF Callback
  <1>5. Connected(a, b) \in Seq(Callback) /\ Len(Connected(a, b)) = n
    BY <1>1, <1>2, <1>4, SMT
  <1>6. QED
    BY <1>1, <1>3, <1>5

\* a change of the chain tells of a block that connects to the old tip or an
\* ancestor of it, and after each block of its child, up to the new tip
LEMMA ConnectedFeeds ==
  ASSUME NEW a \in Blocks, NEW b \in Blocks
  PROVE  LET s == Connected(a, b) IN
         /\ s \in Seq(Callback)
         /\ \A i \in 1 .. Len(s) : \E x \in Blocks : s[i] = <<"connected", x>>
         /\ \/ b \in Path[a]
            \/ Len(s) >= 1 /\ \E x \in Branch(a, b) : s[1] = <<"connected", x>> /\ Parent[x] \in Path[a]
         /\ \A i \in 1 .. Len(s), x \in Blocks : s[i] = <<"connected", x>> =>
              \/ x = b
              \/ i + 1 <= Len(s) /\ \E y \in Blocks : s[i + 1] = <<"connected", y>> /\ Parent[y] = x
  <1> DEFINE s == Connected(a, b)
             n == Cardinality(Branch(a, b))
  <1>1. /\ s \in Seq(Callback) /\ Len(s) = n /\ n \in Nat
        /\ \A i \in 1 .. n : \E x \in Branch(a, b) : s[i] = <<"connected", x>> /\ Rank(a, b, x) = i
    BY ConnectedAt, BranchFinite
  <1> HIDE DEF s
  <1>2. Branch(a, b) \subseteq Blocks
    BY BranchParent
  <1>3. \/ b \in Path[a]
        \/ Len(s) >= 1 /\ \E x \in Branch(a, b) : s[1] = <<"connected", x>> /\ Parent[x] \in Path[a]
    <2>1. SUFFICES ASSUME b \notin Path[a]
                   PROVE  Len(s) >= 1 /\ \E x \in Branch(a, b) : s[1] = <<"connected", x>> /\ Parent[x] \in Path[a]
      OBVIOUS
    <2>2. b \in Branch(a, b)
      BY <2>1, OwnPath DEF Branch
    <2>3. 1 \in 1 .. n
      BY <1>1, <2>2, RankOfLast, SMT
    <2> HIDE DEF n
    <2>4. PICK x \in Branch(a, b) : s[1] = <<"connected", x>> /\ Rank(a, b, x) = 1
      BY <1>1, <2>3
    <2>5. Parent[x] \in Path[a]
      <3>1. SUFFICES ASSUME Parent[x] \notin Path[a]
                     PROVE  FALSE
        OBVIOUS
      <3>2. Parent[x] \in Branch(a, b) /\ 1 = Rank(a, b, Parent[x]) + 1
        BY <2>4, <3>1, RankOfParent
      <3>3. Rank(a, b, Parent[x]) \in 1 .. n
        BY <3>2, RankOfLast DEF n
      <3>4. QED
        BY <1>1, <3>2, <3>3, SMT
    <2>6. QED
      BY <1>1, <1>2, <2>3, <2>4, <2>5, SMT
  <1>4. ASSUME NEW i \in 1 .. Len(s), NEW x \in Blocks, s[i] = <<"connected", x>>
        PROVE  \/ x = b
               \/ i + 1 <= Len(s) /\ \E y \in Blocks : s[i + 1] = <<"connected", y>> /\ Parent[y] = x
    <2> HIDE DEF n
    <2>1. x \in Branch(a, b) /\ Rank(a, b, x) = i
      <3>1. PICK z \in Branch(a, b) : s[i] = <<"connected", z>> /\ Rank(a, b, z) = i
        BY <1>1
      <3>2. x = z
        BY <1>4, <3>1, SMT
      <3>3. QED
        BY <3>1, <3>2
    <2>2. CASE i = n
      <3>1. b \in Branch(a, b) /\ Rank(a, b, b) = n
        BY <2>1, RankOfLast DEF n
      <3>2. QED
        BY <2>1, <2>2, <3>1, RankInjective
    <2>3. CASE i # n
      <3>1. i + 1 \in 1 .. n /\ i \in Nat /\ i >= 1
        BY <1>1, <2>3, SMT
      <3>2. PICK y \in Branch(a, b) : s[i + 1] = <<"connected", y>> /\ Rank(a, b, y) = i + 1
        BY <1>1, <3>1
      <3>3. Parent[y] \in Branch(a, b) /\ Rank(a, b, y) = Rank(a, b, Parent[y]) + 1
        BY <3>1, <3>2, RankOfParent, SMT
      <3>4. Rank(a, b, Parent[y]) \in Nat
        BY BranchFinite
      <3>5. Rank(a, b, Parent[y]) = i
        BY <3>1, <3>2, <3>3, <3>4, SMT
      <3>6. Parent[y] = x
        BY <2>1, <3>3, <3>5, RankInjective
      <3>7. QED
        BY <1>1, <1>2, <3>1, <3>2, <3>6, SMT
    <2>4. QED
      BY <2>2, <2>3
  <1>5. QED
    BY <1>1, <1>2, <1>3, <1>4 DEF s

\* below a block of a chain is another of that chain, unless it is the tip
LEMMA NextOnPath ==
  ASSUME NEW b \in Blocks, NEW a \in Path[b], a # b
  PROVE  \E d \in Path[b] : d \in Blocks /\ Parent[d] = a
  <1>1. a \in Blocks /\ b \notin Path[a]
    BY TxIndexAssumption
  <1>2. PICK d \in Branch(a, b) : Parent[d] \in Path[a]
    BY <1>1, ConnectedFeeds
  <1>3. a \in Path[d]
    BY <1>1, TxIndexAssumption DEF Branch
  <1>4. a # d
    BY <1>1, OwnPath DEF Branch
  <1>5. a \in Path[Parent[d]]
    BY <1>1, <1>3, <1>4, BranchParent, SMT
  <1>6. Parent[d] = a
    BY <1>1, <1>2, <1>5, BranchParent, TxIndexAssumption, SMT
  <1>7. QED
    BY <1>1, <1>6, BranchParent DEF Branch

\* where ThreadSync finds no further block, its block has the whole chain below it
LEMMA NothingNext ==
  ASSUME tip \in Blocks, pindex \in Blocks, \A b \in Blocks : ~ IsNextSyncBlock(b)
  PROVE  tip \in Path[pindex]
  <1>1. Fork(pindex, tip) \in Path[pindex] \cap Path[tip]
    BY ForkIsCommon
  <1>2. CASE Fork(pindex, tip) = tip
    BY <1>1, <1>2
  <1>3. CASE Fork(pindex, tip) # tip
    <2>1. PICK d \in Path[tip] : d \in Blocks /\ Parent[d] = Fork(pindex, tip)
      BY <1>1, <1>3, NextOnPath
    <2>2. QED
      BY <2>1 DEF IsNextSyncBlock
  <1>4. QED
    BY <1>2, <1>3

-----------------------------------------------------------------------------
(* What is still to be told.                                               *)

\* s tells, between places i and k, of a block that connects to b or an ancestor
After(s, i, k, b) ==
  \E j \in i + 1 .. k : \E c \in Blocks :
    s[j] = <<"connected", c>> /\ Parent[c] \in Path[b]

\* t is s with one callback more, or without its first
Extended(s, e, t) ==
  /\ Len(t) = Len(s) + 1 /\ t[Len(s) + 1] = e
  /\ \A i \in 1 .. Len(s) : t[i] = s[i]
Dropped(s, t) == Len(s) = Len(t) + 1 /\ \A i \in 1 .. Len(t) : t[i] = s[i + 1]

LEMMA AppendExtended ==
  ASSUME NEW s \in Seq(Callback), NEW e \in Callback
  PROVE  Append(s, e) \in Seq(Callback) /\ Extended(s, e, Append(s, e))
  BY SMT DEF Extended

LEMMA TailDropped ==
  ASSUME NEW s \in Seq(Callback), s # <<>>
  PROVE  /\ Tail(s) \in Seq(Callback) /\ Dropped(s, Tail(s))
         /\ Head(s) = s[1] /\ Head(s) \in Callback
  BY SMT DEF Dropped

LEMMA AfterExtended ==
  ASSUME NEW s \in Seq(Callback), NEW e, NEW t \in Seq(Callback), Extended(s, e, t),
         NEW i \in Nat, NEW k \in 0 .. Len(s), NEW m \in k .. Len(t),
         NEW b, After(s, i, k, b)
  PROVE  After(t, i, m, b)
  <1>1. PICK j \in i + 1 .. k :
          \E c \in Blocks : s[j] = <<"connected", c>> /\ Parent[c] \in Path[b]
    BY DEF After
  <1>2. j \in i + 1 .. m /\ j \in 1 .. Len(s)
    BY SMT DEF Extended
  <1>3. t[j] = s[j]
    BY <1>2 DEF Extended
  <1>4. QED
    BY <1>1, <1>2, <1>3 DEF After

LEMMA AfterDropped ==
  ASSUME NEW s \in Seq(Callback), NEW t \in Seq(Callback), Dropped(s, t),
         NEW i \in Nat, NEW k \in 0 .. Len(s), NEW b, After(s, i + 1, k, b)
  PROVE  k - 1 \in 0 .. Len(t) /\ After(t, i, k - 1, b)
  <1>1. PICK j \in (i + 1) + 1 .. k :
          \E c \in Blocks : s[j] = <<"connected", c>> /\ Parent[c] \in Path[b]
    BY DEF After
  <1>2. j - 1 \in i + 1 .. k - 1 /\ j - 1 \in 1 .. Len(t) /\ k - 1 \in 0 .. Len(t)
    BY SMT DEF Dropped
  <1>3. t[j - 1] = s[(j - 1) + 1] /\ (j - 1) + 1 = j
    BY <1>2, SMT DEF Dropped
  <1>4. QED
    BY <1>1, <1>2, <1>3 DEF After

LEMMA AfterFirst ==
  ASSUME NEW s \in Seq(Callback), NEW k \in 0 .. Len(s), NEW b, After(s, 0, k, b)
  PROVE  \/ \E c \in Blocks : s[1] = <<"connected", c>> /\ Parent[c] \in Path[b]
         \/ After(s, 0 + 1, k, b)
  <1>1. PICK j \in 1 .. k :
          \E c \in Blocks : s[j] = <<"connected", c>> /\ Parent[c] \in Path[b]
    BY SMT DEF After
  <1>2. CASE j = 1
    BY <1>1, <1>2
  <1>3. CASE j # 1
    <2>1. j \in (0 + 1) + 1 .. k
      BY <1>3, SMT
    <2>2. QED
      BY <1>1, <2>1 DEF After
  <1>4. QED
    BY <1>2, <1>3

\* the callback that runs tells of such a block
Running(b) ==
  \E c \in Blocks : <<"connected", c>> \in busy /\ Parent[c] \in Path[b]

\* an index at b is with the chain, or is told of more once the queue is empty
Follows(b) == tip \in Path[b] \/ After(todo, 0, Len(todo), b)

FeedTypes ==
  /\ queue \in Seq(Callback) /\ todo \in Seq(Callback) /\ busy \in SUBSET Callback

\* whichever block is connected, another that connects to it or to an ancestor
\* comes later, unless the tip is at or below it
Orderly ==
  /\ \A b \in Blocks : <<"connected", b>> \in busy =>
       Follows(b) \/ After(queue, 0, Len(queue), b)
  /\ \A i \in 1 .. Len(queue), b \in Blocks : queue[i] = <<"connected", b>> =>
       Follows(b) \/ After(queue, i, Len(queue), b)
  /\ \A i \in 1 .. Len(todo), b \in Blocks : todo[i] = <<"connected", b>> =>
       tip \in Path[b] \/ After(todo, i, Len(todo), b)

\* the same of the block the index is at
WillFollow ==
  synced => Follows(best) \/ After(queue, 0, Len(queue), best) \/ Running(best)

Fed == FeedTypes /\ Orderly /\ WillFollow

LEMMA InitFed ==
  ASSUME Init
  PROVE  Fed
  <1>1. queue = <<>> /\ busy = {} /\ todo = <<>> /\ synced => tip \in Path[best]
    BY TxIndexAssumption DEF Init, Queue!Init
  <1>2. queue = <<>> /\ busy = {} /\ todo = <<>>
    BY DEF Init, Queue!Init
  <1>3. FeedTypes
    BY <1>2, SMT DEF FeedTypes
  <1>4. QED
    BY <1>1, <1>2, <1>3, SMT DEF Fed, Orderly, WillFollow, Follows

\* the steps that leave the queue and what is known of the chain alone
LEMMA SameQueueFed ==
  ASSUME Fed, UNCHANGED <<queue, busy, synced, best>>, todo' \in Seq(Callback),
         \A x \in Blocks : Follows(x) => Follows(x)',
         \A i \in 1 .. Len(todo'), x \in Blocks : todo'[i] = <<"connected", x>> =>
           tip' \in Path[x] \/ After(todo', i, Len(todo'), x),
         best \in Blocks
  PROVE  Fed'
  <1>1. FeedTypes'
    BY DEF Fed, FeedTypes
  <1>2. Orderly'
    BY DEF Fed, Orderly
  <1>3. WillFollow'
    BY DEF Fed, WillFollow, Running
  <1>4. QED
    BY <1>1, <1>2, <1>3 DEF Fed

LEMMA ChangeTipFed ==
  ASSUME IInv, Fed, NEW b \in Blocks, ChangeTip(b)
  PROVE  Fed'
  <1> DEFINE s == Connected(tip, b)
  <1>0. tip \in Blocks /\ best \in Blocks /\ tip' = b /\ todo = <<>>
    BY DEF IInv, IndexTypes, ChangeTip, ValidationIdle, CsMainFree
  <1>1. /\ s \in Seq(Callback)
        /\ \/ b \in Path[tip]
           \/ Len(s) >= 1 /\ \E x \in Branch(tip, b) : s[1] = <<"connected", x>> /\ Parent[x] \in Path[tip]
        /\ \A i \in 1 .. Len(s), x \in Blocks : s[i] = <<"connected", x>> =>
             \/ x = b
             \/ i + 1 <= Len(s) /\ \E y \in Blocks : s[i + 1] = <<"connected", y>> /\ Parent[y] = x
    BY <1>0, ConnectedFeeds, ZenonT(30)
  <1>6. Branch(tip, b) \subseteq Blocks
    BY <1>0, BranchParent
  <1>2. PICK o \in {0, 1} :
          /\ todo' \in Seq(Callback) /\ Len(todo') = Len(s) + o
          /\ \A i \in 1 .. Len(s) : todo'[i + o] = s[i]
          /\ \A i \in 1 .. o, x \in Blocks : todo'[i] # <<"connected", x>>
    <2>1. CASE todo' = s
      <3> HIDE DEF s
      <3>1. Len(todo') = Len(s) + 0 /\ \A i \in 1 .. Len(s) : todo'[i + 0] = s[i]
        BY <1>1, <2>1, SMT
      <3>2. 1 .. 0 = {}
        BY SMT
      <3>3. QED
        BY <1>1, <2>1, <3>1, <3>2
    <2>2. CASE \E f \in FlushPoints(tip, b) : todo' = <<<<"flushed", f[2]>>>> \o s
      <3>1. PICK f \in FlushPoints(tip, b) : todo' = <<<<"flushed", f[2]>>>> \o s
        BY <2>2
      <3>2. f[2] \in Blocks
        <4>1. \A d \in (Path[tip] \ Path[b]) \cup (Path[b] \ Path[tip]) :
                d \in Blocks /\ Parent[d] \in Blocks
          BY <1>0, BranchParent, ZenonT(30) DEF Branch
        <4>2. QED
          BY <4>1, SMT DEF FlushPoints
      <3> HIDE DEF s
      <3>3. <<"flushed", f[2]>> \in Callback
        BY <3>2 DEF Callback
      <3> DEFINE e == <<"flushed", f[2]>>
      <3>4. \A x : e # <<"connected", x>>
        OBVIOUS
      <3> HIDE DEF e
      <3>5. /\ <<e>> \o s \in Seq(Callback) /\ Len(<<e>> \o s) = Len(s) + 1
            /\ \A i \in 1 .. Len(s) : (<<e>> \o s)[i + 1] = s[i]
            /\ (<<e>> \o s)[1] = e
        BY <1>1, <3>3, SMT DEF e
      <3>6. todo' = <<e>> \o s
        BY <3>1 DEF e
      <3>7. QED
        BY <3>4, <3>5, <3>6, SMT
    <2>3. QED
      BY <2>1, <2>2 DEF ChangeTip
  <1> HIDE DEF s
  <1>3. ASSUME NEW x \in Blocks, Follows(x)
        PROVE  Follows(x)'
    <2>1. tip \in Path[x]
      BY <1>0, <1>3, SMT DEF Follows, After
    <2>2. Path[tip] \subseteq Path[x]
      BY <2>1, TxIndexAssumption
    <2>3. CASE b \in Path[tip]
      BY <1>0, <2>2, <2>3 DEF Follows
    <2>4. CASE Len(s) >= 1 /\ \E y \in Branch(tip, b) : s[1] = <<"connected", y>> /\ Parent[y] \in Path[tip]
      <3>1. PICK y \in Branch(tip, b) : s[1] = <<"connected", y>> /\ Parent[y] \in Path[tip]
        BY <2>4
      <3>2. 1 + o \in 0 + 1 .. Len(todo') /\ todo'[1 + o] = s[1]
        BY <1>1, <1>2, <2>4, SMT
      <3>3. QED
        BY <1>6, <2>2, <3>1, <3>2 DEF Follows, After
    <2>5. QED
      BY <1>1, <2>3, <2>4
  <1>4. ASSUME NEW i \in 1 .. Len(todo'), NEW x \in Blocks, todo'[i] = <<"connected", x>>
        PROVE  tip' \in Path[x] \/ After(todo', i, Len(todo'), x)
    <2>1. i - o \in 1 .. Len(s) /\ s[i - o] = <<"connected", x>>
      <3>1. i \notin 1 .. o
        BY <1>2, <1>4
      <3>2. i - o \in 1 .. Len(s) /\ (i - o) + o = i
        BY <1>1, <1>2, <3>1, SMT
      <3>3. QED
        BY <1>2, <1>4, <3>2
    <2>2. CASE x = b
      BY <1>0, <2>2, OwnPath
    <2>3. CASE x # b
      <3>1. PICK y \in Blocks : s[(i - o) + 1] = <<"connected", y>> /\ Parent[y] = x
        BY <1>1, <2>1, <2>3
      <3>2. (i - o) + 1 \in 1 .. Len(s) /\ ((i - o) + 1) + o = i + 1
        BY <1>1, <1>2, <2>1, <2>3, SMT
      <3>3. i + 1 \in i + 1 .. Len(todo') /\ todo'[i + 1] = s[(i - o) + 1]
        BY <1>1, <1>2, <3>2, SMT
      <3>4. Parent[y] \in Path[x]
        BY <3>1, OwnPath
      <3>5. QED
        BY <3>1, <3>3, <3>4 DEF After
    <2>4. QED
      BY <2>2, <2>3
  <1>5. QED
    BY <1>0, <1>2, <1>3, <1>4, SameQueueFed DEF ChangeTip, callbackVars, index

\* a thread adds a promise, or the validation thread its next notification
LEMMA AddFed ==
  ASSUME IInv, Fed, NEW e \in Callback,
         queue' \in Seq(Callback), Extended(queue, e, queue'), todo' \in Seq(Callback),
         UNCHANGED <<busy, tip, synced, best>>,
         \/ UNCHANGED todo /\ \A x : e # <<"connected", x>>
         \/ Dropped(todo, todo') /\ e = todo[1]
  PROVE  Fed'
  <1>1. /\ best \in Blocks /\ queue \in Seq(Callback) /\ todo \in Seq(Callback)
        /\ Len(queue) \in Nat /\ Len(todo) \in Nat /\ Len(todo') \in Nat
    BY SMT DEF IInv, IndexTypes, Fed, FeedTypes
  <1>2. Len(queue') = Len(queue) + 1 /\ queue'[Len(queue) + 1] = e
    BY DEF Extended
  <1>3. \A i \in 1 .. Len(queue) : queue'[i] = queue[i]
    BY DEF Extended
  <1>4. ASSUME NEW x \in Blocks, NEW i \in 0 .. Len(queue), After(queue, i, Len(queue), x)
        PROVE  After(queue', i, Len(queue'), x)
    <2>1. /\ i \in Nat /\ Len(queue) \in 0 .. Len(queue)
          /\ Len(queue') \in Len(queue) .. Len(queue')
      BY <1>1, <1>2, SMT
    <2>2. QED
      BY <1>1, <1>4, <2>1, AfterExtended
  <1>5. ASSUME NEW x, After(todo, 0 + 1, Len(todo), x), Dropped(todo, todo')
        PROVE  After(todo', 0, Len(todo'), x)
    <2>1. Len(todo) - 1 = Len(todo') /\ Len(todo) \in 0 .. Len(todo)
      BY <1>1, <1>5, SMT DEF Dropped
    <2>2. After(todo', 0, Len(todo) - 1, x)
      BY <1>1, <1>5, <2>1, AfterDropped
    <2>3. QED
      BY <2>1, <2>2
  <1>6. ASSUME NEW x \in Blocks, NEW i \in 0 .. Len(queue), Follows(x)
        PROVE  Follows(x)' \/ After(queue', i, Len(queue'), x)
    <2>1. CASE tip \in Path[x] \/ UNCHANGED todo
      BY <1>6, <2>1 DEF Follows
    <2>2. CASE After(todo, 0, Len(todo), x) /\ Dropped(todo, todo') /\ e = todo[1]
      <3>1. CASE After(todo, 0 + 1, Len(todo), x)
        BY <1>5, <2>2, <3>1 DEF Follows
      <3>2. CASE \E c \in Blocks : todo[1] = <<"connected", c>> /\ Parent[c] \in Path[x]
        <4>1. Len(queue) + 1 \in i + 1 .. Len(queue')
          BY <1>1, <1>2, SMT
        <4>2. QED
          BY <1>2, <2>2, <3>2, <4>1 DEF After
      <3>3. Len(todo) \in 0 .. Len(todo)
        BY <1>1, SMT
      <3>4. QED
        BY <1>1, <2>2, <3>1, <3>2, <3>3, AfterFirst
    <2>3. QED
      BY <1>6, <2>1, <2>2 DEF Follows
  <1>7. ASSUME NEW b \in Blocks, <<"connected", b>> \in busy'
        PROVE  Follows(b)' \/ After(queue', 0, Len(queue'), b)
    <2>1. Follows(b) \/ After(queue, 0, Len(queue), b)
      BY <1>7 DEF Fed, Orderly
    <2>2. 0 \in 0 .. Len(queue)
      BY <1>1, SMT
    <2>3. QED
      BY <1>4, <1>6, <2>1, <2>2
  <1>8. ASSUME NEW i \in 1 .. Len(queue'), NEW b \in Blocks, queue'[i] = <<"connected", b>>
        PROVE  Follows(b)' \/ After(queue', i, Len(queue'), b)
    <2>1. CASE i \in 1 .. Len(queue)
      <3>1. Follows(b) \/ After(queue, i, Len(queue), b)
        BY <1>3, <1>8, <2>1 DEF Fed, Orderly
      <3>2. QED
        BY <1>1, <1>4, <1>6, <2>1, <3>1, SMT
    <2>2. CASE i = Len(queue) + 1
      <3>1. Dropped(todo, todo') /\ todo[1] = <<"connected", b>>
        BY <1>2, <1>8, <2>2
      <3>2. 1 \in 1 .. Len(todo) /\ 1 = 0 + 1
        BY <1>1, <3>1, SMT DEF Dropped
      <3>3. tip \in Path[b] \/ After(todo, 0 + 1, Len(todo), b)
        BY <3>1, <3>2 DEF Fed, Orderly
      <3>4. QED
        BY <1>5, <3>1, <3>3 DEF Follows
    <2>3. QED
      BY <1>1, <1>2, <2>1, <2>2, SMT
  <1>9. ASSUME NEW i \in 1 .. Len(todo'), NEW b \in Blocks, todo'[i] = <<"connected", b>>
        PROVE  tip' \in Path[b] \/ After(todo', i, Len(todo'), b)
    <2>1. CASE UNCHANGED todo
      BY <1>9, <2>1 DEF Fed, Orderly
    <2>2. CASE Dropped(todo, todo')
      <3>1. /\ i \in Nat /\ i + 1 \in 1 .. Len(todo) /\ todo[i + 1] = todo'[i]
            /\ Len(todo) - 1 = Len(todo') /\ Len(todo) \in 0 .. Len(todo)
        BY <1>1, <2>2, SMT DEF Dropped
      <3>2. tip \in Path[b] \/ After(todo, i + 1, Len(todo), b)
        BY <1>9, <3>1 DEF Fed, Orderly
      <3>3. After(todo, i + 1, Len(todo), b) => After(todo', i, Len(todo) - 1, b)
        BY <1>1, <2>2, <3>1, AfterDropped
      <3>4. QED
        BY <3>1, <3>2, <3>3
    <2>3. QED
      BY <2>1, <2>2
  <1>10. WillFollow'
    <2>1. Running(best) => Running(best)'
      BY DEF Running
    <2>2. \A x \in Blocks : Follows(x) \/ After(queue, 0, Len(queue), x) =>
            Follows(x)' \/ After(queue', 0, Len(queue'), x)
      <3>1. 0 \in 0 .. Len(queue)
        BY <1>1, SMT
      <3>2. QED
        BY <1>4, <1>6, <3>1
    <2>3. QED
      BY <1>1, <2>1, <2>2 DEF Fed, WillFollow, Follows
  <1>11. QED
    BY <1>7, <1>8, <1>9, <1>10 DEF Fed, FeedTypes, Orderly

LEMMA BeginFed ==
  ASSUME IInv, Fed, busy = {}, queue' \in Seq(Callback), Dropped(queue, queue'),
         busy' = {queue[1]}, queue[1] \in Callback,
         UNCHANGED <<todo, tip, synced, best>>
  PROVE  Fed'
  <1>1. /\ best \in Blocks /\ queue \in Seq(Callback)
        /\ Len(queue) \in Nat /\ Len(queue') \in Nat /\ 1 \in 1 .. Len(queue) /\ 0 + 1 = 1
        /\ Len(queue) - 1 = Len(queue') /\ Len(queue) \in 0 .. Len(queue)
    BY SMT DEF IInv, IndexTypes, Fed, FeedTypes, Dropped
  <1>2. \A x : Follows(x)' = Follows(x)
    BY DEF Follows
  <1>3. ASSUME NEW x, NEW i \in Nat, After(queue, i + 1, Len(queue), x)
        PROVE  After(queue', i, Len(queue'), x)
    <2>1. After(queue', i, Len(queue) - 1, x)
      BY <1>1, <1>3, AfterDropped
    <2>2. QED
      BY <1>1, <2>1
  <1>4. ASSUME NEW b \in Blocks, <<"connected", b>> \in busy'
        PROVE  Follows(b)' \/ After(queue', 0, Len(queue'), b)
    <2>1. queue[1] = <<"connected", b>>
      BY <1>4
    <2>2. Follows(b) \/ After(queue, 0 + 1, Len(queue), b)
      BY <1>1, <2>1 DEF Fed, Orderly
    <2>3. QED
      BY <1>2, <1>3, <2>2
  <1>5. ASSUME NEW i \in 1 .. Len(queue'), NEW b \in Blocks, queue'[i] = <<"connected", b>>
        PROVE  Follows(b)' \/ After(queue', i, Len(queue'), b)
    <2>1. i \in Nat /\ i + 1 \in 1 .. Len(queue) /\ queue[i + 1] = queue'[i]
      BY <1>1, SMT DEF Dropped
    <2>2. Follows(b) \/ After(queue, i + 1, Len(queue), b)
      BY <1>5, <2>1 DEF Fed, Orderly
    <2>3. QED
      BY <1>2, <1>3, <2>1, <2>2
  <1>6. WillFollow'
    <2>1. ~ Running(best)
      BY DEF Running
    <2>2. After(queue, 0, Len(queue), best) =>
            \/ \E c \in Blocks : queue[1] = <<"connected", c>> /\ Parent[c] \in Path[best]
            \/ After(queue, 0 + 1, Len(queue), best)
      BY <1>1, AfterFirst
    <2>3. After(queue, 0 + 1, Len(queue), best) => After(queue', 0, Len(queue'), best)
      BY <1>3
    <2>4. (\E c \in Blocks : queue[1] = <<"connected", c>> /\ Parent[c] \in Path[best])
            => Running(best)'
      BY DEF Running
    <2>5. QED
      BY <1>2, <2>1, <2>2, <2>3, <2>4 DEF Fed, WillFollow, Follows
  <1>7. QED
    BY <1>4, <1>5, <1>6 DEF Fed, FeedTypes, Orderly

\* the callback has run: if it told of a block that connects, the index is there now
LEMMA EndFed ==
  ASSUME IInv, Fed, busy' = {}, UNCHANGED <<queue, todo, tip, synced>>,
         \/ UNCHANGED best /\ (synced => ~ Running(best))
         \/ best' \in Blocks /\ <<"connected", best'>> \in busy
  PROVE  Fed'
  <1>1. \A x : Follows(x)' = Follows(x)
    BY DEF Follows
  <1>2. FeedTypes'
    BY DEF Fed, FeedTypes
  <1>3. Orderly'
    BY <1>1 DEF Fed, Orderly
  <1>4. WillFollow'
    <2>1. CASE UNCHANGED best /\ (synced => ~ Running(best))
      BY <2>1 DEF Fed, WillFollow, Follows
    <2>2. CASE best' \in Blocks /\ <<"connected", best'>> \in busy
      <3>1. Follows(best') \/ After(queue, 0, Len(queue), best')
        BY <2>2 DEF Fed, Orderly
      <3>2. QED
        BY <3>1 DEF WillFollow, Follows
    <2>3. QED
      BY <2>1, <2>2
  <1>5. QED
    BY <1>2, <1>3, <1>4 DEF Fed

LEMMA CallbackFed ==
  ASSUME IInv, Fed, RunCallback
  PROVE  Fed'
  <1>1. ASSUME NEW b \in Blocks, BlockConnected(b)
        PROVE  Fed'
    <2>1. /\ busy' = {} /\ UNCHANGED <<queue, todo, tip, synced>>
          /\ busy = {<<"connected", b>>}
      BY <1>1 DEF BlockConnected, Queue!End, chain
    <2>2. CASE synced /\ Parent[b] \in Path[best]
      <3>1. best' = b
        BY <1>1, <2>2 DEF BlockConnected
      <3>2. QED
        BY <2>1, <3>1, EndFed
    <2>3. CASE ~ (synced /\ Parent[b] \in Path[best])
      <3>1. UNCHANGED best
        BY <1>1, <2>3 DEF BlockConnected
      <3>2. synced => ~ Running(best)
        BY <2>1, <2>3 DEF Running
      <3>3. QED
        BY <2>1, <3>1, <3>2, EndFed
    <2>4. QED
      BY <2>2, <2>3
  <1>2. ASSUME NEW b \in Blocks, ChainStateFlushed(b)
        PROVE  Fed'
    <2>1. busy' = {} /\ UNCHANGED <<queue, todo, tip, synced, best>>
      BY <1>2 DEF ChainStateFlushed, Queue!End, chain
    <2>2. ~ Running(best)
      BY <1>2 DEF ChainStateFlushed, Running
    <2>3. QED
      BY <2>1, <2>2, EndFed
  <1>3. ASSUME NEW p \in Clients, KeepPromise(p)
        PROVE  Fed'
    <2>1. busy' = {} /\ UNCHANGED <<queue, todo, tip, synced, best>>
      BY <1>3 DEF KeepPromise, Queue!End, chain, index
    <2>2. ~ Running(best)
      BY <1>3 DEF KeepPromise, Running
    <2>3. QED
      BY <2>1, <2>2, EndFed
  <1>4. QED
    BY <1>1, <1>2, <1>3 DEF RunCallback

LEMMA RestartFed ==
  ASSUME IInv, Restart
  PROVE  Fed'
  <1>1. queue' = <<>> /\ busy' = {} /\ todo' = <<>> /\ tip' = flushed /\ flushed \in Blocks
    BY DEF Restart, Queue!Crash, IInv, IndexTypes
  <1>2. synced' => best' = flushed
    BY DEF Restart, Start
  <1>3. FeedTypes'
    BY <1>1, SMT DEF FeedTypes
  <1>4. Orderly'
    BY <1>1, SMT DEF Orderly
  <1>5. WillFollow'
    BY <1>1, <1>2, OwnPath DEF WillFollow, Follows
  <1>6. QED
    BY <1>3, <1>4, <1>5 DEF Fed

LEMMA StepFed ==
  ASSUME IInv, Fed, [Next]_vars
  PROVE  Fed'
  <1>1. /\ queue \in Seq(Callback) /\ todo \in Seq(Callback) /\ best \in Blocks
        /\ tip \in Blocks /\ pindex \in Blocks
    BY DEF Fed, FeedTypes, IInv, IndexTypes
  <1>2. CASE FlushStateToDisk
    <2>1. /\ todo = <<>> /\ todo' = <<<<"flushed", tip>>>>
          /\ UNCHANGED <<queue, busy, synced, best, tip>>
      BY <1>2 DEF FlushStateToDisk, ValidationIdle, CsMainFree, callbackVars, index
    <2>2. <<"flushed", tip>> \in Callback
      BY <1>1 DEF Callback
    <2>3. todo' \in Seq(Callback) /\ \A i \in 1 .. Len(todo') : todo'[i] = <<"flushed", tip>>
      BY <2>1, <2>2, SMT
    <2>4. \A x : ~ After(todo, 0, Len(todo), x)
      BY <2>1, SMT DEF After
    <2>5. \A x \in Blocks : Follows(x) => Follows(x)'
      BY <2>1, <2>4 DEF Follows
    <2>6. \A i \in 1 .. Len(todo'), x \in Blocks : todo'[i] # <<"connected", x>>
      BY <2>3, SMT
    <2>7. QED
      BY <1>1, <2>1, <2>3, <2>5, <2>6, SameQueueFed
  <1>3. CASE Notify
    <2>1. /\ todo # <<>> /\ queue' = Append(queue, Head(todo)) /\ todo' = Tail(todo)
          /\ UNCHANGED <<busy, tip, synced, best>>
      BY <1>3 DEF Notify, Queue!Add, index
    <2>2. /\ todo' \in Seq(Callback) /\ Dropped(todo, todo')
          /\ Head(todo) = todo[1] /\ Head(todo) \in Callback
      BY <1>1, <2>1, TailDropped
    <2>3. queue' \in Seq(Callback) /\ Extended(queue, Head(todo), queue')
      BY <1>1, <2>1, <2>2, AppendExtended
    <2>4. QED
      BY <2>1, <2>2, <2>3, AddFed
  <1>4. CASE LimitQueue \/ Drain
    <2>1. PICK p \in Clients : queue' = Append(queue, <<"promise", p>>)
      BY <1>4 DEF LimitQueue, Drain, SyncWithQueue, Queue!Add, Clients
    <2>2. UNCHANGED <<busy, todo, tip, synced, best>>
      BY <1>4 DEF LimitQueue, Drain, SyncWithQueue, Queue!Add, chain, index
    <2>3. <<"promise", p>> \in Callback /\ \A x : <<"promise", p>> # <<"connected", x>>
      BY DEF Callback
    <2>4. queue' \in Seq(Callback) /\ Extended(queue, <<"promise", p>>, queue')
      BY <1>1, <2>1, <2>3, AppendExtended
    <2>5. QED
      BY <1>1, <2>2, <2>3, <2>4, AddFed
  <1>5. CASE BeginCallback
    <2>1. /\ busy = {} /\ queue # <<>> /\ busy' = {Head(queue)} /\ queue' = Tail(queue)
          /\ UNCHANGED <<todo, tip, synced, best>>
      BY <1>5 DEF BeginCallback, Queue!Begin, chain, index
    <2>2. /\ queue' \in Seq(Callback) /\ Dropped(queue, queue')
          /\ Head(queue) = queue[1] /\ Head(queue) \in Callback
      BY <1>1, <2>1, TailDropped
    <2>3. QED
      BY <2>1, <2>2, BeginFed
  <1>6. CASE CaughtUp
    <2>1. /\ UNCHANGED <<queue, busy, todo, tip>> /\ best' = pindex
          /\ \A b \in Blocks : ~ IsNextSyncBlock(b)
      BY <1>6 DEF CaughtUp, callbackVars, chain
    <2>2. tip \in Path[pindex]
      BY <1>1, <2>1, NothingNext
    <2>3. FeedTypes' /\ Orderly'
      BY <2>1 DEF Fed, FeedTypes, Orderly, Follows
    <2>4. WillFollow'
      BY <2>1, <2>2 DEF WillFollow, Follows
    <2>5. QED
      BY <2>3, <2>4 DEF Fed
  <1>7. CASE \/ NextSyncBlock \/ WriteBestBlock \/ WriteBlock \/ Interrupted
             \/ Ask \/ Drained \/ UNCHANGED vars
    <2>1. UNCHANGED <<queue, busy, todo, tip, synced, best>>
      BY <1>7 DEF NextSyncBlock, WriteBestBlock, WriteBlock, Interrupted, Ask, Drained,
                  vars, callbackVars, chain, index
    <2>2. QED
      BY <2>1 DEF Fed, FeedTypes, Orderly, WillFollow, Follows, Running
  <1>8. QED
    BY <1>2, <1>3, <1>4, <1>5, <1>6, <1>7, ChangeTipFed, CallbackFed, RestartFed, ZenonT(30)
    DEF Next, ThreadSync

LEMMA AlwaysFed == Spec => []Fed
  <1>1. Init => Fed
    BY InitFed
  <1>2. IInv /\ Fed /\ [Next]_vars => Fed'
    BY StepFed
  <1>3. QED
    BY <1>1, <1>2, AlwaysInv, PTL DEF Spec

\* BlockConnected: however the chain is reorganized while callbacks wait, a synced
\* index that has nothing left to be told is at a block of which the tip is an ancestor
THEOREM AlwaysWithChainWhenQuiet == Spec => []WithChainWhenQuiet
  <1>1. Fed => WithChainWhenQuiet
    <2>1. SUFFICES ASSUME Fed, synced, todo = <<>>, queue = <<>>, busy = {}
                   PROVE  tip \in Path[best]
      BY DEF WithChainWhenQuiet
    <2>2. \A x : ~ After(todo, 0, Len(todo), x) /\ ~ After(queue, 0, Len(queue), x) /\ ~ Running(x)
      BY <2>1, SMT DEF After, Running
    <2>3. QED
      BY <2>1, <2>2 DEF Fed, WillFollow, Follows
  <1>2. QED
    BY <1>1, AlwaysFed, PTL

-----------------------------------------------------------------------------
(* What BlockUntilSyncedToCurrentChain waits for.                          *)

CallersPromise == <<"promise", Caller>>

\* the first k callbacks of the queue, and the one that runs, lead the index to
\* the block that was asked for
Reaches(k) ==
  /\ Running(best) \/ After(queue, 0, k, best)
  /\ \A b \in Blocks : <<"connected", b>> \in busy =>
       asked \in Path[b] \/ After(queue, 0, k, b)
  /\ \A i \in 1 .. k, b \in Blocks : queue[i] = <<"connected", b>> =>
       asked \in Path[b] \/ After(queue, i, k, b)

\* the caller has one promise in the queue while it waits, and none otherwise
Promised ==
  /\ call # "draining" => Caller \notin waiting
  /\ Caller \notin waiting =>
       CallersPromise \notin busy /\ \A i \in 1 .. Len(queue) : queue[i] # CallersPromise
  /\ CallersPromise \in busy => \A i \in 1 .. Len(queue) : queue[i] # CallersPromise
  /\ \A i, j \in 1 .. Len(queue) :
       queue[i] = CallersPromise /\ queue[j] = CallersPromise => i = j
  /\ \A i \in 1 .. Len(todo) : todo[i] # CallersPromise

\* the callbacks that lead to the block run before the promise
Coming ==
  /\ call = "draining" => Caller \in waiting /\ CallersPromise \notin busy
  /\ \E k \in 0 .. Len(queue) :
       Reaches(k) /\ \A i \in 1 .. k : queue[i] # CallersPromise

Covered ==
  /\ synced => sync = "done"
  /\ call \in {"behind", "draining"} => synced /\ (IndexedButSkipped(asked) \/ Coming)
  /\ call = "true" => IndexedButSkipped(asked)

Served == Promised /\ Covered

LEMMA InitServed ==
  ASSUME Init
  PROVE  Served
  <1>1. /\ queue = <<>> /\ busy = {} /\ todo = <<>> /\ waiting = {} /\ call = "idle"
        /\ synced => sync = "done"
    BY DEF Init, Queue!Init
  <1>2. QED
    BY <1>1, SMT DEF Served, Promised, Covered

\* the steps that leave the callbacks and the caller alone
LEMMA SameServed ==
  ASSUME Served, UNCHANGED <<queue, busy, waiting, call, asked>>,
         \A i \in 1 .. Len(todo') : todo'[i] # CallersPromise,
         synced' => sync' = "done",
         UNCHANGED <<synced, best>> \/ sync # "done",
         written \subseteq written', skipped \subseteq skipped'
  PROVE  Served'
  <1>1. Promised'
    BY DEF Served, Promised
  <1>2. IndexedButSkipped(asked) => IndexedButSkipped(asked)'
    BY DEF IndexedButSkipped
  <1>3. Covered'
    <2>1. CASE UNCHANGED <<synced, best>>
      <3>1. Coming => Coming'
        BY <2>1 DEF Coming, Reaches, Running
      <3>2. QED
        BY <1>2, <2>1, <3>1 DEF Served, Covered
    <2>2. CASE sync # "done"
      BY <1>2, <2>2 DEF Served, Covered
    <2>3. QED
      BY <2>1, <2>2
  <1>4. QED
    BY <1>1, <1>3 DEF Served

LEMMA ReachesExtended ==
  ASSUME NEW e, queue \in Seq(Callback), queue' \in Seq(Callback),
         Extended(queue, e, queue'), UNCHANGED <<busy, best, asked>>,
         NEW k \in 0 .. Len(queue), Reaches(k)
  PROVE  /\ Reaches(k)' /\ k \in 0 .. Len(queue')
         /\ \A i \in 1 .. k : queue'[i] = queue[i]
  <1>1. /\ k \in Nat /\ k \in k .. Len(queue') /\ k \in 0 .. Len(queue')
        /\ 1 .. k \subseteq 1 .. Len(queue) /\ 0 \in Nat
    BY SMT DEF Extended
  <1>2. \A i \in 1 .. k : queue'[i] = queue[i]
    BY <1>1 DEF Extended
  <1>3. \A i \in Nat : \A x : After(queue, i, k, x) => After(queue', i, k, x)
    BY <1>1, AfterExtended
  <1>4. \A i \in 1 .. k : i \in Nat
    BY <1>1, SMT
  <1>5. Running(best) => Running(best)'
    BY DEF Running
  <1>6. QED
    BY <1>1, <1>2, <1>3, <1>4, <1>5 DEF Reaches

LEMMA ReachesDropped ==
  ASSUME queue \in Seq(Callback), queue' \in Seq(Callback),
         Dropped(queue, queue'), busy = {}, busy' = {queue[1]}, UNCHANGED <<best, asked>>,
         NEW k \in 0 .. Len(queue), Reaches(k)
  PROVE  k # 0 /\ k - 1 \in 0 .. Len(queue') /\ Reaches(k - 1)'
  <1>1. After(queue, 0, k, best)
    BY DEF Reaches, Running
  <1>2. k # 0
    BY <1>1, SMT DEF After
  <1>3. k \in Nat /\ k - 1 \in 0 .. Len(queue') /\ 1 \in 1 .. k /\ 0 + 1 = 1 /\ Len(queue) \in Nat
    BY <1>2, SMT DEF Dropped
  <1>4. \A i \in Nat : \A x : After(queue, i + 1, k, x) => After(queue', i, k - 1, x)
    BY AfterDropped
  <1>5. (Running(best) \/ After(queue, 0, k - 1, best))'
    <2>1. CASE \E c \in Blocks : queue[1] = <<"connected", c>> /\ Parent[c] \in Path[best]
      BY <2>1 DEF Running
    <2>2. CASE After(queue, 0 + 1, k, best)
      BY <1>4, <2>2
    <2>3. QED
      BY <1>1, <2>1, <2>2, AfterFirst
  <1>6. ASSUME NEW b \in Blocks, <<"connected", b>> \in busy'
        PROVE  asked \in Path[b] \/ After(queue', 0, k - 1, b)
    <2>1. asked \in Path[b] \/ After(queue, 0 + 1, k, b)
      BY <1>3, <1>6 DEF Reaches
    <2>2. QED
      BY <1>4, <2>1
  <1>7. ASSUME NEW i \in 1 .. k - 1, NEW b \in Blocks, queue'[i] = <<"connected", b>>
        PROVE  asked \in Path[b] \/ After(queue', i, k - 1, b)
    <2>1. i \in Nat /\ i + 1 \in 1 .. k /\ queue[i + 1] = queue'[i]
      BY <1>3, SMT DEF Dropped
    <2>2. asked \in Path[b] \/ After(queue, i + 1, k, b)
      BY <1>7, <2>1 DEF Reaches
    <2>3. QED
      BY <1>4, <2>1, <2>2
  <1>8. Reaches(k - 1)'
    BY <1>5, <1>6, <1>7 DEF Reaches
  <1>9. QED
    BY <1>2, <1>3, <1>8

LEMMA AddServed ==
  ASSUME Served, NEW e, queue \in Seq(Callback), queue' \in Seq(Callback),
         Extended(queue, e, queue'),
         UNCHANGED <<busy, best, synced, sync, written, skipped, asked>>,
         \A i \in 1 .. Len(todo') : todo'[i] # CallersPromise,
         \/ e # CallersPromise /\ UNCHANGED call /\ (Caller \in waiting' <=> Caller \in waiting)
         \/ e = CallersPromise /\ call = "behind" /\ call' = "draining" /\ Caller \in waiting'
  PROVE  Served'
  <1>1. /\ \A i \in 1 .. Len(queue) : queue'[i] = queue[i]
        /\ queue'[Len(queue) + 1] = e
        /\ \A i \in 1 .. Len(queue') : i \in 1 .. Len(queue) \/ i = Len(queue) + 1
    BY SMT DEF Extended
  <1>2. Promised'
    BY <1>1 DEF Served, Promised
  <1>3. IndexedButSkipped(asked) => IndexedButSkipped(asked)'
    BY DEF IndexedButSkipped
  <1>4. call \in {"behind", "draining"} /\ Coming => Coming'
    <2>1. SUFFICES ASSUME call \in {"behind", "draining"}, Coming
                   PROVE  Coming'
      OBVIOUS
    <2>2. PICK k \in 0 .. Len(queue) :
            Reaches(k) /\ \A i \in 1 .. k : queue[i] # CallersPromise
      BY <2>1 DEF Coming
    <2>3. /\ Reaches(k)' /\ k \in 0 .. Len(queue')
          /\ \A i \in 1 .. k : queue'[i] # CallersPromise
      BY <2>2, ReachesExtended
    <2>4. call' = "draining" => Caller \in waiting' /\ CallersPromise \notin busy'
      BY <2>1 DEF Coming, Served, Promised
    <2>5. QED
      BY <2>3, <2>4 DEF Coming
  <1>5. Covered'
    BY <1>3, <1>4 DEF Served, Covered
  <1>6. QED
    BY <1>2, <1>5 DEF Served

LEMMA BeginServed ==
  ASSUME Served, queue \in Seq(Callback), queue' \in Seq(Callback),
         Dropped(queue, queue'), busy = {}, busy' = {queue[1]},
         UNCHANGED <<todo, waiting, best, synced, sync, written, skipped, call, asked>>
  PROVE  Served'
  <1>1. /\ \A i \in 1 .. Len(queue') : i + 1 \in 1 .. Len(queue) /\ queue'[i] = queue[i + 1]
        /\ 1 \in 1 .. Len(queue)
    BY SMT DEF Dropped
  <1>2. Promised'
    <2>1. Caller \notin waiting' =>
            /\ CallersPromise \notin busy'
            /\ \A i \in 1 .. Len(queue') : queue'[i] # CallersPromise
      BY <1>1 DEF Served, Promised
    <2>2. CallersPromise \in busy' => \A i \in 1 .. Len(queue') : queue'[i] # CallersPromise
      <3>1. SUFFICES ASSUME queue[1] = CallersPromise, NEW i \in 1 .. Len(queue'),
                            queue'[i] = CallersPromise
                     PROVE  FALSE
        OBVIOUS
      <3>2. i + 1 = 1
        BY <1>1, <3>1 DEF Served, Promised
      <3>3. QED
        BY <3>2, SMT
    <2>3. ASSUME NEW i \in 1 .. Len(queue'), NEW j \in 1 .. Len(queue'),
                 queue'[i] = CallersPromise, queue'[j] = CallersPromise
          PROVE  i = j
      <3>1. i + 1 = j + 1
        BY <1>1, <2>3 DEF Served, Promised
      <3>2. QED
        BY <3>1, SMT
    <2>4. QED
      BY <2>1, <2>2, <2>3 DEF Served, Promised
  <1>3. IndexedButSkipped(asked) => IndexedButSkipped(asked)'
    BY DEF IndexedButSkipped
  <1>4. Coming => Coming'
    <2>1. SUFFICES ASSUME Coming
                   PROVE  Coming'
      OBVIOUS
    <2>2. PICK k \in 0 .. Len(queue) :
            Reaches(k) /\ \A i \in 1 .. k : queue[i] # CallersPromise
      BY <2>1 DEF Coming
    <2>3. k # 0 /\ k - 1 \in 0 .. Len(queue') /\ Reaches(k - 1)'
      BY <2>2, ReachesDropped
    <2>4. \A i \in 1 .. k - 1 : queue'[i] # CallersPromise
      <3>1. \A i \in 1 .. k - 1 : i + 1 \in 1 .. k /\ i \in 1 .. Len(queue')
        BY <2>3, SMT
      <3>2. QED
        BY <1>1, <2>2, <3>1
    <2>5. CallersPromise \notin busy'
      <3>1. 1 \in 1 .. k
        BY <2>3, SMT
      <3>2. QED
        BY <2>2, <3>1
    <2>6. QED
      BY <2>1, <2>3, <2>4, <2>5 DEF Coming
  <1>5. Covered'
    BY <1>3, <1>4 DEF Served, Covered
  <1>6. QED
    BY <1>2, <1>5 DEF Served

\* a callback ends: a block is connected, or the index stays where it is
LEMMA EndServed ==
  ASSUME IInv, IInv', Served, busy' = {}, UNCHANGED <<queue, todo, synced, sync, call, asked>>,
         written \subseteq written', skipped \subseteq skipped',
         \/ UNCHANGED best /\ (synced => ~ Running(best))
         \/ best' \in Blocks /\ <<"connected", best'>> \in busy,
         \/ UNCHANGED waiting /\ CallersPromise \notin busy
         \/ \E p \in Clients : waiting' = waiting \ {p} /\ busy = {<<"promise", p>>}
  PROVE  Served'
  <1>1. Promised'
    <2>1. CASE UNCHANGED waiting
      BY <2>1 DEF Served, Promised
    <2>2. ASSUME NEW p \in Clients, waiting' = waiting \ {p}, busy = {<<"promise", p>>}
          PROVE  Promised'
      <3>1. p = Caller => CallersPromise \in busy
        BY <2>2 DEF CallersPromise
      <3>2. QED
        BY <2>2, <3>1 DEF Served, Promised
    <2>3. QED
      BY <2>1, <2>2
  <1>2. IndexedButSkipped(asked) => IndexedButSkipped(asked)'
    BY DEF IndexedButSkipped
  <1>3. synced /\ Coming => IndexedButSkipped(asked)' \/ Coming'
    <2>1. SUFFICES ASSUME synced, Coming
                   PROVE  IndexedButSkipped(asked)' \/ Coming'
      OBVIOUS
    <2>2. PICK k \in 0 .. Len(queue) :
            Reaches(k) /\ \A i \in 1 .. k : queue[i] # CallersPromise
      BY <2>1 DEF Coming
    <2>3. call' = "draining" => Caller \in waiting' /\ CallersPromise \notin busy'
      <3>1. SUFFICES ASSUME call = "draining"
                     PROVE  Caller \in waiting'
        OBVIOUS
      <3>2. Caller \in waiting /\ CallersPromise \notin busy
        BY <2>1, <3>1 DEF Coming
      <3>3. QED
        BY <3>2 DEF CallersPromise
    <2>4. Reaches(k)' => Coming'
      BY <2>2, <2>3 DEF Coming
    <2>5. CASE UNCHANGED best /\ (synced => ~ Running(best))
      BY <2>1, <2>2, <2>4, <2>5 DEF Reaches
    <2>6. CASE best' \in Blocks /\ <<"connected", best'>> \in busy
      <3>1. CASE asked \in Path[best']
        <4>1. Path[asked] \subseteq Path[best']
          BY <2>6, <3>1, TxIndexAssumption
        <4>2. QED
          BY <4>1 DEF IInv, IndexComplete, IndexedButSkipped
      <3>2. CASE After(queue, 0, k, best')
        BY <2>2, <2>4, <3>2 DEF Reaches
      <3>3. QED
        BY <2>2, <2>6, <3>1, <3>2 DEF Reaches
    <2>7. QED
      BY <2>5, <2>6
  <1>4. Covered'
    BY <1>2, <1>3 DEF Served, Covered
  <1>5. QED
    BY <1>1, <1>4 DEF Served

\* the caller looks at the tip: the queue as it is then leads the index there
LEMMA AskServed ==
  ASSUME IInv, Fed, Served, Ask
  PROVE  Served'
  <1>1. /\ call \in {"idle", "true"} /\ synced /\ todo = <<>> /\ asked' = tip
        /\ call' = IF tip \in Path[best] THEN "true" ELSE "behind"
        /\ UNCHANGED <<queue, busy, todo, waiting, best, synced, sync, written, skipped>>
    BY DEF Ask, CsMainFree, callbackVars, chain, index
  <1>2. tip \in Blocks /\ best \in Blocks /\ queue \in Seq(Callback)
    BY DEF IInv, IndexTypes, Fed, FeedTypes
  <1>3. Promised'
    BY <1>1 DEF Served, Promised
  <1>4. CASE tip \in Path[best]
    <2>1. Path[tip] \subseteq Path[best]
      BY <1>2, <1>4, TxIndexAssumption
    <2>2. IndexedButSkipped(asked)'
      BY <1>1, <2>1 DEF IInv, IndexComplete, IndexedButSkipped
    <2>3. QED
      BY <1>1, <1>3, <1>4, <2>2 DEF Served, Covered
  <1>5. CASE tip \notin Path[best]
    <2>1. \A x : ~ After(todo, 0, Len(todo), x)
      BY <1>1, SMT DEF After
    <2>2. \A x : Follows(x) <=> tip \in Path[x]
      BY <2>1 DEF Follows
    <2>3. Reaches(Len(queue))'
      <3>1. (Running(best) \/ After(queue, 0, Len(queue), best))'
        BY <1>1, <1>5, <2>2 DEF Fed, WillFollow, Running
      <3>2. QED
        BY <1>1, <2>2, <3>1 DEF Fed, Orderly, Reaches
    <2>4. Len(queue) \in 0 .. Len(queue) /\ UNCHANGED Len(queue)
      BY <1>1, <1>2, SMT
    <2>5. \A i \in 1 .. Len(queue) : queue[i] # CallersPromise
      BY <1>1 DEF Served, Promised
    <2>6. Coming'
      BY <1>1, <1>5, <2>3, <2>4, <2>5 DEF Coming
    <2>7. QED
      BY <1>1, <1>3, <1>5, <2>6 DEF Served, Covered
  <1>6. QED
    BY <1>4, <1>5

LEMMA ChangeTipServed ==
  ASSUME IInv, Served, NEW b \in Blocks, ChangeTip(b)
  PROVE  Served'
  <1> DEFINE s == Connected(tip, b)
  <1>1. tip \in Blocks
    BY DEF IInv, IndexTypes
  <1>2. s \in Seq(Callback) /\ \A i \in 1 .. Len(s) : \E x \in Blocks : s[i] = <<"connected", x>>
    BY <1>1, ConnectedFeeds
  <1>3. todo' = s \/ \E f : todo' = <<<<"flushed", f[2]>>>> \o s
    BY DEF ChangeTip
  <1> HIDE DEF s
  <1>4. \A i \in 1 .. Len(s) : s[i] # CallersPromise
    BY <1>2, SMT DEF CallersPromise
  <1>5. ASSUME NEW f, todo' = <<<<"flushed", f[2]>>>> \o s
        PROVE  \A i \in 1 .. Len(todo') : todo'[i] # CallersPromise
    <2> DEFINE e == <<"flushed", f[2]>>
    <2>1. e # CallersPromise
      BY DEF CallersPromise
    <2> HIDE DEF e
    <2>2. ASSUME NEW i \in 1 .. Len(<<e>> \o s)
          PROVE  (<<e>> \o s)[i] # CallersPromise
      <3>1. CASE i = 1
        BY <1>2, <2>1, <3>1, SMT
      <3>2. CASE i # 1
        <4>1. i - 1 \in 1 .. Len(s) /\ (<<e>> \o s)[i] = s[i - 1]
          BY <1>2, <3>2, SMT
        <4>2. QED
          BY <1>4, <4>1
      <3>3. QED
        BY <3>1, <3>2
    <2>3. todo' = <<e>> \o s
      BY <1>5 DEF e
    <2>4. QED
      BY <2>2, <2>3
  <1>6. \A i \in 1 .. Len(todo') : todo'[i] # CallersPromise
    BY <1>3, <1>4, <1>5
  <1>7. UNCHANGED <<queue, busy, waiting, call, asked, synced, sync, best, written, skipped>>
    BY DEF ChangeTip, callbackVars, index, caller
  <1>8. QED
    BY <1>6, <1>7, SameServed DEF Served, Covered

LEMMA CallbackServed ==
  ASSUME IInv, IInv', Served, RunCallback
  PROVE  Served'
  <1>1. ASSUME NEW b \in Blocks, BlockConnected(b)
        PROVE  Served'
    <2>1. /\ busy' = {} /\ UNCHANGED <<queue, todo, synced, sync, call, asked, skipped, waiting>>
          /\ busy = {<<"connected", b>>} /\ written \subseteq written'
      BY <1>1 DEF BlockConnected, Queue!End, chain, caller
    <2>2. CallersPromise \notin busy
      BY <2>1 DEF CallersPromise
    <2>3. CASE synced /\ Parent[b] \in Path[best]
      <3>1. best' = b
        BY <1>1, <2>3 DEF BlockConnected
      <3>2. QED
        BY <2>1, <2>2, <3>1, EndServed
    <2>4. CASE ~ (synced /\ Parent[b] \in Path[best])
      <3>1. UNCHANGED best
        BY <1>1, <2>4 DEF BlockConnected
      <3>2. synced => ~ Running(best)
        BY <2>1, <2>4 DEF Running
      <3>3. QED
        BY <2>1, <2>2, <3>1, <3>2, EndServed
    <2>5. QED
      BY <2>3, <2>4
  <1>2. ASSUME NEW b \in Blocks, ChainStateFlushed(b)
        PROVE  Served'
    <2>1. /\ busy' = {} /\ busy = {<<"flushed", b>>}
          /\ UNCHANGED <<queue, todo, synced, sync, call, asked, written, skipped, waiting, best>>
      BY <1>2 DEF ChainStateFlushed, Queue!End, chain, caller
    <2>2. ~ Running(best) /\ CallersPromise \notin busy
      BY <2>1 DEF Running, CallersPromise
    <2>3. QED
      BY <2>1, <2>2, EndServed
  <1>3. ASSUME NEW p \in Clients, KeepPromise(p)
        PROVE  Served'
    <2>1. /\ busy' = {} /\ busy = {<<"promise", p>>} /\ waiting' = waiting \ {p}
          /\ UNCHANGED <<queue, todo, synced, sync, call, asked, written, skipped, best>>
      BY <1>3 DEF KeepPromise, Queue!End, chain, index, caller
    <2>2. ~ Running(best)
      BY <2>1 DEF Running
    <2>3. QED
      BY <2>1, <2>2, EndServed
  <1>4. QED
    BY <1>1, <1>2, <1>3 DEF RunCallback

LEMMA StepServed ==
  ASSUME IInv, IInv', Fed, Served, [Next]_vars
  PROVE  Served'
  <1>1. /\ queue \in Seq(Callback) /\ todo \in Seq(Callback)
        /\ \A i \in 1 .. Len(todo) : todo[i] # CallersPromise
        /\ synced => sync = "done"
    BY DEF Fed, FeedTypes, Served, Promised, Covered
  <1>2. CASE FlushStateToDisk
    <2>1. /\ todo' = <<<<"flushed", tip>>>>
          /\ UNCHANGED <<queue, busy, waiting, call, asked, synced, sync, best, written, skipped>>
      BY <1>2 DEF FlushStateToDisk, callbackVars, index, caller
    <2>2. \A i \in 1 .. Len(todo') : todo'[i] # CallersPromise
      BY <2>1, SMT DEF CallersPromise
    <2>3. QED
      BY <1>1, <2>1, <2>2, SameServed
  <1>3. CASE Notify
    <2>1. /\ todo # <<>> /\ queue' = Append(queue, Head(todo)) /\ todo' = Tail(todo)
          /\ UNCHANGED <<busy, waiting, call, asked, synced, sync, best, written, skipped>>
      BY <1>3 DEF Notify, Queue!Add, index, caller
    <2>2. /\ todo' \in Seq(Callback) /\ Dropped(todo, todo')
          /\ Head(todo) = todo[1] /\ Head(todo) \in Callback
      BY <1>1, <2>1, TailDropped
    <2>3. queue' \in Seq(Callback) /\ Extended(queue, Head(todo), queue')
      BY <1>1, <2>1, <2>2, AppendExtended
    <2>4. /\ Head(todo) # CallersPromise
          /\ \A i \in 1 .. Len(todo') : todo'[i] # CallersPromise
      BY <1>1, <2>2, SMT DEF Dropped
    <2>5. QED
      BY <1>1, <2>1, <2>3, <2>4, AddServed
  <1>4. CASE LimitQueue
    <2>1. /\ queue' = Append(queue, <<"promise", Validation>>)
          /\ waiting' = waiting \cup {Validation}
          /\ UNCHANGED <<busy, todo, call, asked, synced, sync, best, written, skipped>>
      BY <1>4 DEF LimitQueue, SyncWithQueue, Queue!Add, chain, index, caller
    <2>2. <<"promise", Validation>> \in Callback
      BY DEF Callback, Clients
    <2>3. queue' \in Seq(Callback) /\ Extended(queue, <<"promise", Validation>>, queue')
      BY <1>1, <2>1, <2>2, AppendExtended
    <2>4. /\ <<"promise", Validation>> # CallersPromise
          /\ Caller \in waiting' <=> Caller \in waiting
      BY <2>1 DEF CallersPromise, Validation, Caller
    <2>5. QED
      BY <1>1, <2>1, <2>3, <2>4, AddServed
  <1>5. CASE Drain
    <2>1. /\ queue' = Append(queue, CallersPromise) /\ Caller \in waiting'
          /\ call = "behind" /\ call' = "draining"
          /\ UNCHANGED <<busy, todo, asked, synced, sync, best, written, skipped>>
      BY <1>5 DEF Drain, SyncWithQueue, Queue!Add, chain, index, CallersPromise
    <2>2. CallersPromise \in Callback
      BY DEF Callback, Clients, CallersPromise
    <2>3. queue' \in Seq(Callback) /\ Extended(queue, CallersPromise, queue')
      BY <1>1, <2>1, <2>2, AppendExtended
    <2>4. QED
      BY <1>1, <2>1, <2>3, AddServed
  <1>6. CASE BeginCallback
    <2>1. /\ busy = {} /\ queue # <<>> /\ busy' = {Head(queue)} /\ queue' = Tail(queue)
          /\ UNCHANGED <<todo, waiting, best, synced, sync, written, skipped, call, asked>>
      BY <1>6 DEF BeginCallback, Queue!Begin, chain, index, caller
    <2>2. queue' \in Seq(Callback) /\ Dropped(queue, queue') /\ Head(queue) = queue[1]
      BY <1>1, <2>1, TailDropped
    <2>3. QED
      BY <1>1, <2>1, <2>2, BeginServed
  <1>7. CASE ThreadSync \/ Interrupted
    <2>1. /\ UNCHANGED <<queue, busy, todo, waiting, call, asked, skipped>>
          /\ written \subseteq written' /\ sync # "done"
      BY <1>7 DEF ThreadSync, NextSyncBlock, CaughtUp, WriteBestBlock, WriteBlock,
                  Interrupted, callbackVars, chain, caller
    <2>2. synced' => sync' = "done"
      BY <1>1, <1>7, <2>1 DEF ThreadSync, NextSyncBlock, CaughtUp, WriteBestBlock,
                              WriteBlock, Interrupted
    <2>3. QED
      BY <1>1, <2>1, <2>2, SameServed
  <1>8. CASE Drained
    <2>1. /\ call = "draining" /\ Caller \notin waiting /\ call' = "true"
          /\ UNCHANGED <<queue, busy, todo, waiting, asked, synced, sync, written, skipped>>
      BY <1>8 DEF Drained, callbackVars, chain, index
    <2>2. IndexedButSkipped(asked)
      BY <2>1 DEF Served, Covered, Coming
    <2>3. QED
      BY <2>1, <2>2 DEF Served, Promised, Covered, IndexedButSkipped
  <1>9. CASE Restart
    <2>1. /\ queue' = <<>> /\ busy' = {} /\ todo' = <<>> /\ waiting' = {} /\ call' = "idle"
          /\ synced' => sync' = "done"
      BY <1>9 DEF Restart, Start, Queue!Crash
    <2>2. QED
      BY <2>1, SMT DEF Served, Promised, Covered
  <1>10. CASE UNCHANGED vars
    <2>1. UNCHANGED <<queue, busy, todo, waiting, call, asked, synced, sync, best, written, skipped>>
      BY <1>10 DEF vars, callbackVars, chain, index, caller
    <2>2. QED
      BY <1>1, <2>1, SameServed
  <1>11. QED
    BY <1>2, <1>3, <1>4, <1>5, <1>6, <1>7, <1>8, <1>9, <1>10, AskServed,
       ChangeTipServed, CallbackServed, ZenonT(30)
    DEF Next

\* BlockUntilSyncedToCurrentChain: when it has returned true, the tip the caller saw
\* and all its ancestors are in the index, whatever reorganizations and callbacks
\* came in between, but for blocks a killed ThreadSync had named and not written
THEOREM AlwaysAnswerTrue == Spec => []AnswerTrue
  <1>1. Init => Served
    BY InitServed
  <1>2. IInv /\ IInv' /\ Fed /\ Served /\ [Next]_vars => Served'
    BY StepServed
  <1>3. Served => AnswerTrue
    BY DEF Served, Covered, AnswerTrue
  <1>4. QED
    BY <1>1, <1>2, <1>3, AlwaysInv, AlwaysFed, PTL DEF Spec

\* only a kill makes the index skip blocks
NothingSkipped == restarts \in Nat /\ (restarts = 0 => skipped = {})

\* BlockUntilSyncedToCurrentChain: for an index that was built without a kill the
\* answer is true without exception, whatever reorganizations and callbacks came in
\* between
THEOREM UnkilledAnswerWritten == Spec => [](restarts = 0 => TrueAnswerWritten)
  <1>1. Init => NothingSkipped
    BY SMT DEF Init, NothingSkipped
  <1>2. NothingSkipped /\ [Next]_vars => NothingSkipped'
    <2>1. SUFFICES ASSUME NothingSkipped, [Next]_vars
                   PROVE  NothingSkipped'
      OBVIOUS
    <2>2. CASE Restart
      <3>1. restarts \in Nat /\ restarts' = restarts + 1
        BY <2>1, <2>2 DEF Restart, NothingSkipped
      <3>2. restarts' \in Nat /\ restarts' # 0
        BY <3>1, SMT
      <3>3. QED
        BY <3>2 DEF NothingSkipped
    <2>3. CASE UNCHANGED <<skipped, restarts>>
      BY <2>1, <2>3 DEF NothingSkipped
    <2>4. Restart \/ UNCHANGED <<skipped, restarts>>
      BY <2>1 DEF Next, vars, index, caller, FlushStateToDisk, Notify, LimitQueue,
           BeginCallback, RunCallback, BlockConnected, ChainStateFlushed, KeepPromise,
           ThreadSync, NextSyncBlock, CaughtUp, WriteBestBlock, WriteBlock, Interrupted,
           Ask, Drain, Drained, ChangeTip
    <2>5. QED
      BY <2>2, <2>3, <2>4
  <1>3. AnswerTrue /\ NothingSkipped => (restarts = 0 => TrueAnswerWritten)
    <2>1. SUFFICES ASSUME AnswerTrue, NothingSkipped, restarts = 0, call = "true"
                   PROVE  Indexed(asked)
      BY DEF TrueAnswerWritten
    <2>2. skipped = {} /\ Path[asked] \subseteq written \cup skipped \cup {Genesis}
      BY <2>1 DEF AnswerTrue, NothingSkipped, IndexedButSkipped
    <2>3. QED
      BY <2>2 DEF Indexed
  <1>4. QED
    BY <1>1, <1>2, <1>3, AlwaysAnswerTrue, PTL DEF Spec

-----------------------------------------------------------------------------
(* The queue of callbacks.  SerialQueue stands for it above; this is the   *)
(* scheduler that implements it, with any threads that add any callbacks.  *)

CONSTANTS
  Threads,    \* threads in CScheduler::serviceQueue
  Adders,     \* threads that add callbacks
  Added       \* callbacks

VARIABLES pending, running, tasks, pc, current

C == INSTANCE Callbacks WITH Clients <- Adders, Callback <- Added

\* m_are_callbacks_running is set exactly while the one thread runs one
Exclusive ==
  /\ running = FALSE => C!Callers = {}
  /\ \A t, u \in C!Callers : t = u
  /\ \A t \in Threads : pc[t] # "idle"

SchedulerInv == C!CallbacksTypeOK /\ Exclusive /\ C!NeverForgotten

-----------------------------------------------------------------------------

LEMMA SchedulerInit ==
  ASSUME C!CallbacksInit
  PROVE  SchedulerInv
  <1> USE DEF C!CallbacksInit, C!Home
  <1>1. C!CallbacksTypeOK
    <2>1. pending \in Seq(Added)
      BY SMT
    <2>2. tasks \in Nat /\ running \in BOOLEAN
      OBVIOUS
    <2>3. pc \in [Threads \cup Adders -> C!PC]
      BY DEF C!PC
    <2>4. current \in [Threads -> Added \cup {NONE}]
      OBVIOUS
    <2>5. QED
      BY <2>1, <2>2, <2>3, <2>4 DEF C!CallbacksTypeOK
  <1>2. Exclusive
    BY DEF Exclusive, C!Callers
  <1>3. QED
    BY <1>1, <1>2 DEF SchedulerInv, C!NeverForgotten

\* a step of a thread that neither begins nor ends a callback
LEMMA SameCallers ==
  ASSUME C!CallbacksTypeOK,
         \A t \in Threads : (pc'[t] \in {"callback", "ran"}) = (pc[t] \in {"callback", "ran"}),
         UNCHANGED current
  PROVE  C!Callers' = C!Callers /\ C!InCallback' = C!InCallback
  BY DEF C!Callers, C!InCallback

LEMMA AddInv ==
  ASSUME SchedulerInv, NEW p \in Adders, NEW c \in Added, C!AddToProcessQueue(p, c)
  PROVE  SchedulerInv' /\ C!Callers' = C!Callers /\ C!InCallback' = C!InCallback
  <1> USE DEF SchedulerInv, C!AddToProcessQueue, C!Goto
  <1>1. C!CallbacksTypeOK'
    BY SMT DEF C!CallbacksTypeOK, C!PC
  <1>2. C!Callers' = C!Callers /\ C!InCallback' = C!InCallback
    BY SameCallers DEF C!CallbacksTypeOK, Exclusive
  <1>3. Exclusive'
    BY <1>2 DEF Exclusive, C!CallbacksTypeOK
  <1>4. C!NeverForgotten'
    BY DEF C!NeverForgotten, C!CallbacksTypeOK
  <1>5. QED
    BY <1>1, <1>2, <1>3, <1>4

LEMMA MaybeScheduleInv ==
  ASSUME SchedulerInv, NEW p \in Threads \cup Adders, C!MaybeScheduleProcessQueue(p)
  PROVE  SchedulerInv' /\ C!Callers' = C!Callers /\ C!InCallback' = C!InCallback
  <1> USE DEF SchedulerInv, C!MaybeScheduleProcessQueue, C!Goto, C!Home
  <1>1. C!CallbacksTypeOK'
    BY DEF C!CallbacksTypeOK, C!PC
  <1>2. C!Callers' = C!Callers /\ C!InCallback' = C!InCallback
    BY SameCallers, SMT DEF C!CallbacksTypeOK, Exclusive
  <1>3. Exclusive'
    BY <1>2 DEF Exclusive, C!CallbacksTypeOK
  <1>4. C!NeverForgotten'
    BY DEF C!NeverForgotten, C!CallbacksTypeOK
  <1>5. QED
    BY <1>1, <1>2, <1>3, <1>4

LEMMA ScheduleInv ==
  ASSUME SchedulerInv, NEW p \in Threads \cup Adders, C!Schedule(p)
  PROVE  SchedulerInv' /\ C!Callers' = C!Callers /\ C!InCallback' = C!InCallback
  <1> USE DEF SchedulerInv, C!Schedule, C!Goto
  <1>1. C!CallbacksTypeOK'
    BY SMT DEF C!CallbacksTypeOK, C!PC
  <1>2. C!Callers' = C!Callers /\ C!InCallback' = C!InCallback
    BY SameCallers, SMT DEF C!CallbacksTypeOK, Exclusive
  <1>3. Exclusive'
    BY <1>2 DEF Exclusive, C!CallbacksTypeOK
  <1>4. C!NeverForgotten'
    BY SMT DEF C!NeverForgotten, C!CallbacksTypeOK
  <1>5. QED
    BY <1>1, <1>2, <1>3, <1>4

LEMMA NotifyInv ==
  ASSUME SchedulerInv, NEW p \in Threads \cup Adders, C!Notify(p)
  PROVE  SchedulerInv' /\ C!Callers' = C!Callers /\ C!InCallback' = C!InCallback
  <1> USE DEF SchedulerInv, C!Notify, C!Goto, C!Home
  <1>1. \/ pc' = [pc EXCEPT ![p] = C!Home(p)]
        \/ \E t \in Threads : /\ pc[t] = "waiting"
                              /\ pc' = [pc EXCEPT ![p] = C!Home(p), ![t] = "loop"]
    OBVIOUS
  <1>2. C!CallbacksTypeOK'
    BY <1>1 DEF C!CallbacksTypeOK, C!PC
  <1>3. C!Callers' = C!Callers /\ C!InCallback' = C!InCallback
    BY <1>1, SameCallers, SMT DEF C!CallbacksTypeOK, Exclusive
  <1>4. Exclusive'
    BY <1>1, <1>3 DEF Exclusive, C!CallbacksTypeOK
  <1>5. C!NeverForgotten'
    BY <1>1 DEF C!NeverForgotten, C!CallbacksTypeOK
  <1>6. QED
    BY <1>2, <1>3, <1>4, <1>5

LEMMA WaitTakeReturnInv ==
  ASSUME SchedulerInv, NEW t \in Threads,
         C!Wait(t) \/ C!SpuriousWakeup(t) \/ C!Take(t) \/ C!Return(t)
  PROVE  SchedulerInv' /\ C!Callers' = C!Callers /\ C!InCallback' = C!InCallback
  <1> USE DEF SchedulerInv, C!Wait, C!SpuriousWakeup, C!Take, C!Return, C!Goto
  <1>1. C!CallbacksTypeOK'
    BY SMT DEF C!CallbacksTypeOK, C!PC
  <1>2. C!Callers' = C!Callers /\ C!InCallback' = C!InCallback
    BY SameCallers, SMT DEF C!CallbacksTypeOK
  <1>3. Exclusive'
    BY <1>2 DEF Exclusive, C!CallbacksTypeOK
  <1>4. C!NeverForgotten'
    BY DEF C!NeverForgotten, C!CallbacksTypeOK, Exclusive, C!Callers
  <1>5. QED
    BY <1>1, <1>2, <1>3, <1>4

LEMMA ProcessQueueInv ==
  ASSUME SchedulerInv, NEW t \in Threads, C!ProcessQueue(t)
  PROVE  /\ SchedulerInv'
         /\ \/ UNCHANGED pending /\ C!InCallback' = C!InCallback
            \/ /\ C!InCallback = {} /\ pending # <<>>
               /\ C!InCallback' = {Head(pending)} /\ pending' = Tail(pending)
  <1> USE DEF SchedulerInv, C!ProcessQueue, C!Goto
  <1>1. C!CallbacksTypeOK'
    <2>1. CASE running \/ pending = <<>>
      BY <2>1 DEF C!CallbacksTypeOK, C!PC
    <2>2. CASE ~ (running \/ pending = <<>>)
      <3>1. Head(pending) \in Added /\ Tail(pending) \in Seq(Added)
        BY <2>2, SMT DEF C!CallbacksTypeOK
      <3>2. pc' \in [Threads \cup Adders -> C!PC] /\ running' \in BOOLEAN
        BY <2>2 DEF C!CallbacksTypeOK, C!PC
      <3>3. current' \in [Threads -> Added \cup {NONE}]
        BY <2>2, <3>1 DEF C!CallbacksTypeOK
      <3>4. QED
        BY <2>2, <3>1, <3>2, <3>3 DEF C!CallbacksTypeOK
    <2>3. QED
      BY <2>1, <2>2
  <1>2. CASE running \/ pending = <<>>
    <2>1. C!Callers' = C!Callers /\ C!InCallback' = C!InCallback
      BY <1>2, SameCallers, SMT DEF C!CallbacksTypeOK
    <2>2. Exclusive'
      BY <1>2, <2>1 DEF Exclusive, C!CallbacksTypeOK
    <2>3. C!NeverForgotten'
      BY <1>2 DEF C!NeverForgotten
    <2>4. QED
      BY <1>1, <1>2, <2>1, <2>2, <2>3
  <1>3. CASE ~ (running \/ pending = <<>>)
    <2>1. C!Callers = {} /\ C!InCallback = {}
      BY <1>3 DEF Exclusive, C!CallbacksTypeOK, C!InCallback
    <2>2. C!Callers' = {t}
      BY <1>3, <2>1 DEF C!Callers, C!CallbacksTypeOK
    <2>3. C!InCallback' = {Head(pending)}
      BY <1>3, <2>2 DEF C!InCallback, C!CallbacksTypeOK
    <2>4. Exclusive'
      BY <1>3, <2>2 DEF Exclusive, C!CallbacksTypeOK
    <2>5. C!NeverForgotten'
      BY <1>3 DEF C!NeverForgotten
    <2>6. QED
      BY <1>1, <1>3, <2>1, <2>3, <2>4, <2>5
  <1>4. QED
    BY <1>2, <1>3

LEMMA CallbacksRanInv ==
  ASSUME SchedulerInv, NEW t \in Threads, C!CallbacksRan(t)
  PROVE  /\ SchedulerInv' /\ UNCHANGED pending
         /\ C!InCallback # {} /\ C!InCallback' = {}
  <1> USE DEF SchedulerInv, C!CallbacksRan, C!Goto
  <1>1. C!CallbacksTypeOK'
    BY DEF C!CallbacksTypeOK, C!PC
  <1>2. C!Callers = {t} /\ C!InCallback # {}
    BY DEF Exclusive, C!Callers, C!InCallback
  <1>3. C!Callers' = {} /\ C!InCallback' = {}
    BY <1>2 DEF C!Callers, C!InCallback, C!CallbacksTypeOK
  <1>4. Exclusive'
    BY <1>3 DEF Exclusive, C!CallbacksTypeOK
  <1>5. C!NeverForgotten'
    BY DEF C!NeverForgotten, C!CallbacksTypeOK
  <1>6. QED
    BY <1>1, <1>2, <1>3, <1>4, <1>5

\* every step keeps the invariant and is a step of the serial queue
LEMMA SchedulerStep ==
  ASSUME SchedulerInv, [C!CallbacksNext]_C!callbackVars
  PROVE  SchedulerInv' /\ [C!Serial!Next]_<<pending, C!InCallback>>
  <1> USE DEF C!Serial!Next
  <1>1. CASE UNCHANGED C!callbackVars
    BY <1>1 DEF C!callbackVars, SchedulerInv, C!CallbacksTypeOK, Exclusive, C!NeverForgotten,
                C!Callers, C!InCallback
  <1>2. ASSUME NEW p \in Adders, NEW c \in Added, C!AddToProcessQueue(p, c)
        PROVE  SchedulerInv' /\ C!Serial!Add(c)
    BY <1>2, AddInv DEF C!AddToProcessQueue, C!Serial!Add
  <1>3. ASSUME NEW p \in Threads \cup Adders,
               C!MaybeScheduleProcessQueue(p) \/ C!Schedule(p) \/ C!Notify(p)
        PROVE  SchedulerInv' /\ UNCHANGED <<pending, C!InCallback>>
    BY <1>3, MaybeScheduleInv, ScheduleInv, NotifyInv
    DEF C!MaybeScheduleProcessQueue, C!Schedule, C!Notify
  <1>4. ASSUME NEW t \in Threads, C!Wait(t) \/ C!SpuriousWakeup(t) \/ C!Take(t) \/ C!Return(t)
        PROVE  SchedulerInv' /\ UNCHANGED <<pending, C!InCallback>>
    BY <1>4, WaitTakeReturnInv DEF C!Wait, C!SpuriousWakeup, C!Take, C!Return
  <1>5. ASSUME NEW t \in Threads, C!ProcessQueue(t)
        PROVE  SchedulerInv' /\ (C!Serial!Begin \/ UNCHANGED <<pending, C!InCallback>>)
    BY <1>5, ProcessQueueInv DEF C!Serial!Begin
  <1>6. ASSUME NEW t \in Threads, C!CallbacksRan(t)
        PROVE  SchedulerInv' /\ C!Serial!End
    BY <1>6, CallbacksRanInv DEF C!Serial!End
  <1>7. QED
    BY <1>1, <1>2, <1>3, <1>4, <1>5, <1>6 DEF C!CallbacksNext, C!Service

LEMMA SchedulerAlways == C!CallbacksSpec => []SchedulerInv
  BY SchedulerInit, SchedulerStep, PTL DEF C!CallbacksSpec

-----------------------------------------------------------------------------

\* SingleThreadedSchedulerClient: the callbacks run one at a time and in order
THEOREM CallbacksAreSerial == C!CallbacksSpec => C!CallbacksSerial
  <1>1. C!CallbacksInit => C!Serial!Init
    BY DEF C!CallbacksInit, C!Serial!Init, C!InCallback, C!Callers, C!Home
  <1>2. SchedulerInv /\ [C!CallbacksNext]_C!callbackVars
          => [C!Serial!Next]_<<pending, C!InCallback>>
    BY SchedulerStep
  <1>3. QED
    BY <1>1, <1>2, SchedulerAlways, PTL DEF C!CallbacksSpec, C!CallbacksSerial, C!Serial!Spec

\* SingleThreadedSchedulerClient: whatever waits is going to be taken up
THEOREM CallbacksNeverForgotten == C!CallbacksSpec => []C!NeverForgotten
  <1>1. SchedulerInv => C!NeverForgotten
    BY DEF SchedulerInv
  <1>2. QED
    BY <1>1, SchedulerAlways, PTL

\* CScheduler: notify_one after every insertion suffices
THEOREM SchedulerNeverOversleeps ==
  ASSUME Threads # {}
  PROVE  C!CallbacksSpec => []C!NeverOverslept
  <1>1. C!CallbacksInit => C!NeverOverslept
    <2>1. C!CallbacksInit => ~ (tasks > 0)
      BY SMT DEF C!CallbacksInit
    <2>2. QED
      BY <2>1 DEF C!NeverOverslept
  <1>2. ASSUME SchedulerInv, C!NeverOverslept, [C!CallbacksNext]_C!callbackVars
        PROVE  C!NeverOverslept'
    <2>1. CASE UNCHANGED C!callbackVars
      BY <1>2, <2>1 DEF C!callbackVars, C!NeverOverslept
    <2>2. ASSUME NEW p \in Threads \cup Adders, C!Schedule(p)
          PROVE  C!NeverOverslept'
      BY <1>2, <2>2 DEF C!Schedule, C!Goto, C!NeverOverslept, SchedulerInv, C!CallbacksTypeOK
    <2>3. ASSUME NEW p \in Threads \cup Adders, C!MaybeScheduleProcessQueue(p)
          PROVE  C!NeverOverslept'
      BY <1>2, <2>3
      DEF C!MaybeScheduleProcessQueue, C!Goto, C!Home, C!NeverOverslept, SchedulerInv,
          C!CallbacksTypeOK
    <2>4. ASSUME NEW t \in Threads,
                 \/ C!Wait(t) \/ C!SpuriousWakeup(t) \/ C!Take(t) \/ C!Return(t)
                 \/ C!ProcessQueue(t) \/ C!CallbacksRan(t)
          PROVE  C!NeverOverslept'
      BY <1>2, <2>4, SMT
      DEF C!Wait, C!SpuriousWakeup, C!Take, C!Return, C!ProcessQueue, C!CallbacksRan, C!Goto,
          C!NeverOverslept, SchedulerInv, C!CallbacksTypeOK
    <2>5. ASSUME NEW p \in Adders, NEW c \in Added, C!AddToProcessQueue(p, c)
          PROVE  C!NeverOverslept'
      BY <1>2, <2>5
      DEF C!AddToProcessQueue, C!Goto, C!NeverOverslept, SchedulerInv, C!CallbacksTypeOK
    <2>6. ASSUME NEW p \in Threads \cup Adders, C!Notify(p)
          PROVE  C!NeverOverslept'
      BY <1>2, <2>6 DEF C!Notify, C!Goto, C!Home, C!NeverOverslept, SchedulerInv, C!CallbacksTypeOK
    <2>7. QED
      BY <1>2, <2>1, <2>2, <2>3, <2>4, <2>5, <2>6 DEF C!CallbacksNext, C!Service
  <1>3. QED
    BY <1>1, <1>2, SchedulerAlways, PTL DEF C!CallbacksSpec

=============================================================================
