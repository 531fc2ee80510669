------------------------------- MODULE Mempool -------------------------------
(***************************************************************************)
(* The transaction pool (CTxMemPool, src/txmempool.cpp) and what           *)
(* validation does to it (src/validation.cpp): transactions are accepted,  *)
(* blocks are connected and disconnected, and at the end of a              *)
(* reorganization the disconnected transactions return.  With it goes the  *)
(* proof-of-stake check of a connected block, which looks the staked       *)
(* transaction up in the pool first (src/pos/kernel.cpp).                  *)
(*                                                                         *)
(* Everything runs under cs_main: a thread that moves the chain keeps the  *)
(* others out until phase is "idle" again.  An output is a transaction     *)
(* with a number.  Of the sums an entry keeps over its descendants and     *)
(* ancestors (counts, sizes, fees) the counts are modelled.  mapNextTx is  *)
(* read off the pool's inputs.                                             *)
(***************************************************************************)
EXTENDS Integers, Sequences, FiniteSetsExt

CONSTANTS
  NONE,
  \* blocks
  Blocks, Genesis, Parent, Height,
  Path,             \* a block with all its ancestors
  Vtx,              \* the transactions of a block, the coinbase first
  From,             \* the block the kernel of a block's coinstake was made with,
                    \* NONE before the switch to proof of stake
  \* transactions
  Tx,
  Spends, Outputs,  \* vin, vout
  LockTime,         \* nLockTime, a height
  Relative,         \* BIP68: blocks to wait after the inputs, 0 without the lock
  Fee,
  Relayable,        \* passes the checks that depend on the transaction alone
  Replaceable,      \* signals BIP125
  \* limits
  Maturity,         \* COINBASE_MATURITY
  LimitAncestors, LimitDescendants, MaxReplaced,
  MaxDisconnected,  \* MAX_DISCONNECTED_TX_POOL_SIZE
  MaxInvalidated, MaxFaults   \* bounds on commands and on disk faults

\* sequences
Reverse(s) == [i \in 1 .. Len(s) |-> s[Len(s) + 1 - i]]
Last(s) == s[Len(s)]
Front(s) == SubSeq(s, 1, Len(s) - 1)

Coinbase == {t \in Tx : Spends[t] = {}}
Confirmed == [b \in Blocks |-> UNION {Range(Vtx[a]) : a \in Path[b]}]

\* the coins of a chain, and the height each was made at
Unspent == [b \in Blocks |->
  (UNION {Outputs[t] : t \in Confirmed[b]})
    \ (UNION {Spends[t] : t \in Confirmed[b]})]
CoinHeight == [b \in Blocks |-> [t \in Confirmed[b] |->
  Height[CHOOSE a \in Path[b] : t \in Range(Vtx[a])]]]

CheckFinalTx(t, b) == LockTime[t] < Height[b] + 1
Mature(o, b) == o[1] \in Coinbase => Height[b] + 1 - CoinHeight[b][o[1]] >= Maturity

\* Blocks are those that pass every check of ConnectBlock but the stake's; what
\* Genesis holds stands for older transactions.
ASSUME MempoolAssumption ==
  /\ Genesis \in Blocks /\ NONE \notin Blocks /\ Height \in [Blocks -> Nat]
  /\ Parent[Genesis] = NONE /\ Path[Genesis] = {Genesis} /\ Height[Genesis] = 0
  /\ Vtx[Genesis] \in Seq(Tx)
  /\ \A t \in Range(Vtx[Genesis]) : \A o \in Spends[t] : o[1] \notin Tx
  /\ \A b \in Blocks \ {Genesis} :
       /\ Parent[b] \in Blocks
       /\ Path[b] = Path[Parent[b]] \cup {b} /\ b \notin Path[Parent[b]]
       /\ Height[b] = Height[Parent[b]] + 1
       /\ Vtx[b] \in Seq(Tx) /\ Len(Vtx[b]) > 0 /\ Vtx[b][1] \in Coinbase
       /\ Range(Vtx[b]) \cap Confirmed[Parent[b]] = {}
       /\ \A i \in 2 .. Len(Vtx[b]) :
            LET t == Vtx[b][i]
                have == Unspent[Parent[b]]
                          \cup UNION {Outputs[Vtx[b][j]] : j \in 1 .. i - 1}
            IN  /\ t \notin Coinbase /\ Spends[t] \subseteq have
                /\ CheckFinalTx(t, Parent[b])
                /\ \A o \in Spends[t] :
                     Height[b] - CoinHeight[b][o[1]]
                       >= IF o[1] \in Coinbase THEN Maturity ELSE Relative[t]
                /\ \A j \in 2 .. i - 1 : Spends[t] \cap Spends[Vtx[b][j]] = {}
       /\ From[b] # NONE => Len(Vtx[b]) > 1 /\ Cardinality(Spends[Vtx[b][2]]) = 1
  /\ IsFiniteSet(Tx)
  /\ \A t \in Tx :
       Outputs[t] \subseteq {t} \X Nat /\ Relative[t] \in Nat /\ LockTime[t] \in Nat
  /\ Relayable \cap Coinbase = {}
  /\ Maturity \in Nat \ {0} /\ MaxDisconnected \in Nat

VARIABLES
  tip,             \* chainActive.Tip()
  failed,          \* blocks marked BLOCK_FAILED
  refused,         \* those ConnectBlock marked
  mempool,         \* CTxMemPool
  phase,           \* idle, moving (ActivateBestChainStep), invalidating, adding
                   \* (UpdateMempoolForReorg)
  target, oldTip,  \* of the move: pindexMostWork or the block to invalidate
  disconnectpool,  \* queuedTx in the order of insertion
  fAddToMempool, vHashUpdate,
  commands, faults

chain == <<tip, failed, refused>>
move == <<target, oldTip>>
update == <<fAddToMempool, vHashUpdate>>
vars == <<chain, mempool, phase, move, disconnectpool, update, commands, faults>>

NoLocks == [height |-> -1, block |-> Genesis]

EmptyPool ==
  [tx |-> {},
   parents |-> [t \in Tx |-> {}], children |-> [t \in Tx |-> {}],
   ancestors |-> [t \in Tx |-> 0], descendants |-> [t \in Tx |-> 0],
   locks |-> [t \in Tx |-> NoLocks]]

Init ==
  /\ tip = Genesis /\ failed = {} /\ refused = {}
  /\ mempool = EmptyPool
  /\ phase = "idle" /\ target = NONE /\ oldTip = NONE
  /\ disconnectpool = <<>> /\ fAddToMempool = TRUE /\ vHashUpdate = <<>>
  /\ commands = 0 /\ faults = 0

-----------------------------------------------------------------------------
(* The pool's links.  mp is a pool.                                        *)

\* what can be reached from S, S included
Reach(links, S) ==
  LET reach[R \in SUBSET Tx] ==
        LET wider == {t \in Tx : t \in R \/ \E u \in R : t \in links[u]}
        IN  IF wider = R THEN R ELSE reach[wider]
  IN  reach[S]

CalculateDescendants(mp, S) == Reach(mp.children, S)

\* the pool's transactions that t spends from, and those that spend from t
SpentBy(mp, t) == {u \in mp.tx : \E o \in Spends[t] : o[1] = u}
Spending(mp, t) == {u \in mp.tx : Spends[u] \cap Outputs[t] # {}}

\* with fSearchForParents: t is not yet in the pool
CalculateMemPoolAncestors(mp, t) == Reach(mp.parents, SpentBy(mp, t))

WithinLimits(mp, t) ==
  LET setAncestors == CalculateMemPoolAncestors(mp, t) IN
  /\ Cardinality(setAncestors) + 1 <= LimitAncestors
  /\ \A a \in setAncestors : mp.descendants[a] + 1 <= LimitDescendants

addUnchecked(mp, t, setAncestors, lp) ==
  [tx |-> mp.tx \cup {t},
   parents |-> [mp.parents EXCEPT ![t] = SpentBy(mp, t)],
   children |-> [u \in Tx |-> IF u \in SpentBy(mp, t) THEN mp.children[u] \cup {t}
                              ELSE mp.children[u]],
   ancestors |-> [mp.ancestors EXCEPT ![t] = 1 + Cardinality(setAncestors)],
   descendants |-> [u \in Tx |-> IF u = t THEN 1
                                 ELSE IF u \in setAncestors THEN mp.descendants[u] + 1
                                 ELSE mp.descendants[u]],
   locks |-> [mp.locks EXCEPT ![t] = lp]]

\* mutant: the ancestors of an entry are searched for
LinkedAncestorsSearched(mp, t) == CalculateMemPoolAncestors(mp, t)

\* CalculateMemPoolAncestors of an entry of the pool, along the links
LinkedAncestors(mp, t) == Reach(mp.parents, mp.parents[t])

\* UpdateForRemoveFromMempool and removeUnchecked
RemoveStaged(mp, stage, updateDescendants) ==
  LET above == [r \in stage |-> LinkedAncestors(mp, r)]
      below == [r \in stage |->
                 IF updateDescendants THEN CalculateDescendants(mp, {r}) \ {r} ELSE {}]
      Hits(reach, t) == Cardinality({r \in stage : t \in reach[r]})
  IN  [tx |-> mp.tx \ stage,
       parents |-> [t \in Tx |-> IF t \in stage THEN {} ELSE
                      mp.parents[t] \ {r \in stage : t \in mp.children[r]}],
       children |-> [t \in Tx |-> IF t \in stage THEN {} ELSE
                       mp.children[t] \ {r \in stage : t \in mp.parents[r]}],
       ancestors |-> [t \in Tx |-> IF t \in stage THEN 0
                                   ELSE mp.ancestors[t] - Hits(below, t)],
       descendants |-> [t \in Tx |-> IF t \in stage THEN 0
                                     ELSE mp.descendants[t] - Hits(above, t)],
       locks |-> [t \in Tx |-> IF t \in stage THEN NoLocks ELSE mp.locks[t]]]

RemoveWithDescendants(mp, S) ==
  RemoveStaged(mp, CalculateDescendants(mp, S), FALSE)

removeRecursive(mp, t) ==
  RemoveWithDescendants(mp, IF t \in mp.tx THEN {t} ELSE Spending(mp, t))

\* one after the other
RemoveEach(mp, txs) ==
  LET left[i \in 0 .. Len(txs)] ==
        IF i = 0 THEN mp ELSE removeRecursive(left[i - 1], txs[i])
  IN  left[Len(txs)]

Conflicts(mp, t) == {u \in mp.tx \ {t} : Spends[u] \cap Spends[t] # {}}

\* a transaction of a connected block leaves, and what conflicts with it
RemoveConfirmed(mp, t) ==
  LET left == IF t \in mp.tx THEN RemoveStaged(mp, {t}, TRUE) ELSE mp
  IN  RemoveWithDescendants(left, Conflicts(left, t))

removeForBlock(mp, vtx) ==
  LET left[i \in 0 .. Len(vtx)] ==
        IF i = 0 THEN mp ELSE RemoveConfirmed(left[i - 1], vtx[i])
  IN  left[Len(vtx)]

\* mutant: the walk over mapNextTx runs past the last output
NewChildrenOverrun(mp, t, exclude) == mp.tx \ (exclude \cup {t})

NewChildren(mp, t, exclude) == Spending(mp, t) \ exclude

\* a re-added transaction gets its children in the pool and counts them;
\* exclude are the re-added ones, which were counted when they were added
UpdateForDescendants(mp, t, exclude) ==
  LET new == NewChildren(mp, t, exclude)
      links == [mp.children EXCEPT ![t] = @ \cup new]
      all == Reach(links, links[t]) \ exclude
  IN  IF t \notin mp.tx THEN mp ELSE
      [mp EXCEPT
         !.children = links,
         !.parents = [u \in Tx |-> IF u \in new THEN @[u] \cup {t} ELSE @[u]],
         !.ancestors = [u \in Tx |-> IF u \in all THEN @[u] + 1 ELSE @[u]],
         !.descendants[t] = @ + Cardinality(all)]

\* children first, so that their links are there when a parent counts
UpdateTransactionsFromBlock(mp, vHashes) ==
  LET updated[i \in 0 .. Len(vHashes)] ==
        IF i = 0 THEN mp
        ELSE UpdateForDescendants(updated[i - 1], vHashes[Len(vHashes) + 1 - i],
                                  Range(vHashes))
  IN  updated[Len(vHashes)]

-----------------------------------------------------------------------------
(* AcceptToMemoryPool, on top of the chain that ends in tip.               *)

\* CCoinsViewMemPool::GetCoin
HaveCoin(mp, o) ==
  IF o[1] \in mp.tx THEN o \in Outputs[o[1]] ELSE o \in Unspent[tip]

\* CalculateSequenceLocks, with the block that must stay for the result to hold;
\* an input in the pool counts as made by the next block
LockPoints(mp, t) ==
  LET next == Height[tip] + 1
      made == {IF o[1] \in mp.tx THEN next ELSE CoinHeight[tip][o[1]] : o \in Spends[t]}
      Top(S) == CHOOSE h \in S : \A g \in S : g <= h
      top == Top((made \ {next}) \cup {0})
  IN  IF Relative[t] = 0 THEN NoLocks ELSE
      [height |-> Top(made) + Relative[t] - 1,
       block |-> CHOOSE a \in Path[tip] : Height[a] = top]

EvaluateSequenceLocks(lp) == lp.height < Height[tip] + 1

\* BIP125, when t conflicts with the pool
MayReplace(mp, t) ==
  LET direct == Conflicts(mp, t)
      parents == UNION {{o[1] : o \in Spends[c]} : c \in direct}
      Total(f, S) == FoldSet(LAMBDA u, n : f[u] + n, 0, S)
  IN  direct # {} =>
      /\ direct \subseteq Replaceable
      /\ CalculateMemPoolAncestors(mp, t) \cap direct = {}
      /\ Total(mp.descendants, direct) <= MaxReplaced
      /\ \A o \in Spends[t] : o[1] \in mp.tx => o[1] \in parents
      /\ Fee[t] > Total(Fee, CalculateDescendants(mp, direct))

Acceptable(mp, t) ==
  /\ t \in Relayable
  /\ CheckFinalTx(t, tip)
  /\ t \notin mp.tx
  /\ \A o \in Spends[t] : HaveCoin(mp, o)
  /\ EvaluateSequenceLocks(LockPoints(mp, t))
  /\ \A o \in Spends[t] : o[1] \notin mp.tx => Mature(o, tip)
  /\ WithinLimits(mp, t)
  /\ MayReplace(mp, t)

Accepted(mp, t) ==
  addUnchecked(RemoveWithDescendants(mp, Conflicts(mp, t)), t,
               CalculateMemPoolAncestors(mp, t), LockPoints(mp, t))

\* Expire and TrimToSize: whatever is old or pays least leaves with what
\* depends on it
LimitMempoolSize(mp) == {RemoveWithDescendants(mp, S) : S \in SUBSET mp.tx}

AcceptToMemoryPool(t) ==
  /\ phase = "idle"
  /\ Acceptable(mempool, t)
  /\ mempool' \in LimitMempoolSize(Accepted(mempool, t))
  /\ UNCHANGED <<chain, phase, move, disconnectpool, update, commands, faults>>

-----------------------------------------------------------------------------
(* The chain moves.                                                        *)

\* ActivateBestChain found more work, or as much on a block it prefers
ActivateBestChain(b) ==
  /\ phase = "idle" /\ phase' = "moving"
  /\ b # tip /\ Height[b] >= Height[tip] /\ Path[b] \cap failed = {}
  /\ target' = b /\ oldTip' = tip
  /\ UNCHANGED <<chain, mempool, disconnectpool, update, commands, faults>>

InvalidateBlock(b) ==
  /\ phase = "idle" /\ phase' = "invalidating"
  /\ commands < MaxInvalidated /\ commands' = commands + 1
  /\ b \in Path[tip] \ {Genesis}
  /\ target' = b /\ oldTip' = tip
  /\ UNCHANGED <<chain, mempool, disconnectpool, update, faults>>

MustDisconnect ==
  \/ phase = "moving" /\ tip \notin Path[target]
  \/ phase = "invalidating" /\ target \in Path[tip]

DisconnectTip ==
  LET all == disconnectpool \o Reverse(Vtx[tip])
      drop == IF Len(all) > MaxDisconnected THEN Len(all) - MaxDisconnected ELSE 0
  IN  /\ MustDisconnect
      /\ mempool' = RemoveEach(mempool, SubSeq(all, 1, drop))
      /\ disconnectpool' = SubSeq(all, drop + 1, Len(all))
      /\ tip' = Parent[tip]
      /\ UNCHANGED <<failed, refused, phase, move, update, commands, faults>>

\* mutant: the chain as it was before the move
GetTransactionBefore(mp, t) ==
  IF t \in mp.tx \/ Outputs[t] \cap Unspent[tip] = {} THEN NONE
  ELSE CHOOSE a \in Path[oldTip] : Height[a] = CoinHeight[tip][t]

\* without -txindex: the block a transaction is in, NONE (a null hash, or not
\* found) for one in the pool or with nothing left to spend
GetTransaction(mp, t) ==
  IF t \in mp.tx \/ Outputs[t] \cap Unspent[tip] = {} THEN NONE
  ELSE CHOOSE a \in Path[tip] : Height[a] = CoinHeight[tip][t]

\* the kernel was made with the time of one block and fails with any other's
CheckProofOfStake(mp, b) ==
  From[b] # NONE =>
    \A o \in Spends[Vtx[b][2]] : GetTransaction(mp, o[1]) = From[b]

\* whether the mempool is updated after the move
FinishMove(add, disconnected) ==
  /\ phase' = IF disconnected THEN "adding" ELSE "idle"
  /\ fAddToMempool' = add /\ vHashUpdate' = <<>>
  /\ target' = NONE /\ oldTip' = NONE

Disconnected == oldTip \notin Path[tip]

NextBlock == CHOOSE b \in Path[target] : Parent[b] = tip

\* DisconnectedBlockTransactions::removeForBlock
Without(txs, vtx) ==
  LET kept[i \in 0 .. Len(txs)] ==
        IF i = 0 THEN <<>>
        ELSE IF txs[i] \in Range(vtx) THEN kept[i - 1] ELSE Append(kept[i - 1], txs[i])
  IN  kept[Len(txs)]

\* ConnectBlock succeeds; a better tip ends the step
ConnectTip ==
  LET b == NextBlock IN
  /\ phase = "moving" /\ tip \in Path[target] /\ tip # target
  /\ CheckProofOfStake(mempool, b)
  /\ mempool' = removeForBlock(mempool, Vtx[b])
  /\ disconnectpool' = Without(disconnectpool, Vtx[b])
  /\ tip' = b
  /\ IF Height[b] > Height[oldTip] \/ b = target
     THEN FinishMove(TRUE, oldTip \notin Path[b])
     ELSE UNCHANGED <<phase, move, update>>
  /\ UNCHANGED <<failed, refused, commands, faults>>

\* InvalidBlockFound
RefuseBlock ==
  LET b == NextBlock IN
  /\ phase = "moving" /\ tip \in Path[target] /\ tip # target
  /\ ~CheckProofOfStake(mempool, b)
  /\ failed' = failed \cup {b} /\ refused' = refused \cup {b}
  /\ FinishMove(TRUE, Disconnected)
  /\ UNCHANGED <<tip, mempool, disconnectpool, commands, faults>>

\* InvalidateBlock after the last disconnection
MarkInvalid ==
  /\ phase = "invalidating" /\ target \notin Path[tip]
  /\ failed' = failed \cup {b \in Path[oldTip] : target \in Path[b]}
  /\ FinishMove(TRUE, TRUE)
  /\ UNCHANGED <<tip, refused, mempool, disconnectpool, commands, faults>>

\* a block or its undo data cannot be read: the transactions do not return
Fault ==
  /\ phase = "moving" \/ MustDisconnect
  /\ faults < MaxFaults /\ faults' = faults + 1
  /\ FinishMove(FALSE, TRUE)
  /\ UNCHANGED <<chain, mempool, disconnectpool, commands>>

-----------------------------------------------------------------------------
(* UpdateMempoolForReorg.                                                  *)

\* one transaction, the first of the chain first
ReAdd ==
  /\ phase = "adding" /\ disconnectpool # <<>>
  /\ LET t == Last(disconnectpool) IN
     IF fAddToMempool /\ Acceptable(mempool, t)
     THEN /\ mempool' = Accepted(mempool, t)
          /\ vHashUpdate' = Append(vHashUpdate, t)
     ELSE /\ mempool' = removeRecursive(mempool, t)
          /\ UNCHANGED vHashUpdate
  /\ disconnectpool' = Front(disconnectpool)
  /\ UNCHANGED <<chain, phase, move, fAddToMempool, commands, faults>>

\* mutant: the cached lock points are trusted
TestLockPointValidityAlways(lp) == TRUE

TestLockPointValidity(lp) == lp.block \in Path[tip]

\* what cannot be in the next block any more
NotReady(mp, t) ==
  \/ ~CheckFinalTx(t, tip)
  \/ IF TestLockPointValidity(mp.locks[t]) THEN ~EvaluateSequenceLocks(mp.locks[t])
     ELSE \/ \E o \in Spends[t] : ~HaveCoin(mp, o)
          \/ ~EvaluateSequenceLocks(LockPoints(mp, t))
  \/ \E o \in Spends[t] :
       /\ \E i \in Spends[t] : i[1] \in Coinbase
       /\ o[1] \notin mp.tx
       /\ o \notin Unspent[tip] \/ ~Mature(o, tip)

removeForReorg(mp) ==
  LET fresh == [mp EXCEPT !.locks = [t \in Tx |->
                  IF /\ t \in mp.tx /\ ~TestLockPointValidity(@[t])
                     /\ \A o \in Spends[t] : HaveCoin(mp, o)
                  THEN LockPoints(mp, t) ELSE @[t]]]
  IN  RemoveWithDescendants(fresh, {t \in mp.tx : NotReady(mp, t)})

FinishUpdate ==
  /\ phase = "adding" /\ disconnectpool = <<>> /\ phase' = "idle"
  /\ mempool' \in LimitMempoolSize(
                    removeForReorg(UpdateTransactionsFromBlock(mempool, vHashUpdate)))
  /\ fAddToMempool' = TRUE /\ vHashUpdate' = <<>>
  /\ UNCHANGED <<chain, move, disconnectpool, commands, faults>>

Next ==
  \/ \E t \in Tx : AcceptToMemoryPool(t)
  \/ \E b \in Blocks : ActivateBestChain(b) \/ InvalidateBlock(b)
  \/ DisconnectTip \/ ConnectTip \/ RefuseBlock \/ MarkInvalid \/ Fault
  \/ ReAdd \/ FinishUpdate

Spec == Init /\ [][Next]_vars

-----------------------------------------------------------------------------
(* Properties.                                                             *)

\* In the middle of a reorganization the links may be incomplete, yet the counts
\* an entry keeps are those of what it is linked to: the comment of
\* UpdateForRemoveFromMempool (src/txmempool.cpp) rests on this, and the
\* assertions of UpdateDescendantState and UpdateAncestorState.
CountsFollowLinks ==
  \A t \in mempool.tx :
    /\ mempool.descendants[t] = Cardinality(CalculateDescendants(mempool, {t}))
    /\ mempool.ancestors[t] = Cardinality(Reach(mempool.parents, {t}))

\* Once the chain is at rest every entry is linked with exactly the entries it
\* spends from and those that spend from it (CTxMemPool::check).
LinksExact ==
  phase = "idle" =>
    \A t \in mempool.tx :
      /\ mempool.parents[t] = SpentBy(mempool, t)
      /\ mempool.children[t] = Spending(mempool, t)

\* Once the chain is at rest, the pool's transactions could all be in the next
\* blocks: no two spend the same output, and each finds its inputs in the chain
\* or in the pool, mature, final and past their relative locks.  CreateNewBlock
\* takes transactions from the pool without looking at their inputs again.
ReadyForNextBlock ==
  phase = "idle" =>
    \A t \in mempool.tx :
      /\ Conflicts(mempool, t) = {}
      /\ CheckFinalTx(t, tip)
      /\ \A o \in Spends[t] :
           \/ o[1] \in mempool.tx /\ Relative[t] = 0
           \/ /\ o \in Unspent[tip] /\ Mature(o, tip)
              /\ Height[tip] + 1 >= CoinHeight[tip][o[1]] + Relative[t]

\* the kernel of b was made with the block of b's own chain that holds the stake
StakeSound(b) ==
  From[b] # NONE =>
    /\ From[b] \in Path[Parent[b]]
    /\ \A o \in Spends[Vtx[b][2]] : o[1] \in Range(Vtx[From[b]])

\* Without a transaction index the verdict of CheckProofOfStake on a block is a
\* matter of the block and its ancestors: whatever the pool holds and in the
\* middle of whatever reorganization the block is connected, it is refused only
\* for a wrong stake, and never connected with one.
StakeVerdictExact ==
  /\ \A b \in refused : ~StakeSound(b)
  /\ \A b \in Path[tip] \ {Genesis} : StakeSound(b)

=============================================================================
