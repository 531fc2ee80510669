---------------------------- MODULE MempoolProofs ----------------------------
(***************************************************************************)
(* Proofs about Mempool, for every tree of valid blocks, any transactions  *)
(* and limits, and any number of reorganizations, commands and disk        *)
(* faults.                                                                 *)
(*                                                                         *)
(* The four properties of Mempool rest on one invariant, PoolInv, which    *)
(* holds in the middle of a move too.  Sound: entries are linked with what *)
(* they spend from and what spends from them, except that a re-added       *)
(* transaction does not know its children that were not re-added, and the  *)
(* counts are those of the links.  Sources: an input of an entry is made   *)
(* in the pool, waits among the disconnected transactions, or is an        *)
(* unspent output of the chain; cached lock points are right on every      *)
(* chain that holds their block.  Queued: the disconnected transactions    *)
(* wait in an order in which none returns before what it spends from, and  *)
(* none spends from an entry that stayed.  Minable: at rest, and in a move *)
(* that has disconnected nothing, every entry could be mined.              *)
(*                                                                         *)
(* The sections: what removal and addition do to the invariant; the        *)
(* invariant, action by action; the stake; the four properties.            *)
(***************************************************************************)
EXTENDS MempoolInvariant, MempoolLemmas

\* leaves are tried with Zenon unless they ask for SMT
USE Zenon

-----------------------------------------------------------------------------
(* What removal and addition do to the invariant.                          *)

\* a smaller pool keeps its sources, on this chain or on another
LEMMA SourcesShrink ==
  ASSUME NEW mp, NEW m, NEW gone, NEW late, NEW known, NEW away, NEW b, NEW away2, NEW b2,
         Sources(mp, away, b), Shrunk(mp, gone, late, known, m),
         \A u \in late : u \in m.tx \cup gone,
         m.tx \cap Confirmed[b2] = {}, m.tx \cap away2 = {},
         Replaced(mp, m, gone, away, b, away2, b2)
  PROVE  Sources(m, away2, b2)
  <1>1. m.tx \subseteq mp.tx /\ \A t \in m.tx : m.locks[t] = mp.locks[t]
    BY DEF Shrunk
  <1>2. \A t \in m.tx : \A u \in mp.tx : Depends(t, u) => u \in m.tx \cup gone
    BY DEF Shrunk
  <1>3. m.tx \cap Coinbase = {} /\ \A t, u \in m.tx : t # u => Apart(t, u)
    BY <1>1 DEF Sources
  <1>4. \A t \in m.tx : LockSound(t, m.locks[t])
    BY <1>1 DEF Sources
  <1>5. Real(m.tx)
    BY <1>1 DEF Sources, Real
  <1>6. ASSUME NEW t \in m.tx, NEW o \in Spends[t]
        PROVE  o[1] \in m.tx \cup away2 \/ o \in Unspent[b2]
    <2>1. o[1] \in mp.tx \cup away \/ o \in Unspent[b]
      BY <1>1 DEF Sources
    <2>2. o[1] \in mp.tx => o[1] \in m.tx \cup gone
      BY <1>2 DEF Depends
    <2>3. o[1] \in Tx /\ o \in Outputs[o[1]]
      BY <1>5 DEF Real
    <2>4. QED
      BY <2>1, <2>2, <2>3 DEF Replaced
  <1>7. QED
    BY <1>3, <1>4, <1>5, <1>6 DEF Sources

\* when nothing else changes
LEMMA SourcesStay ==
  ASSUME NEW mp, NEW m, NEW away, NEW b, Sources(mp, away, b), Shrunk(mp, {}, {}, {}, m)
  PROVE  Sources(m, away, b)
  <1>1. m.tx \subseteq mp.tx
    BY DEF Shrunk
  <1>2. m.tx \cap Confirmed[b] = {} /\ m.tx \cap away = {}
    BY <1>1 DEF Sources
  <1>3. Replaced(mp, m, {}, away, b, away, b)
    BY DEF Replaced
  <1>4. \A u \in {} : u \in m.tx \cup {}
    OBVIOUS
  <1>5. QED
    BY <1>2, <1>3, <1>4, SourcesShrink

\* what could be mined still can when others leave with their descendants
LEMMA MinableStays ==
  ASSUME NEW mp, NEW m, NEW b, Minable(mp, b), Shrunk(mp, {}, {}, {}, m)
  PROVE  Minable(m, b)
  <1>1. m.tx \subseteq mp.tx
    BY DEF Shrunk
  <1>2. \A t \in m.tx : \A u \in mp.tx : Depends(t, u) => u \in m.tx
    BY DEF Shrunk
  <1>3. ASSUME NEW t \in m.tx, NEW o \in Spends[t] PROVE InputReady(m, t, o, b)
    <2>1. InputReady(mp, t, o, b)
      BY <1>1 DEF Minable
    <2>2. o[1] \in mp.tx => o[1] \in m.tx
      BY <1>2 DEF Depends
    <2>3. QED
      BY <2>1, <2>2 DEF InputReady
  <1>4. QED
    BY <1>1, <1>3 DEF Minable

\* LimitMempoolSize leaves a sound pool
LEMMA LimitStays ==
  ASSUME NEW mp, NEW m, Sound(mp, {}, {}), m \in LimitMempoolSize(mp)
  PROVE  Shrunk(mp, {}, {}, {}, m) /\ Sound(m, {}, {})
  <1>1. PICK S \in SUBSET mp.tx : m = RemoveWithDescendants(mp, S)
    BY DEF LimitMempoolSize
  <1>2. Shrunk(mp, {}, {}, {}, m)
    BY <1>1, RemoveShrinks
  <1>3. QED
    BY <1>2 DEF Shrunk

\* what is accepted is not in the chain and does not spend from itself
LEMMA AcceptableNew ==
  ASSUME NEW mp, NEW away, NEW t \in Tx, tip \in Blocks, mp.tx \in SUBSET Tx,
         Sources(mp, away, tip), Acceptable(mp, t)
  PROVE  /\ t \notin mp.tx /\ t \notin Confirmed[tip] /\ t \notin Coinbase /\ Spends[t] # {}
         /\ ~ Depends(t, t) /\ MayReplace(mp, t)
         /\ \A o \in Spends[t] : HaveCoin(mp, o)
  <1>1. /\ t \in Relayable /\ t \notin mp.tx /\ \A o \in Spends[t] : HaveCoin(mp, o)
        /\ MayReplace(mp, t)
    BY DEF Acceptable
  <1>2. t \notin Coinbase /\ Spends[t] # {}
    BY <1>1, MempoolAssumption DEF Coinbase
  <1>3. ASSUME t \in Confirmed[tip] PROVE FALSE
    <2>1. PICK o \in Spends[t] : TRUE
      BY <1>2
    <2>2. CASE o[1] \in mp.tx
      <3>1. o[1] \in Tx
        BY <2>2
      <3>2. o[1] \in Confirmed[tip]
        BY <1>3, <3>1, SpendsConfirmed
      <3>3. QED
        BY <2>2, <3>2 DEF Sources
    <2>3. CASE o[1] \notin mp.tx
      <3>1. o \in Unspent[tip]
        BY <1>1, <2>3 DEF HaveCoin
      <3>2. QED
        BY <1>3, <3>1, UnspentIn
    <2>4. QED
      BY <2>2, <2>3
  <1>4. ASSUME Depends(t, t) PROVE FALSE
    <2>1. PICK o \in Spends[t] : o[1] = t
      BY <1>4 DEF Depends
    <2>2. o \in Unspent[tip]
      BY <1>1, <2>1 DEF HaveCoin
    <2>3. o[1] \in Confirmed[tip]
      BY <2>2, UnspentIn
    <2>4. QED
      BY <1>3, <2>1, <2>3
  <1>5. QED
    BY <1>1, <1>2, <1>3, <1>4

\* t joins what is left of a pool
LEMMA SourcesEnter ==
  ASSUME NEW mp, NEW L, NEW t \in Tx, NEW lp, NEW left, NEW m, NEW away, NEW away2,
         tip \in Blocks, mp.tx \in SUBSET Tx,
         Sources(mp, away, tip), Acceptable(mp, t), Entered(mp, t, lp, L, left, m),
         lp = LockPoints(mp, t), L \subseteq left.tx,
         away2 \subseteq away, away \subseteq away2 \cup {t}, t \notin away2
  PROVE  Sources(m, away2, tip)
  <1>1. /\ t \notin mp.tx /\ t \notin Confirmed[tip] /\ t \notin Coinbase /\ Spends[t] # {}
        /\ \A o \in Spends[t] : HaveCoin(mp, o)
    BY AcceptableNew
  <1>2. /\ Shrunk(mp, {}, L, L, left) /\ Conflicts(mp, t) \cap left.tx = {}
        /\ SpentBy(mp, t) \subseteq left.tx /\ m.tx = left.tx \cup {t}
        /\ m.locks[t] = lp /\ \A u \in left.tx : m.locks[u] = mp.locks[u]
    BY DEF Entered
  <1>3. /\ left.tx \subseteq mp.tx
        /\ \A w \in left.tx : \A u \in mp.tx : Depends(w, u) => u \in left.tx
    BY <1>2 DEF Shrunk
  <1>4. m.tx \cap Confirmed[tip] = {} /\ m.tx \cap away2 = {} /\ m.tx \cap Coinbase = {}
    <2>1. \A u \in m.tx : u = t \/ u \in mp.tx
      BY <1>2, <1>3
    <2>2. \A u \in mp.tx : u \notin Confirmed[tip] /\ u \notin away2 /\ u \notin Coinbase
      BY DEF Sources
    <2>3. \A u \in m.tx : u \notin Confirmed[tip] /\ u \notin away2 /\ u \notin Coinbase
      BY <1>1, <2>1, <2>2
    <2>4. QED
      BY <2>3
  <1>5. \A u \in left.tx : Apart(t, u) /\ Apart(u, t)
    <2>1. ASSUME NEW u \in left.tx PROVE Spends[u] \cap Spends[t] = {}
      BY <1>1, <1>2, <1>3 DEF Conflicts
    <2>2. QED
      BY <2>1 DEF Apart
  <1>6. \A u, w \in left.tx : u # w => Apart(u, w)
    BY <1>3 DEF Sources
  <1>7. \A u, w \in m.tx : u # w => Apart(u, w)
    BY <1>2, <1>5, <1>6
  <1>8. LockSound(t, lp)
    <2>1. EvaluateSequenceLocks(LockPoints(mp, t))
      BY DEF Acceptable
    <2>2. Relative[t] # 0 => LockSound(t, LockPoints(mp, t))
      BY <1>1, <2>1, LocksSound
    <2>3. QED
      BY <2>2 DEF LockSound
  <1>9. \A u \in m.tx : LockSound(u, m.locks[u])
    <2>1. \A u \in left.tx : LockSound(u, m.locks[u])
      BY <1>2, <1>3 DEF Sources
    <2>2. QED
      BY <1>2, <1>8, <2>1
  <1>10. ASSUME NEW o \in Spends[t]
         PROVE  o[1] \in Tx /\ o \in Outputs[o[1]] /\ (o[1] \in m.tx \/ o \in Unspent[tip])
    <2>1. CASE o[1] \in mp.tx
      <3>1. o \in Outputs[o[1]] /\ o[1] \in SpentBy(mp, t)
        BY <1>1, <2>1 DEF HaveCoin, SpentBy
      <3>2. QED
        BY <1>2, <2>1, <3>1
    <2>2. CASE o[1] \notin mp.tx
      <3>1. o \in Unspent[tip]
        BY <1>1, <2>2 DEF HaveCoin
      <3>2. QED
        BY <3>1, UnspentIn
    <2>3. QED
      BY <2>1, <2>2
  <1>11. ASSUME NEW u \in left.tx, NEW o \in Spends[u]
         PROVE  /\ o[1] \in Tx /\ o \in Outputs[o[1]]
                /\ o[1] \in m.tx \cup away2 \/ o \in Unspent[tip]
    <2>1. o[1] \in Tx /\ o \in Outputs[o[1]]
      BY <1>3 DEF Sources, Real
    <2>2. o[1] \in mp.tx \cup away \/ o \in Unspent[tip]
      BY <1>3 DEF Sources
    <2>3. o[1] \in mp.tx => o[1] \in left.tx
      BY <1>3 DEF Depends
    <2>4. QED
      BY <1>2, <2>1, <2>2, <2>3
  <1>12. Real(m.tx)
    BY <1>2, <1>10, <1>11 DEF Real
  <1>13. \A u \in m.tx : \A o \in Spends[u] : o[1] \in m.tx \cup away2 \/ o \in Unspent[tip]
    BY <1>2, <1>10, <1>11
  <1>14. QED
    BY <1>4, <1>7, <1>9, <1>12, <1>13 DEF Sources

-----------------------------------------------------------------------------
(* The invariant holds initially.                                          *)

LEMMA EmptyQueue ==
  ASSUME NEW s, s = <<>>
  PROVE  s \in Seq(Tx) /\ Range(s) = {} /\ Backward(s) /\ Forward(s)
  <1>1. s \in Seq(Tx) /\ Range(s) = {} /\ 1 .. Len(s) = {}
    BY SMT DEF Range
  <1>2. QED
    BY <1>1 DEF Backward, Forward

LEMMA EmptySound ==
  /\ Sound(EmptyPool, {}, {}) /\ EmptyPool.tx = {}
  <1>0. NoLocks \in [height : Int, block : Blocks]
    BY NoLocksType DEF Locks
  <1>1. /\ EmptyPool.tx = {} /\ EmptyPool.parents = [t \in Tx |-> {}]
        /\ EmptyPool.children = [t \in Tx |-> {}]
    BY DEF EmptyPool
  <1>2. EmptyPool \in Pool
    <2>1. /\ [t \in Tx |-> {}] \in Links /\ [t \in Tx |-> 0] \in [Tx -> Int]
          /\ [t \in Tx |-> NoLocks] \in [Tx -> [height : Int, block : Blocks]]
          /\ {} \in SUBSET Tx
      BY <1>0, SMT DEF Links
    <2>2. QED
      BY <2>1 DEF EmptyPool, Pool
  <1>3. Linked(EmptyPool, {}, {})
    BY <1>1 DEF Linked, LinkedBy
  <1>4. Counted(EmptyPool)
    BY <1>1 DEF Counted, CountedBy
  <1>5. QED
    BY <1>1, <1>2, <1>3, <1>4 DEF Sound

\* the invariant holds of an empty pool on any chain
LEMMA InitInv == Init => PoolInv
  <1> SUFFICES ASSUME Init PROVE PoolInv
    OBVIOUS
  <1>1. /\ tip = Genesis /\ refused = {} /\ mempool = EmptyPool /\ phase = "idle"
        /\ disconnectpool = <<>> /\ vHashUpdate = <<>>
    BY DEF Init
  <1>2. Types
    <2>1. phase \in {"idle", "moving", "invalidating", "adding"}
          /\ phase # "moving" /\ phase # "invalidating"
      BY <1>1
    <2>2. QED
      BY <1>1, <2>1, EmptyQueue, BlockFacts DEF Types
  <1>3. Moving
    <2>1. phase # "moving" /\ phase # "invalidating"
      BY <1>1
    <2>2. phase \notin {"moving", "invalidating"}
      BY <2>1
    <2>3. QED
      BY <2>1, <2>2 DEF Moving
  <1>4. mempool.tx = {} /\ ReAdded = {} /\ Returning = {}
    BY <1>1, EmptySound, EmptyQueue DEF ReAdded, Returning
  <1>5. Sound(mempool, ReAdded, ReAdded)
    BY <1>1, <1>4, EmptySound
  <1>6. Ready
    BY <1>4 DEF Ready, Minable
  <1>7. Sources(mempool, Returning, tip)
    <2>1. \A t : t \notin mempool.tx
      BY <1>4
    <2>2. mempool.tx \cap Confirmed[tip] = {} /\ mempool.tx \cap Returning = {}
          /\ mempool.tx \cap Coinbase = {}
      BY <1>4
    <2>3. QED
      BY <2>1, <2>2 DEF Sources, Real
  <1>8. Queued(disconnectpool, vHashUpdate, mempool)
    <2>1. /\ Range(disconnectpool) = {} /\ Backward(disconnectpool)
          /\ Range(vHashUpdate) = {} /\ Forward(vHashUpdate)
      BY <1>1, EmptyQueue
    <2>2. QED
      BY <2>1 DEF Queued
  <1>9. QED
    BY <1>2, <1>3, <1>4, <1>5, <1>6, <1>7, <1>8 DEF PoolInv

-----------------------------------------------------------------------------
(* Steps that leave the chain and the pool alone.                          *)

\* what is said of chain, pool and queue stays when they do
LEMMA PoolPartStays ==
  ASSUME PoolPart, mempool' = mempool, tip' = tip, disconnectpool' = disconnectpool,
         vHashUpdate' = vHashUpdate
  PROVE  PoolPart'
  BY DEF PoolPart, ReAdded, Returning

LEMMA PoolInvParts == PoolInv <=> Types /\ Moving /\ Ready /\ PoolPart
  BY DEF PoolInv, PoolPart

LEMMA StutterInv ==
  ASSUME PoolInv, UNCHANGED vars
  PROVE  PoolInv'
  <1>1. /\ tip' = tip /\ refused' = refused /\ mempool' = mempool /\ phase' = phase
        /\ target' = target /\ oldTip' = oldTip /\ disconnectpool' = disconnectpool
        /\ vHashUpdate' = vHashUpdate
    BY DEF vars, chain, move, update
  <1>2. Types' /\ Moving' /\ Ready'
    BY <1>1, PoolInvParts DEF Types, Moving, Ready, Returning
  <1>3. PoolPart'
    BY <1>1, PoolInvParts, PoolPartStays
  <1>4. QED
    BY <1>2, <1>3 DEF PoolInv, PoolPart

\* a command or an activation that begins a move
LEMMA BeginMove ==
  ASSUME PoolInv, phase = "idle", target' \in Blocks, oldTip' = tip,
         \/ phase' = "moving"
         \/ phase' = "invalidating" /\ target' \in Path[tip] /\ target' # Genesis,
         UNCHANGED <<chain, mempool, disconnectpool, update>>
  PROVE  PoolInv'
  <1>1. /\ tip' = tip /\ refused' = refused /\ mempool' = mempool
        /\ disconnectpool' = disconnectpool /\ vHashUpdate' = vHashUpdate
    BY DEF chain, update
  <1>2. /\ Types /\ Ready /\ PoolPart /\ tip \in Blocks /\ disconnectpool = <<>>
        /\ vHashUpdate = <<>>
    BY PoolInvParts DEF Types
  <1>3. PoolPart'
    BY <1>1, <1>2, PoolPartStays
  <1>4. Types'
    BY <1>1, <1>2 DEF Types
  <1>5. tip \in Path[tip]
    BY <1>2, PathEnds
  <1>6. Returning' = {}
    BY <1>1, <1>2, EmptyQueue DEF Returning
  <1>7. Moving'
    <2>1. phase' = "moving" =>
            /\ tip' \in Path[oldTip'] \cup Path[target']
            /\ oldTip' \in Path[target'] => oldTip' \in Path[tip']
            /\ oldTip' \in Path[tip'] => disconnectpool' = <<>>
      BY <1>1, <1>2, <1>5
    <2>2. phase' = "invalidating" =>
            tip' \in Path[oldTip'] /\ target' \in Path[oldTip'] /\ target' # Genesis
      BY <1>1, <1>5
    <2>3. QED
      BY <1>6, <2>1, <2>2 DEF Moving
  <1>8. Ready'
    BY <1>1, <1>2 DEF Ready
  <1>9. QED
    BY <1>3, <1>4, <1>7, <1>8 DEF PoolInv, PoolPart

\* a move ends, and an update of the pool begins if it disconnected a block
LEMMA EndMove ==
  ASSUME PoolInv, phase \in {"moving", "invalidating"}, NEW add, NEW disconnected,
         FinishMove(add, disconnected), tip' = tip, mempool' = mempool,
         disconnectpool' = disconnectpool, refused' \subseteq Blocks,
         ~ disconnected => phase = "moving" /\ oldTip \in Path[tip]
  PROVE  PoolInv'
  <1>1. /\ phase' = IF disconnected THEN "adding" ELSE "idle"
        /\ vHashUpdate' = <<>>
    BY DEF FinishMove
  <1>2. Types /\ Moving /\ Ready /\ PoolPart /\ vHashUpdate = <<>>
    <2>1. phase # "adding"
      OBVIOUS
    <2>2. QED
      BY <2>1, PoolInvParts DEF Types
  <1>3. PoolPart'
    BY <1>1, <1>2, PoolPartStays
  <1>4. phase' = "adding" \/ (phase' = "idle" /\ phase = "moving" /\ oldTip \in Path[tip])
    BY <1>1
  <1>5. phase' \in {"idle", "adding"} /\ phase' # "moving" /\ phase' # "invalidating"
    BY <1>4
  <1>6. phase' = "idle" => disconnectpool' = <<>>
    <2>1. phase' = "idle" => phase = "moving" /\ oldTip \in Path[tip]
      BY <1>4
    <2>2. QED
      BY <1>2, <2>1 DEF Moving
  <1>7. Types'
    <2>1. vHashUpdate' \in Seq(Tx)
      BY <1>1, EmptyQueue
    <2>2. QED
      BY <1>1, <1>2, <1>5, <1>6, <2>1 DEF Types
  <1>8. Moving'
    BY <1>5 DEF Moving
  <1>9. Ready'
    BY <1>2, <1>4, <1>5 DEF Ready
  <1>10. QED
    BY <1>3, <1>7, <1>8, <1>9 DEF PoolInv, PoolPart

LEMMA ActivateInv ==
  ASSUME PoolInv, NEW b \in Blocks, ActivateBestChain(b)
  PROVE  PoolInv'
  <1>1. /\ phase = "idle" /\ phase' = "moving" /\ target' \in Blocks /\ oldTip' = tip
        /\ UNCHANGED <<chain, mempool, disconnectpool, update>>
    BY DEF ActivateBestChain
  <1>2. QED
    BY <1>1, BeginMove

LEMMA InvalidateInv ==
  ASSUME PoolInv, NEW b \in Blocks, InvalidateBlock(b)
  PROVE  PoolInv'
  <1>1. /\ phase = "idle" /\ phase' = "invalidating" /\ target' \in Blocks /\ oldTip' = tip
        /\ target' \in Path[tip] /\ target' # Genesis
        /\ UNCHANGED <<chain, mempool, disconnectpool, update>>
    BY DEF InvalidateBlock
  <1>2. QED
    BY <1>1, BeginMove

LEMMA NextBlockIs ==
  ASSUME PoolInv, phase = "moving", tip \in Path[target], tip # target
  PROVE  /\ NextBlock \in Path[target] /\ Parent[NextBlock] = tip
         /\ NextBlock \in Blocks \ {Genesis} /\ Path[NextBlock] = Path[tip] \cup {NextBlock}
  <1>1. tip \in Blocks /\ target \in Blocks
    BY DEF PoolInv, Types
  <1>2. \E b \in Path[target] : Parent[b] = tip
    BY <1>1, PathNext
  <1>3. NextBlock \in Path[target] /\ Parent[NextBlock] = tip
    BY <1>2 DEF NextBlock
  <1>4. NextBlock \in Blocks /\ NextBlock # Genesis
    BY <1>1, <1>3, PathEnds, BlockFacts
  <1>5. QED
    BY <1>3, <1>4, BlockFacts

LEMMA RefuseInv ==
  ASSUME PoolInv, RefuseBlock
  PROVE  PoolInv'
  <1>1. /\ phase = "moving" /\ tip \in Path[target] /\ tip # target
        /\ refused' = refused \cup {NextBlock} /\ FinishMove(TRUE, Disconnected)
        /\ tip' = tip /\ mempool' = mempool /\ disconnectpool' = disconnectpool
    BY DEF RefuseBlock
  <1>2. NextBlock \in Blocks
    BY <1>1, NextBlockIs
  <1>3. refused' \subseteq Blocks
    BY <1>1, <1>2 DEF PoolInv, Types
  <1>4. ~ Disconnected => phase = "moving" /\ oldTip \in Path[tip]
    BY <1>1 DEF Disconnected
  <1>5. phase \in {"moving", "invalidating"}
    BY <1>1
  <1>6. QED
    BY <1>1, <1>3, <1>4, <1>5, EndMove

LEMMA MarkInvalidInv ==
  ASSUME PoolInv, MarkInvalid
  PROVE  PoolInv'
  <1>1. /\ phase = "invalidating" /\ FinishMove(TRUE, TRUE)
        /\ tip' = tip /\ mempool' = mempool /\ disconnectpool' = disconnectpool
        /\ refused' = refused
    BY DEF MarkInvalid
  <1>2. refused' \subseteq Blocks
    BY <1>1 DEF PoolInv, Types
  <1>3. phase \in {"moving", "invalidating"}
    BY <1>1
  <1>4. QED
    BY <1>1, <1>2, <1>3, EndMove

LEMMA FaultInv ==
  ASSUME PoolInv, Fault
  PROVE  PoolInv'
  <1>1. /\ phase = "moving" \/ MustDisconnect
        /\ FinishMove(FALSE, TRUE)
        /\ tip' = tip /\ mempool' = mempool /\ disconnectpool' = disconnectpool
        /\ refused' = refused
    BY DEF Fault, chain
  <1>2. refused' \subseteq Blocks
    BY <1>1 DEF PoolInv, Types
  <1>3. phase \in {"moving", "invalidating"}
    BY <1>1 DEF MustDisconnect
  <1>4. QED
    BY <1>1, <1>2, <1>3, EndMove

-----------------------------------------------------------------------------
(* A block is disconnected.                                                *)

\* DisconnectTip: where the tip goes
LEMMA DisconnectMoves ==
  ASSUME PoolInv, MustDisconnect
  PROVE  /\ phase \in {"moving", "invalidating"} /\ target \in Blocks /\ oldTip \in Blocks
         /\ tip \in Blocks /\ tip # Genesis /\ tip \in Path[oldTip]
         /\ oldTip \notin Path[Parent[tip]]
         /\ phase = "moving" => oldTip \notin Path[target]
  <1>1. phase \in {"moving", "invalidating"} /\ tip \in Blocks
    BY DEF MustDisconnect, PoolInv, Types
  <1>2. target \in Blocks /\ oldTip \in Blocks
    BY <1>1 DEF PoolInv, Types
  <1>3. ASSUME phase = "moving", tip \notin Path[target]
        PROVE  tip # Genesis /\ tip \in Path[oldTip] /\ oldTip \notin Path[target]
    <2>1. tip \in Path[oldTip]
      BY <1>3 DEF PoolInv, Moving
    <2>2. tip # Genesis
      BY <1>2, <1>3, PathEnds
    <2>3. ASSUME oldTip \in Path[target] PROVE FALSE
      <3>1. Path[oldTip] \subseteq Path[target]
        BY <1>2, <2>3, PathWithin
      <3>2. QED
        BY <1>3, <2>1, <3>1
    <2>4. QED
      BY <2>1, <2>2, <2>3
  <1>4. ASSUME phase = "invalidating", target \in Path[tip]
        PROVE  tip # Genesis /\ tip \in Path[oldTip] /\ phase # "moving"
    <2>1. tip \in Path[oldTip] /\ target # Genesis
      BY <1>4 DEF PoolInv, Moving
    <2>2. target \notin Path[Genesis]
      BY <2>1, BlockFacts
    <2>3. tip # Genesis
      BY <1>4, <2>2
    <2>4. phase # "moving"
      BY <1>4
    <2>5. QED
      BY <2>1, <2>3, <2>4
  <1>5. /\ tip # Genesis /\ tip \in Path[oldTip]
        /\ phase = "moving" => oldTip \notin Path[target]
    BY <1>3, <1>4 DEF MustDisconnect
  <1>6. ASSUME oldTip \in Path[Parent[tip]] PROVE FALSE
    <2>1. Parent[tip] \in Blocks /\ tip \notin Path[Parent[tip]]
      BY <1>1, <1>5, BlockFacts
    <2>2. Path[oldTip] \subseteq Path[Parent[tip]]
      BY <1>6, <2>1, PathWithin
    <2>3. QED
      BY <1>5, <2>1, <2>2
  <1>7. QED
    BY <1>1, <1>2, <1>5, <1>6

\* DisconnectTip: its transactions join the queue, behind those of later blocks,
\* and what spends from the dropped ones leaves the pool
LEMMA DisconnectInv ==
  PoolInv /\ DisconnectTip
  => PoolInv'
  <1>WaitingIs.
    ASSUME PoolInv, MustDisconnect, DisconnectTip
    PROVE  \E all, dropped :
             /\ Waiting(all, dropped, disconnectpool')
             /\ mempool' = RemoveEach(mempool, dropped)
    <2> USE <1>WaitingIs
    <2> DEFINE r == Reverse(Vtx[tip])
               all == disconnectpool \o r
               drop == IF Len(all) > MaxDisconnected THEN Len(all) - MaxDisconnected ELSE 0
               dropped == SubSeq(all, 1, drop)
               kept == SubSeq(all, drop + 1, Len(all))
    <2>1. mempool' = RemoveEach(mempool, dropped) /\ disconnectpool' = kept
      BY DEF DisconnectTip
    <2>2. /\ tip \in Blocks \ {Genesis} /\ oldTip \in Blocks /\ tip \in Path[oldTip]
          /\ phase \in {"moving", "invalidating"}
      BY DisconnectMoves
    <2>3. r \in Seq(Tx) /\ Range(r) = Range(Vtx[tip]) /\ Backward(r)
      <3>1. Forward(Vtx[tip]) /\ Vtx[tip] \in Seq(Tx)
        BY <2>2, BlockOrder, VtxType
      <3>2. QED
        BY <3>1, ReverseBackward
    <2>4. /\ disconnectpool \in Seq(Tx) /\ Backward(disconnectpool)
          /\ Returning \subseteq Confirmed[oldTip] \ Confirmed[tip]
      BY <2>2 DEF PoolInv, Types, Queued, Moving
    <2> HIDE DEF r
    <2>5. ASSUME NEW x \in Range(disconnectpool), NEW y \in Range(r)
          PROVE  x # y /\ ~ Depends(y, x)
      <3>1. x \notin Confirmed[tip] /\ x \in Tx
        BY <2>4, RangeFirst DEF Returning
      <3>2. y \in Confirmed[tip] /\ y \in Range(Vtx[tip])
        BY <2>2, <2>3, ConfirmedStep
      <3>3. ~ Depends(y, x)
        BY <2>2, <3>1, <3>2, BlockDepends
      <3>4. QED
        BY <3>1, <3>2, <3>3
    <2>6. all \in Seq(Tx) /\ Backward(all) /\ Range(all) = Range(disconnectpool) \cup Range(r)
      BY <2>3, <2>4, <2>5, ConcatBackward
    <2> HIDE DEF all
    <2>7. drop \in 0 .. Len(all)
      <3>1. Len(all) \in Nat
        BY <2>6, RangeFirst
      <3>2. MaxDisconnected \in Nat
        BY MempoolAssumption
      <3>3. QED
        BY <3>1, <3>2, SMT
    <2> HIDE DEF drop
    <2>8. /\ dropped \in Seq(Tx) /\ kept \in Seq(Tx) /\ Range(all) = Range(dropped) \cup Range(kept)
          /\ Backward(kept)
      BY <2>6, <2>7, SplitBackward
    <2> HIDE DEF dropped, kept
    <2>9. Waiting(all, dropped, kept)
      BY <2>3, <2>6, <2>8 DEF Waiting, Returning
    <2>10. QED
      BY <2>1, <2>9
  <1>DisconnectQueued.
    ASSUME PoolInv, MustDisconnect, NEW all, NEW dropped, NEW kept, NEW m,
           Waiting(all, dropped, kept), m.tx \subseteq mempool.tx, vHashUpdate = <<>>
    PROVE  /\ Queued(kept, vHashUpdate, m) /\ m.tx \cap Range(kept) = {}
           /\ Range(kept) \subseteq Confirmed[oldTip] \ Confirmed[Parent[tip]]
    <2> USE <1>DisconnectQueued
    <2>1. /\ tip \in Blocks \ {Genesis} /\ oldTip \in Blocks /\ tip \in Path[oldTip]
          /\ phase \in {"moving", "invalidating"}
      BY DisconnectMoves
    <2>2. Range(kept) \subseteq Returning \cup Range(Vtx[tip]) /\ kept \in Seq(Tx) /\ Backward(kept)
      BY DEF Waiting
    <2>3. /\ Confirmed[tip] = Confirmed[Parent[tip]] \cup Range(Vtx[tip])
          /\ Confirmed[Parent[tip]] \cap Range(Vtx[tip]) = {}
      BY <2>1, ConfirmedStep
    <2>4. Confirmed[tip] \subseteq Confirmed[oldTip]
      BY <2>1, ConfirmedGrows
    <2>5. Returning \subseteq Confirmed[oldTip] \ Confirmed[tip]
      BY <2>1 DEF PoolInv, Moving
    <2>6. Range(kept) \subseteq Confirmed[oldTip] \ Confirmed[Parent[tip]]
      BY <2>2, <2>3, <2>4, <2>5
    <2>7. Range(vHashUpdate) = {} /\ Forward(vHashUpdate)
      BY EmptyQueue
    <2>8. mempool.tx \cap Confirmed[tip] = {} /\ mempool.tx \cap Returning = {}
      BY DEF PoolInv, Sources
    <2>9. m.tx \cap Range(kept) = {}
      BY <2>2, <2>3, <2>8
    <2>10. ASSUME NEW t \in Range(kept), NEW u \in Range(kept), t # u PROVE Apart(t, u)
      <3>1. Confirmed[Genesis] \subseteq Confirmed[Parent[tip]]
        <4>1. Parent[tip] \in Blocks
          BY <2>1, BlockFacts
        <4>2. Genesis \in Path[Parent[tip]]
          BY <4>1, PathEnds
        <4>3. QED
          BY <4>1, <4>2, ConfirmedGrows
      <3>2. t \in Confirmed[oldTip] /\ u \in Confirmed[oldTip] /\ t \notin Confirmed[Genesis]
        BY <2>6, <3>1
      <3>3. QED
        BY <2>1, <2>10, <3>2, NoDoubleSpend
    <2>11. ASSUME NEW t \in Range(kept), NEW u \in m.tx PROVE ~ Depends(t, u)
      <3>1. CASE t \in Returning
        <4>1. u \in mempool.tx \ Range(vHashUpdate)
          BY <2>7
        <4>2. t \in Range(disconnectpool) \cup Range(vHashUpdate)
          BY <3>1 DEF Returning
        <4>3. QED
          BY <4>1, <4>2 DEF PoolInv, Queued
      <3>2. CASE t \in Range(Vtx[tip])
        <4>1. u \in mempool.tx /\ mempool.tx \in SUBSET Tx
          BY PoolTypes DEF PoolInv, Sound
        <4>2. u \notin Confirmed[tip] /\ u \in Tx
          BY <2>8, <4>1
        <4>3. QED
          BY <2>1, <3>2, <4>2, BlockDepends
      <3>3. QED
        BY <2>2, <3>1, <3>2
    <2>12. Queued(kept, vHashUpdate, m)
      BY <2>2, <2>7, <2>10, <2>11 DEF Queued
    <2>13. QED
      BY <2>6, <2>9, <2>12
  <1>DisconnectSources.
    ASSUME PoolInv, MustDisconnect, NEW all, NEW dropped, NEW kept, NEW m,
           Waiting(all, dropped, kept), m = RemoveEach(mempool, dropped), vHashUpdate = <<>>
    PROVE  /\ Sound(m, {}, {}) /\ m.tx \subseteq mempool.tx
           /\ Sources(m, Range(kept), Parent[tip])
    <2> USE <1>DisconnectSources
    <2>1. /\ tip \in Blocks \ {Genesis} /\ Parent[tip] \in Blocks
      BY DisconnectMoves, BlockFacts
    <2>2. /\ Confirmed[tip] = Confirmed[Parent[tip]] \cup Range(Vtx[tip])
          /\ Confirmed[Parent[tip]] \cap Range(Vtx[tip]) = {}
      BY <2>1, ConfirmedStep
    <2>3. ReAdded = {}
      BY EmptyQueue DEF ReAdded
    <2>4. Sound(mempool, {}, {}) /\ Sources(mempool, Returning, tip)
      BY <2>3 DEF PoolInv
    <2>5. mempool.tx \cap Confirmed[tip] = {} /\ mempool.tx \cap Returning = {}
      BY <2>4 DEF Sources
    <2>6. /\ dropped \in Seq(Tx) /\ Range(dropped) \subseteq Returning \cup Range(Vtx[tip])
          /\ Returning \cup Range(Vtx[tip]) = Range(dropped) \cup Range(kept)
      BY DEF Waiting
    <2>7. \A i \in 1 .. Len(dropped) : dropped[i] \notin mempool.tx
      <3>1. \A i \in 1 .. Len(dropped) : dropped[i] \in Range(dropped)
        BY <2>6, RangeFirst
      <3>2. QED
        BY <2>2, <2>5, <2>6, <3>1
    <2>8. /\ Shrunk(mempool, {}, {}, {}, m)
          /\ \A i \in 1 .. Len(dropped) : \A u \in m.tx : Spends[u] \cap Outputs[dropped[i]] = {}
      BY <2>4, <2>6, <2>7, EachShrinks
    <2>9. Sound(m, {}, {}) /\ m.tx \subseteq mempool.tx
      BY <2>8 DEF Shrunk
    <2>10. \A t \in Range(dropped) : \A u \in m.tx : Spends[u] \cap Outputs[t] = {}
      <3>1. \A t \in Range(dropped) : \E i \in 1 .. Len(dropped) : t = dropped[i]
        BY <2>6, RangeFirst
      <3>2. QED
        BY <2>8, <3>1
    <2>11. Replaced(mempool, m, {}, Returning, tip, Range(kept), Parent[tip])
      <3>1. SUFFICES ASSUME NEW t \in m.tx, NEW o \in Spends[t],
                            o[1] \in Tx, o \in Outputs[o[1]],
                            o[1] \in {} \cup Returning \/ o \in Unspent[tip]
                     PROVE  o[1] \in m.tx \cup Range(kept) \/ o \in Unspent[Parent[tip]]
        BY DEF Replaced
      <3>2. o[1] \notin Range(dropped)
        BY <2>10, <3>1
      <3>3. CASE o[1] \in Returning
        BY <2>6, <3>2, <3>3
      <3>4. CASE o \in Unspent[tip]
        <4>1. o[1] \in Confirmed[tip] /\ \A u \in Confirmed[tip] : o \notin Spends[u]
          BY <2>1, <3>4, UnspentIn
        <4>2. CASE o[1] \in Range(Vtx[tip])
          BY <2>6, <3>2, <4>2
        <4>3. CASE o[1] \in Confirmed[Parent[tip]]
          BY <2>1, <2>2, <3>1, <4>1, <4>3, UnspentBy
        <4>4. QED
          BY <2>2, <4>1, <4>2, <4>3
      <3>5. QED
        BY <3>1, <3>3, <3>4
    <2>12. m.tx \cap Confirmed[Parent[tip]] = {} /\ m.tx \cap Range(kept) = {}
      BY <2>2, <2>5, <2>6, <2>9
    <2>13. \A u \in {} : u \in m.tx \cup {}
      OBVIOUS
    <2>14. Sources(m, Range(kept), Parent[tip])
      BY <2>4, <2>8, <2>11, <2>12, <2>13, SourcesShrink
    <2>15. QED
      BY <2>9, <2>14
  <1> SUFFICES
    ASSUME PoolInv, DisconnectTip
    PROVE  PoolInv'
    OBVIOUS
  <1>1. /\ MustDisconnect /\ tip' = Parent[tip] /\ refused' = refused /\ phase' = phase
        /\ target' = target /\ oldTip' = oldTip /\ vHashUpdate' = vHashUpdate
    BY DEF DisconnectTip, move, update
  <1>2. /\ phase \in {"moving", "invalidating"} /\ target \in Blocks /\ oldTip \in Blocks
        /\ tip \in Blocks /\ tip # Genesis /\ tip \in Path[oldTip]
        /\ oldTip \notin Path[Parent[tip]]
        /\ phase = "moving" => oldTip \notin Path[target]
    BY <1>1, DisconnectMoves
  <1>3. vHashUpdate = <<>> /\ phase # "adding" /\ phase # "idle"
    <2>1. phase # "adding" /\ phase # "idle"
      BY <1>2
    <2>2. QED
      BY <2>1 DEF PoolInv, Types
  <1>4. PICK all, dropped : /\ Waiting(all, dropped, disconnectpool')
                            /\ mempool' = RemoveEach(mempool, dropped)
    BY <1>1, <1>WaitingIs
  <1>5. /\ Sound(mempool', {}, {}) /\ mempool'.tx \subseteq mempool.tx
        /\ Sources(mempool', Range(disconnectpool'), tip')
    BY <1>1, <1>3, <1>4, <1>DisconnectSources
  <1>6. /\ Queued(disconnectpool', vHashUpdate, mempool')
        /\ Range(disconnectpool') \subseteq Confirmed[oldTip] \ Confirmed[Parent[tip]]
    BY <1>1, <1>3, <1>4, <1>5, <1>DisconnectQueued
  <1>7. ReAdded' = {}
    BY <1>1, <1>3, EmptyQueue DEF ReAdded
  <1>8. PoolPart'
    BY <1>1, <1>5, <1>6, <1>7 DEF PoolPart, Returning
  <1>9. Parent[tip] \in Blocks /\ Parent[tip] \in Path[oldTip]
    BY <1>2, PathParent
  <1>10. Types'
    <2>1. disconnectpool' \in Seq(Tx)
      BY <1>4 DEF Waiting
    <2>2. QED
      BY <1>1, <1>2, <1>3, <1>9, <2>1 DEF PoolInv, Types
  <1>11. Moving'
    <2>1. phase' = "moving" =>
            /\ tip' \in Path[oldTip'] \cup Path[target']
            /\ oldTip' \in Path[target'] => oldTip' \in Path[tip']
            /\ oldTip' \in Path[tip'] => disconnectpool' = <<>>
      BY <1>1, <1>2, <1>9
    <2>2. phase' = "invalidating" =>
            tip' \in Path[oldTip'] /\ target' \in Path[oldTip'] /\ target' # Genesis
      BY <1>1, <1>9 DEF PoolInv, Moving
    <2>3. Returning' \subseteq Confirmed[oldTip'] \ Confirmed[tip']
      BY <1>1, <1>6 DEF Returning
    <2>4. QED
      BY <2>1, <2>2, <2>3 DEF Moving
  <1>12. Ready'
    BY <1>1, <1>2, <1>3 DEF Ready
  <1>13. QED
    BY <1>8, <1>10, <1>11, <1>12 DEF PoolInv, PoolPart

-----------------------------------------------------------------------------
(* A block is connected.                                                   *)

LEMMA QueuedLess ==
  ASSUME NEW w, NEW v, NEW mp, NEW w2, NEW m, Queued(w, v, mp), Backward(w2),
         Range(w2) \subseteq Range(w), m.tx \subseteq mp.tx
  PROVE  Queued(w2, v, m)
  BY DEF Queued

\* ConnectTip: what the block confirms leaves the pool and the queue, with what
\* conflicts with it
LEMMA ConnectInv ==
  PoolInv /\ ConnectTip
  => PoolInv'
  <1>BlockSpendsBack.
    ASSUME PoolInv, NEW b, Follows(b)
    PROVE  SpendsBack(mempool, Vtx[b])
    <2> USE <1>BlockSpendsBack
    <2>1. b \in Blocks \ {Genesis} /\ Parent[b] = tip
      BY DEF Follows
    <2>2. mempool.tx \cap Confirmed[tip] = {}
      BY DEF PoolInv, Sources
    <2>3. Len(Vtx[b]) \in Nat
      BY <2>1, VtxType, RangeFirst
    <2>4. ASSUME NEW i \in 1 .. Len(Vtx[b]), NEW u \in mempool.tx, Depends(Vtx[b][i], u)
          PROVE  \E j \in 1 .. Len(Vtx[b]) : j <= i - 1 /\ u = Vtx[b][j]
      <3>1. PICK o \in Spends[Vtx[b][i]] : o[1] = u
        BY <2>4 DEF Depends
      <3>2. MadeBefore(b, i, o)
        BY <2>1, SpendsEarlier
      <3>3. o[1] \notin Confirmed[Parent[b]]
        BY <2>1, <2>2, <3>1
      <3>4. PICK j \in 1 .. Len(Vtx[b]) : j < i /\ o[1] = Vtx[b][j]
        BY <3>2, <3>3 DEF MadeBefore
      <3>5. j <= i - 1
        BY <2>3, <3>4, SMT
      <3>6. QED
        BY <3>1, <3>4, <3>5
    <2>5. QED
      BY <2>4 DEF SpendsBack
  <1>ConnectedIs.
    ASSUME PoolInv, NEW b, Follows(b), vHashUpdate = <<>>
    PROVE  Connected(b, removeForBlock(mempool, Vtx[b]))
    <2> USE <1>ConnectedIs
    <2> DEFINE m == removeForBlock(mempool, Vtx[b])
               v == Vtx[b]
    <2>1. ReAdded = {}
      BY EmptyQueue DEF ReAdded
    <2>2. Sound(mempool, {}, {}) /\ SpendsBack(mempool, v)
      BY <2>1, <1>BlockSpendsBack DEF PoolInv
    <2>3. v \in Seq(Tx)
      BY VtxType DEF Follows
    <2>4. Confirming(mempool, v, {}, {}, Len(v), m)
      BY <2>2, <2>3, BlockShrinks
    <2> HIDE DEF m
    <2>5. \A t \in Range(v) : \E j \in 1 .. Len(v) : t = v[j]
      BY <2>3, RangeFirst
    <2>6. \A j \in 1 .. Len(v) : j <= Len(v)
      BY <2>3, SMT
    <2> HIDE DEF v
    <2>7. \A j \in 1 .. Len(v) : v[j] \notin m.tx /\ \A u \in m.tx : Spends[u] \cap Spends[v[j]] = {}
      BY <2>4, <2>6 DEF Confirming
    <2>8. \A t \in Range(v) : t \notin m.tx /\ \A u \in m.tx : Spends[u] \cap Spends[t] = {}
      BY <2>5, <2>7
    <2>9. Shrunk(mempool, Range(v), {}, {}, m)
      BY <2>4 DEF Confirming
    <2>10. QED
      BY <2>8, <2>9 DEF Connected, m, v
  \* what b made and no entry of the pool spends from the chain stays unspent
  <1>ConnectUnspent.
    ASSUME NEW b, Follows(b), NEW t, NEW o \in Spends[t],
           \A u \in Range(Vtx[b]) : Spends[t] \cap Spends[u] = {}
    PROVE  /\ o \in Unspent[tip] => o \in Unspent[b]
           /\ o \in Outputs[o[1]] /\ o[1] \in Range(Vtx[b]) => o \in Unspent[b]
    <2> USE <1>ConnectUnspent
    <2>1. b \in Blocks \ {Genesis} /\ Parent[b] = tip /\ tip \in Blocks /\ b \in Blocks
      BY DEF Follows
    <2>2. /\ Confirmed[b] = Confirmed[tip] \cup Range(Vtx[b])
          /\ Confirmed[tip] \cap Range(Vtx[b]) = {}
      BY <2>1, ConfirmedStep
    <2>3. ASSUME o \in Unspent[tip] PROVE o \in Unspent[b]
      <3>1. /\ o[1] \in Confirmed[tip] /\ o \in Outputs[o[1]]
            /\ \A u \in Confirmed[tip] : o \notin Spends[u]
        BY <2>1, <2>3, UnspentIn
      <3>2. \A u \in Confirmed[b] : o \notin Spends[u]
        BY <2>2, <3>1
      <3>3. o[1] \in Confirmed[b]
        BY <2>2, <3>1
      <3>4. QED
        BY <2>1, <3>1, <3>2, <3>3, UnspentBy
    <2>4. ASSUME o \in Outputs[o[1]], o[1] \in Range(Vtx[b]) PROVE o \in Unspent[b]
      <3>1. o[1] \in Tx /\ o[1] \notin Confirmed[tip] /\ o[1] \in Confirmed[b]
        BY <2>1, <2>2, <2>4, VtxType
      <3>2. \A u \in Confirmed[tip] : o \notin Spends[u]
        BY <2>1, <3>1, SpendsConfirmed
      <3>3. \A u \in Confirmed[b] : o \notin Spends[u]
        BY <2>2, <3>2
      <3>4. QED
        BY <2>1, <2>4, <3>1, <3>3, UnspentBy
    <2>5. QED
      BY <2>3, <2>4
  <1>ConnectSources.
    ASSUME PoolInv, NEW b, Follows(b), NEW m, Connected(b, m), NEW away2,
           away2 \subseteq Returning, Returning \subseteq away2 \cup Range(Vtx[b])
    PROVE  Sources(m, away2, b)
    <2> USE <1>ConnectSources
    <2>1. b \in Blocks \ {Genesis} /\ Parent[b] = tip
      BY DEF Follows
    <2>2. Confirmed[b] = Confirmed[tip] \cup Range(Vtx[b])
      BY <2>1, ConfirmedStep
    <2>3. Sources(mempool, Returning, tip)
      BY DEF PoolInv
    <2>4. /\ Shrunk(mempool, Range(Vtx[b]), {}, {}, m) /\ m.tx \subseteq mempool.tx
          /\ \A t \in Range(Vtx[b]) : t \notin m.tx
      BY DEF Connected, Shrunk
    <2>5. m.tx \cap Confirmed[b] = {} /\ m.tx \cap away2 = {}
      <3>1. mempool.tx \cap Confirmed[tip] = {} /\ mempool.tx \cap Returning = {}
        BY <2>3 DEF Sources
      <3>2. QED
        BY <2>2, <2>4, <3>1
    <2>6. Replaced(mempool, m, Range(Vtx[b]), Returning, tip, away2, b)
      <3>1. SUFFICES ASSUME NEW t \in m.tx, NEW o \in Spends[t],
                            o[1] \in Tx, o \in Outputs[o[1]],
                            o[1] \in Range(Vtx[b]) \cup Returning \/ o \in Unspent[tip]
                     PROVE  o[1] \in m.tx \cup away2 \/ o \in Unspent[b]
        BY DEF Replaced
      <3>2. \A u \in Range(Vtx[b]) : Spends[t] \cap Spends[u] = {}
        BY DEF Connected
      <3>3. /\ o \in Unspent[tip] => o \in Unspent[b]
            /\ o \in Outputs[o[1]] /\ o[1] \in Range(Vtx[b]) => o \in Unspent[b]
        BY <3>2, <1>ConnectUnspent
      <3>4. QED
        BY <3>1, <3>3
    <2>7. \A u \in {} : u \in m.tx \cup Range(Vtx[b])
      OBVIOUS
    <2>8. Shrunk(mempool, Range(Vtx[b]), {}, {}, m)
      BY <2>4
    <2>9. QED
      BY <2>3, <2>5, <2>6, <2>7, <2>8, SourcesShrink
  <1>ConnectMinable.
    ASSUME PoolInv, NEW b, Follows(b), NEW m, Connected(b, m), Minable(mempool, tip)
    PROVE  Minable(m, b)
    <2> USE <1>ConnectMinable
    <2>1. b \in Blocks \ {Genesis} /\ Parent[b] = tip /\ b \in Path[b] /\ tip \in Blocks
          /\ tip \in Path[b]
      BY PathEnds DEF Follows
    <2>2. Height[b] = Height[tip] + 1 /\ Height[tip] \in Nat /\ Height[b] \in Nat
      BY <2>1, BlockFacts
    <2>3. /\ m.tx \subseteq mempool.tx /\ mempool.tx \in SUBSET Tx
          /\ \A t \in m.tx : \A u \in mempool.tx : Depends(t, u) => u \in m.tx \cup Range(Vtx[b])
      <3>1. mempool.tx \in SUBSET Tx
        BY PoolTypes DEF PoolInv, Sound
      <3>2. QED
        BY <3>1 DEF Connected, Shrunk
    <2>4. ASSUME NEW t \in m.tx PROVE CheckFinalTx(t, b)
      <3>1. LockTime[t] < Height[tip] + 1
        BY <2>3 DEF Minable, CheckFinalTx
      <3>2. LockTime[t] \in Nat
        BY <2>3, RelativeType
      <3>3. LockTime[t] < Height[b] + 1
        BY <2>2, <3>1, <3>2, SMT
      <3>4. QED
        BY <3>3 DEF CheckFinalTx
    <2>5. ASSUME NEW t \in m.tx, NEW o \in Spends[t] PROVE InputReady(m, t, o, b)
      <3>1. t \in mempool.tx /\ t \in Tx /\ InputReady(mempool, t, o, tip)
        BY <2>3 DEF Minable
      <3>2. \A u \in Range(Vtx[b]) : Spends[t] \cap Spends[u] = {}
        BY DEF Connected
      <3>3. /\ o \in Unspent[tip] => o \in Unspent[b]
            /\ o \in Outputs[o[1]] /\ o[1] \in Range(Vtx[b]) => o \in Unspent[b]
        BY <3>2, <1>ConnectUnspent
      <3>4. CASE o[1] \in mempool.tx /\ Relative[t] = 0
        <4>1. o[1] \in m.tx \/ o[1] \in Range(Vtx[b])
          BY <2>3, <3>4 DEF Depends
        <4>2. CASE o[1] \in m.tx
          BY <3>4, <4>2 DEF InputReady
        <4>3. CASE o[1] \in Range(Vtx[b])
          <5>1. o \in Outputs[o[1]]
            BY <3>1 DEF PoolInv, Sources, Real
          <5>2. o \in Unspent[b]
            BY <3>3, <4>3, <5>1
          <5>3. o[1] \notin Coinbase
            BY <3>4 DEF PoolInv, Sources
          <5>4. MadeAt(b, o[1], Height[b])
            BY <2>1, <4>3, CoinHeightIs
          <5>5. Height[b] + 1 >= Height[b] + 0
            BY <2>2, SMT
          <5>6. QED
            BY <3>4, <5>2, <5>3, <5>4, <5>5 DEF InputReady, Mature, MadeAt
        <4>4. QED
          BY <4>1, <4>2, <4>3
      <3>5. CASE /\ o \in Unspent[tip] /\ Mature(o, tip)
                 /\ Height[tip] + 1 >= CoinHeight[tip][o[1]] + Relative[t]
        <4>1. o[1] \in Confirmed[tip]
          BY <2>1, <3>5, UnspentIn
        <4> DEFINE c == CoinHeight[tip][o[1]]
        <4>2. c \in Nat /\ MadeAt(b, o[1], c)
          <5>1. \A u \in Confirmed[tip] :
                  CoinHeight[tip][u] \in Nat /\ MadeAt(b, u, CoinHeight[tip][u])
            BY <2>1, CoinHeightStays DEF MadeAt
          <5>2. QED
            BY <4>1, <5>1
        <4>3. /\ Height[tip] + 1 >= c + Relative[t]
              /\ o[1] \in Coinbase => Height[tip] + 1 - c >= Maturity
          BY <3>5 DEF Mature
        <4>4. CoinHeight[b][o[1]] = c
          BY <4>2 DEF MadeAt
        <4> HIDE DEF c
        <4>5. Relative[t] \in Nat /\ Maturity \in Nat
          BY <3>1, RelativeType
        <4>6. Height[b] + 1 >= c + Relative[t]
          BY <2>2, <4>2, <4>3, <4>5, SMT
        <4>7. o[1] \in Coinbase => Height[b] + 1 - c >= Maturity
          BY <2>2, <4>2, <4>3, <4>5, SMT
        <4>8. QED
          BY <3>3, <3>5, <4>4, <4>6, <4>7 DEF InputReady, Mature
      <3>6. QED
        BY <3>1, <3>4, <3>5 DEF InputReady
    <2>6. QED
      BY <2>4, <2>5 DEF Minable
  <1>NoneLeft.
    ASSUME NEW s \in Seq(Tx), Range(s) = {}
    PROVE  s = <<>>
    <2> USE <1>NoneLeft
    <2>1. \A i \in 1 .. Len(s) : s[i] \in Range(s)
      BY RangeFirst
    <2>2. \A i \in 1 .. Len(s) : FALSE
      BY <2>1
    <2>3. Len(s) = 0
      BY <2>2, SMT
    <2>4. QED
      BY <2>3, SMT
  <1> SUFFICES
    ASSUME PoolInv, ConnectTip
    PROVE  PoolInv'
    OBVIOUS
  <1> DEFINE b == NextBlock
  <1>1. /\ phase = "moving" /\ tip \in Path[target] /\ tip # target
        /\ mempool' = removeForBlock(mempool, Vtx[b])
        /\ disconnectpool' = Without(disconnectpool, Vtx[b])
        /\ tip' = b /\ refused' = refused
    BY DEF ConnectTip
  <1>2. \/ FinishMove(TRUE, oldTip \notin Path[b])
        \/ phase' = phase /\ target' = target /\ oldTip' = oldTip /\ vHashUpdate' = vHashUpdate
    BY DEF ConnectTip, move, update
  <1>3. b \in Path[target] /\ Follows(b)
    <2>1. tip \in Blocks
      BY DEF PoolInv, Types
    <2>2. QED
      BY <1>1, <2>1, NextBlockIs DEF Follows
  <1> HIDE DEF b
  <1>4. /\ tip \in Blocks /\ target \in Blocks /\ oldTip \in Blocks /\ b \in Blocks
        /\ vHashUpdate = <<>> /\ disconnectpool \in Seq(Tx) /\ refused \subseteq Blocks
    <2>1. phase \in {"moving", "invalidating"} /\ phase # "adding"
      BY <1>1
    <2>2. QED
      BY <1>3, <2>1 DEF PoolInv, Types, Follows
  <1>5. /\ oldTip \in Path[target] => oldTip \in Path[tip]
        /\ oldTip \in Path[tip] => disconnectpool = <<>>
        /\ Returning \subseteq Confirmed[oldTip] \ Confirmed[tip]
    <2>1. phase \in {"moving", "invalidating"}
      BY <1>1
    <2>2. QED
      BY <1>1, <2>1 DEF PoolInv, Moving
  <1>6. Connected(b, mempool')
    BY <1>1, <1>3, <1>4, <1>ConnectedIs
  <1>7. Sound(mempool', {}, {}) /\ mempool'.tx \subseteq mempool.tx
    BY <1>6 DEF Connected, Shrunk
  <1>8. Queued(disconnectpool, vHashUpdate, mempool) /\ Backward(disconnectpool)
    BY DEF PoolInv, Queued
  <1>9. /\ disconnectpool' \in Seq(Tx) /\ Backward(disconnectpool')
        /\ Returning' = Returning \ Range(Vtx[b])
    BY <1>1, <1>4, <1>8, WithoutKeeps DEF Returning
  <1>10. Queued(disconnectpool', vHashUpdate, mempool')
    BY <1>7, <1>8, <1>9, QueuedLess DEF Returning
  <1>11. Sources(mempool', Returning', b)
    <2>1. Returning' \subseteq Returning /\ Returning \subseteq Returning' \cup Range(Vtx[b])
      BY <1>9
    <2>2. QED
      BY <1>3, <1>6, <2>1, <1>ConnectSources
  <1>12. vHashUpdate' = <<>> /\ vHashUpdate' = vHashUpdate
    BY <1>2, <1>4 DEF FinishMove
  <1>13. ReAdded' = {}
    BY <1>12, EmptyQueue DEF ReAdded
  <1>14. PoolPart'
    BY <1>1, <1>7, <1>10, <1>11, <1>12, <1>13 DEF PoolPart
  <1>15. Path[b] = Path[tip] \cup {b} /\ Confirmed[b] = Confirmed[tip] \cup Range(Vtx[b])
    BY <1>3, ConfirmedStep DEF Follows
  <1>16. oldTip \in Path[b] => oldTip \in Path[tip]
    BY <1>3, <1>5, <1>15
  <1>17. oldTip \in Path[b] => disconnectpool' = <<>>
    <2>1. ASSUME oldTip \in Path[b] PROVE disconnectpool' = <<>>
      <3>1. disconnectpool = <<>>
        BY <1>5, <1>16, <2>1
      <3>2. Returning' = {}
        BY <1>9, <3>1, EmptyQueue DEF Returning
      <3>3. Range(disconnectpool') = {}
        BY <3>2 DEF Returning
      <3>4. QED
        BY <1>9, <3>3, <1>NoneLeft
    <2>2. QED
      BY <2>1
  <1>18. oldTip \in Path[b] => Minable(mempool', b)
    <2>1. ASSUME oldTip \in Path[b] PROVE Minable(mempool', b)
      <3>1. Minable(mempool, tip)
        BY <1>1, <1>16, <2>1 DEF PoolInv, Ready
      <3>2. QED
        BY <1>3, <1>6, <3>1, <1>ConnectMinable
    <2>2. QED
      BY <2>1
  <1>19. CASE FinishMove(TRUE, oldTip \notin Path[b])
    <2>1. phase' = "adding" \/ (phase' = "idle" /\ oldTip \in Path[b])
      BY <1>19 DEF FinishMove
    <2>2. phase' \in {"idle", "adding"} /\ phase' # "moving" /\ phase' # "invalidating"
      BY <2>1
    <2>3. phase' = "idle" => disconnectpool' = <<>> /\ Minable(mempool', b)
      <3>1. phase' = "idle" => oldTip \in Path[b]
        BY <2>1
      <3>2. QED
        BY <1>17, <1>18, <3>1
    <2>4. vHashUpdate' \in Seq(Tx)
      BY <1>12, EmptyQueue
    <2>5. Types'
      BY <1>1, <1>4, <1>9, <1>12, <2>2, <2>3, <2>4 DEF Types
    <2>6. Moving'
      BY <2>2 DEF Moving
    <2>7. Ready'
      BY <1>1, <2>2, <2>3 DEF Ready
    <2>8. QED
      BY <1>14, <2>5, <2>6, <2>7 DEF PoolInv, PoolPart
  <1>20. CASE phase' = phase /\ target' = target /\ oldTip' = oldTip /\ vHashUpdate' = vHashUpdate
    <2>1. phase' = "moving" /\ phase' # "idle" /\ phase' # "invalidating" /\ phase' # "adding"
      BY <1>1, <1>20
    <2>2. vHashUpdate' \in Seq(Tx)
      BY <1>12, EmptyQueue
    <2>3. Types'
      BY <1>1, <1>4, <1>9, <1>12, <1>20, <2>1, <2>2 DEF Types
    <2>4. oldTip' \in Path[target'] => oldTip' \in Path[tip']
      BY <1>1, <1>5, <1>15, <1>20
    <2>5. Returning' \subseteq Confirmed[oldTip'] \ Confirmed[tip']
      BY <1>1, <1>5, <1>9, <1>15, <1>20
    <2>6. oldTip' \in Path[tip'] => disconnectpool' = <<>>
      BY <1>1, <1>17, <1>20
    <2>7. tip' \in Path[oldTip'] \cup Path[target']
      BY <1>1, <1>3, <1>20
    <2>8. Moving'
      BY <2>1, <2>4, <2>5, <2>6, <2>7 DEF Moving
    <2>9. Ready'
      BY <1>1, <1>18, <1>20, <2>1 DEF Ready
    <2>10. QED
      BY <1>14, <2>3, <2>8, <2>9 DEF PoolInv, PoolPart
  <1>21. QED
    BY <1>2, <1>19, <1>20

-----------------------------------------------------------------------------
(* A disconnected transaction returns.                                     *)

LEMMA AcceptLocks ==
  ASSUME PoolInv, NEW t \in Tx, Acceptable(mempool, t)
  PROVE  /\ LockPoints(mempool, t) \in [height : Int, block : Blocks]
         /\ ~ Depends(t, t) /\ MayReplace(mempool, t) /\ t \notin mempool.tx
         /\ t \notin Confirmed[tip]
  <1>1. tip \in Blocks /\ mempool.tx \in SUBSET Tx /\ Sources(mempool, Returning, tip)
    BY PoolTypes DEF PoolInv, Types, Sound
  <1>2. /\ t \notin mempool.tx /\ Spends[t] # {} /\ ~ Depends(t, t) /\ MayReplace(mempool, t)
        /\ t \notin Confirmed[tip] /\ \A o \in Spends[t] : HaveCoin(mempool, o)
    BY <1>1, AcceptableNew
  <1>3. LockPoints(mempool, t) \in Locks
    BY <1>1, <1>2, LockPointsAre
  <1>4. QED
    BY <1>2, <1>3 DEF Locks

\* UpdateMempoolForReorg, one transaction: it returns and is linked with its
\* parents, or what spends from it leaves the pool
LEMMA ReAddInv ==
  PoolInv /\ ReAdd
  => PoolInv'
  \* what has returned does not leave before the update is over
  <1>ReAddedStay.
    ASSUME PoolInv, NEW S \in SUBSET mempool.tx, S \cap ReAdded = {}
    PROVE  ReAdded \subseteq RemoveWithDescendants(mempool, S).tx
    <2> USE <1>ReAddedStay
    <2> DEFINE R == Tx \ ReAdded
    <2>1. /\ Sound(mempool, ReAdded, ReAdded) /\ mempool \in Pool
          /\ Linked(mempool, ReAdded, ReAdded) /\ ReAdded \subseteq mempool.tx
      BY DEF PoolInv, Sound
    <2>2. mempool.tx \in SUBSET Tx
      BY <2>1, PoolTypes
    <2>3. \A t \in ReAdded : \A u \in mempool.tx \ ReAdded : ~ Depends(t, u)
      BY DEF PoolInv, Queued, ReAdded
    <2>4. \A u \in Tx : \A c \in mempool.children[u] : c \in Tx /\ u \in mempool.tx /\ Depends(c, u)
      BY <2>1, <2>2 DEF Linked, LinkedBy
    <2>5. Closed(mempool.children, R)
      BY <2>3, <2>4 DEF Closed
    <2>6. R \in SUBSET Tx /\ S \subseteq R
      BY <2>2
    <2> HIDE DEF R
    <2>7. mempool.tx \ R \subseteq RemoveWithDescendants(mempool, S).tx
      BY <2>1, <2>5, <2>6, RemoveKeeps
    <2>8. QED
      BY <2>1, <2>7 DEF R
  <1>TakenIs.
    ASSUME PoolInv, disconnectpool # <<>>
    PROVE  Taken(Last(disconnectpool), Front(disconnectpool))
    <2> USE <1>TakenIs
    <2>1. disconnectpool \in Seq(Tx) /\ Backward(disconnectpool)
      BY DEF PoolInv, Types, Queued
    <2>2. QED
      BY <2>1, LastBackward DEF Taken, Returning
  <1>TakenHas.
    ASSUME PoolInv, NEW t, NEW rest, Taken(t, rest)
    PROVE  TakenFacts(t)
    <2> USE <1>TakenHas
    <2>1. t \in Returning /\ t \in Range(disconnectpool)
      BY DEF Taken, Returning
    <2>2. mempool.tx \in SUBSET Tx /\ ReAdded \subseteq mempool.tx
      BY PoolTypes DEF PoolInv, Sound
    <2>3. t \notin mempool.tx
      BY <2>1 DEF PoolInv, Sources
    <2>4. t \notin ReAdded
      BY <2>2, <2>3
    <2>5. \A u \in ReAdded : ~ Depends(u, t)
      BY <2>1 DEF PoolInv, Queued, ReAdded
    <2>6. \A x, y \in Returning \cup ReAdded : x # y => Apart(x, y)
      BY DEF PoolInv, Queued, ReAdded, Returning
    <2>7. \A u \in ReAdded : Apart(t, u) /\ Apart(u, t)
      BY <2>1, <2>4, <2>6
    <2>8. QED
      BY <2>2, <2>3, <2>4, <2>5, <2>7 DEF TakenFacts
  <1>ReturnQueued.
    ASSUME PoolInv, NEW t, NEW rest, Taken(t, rest), NEW v, NEW m,
           v = Append(vHashUpdate, t), m.tx \subseteq mempool.tx \cup {t}
    PROVE  Queued(rest, v, m) /\ v \in Seq(Tx) /\ Range(v) = ReAdded \cup {t}
    <2> USE <1>ReturnQueued
    <2>1. t \in Tx /\ vHashUpdate \in Seq(Tx) /\ Queued(disconnectpool, vHashUpdate, mempool)
      BY DEF Taken, PoolInv, Types
    <2> DEFINE k == vHashUpdate
    <2>2. /\ v \in Seq(Tx) /\ Range(v) = Range(k) \cup {t}
          /\ Len(v) = Len(k) + 1 /\ v[Len(k) + 1] = t
          /\ \A i \in 1 .. Len(k) : v[i] = k[i] /\ k[i] \in Range(k)
      BY <2>1, AppendRange
    <2>3. Len(k) \in Nat
      BY <2>1, RangeFirst
    <2>4. \A u \in ReAdded : ~ Depends(u, t) /\ u # t
      BY <1>TakenHas DEF TakenFacts
    <2>5. ASSUME NEW a \in 1 .. Len(v), NEW c \in 1 .. Len(v), a < c
          PROVE  v[a] # v[c] /\ ~ Depends(v[a], v[c])
      <3>1. CASE c \in 1 .. Len(k)
        <4>1. a \in 1 .. Len(k)
          BY <2>3, <2>5, <3>1, SMT
        <4>2. QED
          BY <2>1, <2>2, <2>5, <3>1, <4>1 DEF Queued, Forward
      <3>2. CASE c \notin 1 .. Len(k)
        <4>1. a \in 1 .. Len(k) /\ c = Len(k) + 1
          BY <2>2, <2>3, <2>5, <3>2, SMT
        <4>2. v[a] \in ReAdded /\ v[c] = t
          BY <2>2, <4>1 DEF ReAdded
        <4>3. QED
          BY <2>4, <4>2
      <3>3. QED
        BY <3>1, <3>2
    <2>6. Forward(v)
      BY <2>5 DEF Forward
    <2>7. Range(v) = ReAdded \cup {t} /\ Returning = Range(rest) \cup {t} /\ Backward(rest)
      BY <2>2 DEF ReAdded, Taken
    <2>8. \A x \in Range(v), u \in Range(rest) : ~ Depends(x, u)
      <3>1. \A u \in Range(rest) : ~ Depends(t, u)
        BY DEF Taken
      <3>2. \A x \in ReAdded, u \in Returning : ~ Depends(x, u)
        BY <2>1 DEF Queued, ReAdded, Returning
      <3>3. QED
        BY <2>7, <3>1, <3>2
    <2>9. Range(rest) \cup Range(v) = Returning \cup ReAdded
      BY <2>7
    <2>10. \A x, u \in Range(rest) \cup Range(v) : x # u => Apart(x, u)
      BY <2>1, <2>9 DEF Queued, ReAdded, Returning
    <2>11. \A x \in Range(rest) \cup Range(v) : \A u \in m.tx \ Range(v) : ~ Depends(x, u)
      <3>1. \A u \in m.tx \ Range(v) : u \in mempool.tx \ ReAdded
        BY <2>7
      <3>2. \A x \in Returning \cup ReAdded : \A u \in mempool.tx \ ReAdded : ~ Depends(x, u)
        BY <2>1 DEF Queued, ReAdded, Returning
      <3>3. QED
        BY <2>9, <3>1, <3>2
    <2>12. QED
      BY <2>2, <2>6, <2>7, <2>8, <2>10, <2>11 DEF Queued
  <1>ReturnAccepted.
    ASSUME PoolInv, NEW t, NEW rest, Taken(t, rest), Acceptable(mempool, t), NEW m,
           m = Accepted(mempool, t)
    PROVE  /\ Sound(m, ReAdded \cup {t}, ReAdded \cup {t})
           /\ Sources(m, Range(rest), tip)
           /\ m.tx \subseteq mempool.tx \cup {t} /\ ReAdded \cup {t} \subseteq m.tx
    <2> USE <1>ReturnAccepted
    <2> DEFINE lp == LockPoints(mempool, t)
               C == Conflicts(mempool, t)
               left == RemoveWithDescendants(mempool, C)
    <2>1. t \in Tx /\ TakenFacts(t)
      BY <1>TakenHas DEF Taken
    <2>2. /\ lp \in [height : Int, block : Blocks] /\ ~ Depends(t, t) /\ MayReplace(mempool, t)
          /\ t \notin mempool.tx
      BY <2>1, AcceptLocks
    <2>3. Fresh(mempool, t, ReAdded, {t})
      BY <2>1, <2>2 DEF Fresh, TakenFacts
    <2>4. Sound(mempool, ReAdded, ReAdded) /\ Sources(mempool, Returning, tip) /\ tip \in Blocks
      BY DEF PoolInv, Types
    <2>5. /\ Sound(m, ReAdded \cup {t}, ReAdded \cup {t})
          /\ Entered(mempool, t, lp, ReAdded, left, m)
      BY <2>2, <2>3, <2>4, AcceptedSound
    <2>6. C \in SUBSET mempool.tx /\ C \cap ReAdded = {}
      <3>1. C \in SUBSET mempool.tx
        BY DEF Conflicts
      <3>2. \A u \in ReAdded : Spends[u] \cap Spends[t] = {}
        BY <2>1 DEF TakenFacts, Apart
      <3>3. QED
        BY <3>1, <3>2 DEF Conflicts
    <2> HIDE DEF lp, C
    <2>7. ReAdded \subseteq left.tx
      BY <2>6, <1>ReAddedStay
    <2> HIDE DEF left
    <2>8. m.tx = left.tx \cup {t} /\ left.tx \subseteq mempool.tx
      BY <2>5 DEF Entered, Shrunk
    <2>9. /\ Range(rest) \subseteq Returning /\ Returning \subseteq Range(rest) \cup {t}
          /\ t \notin Range(rest)
      BY DEF Taken
    <2>10. mempool.tx \in SUBSET Tx
      BY <2>1 DEF TakenFacts
    <2>11. Sources(m, Range(rest), tip)
      <3>1. lp = LockPoints(mempool, t)
        BY DEF lp
      <3>2. Entered(mempool, t, lp, ReAdded, left, m)
        BY <2>5
      <3>3. QED
        BY <2>1, <2>4, <2>7, <2>9, <2>10, <3>1, <3>2, SourcesEnter
    <2>12. QED
      BY <2>5, <2>7, <2>8, <2>11
  <1>RefusedSources.
    ASSUME PoolInv, NEW t, NEW rest, Taken(t, rest), NEW m,
           Shrunk(mempool, {}, ReAdded, ReAdded, m), ReAdded \subseteq m.tx,
           \A u \in m.tx : Spends[u] \cap Outputs[t] = {}
    PROVE  Sources(m, Range(rest), tip)
    <2> USE <1>RefusedSources
    <2>1. Sources(mempool, Returning, tip)
      BY DEF PoolInv
    <2>2. m.tx \subseteq mempool.tx
      BY DEF Shrunk
    <2>3. Replaced(mempool, m, {}, Returning, tip, Range(rest), tip)
      <3>1. SUFFICES ASSUME NEW w \in m.tx, NEW o \in Spends[w],
                            o[1] \in Tx, o \in Outputs[o[1]],
                            o[1] \in {} \cup Returning \/ o \in Unspent[tip]
                     PROVE  o[1] \in m.tx \cup Range(rest) \/ o \in Unspent[tip]
        BY DEF Replaced
      <3>2. o[1] # t
        BY <3>1
      <3>3. QED
        BY <3>1, <3>2 DEF Taken
    <2>4. m.tx \cap Confirmed[tip] = {} /\ m.tx \cap Range(rest) = {}
      <3>1. mempool.tx \cap Confirmed[tip] = {} /\ mempool.tx \cap Returning = {}
        BY <2>1 DEF Sources
      <3>2. Range(rest) \subseteq Returning
        BY DEF Taken
      <3>3. QED
        BY <2>2, <3>1, <3>2
    <2>5. \A u \in ReAdded : u \in m.tx \cup {}
      OBVIOUS
    <2>6. QED
      BY <2>1, <2>3, <2>4, <2>5, SourcesShrink
  <1>ReturnRefused.
    ASSUME PoolInv, NEW t, NEW rest, Taken(t, rest), NEW m, m = removeRecursive(mempool, t)
    PROVE  /\ Sound(m, ReAdded, ReAdded) /\ Sources(m, Range(rest), tip)
           /\ m.tx \subseteq mempool.tx /\ ReAdded \subseteq m.tx
    <2> USE <1>ReturnRefused
    <2>1. t \in Tx /\ TakenFacts(t) /\ t \notin mempool.tx
      BY <1>TakenHas DEF Taken, TakenFacts
    <2>2. Sound(mempool, ReAdded, ReAdded) /\ Sources(mempool, Returning, tip) /\ tip \in Blocks
      BY DEF PoolInv, Types
    <2>3. /\ Shrunk(mempool, {}, ReAdded, ReAdded, m)
          /\ \A u \in m.tx : Spends[u] \cap Outputs[t] = {}
      BY <2>1, <2>2, RecursiveShrinks
    <2>4. Sound(m, ReAdded, ReAdded) /\ m.tx \subseteq mempool.tx
      BY <2>3 DEF Shrunk
    <2>5. ReAdded \subseteq m.tx
      <3>1. m = RemoveWithDescendants(mempool, Spending(mempool, t))
        BY <2>1 DEF removeRecursive
      <3>2. Spending(mempool, t) \in SUBSET mempool.tx
        BY DEF Spending
      <3>3. ASSUME NEW u \in ReAdded, u \in Spending(mempool, t) PROVE FALSE
        <4>1. PICK o \in Spends[u] : o \in Outputs[t]
          BY <3>3 DEF Spending
        <4>2. o[1] = t
          BY <2>1, <4>1, OutputOf
        <4>3. QED
          BY <2>1, <4>2 DEF TakenFacts, Depends
      <3>4. Spending(mempool, t) \cap ReAdded = {}
        BY <3>3
      <3>5. QED
        BY <3>1, <3>2, <3>4, <1>ReAddedStay
    <2>6. Sources(m, Range(rest), tip)
      BY <2>3, <2>5, <1>RefusedSources
    <2>7. QED
      BY <2>4, <2>5, <2>6
  <1> SUFFICES
    ASSUME PoolInv, ReAdd
    PROVE  PoolInv'
    OBVIOUS
  <1> DEFINE t == Last(disconnectpool)
             rest == Front(disconnectpool)
  <1>1. /\ phase = "adding" /\ disconnectpool # <<>> /\ disconnectpool' = rest
        /\ tip' = tip /\ refused' = refused /\ phase' = phase
    BY DEF ReAdd, chain
  <1>2. \/ /\ Acceptable(mempool, t) /\ mempool' = Accepted(mempool, t)
           /\ vHashUpdate' = Append(vHashUpdate, t)
        \/ mempool' = removeRecursive(mempool, t) /\ vHashUpdate' = vHashUpdate
    BY DEF ReAdd
  <1>3. Taken(t, rest)
    BY <1>1, <1>TakenIs
  <1> HIDE DEF t, rest
  <1>4. rest \in Seq(Tx) /\ Backward(rest) /\ Range(rest) \subseteq Returning
    BY <1>3 DEF Taken
  <1>5. PoolPart' /\ vHashUpdate' \in Seq(Tx)
    <2>1. CASE /\ Acceptable(mempool, t) /\ mempool' = Accepted(mempool, t)
               /\ vHashUpdate' = Append(vHashUpdate, t)
      <3>1. /\ Sound(mempool', ReAdded \cup {t}, ReAdded \cup {t})
            /\ Sources(mempool', Range(rest), tip)
            /\ mempool'.tx \subseteq mempool.tx \cup {t} /\ ReAdded \cup {t} \subseteq mempool'.tx
        BY <1>3, <2>1, <1>ReturnAccepted
      <3>2. /\ Queued(rest, vHashUpdate', mempool') /\ vHashUpdate' \in Seq(Tx)
            /\ Range(vHashUpdate') = ReAdded \cup {t}
        BY <1>3, <2>1, <3>1, <1>ReturnQueued
      <3>3. ReAdded' = ReAdded \cup {t} /\ Returning' = Range(rest)
        BY <1>1, <3>2 DEF ReAdded, Returning
      <3>4. QED
        BY <1>1, <3>1, <3>2, <3>3 DEF PoolPart
    <2>2. CASE mempool' = removeRecursive(mempool, t) /\ vHashUpdate' = vHashUpdate
      <3>1. /\ Sound(mempool', ReAdded, ReAdded) /\ Sources(mempool', Range(rest), tip)
            /\ mempool'.tx \subseteq mempool.tx /\ ReAdded \subseteq mempool'.tx
        BY <1>3, <2>2, <1>ReturnRefused
      <3>2. Queued(disconnectpool, vHashUpdate, mempool) /\ vHashUpdate \in Seq(Tx)
        BY DEF PoolInv, Types
      <3>3. Queued(rest, vHashUpdate, mempool')
        BY <1>4, <3>1, <3>2, QueuedLess DEF Returning
      <3>4. ReAdded' = ReAdded /\ Returning' = Range(rest)
        BY <1>1, <2>2 DEF ReAdded, Returning
      <3>5. QED
        BY <1>1, <2>2, <3>1, <3>2, <3>3, <3>4 DEF PoolPart
    <2>3. QED
      BY <1>2, <2>1, <2>2
  <1>6. phase' = "adding" /\ phase' # "moving" /\ phase' # "invalidating" /\ phase' # "idle"
    BY <1>1
  <1>7. Types'
    BY <1>1, <1>4, <1>5, <1>6 DEF PoolInv, Types
  <1>8. Moving' /\ Ready'
    BY <1>6 DEF Moving, Ready
  <1>9. QED
    BY <1>5, <1>7, <1>8 DEF PoolInv, PoolPart

-----------------------------------------------------------------------------
(* A transaction is accepted.                                              *)

\* an input is past its lock when the lock points of the transaction are
LEMMA TimelyInput ==
  ASSUME NEW t \in Tx, NEW lp, tip \in Blocks, Timely(t, lp), NEW o \in Spends[t]
  PROVE  /\ o \in Unspent[tip] => Height[tip] + 1 >= CoinHeight[tip][o[1]] + Relative[t]
         /\ Relative[t] # 0 => o[1] \in Confirmed[tip]
  <1>1. ASSUME Relative[t] # 0
        PROVE  /\ o[1] \in Confirmed[tip]
               /\ Height[tip] + 1 >= CoinHeight[tip][o[1]] + Relative[t]
    <2>1. lp \in Locks /\ LockSound(t, lp) /\ lp.block \in Path[tip] /\ EvaluateSequenceLocks(lp)
      BY <1>1 DEF Timely
    <2>2. QED
      BY <1>1, <2>1, LocksHold
  <1>2. ASSUME Relative[t] = 0, o \in Unspent[tip]
        PROVE  Height[tip] + 1 >= CoinHeight[tip][o[1]] + Relative[t]
    <2>1. o[1] \in Confirmed[tip] /\ tip \in Path[tip] /\ Height[tip] \in Nat
      BY <1>2, UnspentIn, PathEnds, BlockFacts
    <2>2. \A u \in Confirmed[tip] : CoinHeight[tip][u] \in Nat /\ CoinHeight[tip][u] <= Height[tip]
      BY <2>1, CoinHeightStays
    <2>3. CoinHeight[tip][o[1]] \in Nat /\ CoinHeight[tip][o[1]] <= Height[tip]
      BY <2>1, <2>2
    <2>4. QED
      BY <1>2, <2>1, <2>3, SMT
  <1>3. QED
    BY <1>1, <1>2

\* the lock points AcceptToMemoryPoolWorker stores are right
LEMMA AcceptedTimely ==
  ASSUME NEW mp, NEW t \in Tx, tip \in Blocks, \A o \in Spends[t] : HaveCoin(mp, o),
         Spends[t] # {}, EvaluateSequenceLocks(LockPoints(mp, t))
  PROVE  /\ Timely(t, LockPoints(mp, t))
         /\ Relative[t] # 0 => \A o \in Spends[t] : o[1] \notin mp.tx
  <1>1. LockPoints(mp, t) \in Locks
    BY LockPointsAre
  <1>2. Relative[t] # 0 => /\ LockSound(t, LockPoints(mp, t))
                           /\ LockPoints(mp, t).block \in Path[tip]
                           /\ \A o \in Spends[t] : o[1] \notin mp.tx
    BY LocksSound
  <1>3. LockSound(t, LockPoints(mp, t))
    BY <1>2 DEF LockSound
  <1>4. QED
    BY <1>1, <1>2, <1>3 DEF Timely

LEMMA EnterMinable ==
  ASSUME NEW mp, NEW L, NEW t \in Tx, NEW lp, NEW left, NEW m, NEW away,
         tip \in Blocks, mp.tx \in SUBSET Tx, Sources(mp, away, tip), Acceptable(mp, t),
         Entered(mp, t, lp, L, left, m), L = {}, Minable(mp, tip)
  PROVE  Minable(m, tip)
  <1>1. Spends[t] # {} /\ \A o \in Spends[t] : HaveCoin(mp, o)
    BY AcceptableNew
  <1>2. /\ CheckFinalTx(t, tip) /\ EvaluateSequenceLocks(LockPoints(mp, t))
        /\ \A o \in Spends[t] : o[1] \notin mp.tx => Mature(o, tip)
    BY DEF Acceptable
  <1>3. /\ SpentBy(mp, t) \subseteq left.tx /\ m.tx = left.tx \cup {t}
        /\ left.tx \subseteq mp.tx
        /\ \A w \in left.tx : \A u \in mp.tx : Depends(w, u) => u \in left.tx
    BY DEF Entered, Shrunk
  <1>4. ASSUME NEW o \in Spends[t] PROVE InputReady(m, t, o, tip)
    <2>1. /\ Timely(t, LockPoints(mp, t))
          /\ Relative[t] # 0 => \A x \in Spends[t] : x[1] \notin mp.tx
      BY <1>1, <1>2, AcceptedTimely
    <2>2. CASE o[1] \in mp.tx
      <3>1. o[1] \in SpentBy(mp, t) /\ Relative[t] = 0
        BY <2>1, <2>2 DEF SpentBy
      <3>2. QED
        BY <1>3, <3>1 DEF InputReady
    <2>3. CASE o[1] \notin mp.tx
      <3>1. o \in Unspent[tip] /\ Mature(o, tip)
        BY <1>1, <1>2, <2>3 DEF HaveCoin
      <3>2. Height[tip] + 1 >= CoinHeight[tip][o[1]] + Relative[t]
        BY <2>1, <3>1, TimelyInput
      <3>3. QED
        BY <3>1, <3>2 DEF InputReady
    <2>4. QED
      BY <2>2, <2>3
  <1>5. ASSUME NEW w \in left.tx, NEW o \in Spends[w] PROVE InputReady(m, w, o, tip)
    <2>1. InputReady(mp, w, o, tip)
      BY <1>3 DEF Minable
    <2>2. o[1] \in mp.tx => o[1] \in m.tx
      BY <1>3 DEF Depends
    <2>3. QED
      BY <2>1, <2>2 DEF InputReady
  <1>6. \A w \in left.tx : CheckFinalTx(w, tip)
    BY <1>3 DEF Minable
  <1>7. QED
    BY <1>2, <1>3, <1>4, <1>5, <1>6 DEF Minable

\* AcceptToMemoryPool at rest
LEMMA AcceptInv ==
  ASSUME PoolInv, NEW t \in Tx, AcceptToMemoryPool(t)
  PROVE  PoolInv'
  <1> DEFINE m == Accepted(mempool, t)
             lp == LockPoints(mempool, t)
             left == RemoveWithDescendants(mempool, Conflicts(mempool, t))
  <1>1. /\ phase = "idle" /\ Acceptable(mempool, t) /\ mempool' \in LimitMempoolSize(m)
        /\ tip' = tip /\ refused' = refused /\ phase' = phase
        /\ disconnectpool' = disconnectpool /\ vHashUpdate' = vHashUpdate
    BY DEF AcceptToMemoryPool, chain, move, update
  <1>2. /\ tip \in Blocks /\ disconnectpool = <<>> /\ vHashUpdate = <<>> /\ refused \subseteq Blocks
        /\ disconnectpool \in Seq(Tx) /\ vHashUpdate \in Seq(Tx)
    <2>1. phase # "adding"
      BY <1>1
    <2>2. QED
      BY <1>1, <2>1 DEF PoolInv, Types
  <1>3. ReAdded = {} /\ Returning = {}
    BY <1>2, EmptyQueue DEF ReAdded, Returning
  <1>4. /\ Sound(mempool, {}, {}) /\ Sources(mempool, {}, tip) /\ Minable(mempool, tip)
        /\ mempool.tx \in SUBSET Tx
    <2>1. Sound(mempool, {}, {}) /\ Sources(mempool, {}, tip) /\ Minable(mempool, tip)
      BY <1>1, <1>3 DEF PoolInv, Ready
    <2>2. QED
      BY <2>1, PoolTypes DEF Sound
  <1>5. /\ lp \in [height : Int, block : Blocks] /\ ~ Depends(t, t) /\ MayReplace(mempool, t)
        /\ t \notin mempool.tx /\ t \notin Confirmed[tip]
    BY <1>1, AcceptLocks
  <1>6. ASSUME NEW w \in mempool.tx, Depends(w, t) PROVE FALSE
    <2>1. PICK o \in Spends[w] : o[1] = t
      BY <1>6 DEF Depends
    <2>2. o[1] \in mempool.tx \cup {} \/ o \in Unspent[tip]
      BY <1>4 DEF Sources
    <2>3. o \in Unspent[tip]
      BY <1>5, <2>1, <2>2
    <2>4. o[1] \in Confirmed[tip]
      BY <1>2, <2>3, UnspentIn
    <2>5. QED
      BY <1>5, <2>1, <2>4
  <1>7. Fresh(mempool, t, {}, {})
    BY <1>5, <1>6 DEF Fresh
  <1>8. Sound(m, {} \cup {}, {} \cup {}) /\ Entered(mempool, t, lp, {}, left, m)
    BY <1>4, <1>5, <1>7, AcceptedSound
  <1> HIDE DEF m, left
  <1>9. Sound(m, {}, {})
    <2>1. {} \cup {} = {}
      OBVIOUS
    <2>2. QED
      BY <1>8, <2>1
  <1>10. Sources(m, {}, tip)
    <2>1. lp = LockPoints(mempool, t)
      OBVIOUS
    <2> HIDE DEF lp
    <2> DEFINE none == {}
    <2>2. none \subseteq left.tx /\ none \subseteq none \cup {t} /\ none \subseteq none /\ t \notin none
      OBVIOUS
    <2>3. Sources(mempool, none, tip) /\ Entered(mempool, t, lp, none, left, m)
      BY <1>4, <1>8
    <2>4. Acceptable(mempool, t) /\ tip \in Blocks /\ mempool.tx \in SUBSET Tx
      BY <1>1, <1>2, <1>4
    <2> HIDE DEF none
    <2>5. Sources(m, none, tip)
      BY <2>1, <2>2, <2>3, <2>4, SourcesEnter
    <2>6. QED
      BY <2>5 DEF none
  <1> HIDE DEF lp
  <1>11. Minable(m, tip)
    BY <1>1, <1>2, <1>4, <1>8, EnterMinable
  <1>12. Shrunk(m, {}, {}, {}, mempool') /\ Sound(mempool', {}, {})
    BY <1>1, <1>9, LimitStays
  <1>13. Sources(mempool', {}, tip) /\ Minable(mempool', tip)
    BY <1>10, <1>11, <1>12, SourcesStay, MinableStays
  <1>14. Queued(disconnectpool, vHashUpdate, mempool')
    <2>1. /\ Range(disconnectpool) = {} /\ Backward(disconnectpool)
          /\ Range(vHashUpdate) = {} /\ Forward(vHashUpdate)
      BY <1>2, EmptyQueue
    <2>2. QED
      BY <2>1 DEF Queued
  <1>15. ReAdded' = {} /\ Returning' = {}
    BY <1>1, <1>3 DEF ReAdded, Returning
  <1>16. PoolPart'
    BY <1>1, <1>12, <1>13, <1>14, <1>15 DEF PoolPart
  <1>17. phase' = "idle" /\ phase' # "moving" /\ phase' # "invalidating" /\ phase' # "adding"
    BY <1>1
  <1>18. Types' /\ Moving' /\ Ready'
    BY <1>1, <1>2, <1>13, <1>17 DEF Types, Moving, Ready
  <1>19. QED
    BY <1>16, <1>18 DEF PoolInv, PoolPart

-----------------------------------------------------------------------------
(* The end of the update.                                                  *)

\* the end of UpdateMempoolForReorg: UpdateTransactionsFromBlock completes the
\* links, and removeForReorg leaves what can be mined
LEMMA FinishInv ==
  PoolInv /\ FinishUpdate
  => PoolInv'
  <1>LockFields.
    ASSUME NEW mp \in Pool, NEW locks \in [Tx -> [height : Int, block : Blocks]]
    PROVE  Relocked(mp, locks, [mp EXCEPT !.locks = locks])
    BY <1>LockFields, SMT DEF Pool, Relocked
  <1>RelockedSound.
    ASSUME NEW mp, NEW locks, NEW m, Sound(mp, {}, {}), Relocked(mp, locks, m)
    PROVE  Sound(m, {}, {})
    BY <1>RelockedSound DEF Relocked, Sound, Linked, Counted
  <1>ReorgIs.
    ASSUME NEW mp
    PROVE  removeForReorg(mp) =
             RemoveWithDescendants([mp EXCEPT !.locks = [t \in Tx |-> NewLocks(mp, t)]],
                                   {t \in mp.tx : NotReady(mp, t)})
    BY <1>ReorgIs DEF removeForReorg, NewLocks
  <1>NewLocksType.
    ASSUME NEW mp, mp \in Pool, Sources(mp, {}, tip), tip \in Blocks, NEW t \in Tx
    PROVE  NewLocks(mp, t) \in [height : Int, block : Blocks]
    <2> USE <1>NewLocksType
    <2>1. mp.locks \in [Tx -> [height : Int, block : Blocks]]
      BY PoolTypes
    <2>2. mp.locks[t] \in [height : Int, block : Blocks]
      BY <2>1
    <2>3. ASSUME t \in mp.tx, \A o \in Spends[t] : HaveCoin(mp, o)
          PROVE  LockPoints(mp, t) \in Locks
      <3>1. Spends[t] # {}
        BY <2>3 DEF Sources, Coinbase
      <3>2. QED
        BY <2>3, <3>1, LockPointsAre
    <2>4. QED
      BY <2>2, <2>3 DEF NewLocks, Locks
  <1>NewLocksTimely.
    ASSUME NEW mp, mp \in Pool, Sources(mp, {}, tip), tip \in Blocks, NEW t \in mp.tx, t \in Tx,
           ~ NotReady(mp, t)
    PROVE  Timely(t, NewLocks(mp, t))
    <2> USE <1>NewLocksTimely
    <2>1. NewLocks(mp, t) \in Locks
      BY <1>NewLocksType DEF Locks
    <2>2. Spends[t] # {} /\ LockSound(t, mp.locks[t])
      BY DEF Sources, Coinbase
    <2>3. CASE TestLockPointValidity(mp.locks[t])
      <3>1. NewLocks(mp, t) = mp.locks[t] /\ EvaluateSequenceLocks(mp.locks[t])
        BY <2>3 DEF NewLocks, NotReady
      <3>2. mp.locks[t].block \in Path[tip]
        BY <2>3 DEF TestLockPointValidity
      <3>3. QED
        BY <2>1, <2>2, <3>1, <3>2 DEF Timely
    <2>4. CASE ~ TestLockPointValidity(mp.locks[t])
      <3>1. /\ \A o \in Spends[t] : HaveCoin(mp, o)
            /\ EvaluateSequenceLocks(LockPoints(mp, t))
        BY <2>4 DEF NotReady
      <3>2. NewLocks(mp, t) = LockPoints(mp, t)
        BY <2>4, <3>1 DEF NewLocks
      <3>3. Timely(t, LockPoints(mp, t))
        BY <2>2, <3>1, AcceptedTimely
      <3>4. QED
        BY <3>2, <3>3
    <2>5. QED
      BY <2>3, <2>4
  <1>ReorgLeaves.
    ASSUME NEW mp, Sound(mp, {}, {}), Sources(mp, {}, tip), tip \in Blocks
    PROVE  Reorganized(mp, removeForReorg(mp))
    <2> USE <1>ReorgLeaves
    <2> DEFINE locks == [t \in Tx |-> NewLocks(mp, t)]
               f == [mp EXCEPT !.locks = locks]
               S == {t \in mp.tx : NotReady(mp, t)}
               m == RemoveWithDescendants(f, S)
    <2>1. mp \in Pool /\ mp.tx \in SUBSET Tx
      BY PoolTypes DEF Sound
    <2>2. \A t \in Tx : NewLocks(mp, t) \in [height : Int, block : Blocks]
      BY <2>1, <1>NewLocksType
    <2>3. locks \in [Tx -> [height : Int, block : Blocks]] /\ \A t \in Tx : locks[t] = NewLocks(mp, t)
      BY <2>2
    <2>4. removeForReorg(mp) = m
      BY <1>ReorgIs
    <2> HIDE DEF locks
    <2>5. Relocked(mp, locks, f)
      BY <2>1, <2>3, <1>LockFields
    <2> HIDE DEF f
    <2>6. Sound(f, {}, {}) /\ f.tx = mp.tx /\ f.locks = locks
      BY <2>5, <1>RelockedSound DEF Relocked
    <2>7. S \in SUBSET f.tx
      BY <2>6
    <2>8. Shrunk(f, {}, {}, {}, m) /\ S \cap m.tx = {}
      BY <2>6, <2>7, RemoveShrinks
    <2>9. /\ Sound(m, {}, {}) /\ m.tx \subseteq mp.tx
          /\ \A t \in m.tx : \A u \in mp.tx : Depends(t, u) => u \in m.tx
          /\ \A t \in m.tx : m.locks[t] = locks[t]
      BY <2>6, <2>8 DEF Shrunk
    <2>10. \A t \in m.tx : ~ NotReady(mp, t)
      BY <2>8, <2>9
    <2>11. \A t \in m.tx : Timely(t, m.locks[t])
      BY <2>1, <2>3, <2>9, <2>10, <1>NewLocksTimely
    <2> HIDE DEF m
    <2>12. Reorganized(mp, m)
      BY <2>9, <2>10, <2>11 DEF Reorganized
    <2>13. QED
      BY <2>4, <2>12
  <1>ReorgReady.
    ASSUME NEW mp, NEW m, Sound(mp, {}, {}), Sources(mp, {}, tip), tip \in Blocks,
           Reorganized(mp, m)
    PROVE  Sources(m, {}, tip) /\ Minable(m, tip)
    <2> USE <1>ReorgReady
    <2>1. /\ m.tx \subseteq mp.tx
          /\ \A t \in m.tx : \A u \in mp.tx : Depends(t, u) => u \in m.tx
          /\ \A t \in m.tx : ~ NotReady(mp, t) /\ Timely(t, m.locks[t])
      BY DEF Reorganized
    <2>2. mp.tx \in SUBSET Tx
      BY PoolTypes DEF Sound
    <2>3. /\ mp.tx \cap Confirmed[tip] = {} /\ mp.tx \cap Coinbase = {}
          /\ \A t, u \in mp.tx : t # u => Apart(t, u)
          /\ \A t \in mp.tx : \A o \in Spends[t] :
               /\ o[1] \in Tx /\ o \in Outputs[o[1]]
               /\ o[1] \in mp.tx \/ o \in Unspent[tip]
      BY DEF Sources, Real
    <2>4. ASSUME NEW t \in m.tx, NEW o \in Spends[t]
          PROVE  o[1] \in m.tx \/ o \in Unspent[tip]
      <3>1. o[1] \in mp.tx => o[1] \in m.tx
        BY <2>1 DEF Depends
      <3>2. QED
        BY <2>1, <2>3, <3>1
    <2>5. Sources(m, {}, tip)
      <3>1. /\ m.tx \cap Confirmed[tip] = {} /\ m.tx \cap {} = {} /\ m.tx \cap Coinbase = {}
        BY <2>1, <2>3
      <3>2. \A t, u \in m.tx : t # u => Apart(t, u)
        BY <2>1, <2>3
      <3>3. Real(m.tx)
        BY <2>1, <2>3 DEF Real
      <3>4. \A t \in m.tx : LockSound(t, m.locks[t])
        BY <2>1 DEF Timely
      <3>5. QED
        BY <2>4, <3>1, <3>2, <3>3, <3>4 DEF Sources
    <2>6. ASSUME NEW t \in m.tx, NEW o \in Spends[t] PROVE InputReady(m, t, o, tip)
      <3>1. t \in Tx /\ ~ NotReady(mp, t) /\ Timely(t, m.locks[t])
        BY <2>1, <2>2
      <3>2. /\ o \in Unspent[tip] => Height[tip] + 1 >= CoinHeight[tip][o[1]] + Relative[t]
            /\ Relative[t] # 0 => o[1] \in Confirmed[tip]
        BY <3>1, TimelyInput
      <3>3. CASE o[1] \in m.tx
        <4>1. o[1] \notin Confirmed[tip]
          BY <2>1, <2>3, <3>3
        <4>2. QED
          BY <3>2, <3>3, <4>1 DEF InputReady
      <3>4. CASE o[1] \notin m.tx
        <4>1. o \in Unspent[tip]
          BY <2>4, <3>4
        <4>2. o[1] \notin mp.tx
          <5>1. o[1] \in Confirmed[tip]
            BY <4>1, UnspentIn
          <5>2. QED
            BY <2>3, <5>1
        <4>3. Mature(o, tip)
          BY <3>1, <4>2 DEF NotReady, Mature
        <4>4. QED
          BY <3>2, <4>1, <4>3 DEF InputReady
      <3>5. QED
        BY <3>3, <3>4
    <2>7. \A t \in m.tx : CheckFinalTx(t, tip)
      BY <2>1 DEF NotReady
    <2>8. QED
      BY <2>5, <2>6, <2>7 DEF Minable
  <1>SameSources.
    ASSUME NEW mp, NEW m, NEW away, NEW b, Sources(mp, away, b), m.tx = mp.tx, m.locks = mp.locks
    PROVE  Sources(m, away, b)
    BY <1>SameSources DEF Sources
  \* UpdateTransactionsFromBlock repairs what the return left open
  <1>UpdateRepairs.
    ASSUME PoolInv, NEW none, none = Range(disconnectpool)
    PROVE  LET m == UpdateTransactionsFromBlock(mempool, vHashUpdate)
           IN  Sound(m, {}, {}) /\ Sources(m, none, tip)
    <2> USE <1>UpdateRepairs
    <2> DEFINE m == UpdateTransactionsFromBlock(mempool, vHashUpdate)
    <2>1. Sources(mempool, none, tip)
      BY DEF PoolInv, Returning
    <2>2. Returned(mempool, vHashUpdate)
      <3>1. vHashUpdate \in Seq(Tx)
        BY DEF PoolInv, Types
      <3>2. Real(mempool.tx)
        BY DEF PoolInv, Sources
      <3>3. Sound(mempool, Range(vHashUpdate), Range(vHashUpdate)) /\ Range(vHashUpdate) \subseteq mempool.tx
        BY DEF PoolInv, ReAdded
      <3>4. /\ Forward(vHashUpdate)
            /\ \A t \in Range(vHashUpdate) : \A u \in mempool.tx \ Range(vHashUpdate) : ~ Depends(t, u)
        BY DEF PoolInv, Queued
      <3>5. QED
        BY <3>1, <3>2, <3>3, <3>4 DEF Returned
    <2>3. Sound(m, {}, {}) /\ m.tx = mempool.tx /\ m.locks = mempool.locks
      BY <2>2, UpdateSound
    <2> HIDE DEF m
    <2>4. Sources(m, none, tip)
      BY <2>1, <2>3, <1>SameSources
    <2>5. QED
      BY <2>3, <2>4 DEF m
  <1> SUFFICES
    ASSUME PoolInv, FinishUpdate
    PROVE  PoolInv'
    OBVIOUS
  <1> DEFINE m == UpdateTransactionsFromBlock(mempool, vHashUpdate)
             left == removeForReorg(m)
  <1>1. /\ disconnectpool = <<>> /\ phase' = "idle" /\ mempool' \in LimitMempoolSize(left)
        /\ tip' = tip /\ refused' = refused
        /\ disconnectpool' = <<>> /\ vHashUpdate' = <<>>
    BY DEF FinishUpdate, chain
  <1>2. tip \in Blocks /\ refused \subseteq Blocks
    BY DEF PoolInv, Types
  <1>3. Range(disconnectpool) = {}
    BY <1>1, EmptyQueue
  <1>4. Sound(m, {}, {}) /\ Sources(m, {}, tip)
    BY <1>3, <1>UpdateRepairs
  <1> HIDE DEF m
  <1>5. Reorganized(m, left)
    BY <1>2, <1>4, <1>ReorgLeaves
  <1> HIDE DEF left
  <1>6. Sources(left, {}, tip) /\ Minable(left, tip) /\ Sound(left, {}, {})
    BY <1>2, <1>4, <1>5, <1>ReorgReady DEF Reorganized
  <1>7. Shrunk(left, {}, {}, {}, mempool') /\ Sound(mempool', {}, {})
    BY <1>1, <1>6, LimitStays
  <1>8. Sources(mempool', {}, tip) /\ Minable(mempool', tip)
    BY <1>6, <1>7, SourcesStay, MinableStays
  <1>9. /\ Range(disconnectpool') = {} /\ Backward(disconnectpool') /\ disconnectpool' \in Seq(Tx)
        /\ Range(vHashUpdate') = {} /\ Forward(vHashUpdate') /\ vHashUpdate' \in Seq(Tx)
    BY <1>1, EmptyQueue
  <1>10. Queued(disconnectpool', vHashUpdate', mempool')
    BY <1>9 DEF Queued
  <1>11. ReAdded' = {} /\ Returning' = {}
    BY <1>9 DEF ReAdded, Returning
  <1>12. PoolPart'
    BY <1>1, <1>7, <1>8, <1>10, <1>11 DEF PoolPart
  <1>13. phase' = "idle" /\ phase' # "moving" /\ phase' # "invalidating" /\ phase' # "adding"
    BY <1>1
  <1>14. Types' /\ Moving' /\ Ready'
    BY <1>1, <1>2, <1>8, <1>9, <1>13 DEF Types, Moving, Ready
  <1>15. QED
    BY <1>12, <1>14 DEF PoolInv, PoolPart

-----------------------------------------------------------------------------
(* The invariant.                                                          *)

\* every step keeps the invariant
LEMMA NextInv ==
  ASSUME PoolInv, [Next]_vars
  PROVE  PoolInv'
  <1>1. ASSUME NEW t \in Tx, AcceptToMemoryPool(t) PROVE PoolInv'
    BY <1>1, AcceptInv
  <1>2. ASSUME NEW b \in Blocks, ActivateBestChain(b) PROVE PoolInv'
    BY <1>2, ActivateInv
  <1>3. ASSUME NEW b \in Blocks, InvalidateBlock(b) PROVE PoolInv'
    BY <1>3, InvalidateInv
  <1>4. CASE DisconnectTip
    BY <1>4, DisconnectInv
  <1>5. CASE ConnectTip
    BY <1>5, ConnectInv
  <1>6. CASE RefuseBlock
    BY <1>6, RefuseInv
  <1>7. CASE MarkInvalid
    BY <1>7, MarkInvalidInv
  <1>8. CASE Fault
    BY <1>8, FaultInv
  <1>9. CASE ReAdd
    BY <1>9, ReAddInv
  <1>10. CASE FinishUpdate
    BY <1>10, FinishInv
  <1>11. CASE UNCHANGED vars
    BY <1>11, StutterInv
  <1>12. QED
    BY <1>1, <1>2, <1>3, <1>4, <1>5, <1>6, <1>7, <1>8, <1>9, <1>10, <1>11 DEF Next

\* The invariant above holds in every reachable state: acceptance, connection,
\* disconnection, refusal, faults, return and removal (validation.cpp and
\* txmempool.cpp) all preserve it.
THEOREM PoolInvariant == Spec => []PoolInv
  <1>1. PoolInv /\ [Next]_vars => PoolInv'
    BY NextInv
  <1>2. QED
    BY InitInv, <1>1, PTL DEF Spec

-----------------------------------------------------------------------------
(* The stake.                                                              *)

\* every verdict on a stake is the one its input calls for
LEMMA StakeNext ==
  PoolInv /\ StakeVerdictExact /\ [Next]_vars
  => StakeVerdictExact'
  \* a coinstake cannot spend the coinbase of its own block
  <1>StakeEarlier.
    ASSUME NEW b \in Blocks \ {Genesis}, From[b] # NONE
    PROVE  /\ Spends[Vtx[b][2]] # {}
           /\ \A o \in Spends[Vtx[b][2]] : o \in Unspent[Parent[b]]
    <2> USE <1>StakeEarlier
    <2>1. Vtx[b] \in Seq(Tx) /\ Len(Vtx[b]) > 1 /\ Maturity \in Nat \ {0}
      BY MempoolAssumption
    <2>2. 1 \in 1 .. Len(Vtx[b]) /\ 2 \in 1 .. Len(Vtx[b]) /\ 2 # 1 /\ (\A j \in 1 .. 2 - 1 : j = 1)
      BY <2>1, SMT
    <2>3. Connects(b, 2, Vtx[b][2])
      BY <2>2, VtxConnects
    <2>4. Vtx[b][1] \in Tx /\ Vtx[b][1] \in Range(Vtx[b]) /\ Vtx[b][1] \in Coinbase
      BY <2>2, VtxConnects
    <2>5. ASSUME NEW o \in Spends[Vtx[b][2]], o \in Outputs[Vtx[b][1]] PROVE FALSE
      <3>1. o[1] = Vtx[b][1]
        BY <2>4, <2>5, OutputOf
      <3>2. b \in Blocks /\ b \in Path[b] /\ Height[b] \in Nat
        BY PathEnds, BlockFacts
      <3>3. CoinHeight[b][o[1]] = Height[b]
        BY <2>4, <3>1, <3>2, CoinHeightIs DEF MadeAt
      <3>4. Height[b] - CoinHeight[b][o[1]] >= Maturity
        BY <2>3, <2>4, <3>1 DEF Connects
      <3>5. QED
        BY <2>1, <3>2, <3>3, <3>4, SMT
    <2>6. QED
      BY <2>2, <2>3, <2>5 DEF Connects
  <1>StakeFound.
    ASSUME PoolInv, NEW o \in Unspent[tip]
    PROVE  \E a : HeldBy(o[1], a)
    <2> USE <1>StakeFound
    <2>1. tip \in Blocks /\ mempool.tx \cap Confirmed[tip] = {}
      BY DEF PoolInv, Types, Sources
    <2>2. o[1] \in Confirmed[tip] /\ o \in Outputs[o[1]]
      BY <2>1, UnspentIn
    <2>3. o[1] \notin mempool.tx /\ Outputs[o[1]] \cap Unspent[tip] # {}
      <3>1. o \in Outputs[o[1]] \cap Unspent[tip]
        BY <2>2
      <3>2. QED
        BY <2>1, <2>2, <3>1
    <2>4. PICK a \in Path[tip] : o[1] \in Range(Vtx[a])
      BY <2>1, <2>2, ConfirmedIn
    <2>5. CoinHeight[tip][o[1]] = Height[a]
      <3>1. MadeAt(tip, o[1], Height[a])
        BY <2>1, <2>4, CoinHeightIs
      <3>2. QED
        BY <3>1 DEF MadeAt
    <2>6. ASSUME NEW c \in Path[tip], Height[c] = Height[a] PROVE c = a
      <3>1. Height[c] <= Height[a]
        <4>1. Height[c] \in Nat /\ Height[a] \in Nat
          BY <2>1, PathHeight
        <4>2. QED
          BY <2>6, <4>1, SMT
      <3>2. QED
        BY <2>1, <2>6, <3>1, PathBelow
    <2>7. (CHOOSE c \in Path[tip] : Height[c] = CoinHeight[tip][o[1]]) = a
      BY <2>5, <2>6
    <2>8. GetTransaction(mempool, o[1]) = a
      BY <2>3, <2>7 DEF GetTransaction
    <2>9. QED
      BY <2>4, <2>8 DEF HeldBy
  <1>StakeVerdict.
    ASSUME PoolInv, NEW b, Follows(b)
    PROVE  CheckProofOfStake(mempool, b) <=> StakeSound(b)
    <2> USE <1>StakeVerdict
    <2>1. b \in Blocks \ {Genesis} /\ Parent[b] = tip /\ tip \in Blocks
      BY DEF Follows
    <2>2. SUFFICES ASSUME From[b] # NONE PROVE CheckProofOfStake(mempool, b) <=> StakeSound(b)
      BY DEF CheckProofOfStake, StakeSound
    <2>3. Spends[Vtx[b][2]] # {} /\ \A o \in Spends[Vtx[b][2]] : o \in Unspent[tip]
      BY <2>1, <2>2, <1>StakeEarlier
    <2>4. \A o \in Spends[Vtx[b][2]] : \E a : HeldBy(o[1], a)
      BY <2>3, <1>StakeFound
    <2>5. ASSUME CheckProofOfStake(mempool, b) PROVE StakeSound(b)
      <3>1. \A o \in Spends[Vtx[b][2]] : HeldBy(o[1], From[b])
        BY <2>2, <2>4, <2>5 DEF CheckProofOfStake, HeldBy
      <3>2. From[b] \in Path[tip]
        BY <2>3, <3>1 DEF HeldBy
      <3>3. QED
        BY <2>1, <3>1, <3>2 DEF HeldBy, StakeSound
    <2>6. ASSUME StakeSound(b) PROVE CheckProofOfStake(mempool, b)
      <3>1. From[b] \in Path[tip] /\ \A o \in Spends[Vtx[b][2]] : o[1] \in Range(Vtx[From[b]])
        BY <2>1, <2>2, <2>6 DEF StakeSound
      <3>2. ASSUME NEW o \in Spends[Vtx[b][2]] PROVE GetTransaction(mempool, o[1]) = From[b]
        <4>1. PICK a : HeldBy(o[1], a)
          BY <2>4
        <4>2. a = From[b]
          BY <2>1, <3>1, <4>1, ConfirmedOnce DEF HeldBy
        <4>3. QED
          BY <4>1, <4>2 DEF HeldBy
      <3>3. QED
        BY <3>2 DEF CheckProofOfStake
    <2>7. QED
      BY <2>5, <2>6
  <1>StakeStays.
    ASSUME PoolInv, StakeVerdictExact, refused' = refused, Path[tip'] \subseteq Path[tip]
    PROVE  StakeVerdictExact'
    BY <1>StakeStays DEF StakeVerdictExact, StakeSound
  <1> SUFFICES
    ASSUME PoolInv, StakeVerdictExact, [Next]_vars
    PROVE  StakeVerdictExact'
    OBVIOUS
  <1>1. CASE ConnectTip
    <2> DEFINE b == NextBlock
    <2>1. /\ phase = "moving" /\ tip \in Path[target] /\ tip # target
          /\ CheckProofOfStake(mempool, b) /\ tip' = b /\ refused' = refused
      BY <1>1 DEF ConnectTip
    <2>2. Follows(b)
      BY <2>1, NextBlockIs DEF Follows, PoolInv, Types
    <2> HIDE DEF b
    <2>3. StakeSound(b)
      BY <2>1, <2>2, <1>StakeVerdict
    <2>4. Path[tip'] = Path[tip] \cup {b}
      BY <2>1, <2>2 DEF Follows
    <2>5. QED
      BY <2>1, <2>3, <2>4 DEF StakeVerdictExact, StakeSound
  <1>2. CASE RefuseBlock
    <2> DEFINE b == NextBlock
    <2>1. /\ phase = "moving" /\ tip \in Path[target] /\ tip # target
          /\ ~ CheckProofOfStake(mempool, b) /\ tip' = tip /\ refused' = refused \cup {b}
      BY <1>2 DEF RefuseBlock
    <2>2. Follows(b)
      BY <2>1, NextBlockIs DEF Follows, PoolInv, Types
    <2> HIDE DEF b
    <2>3. ~ StakeSound(b)
      BY <2>1, <2>2, <1>StakeVerdict
    <2>4. QED
      BY <2>1, <2>3 DEF StakeVerdictExact, StakeSound
  <1>3. CASE DisconnectTip
    <2>1. tip' = Parent[tip] /\ refused' = refused
      BY <1>3 DEF DisconnectTip
    <2>2. tip \in Blocks \ {Genesis}
      BY <1>3, DisconnectMoves DEF DisconnectTip
    <2>3. Path[tip] = Path[Parent[tip]] \cup {tip}
      BY <2>2, BlockFacts
    <2>4. QED
      BY <2>1, <2>3, <1>StakeStays
  <1>4. tip' = tip /\ refused' = refused => StakeVerdictExact'
    BY <1>StakeStays
  <1>5. CASE \E t \in Tx : AcceptToMemoryPool(t)
    BY <1>4, <1>5 DEF AcceptToMemoryPool, chain
  <1>6. CASE \E b \in Blocks : ActivateBestChain(b) \/ InvalidateBlock(b)
    BY <1>4, <1>6 DEF ActivateBestChain, InvalidateBlock, chain
  <1>7. CASE MarkInvalid \/ Fault
    BY <1>4, <1>7 DEF MarkInvalid, Fault, chain
  <1>8. CASE ReAdd \/ FinishUpdate
    BY <1>4, <1>8 DEF ReAdd, FinishUpdate, chain
  <1>9. CASE UNCHANGED vars
    BY <1>4, <1>9 DEF vars, chain
  <1>10. QED
    BY <1>1, <1>2, <1>3, <1>5, <1>6, <1>7, <1>8, <1>9 DEF Next

-----------------------------------------------------------------------------
(* What the invariant gives.                                               *)

\* In the middle of a reorganization too, the counts an entry keeps of its
\* descendants and ancestors are those of what it is linked to, so the
\* assertions of UpdateDescendantState and UpdateAncestorState (txmempool.cpp)
\* cannot fail.
THEOREM CountsAlwaysFollowLinks == Spec => []CountsFollowLinks
  <1>1. PoolInv => CountsFollowLinks
    BY DEF PoolInv, Sound, Counted, CountedBy, CountsFollowLinks, CalculateDescendants
  <1>2. QED
    BY PoolInvariant, <1>1, PTL

\* at rest nothing is re-added, so that links are exact
LEMMA LinksFollow ==
  ASSUME PoolInv
  PROVE  LinksExact
  <1>1. SUFFICES ASSUME phase = "idle" PROVE LinksExact
    BY DEF LinksExact
  <1>2. vHashUpdate = <<>>
    <2>1. phase # "adding"
      BY <1>1
    <2>2. QED
      BY <2>1 DEF PoolInv, Types
  <1>3. ReAdded = {}
    BY <1>2, EmptyQueue DEF ReAdded
  <1>4. Sound(mempool, {}, {}) /\ Real(mempool.tx)
    BY <1>3 DEF PoolInv, Sources
  <1>5. mempool.tx \in SUBSET Tx
    BY <1>4, PoolTypes DEF Sound
  <1>6. ASSUME NEW t \in mempool.tx
        PROVE  mempool.parents[t] = SpentBy(mempool, t) /\ mempool.children[t] = Spending(mempool, t)
    <2>1. t \in Tx
      BY <1>5
    <2>2. /\ \A u : u \in mempool.parents[t] <=> u \in mempool.tx /\ Depends(t, u)
          /\ \A u : u \in mempool.children[t] <=> u \in mempool.tx /\ Depends(u, t)
      BY <1>4, <2>1 DEF Sound, Linked, LinkedBy
    <2>3. mempool.parents[t] = SpentBy(mempool, t)
      BY <2>2 DEF SpentBy, Depends
    <2>4. Spending(mempool, t) = {u \in mempool.tx : Depends(u, t)}
      BY <1>4, <2>1, RealSpending
    <2>5. QED
      BY <2>2, <2>3, <2>4
  <1>7. QED
    BY <1>6 DEF LinksExact

\* Between two reorganizations every entry is linked with exactly the entries
\* it spends from and those that spend from it, whatever was disconnected,
\* re-added, evicted or replaced before (CTxMemPool::check, txmempool.cpp).
THEOREM LinksAlwaysExact == Spec => []LinksExact
  <1>1. PoolInv => LinksExact
    BY LinksFollow
  <1>2. QED
    BY PoolInvariant, <1>1, PTL

\* at rest every entry could be mined
LEMMA ReadyFollows ==
  ASSUME PoolInv
  PROVE  ReadyForNextBlock
  <1>1. SUFFICES ASSUME phase = "idle" PROVE ReadyForNextBlock
    BY DEF ReadyForNextBlock
  <1>2. Minable(mempool, tip)
    BY <1>1 DEF PoolInv, Ready
  <1>3. \A t \in mempool.tx : Conflicts(mempool, t) = {}
    BY DEF PoolInv, Sources, Apart, Conflicts
  <1>4. \A t \in mempool.tx : CheckFinalTx(t, tip) /\ \A o \in Spends[t] : InputReady(mempool, t, o, tip)
    BY <1>2 DEF Minable
  <1>5. QED
    BY <1>3, <1>4 DEF ReadyForNextBlock, InputReady

\* Between two reorganizations the pool's transactions could all be in the next
\* blocks: no two spend the same output, and each finds its inputs in the chain
\* or in the pool, mature, final and past their relative locks, although
\* removeForReorg (txmempool.cpp) trusts lock points calculated on another chain.
THEOREM PoolAlwaysReady == Spec => []ReadyForNextBlock
  <1>1. PoolInv => ReadyForNextBlock
    BY ReadyFollows
  <1>2. QED
    BY PoolInvariant, <1>1, PTL

LEMMA StakeInit == Init => StakeVerdictExact
  <1>1. Path[Genesis] = {Genesis}
    BY BlockFacts
  <1>2. QED
    BY <1>1 DEF Init, StakeVerdictExact

\* CheckProofOfStake (pos/kernel.cpp) looks the stake up in the pool and in the
\* coins of the moment, yet its verdict depends on the block and its ancestors
\* alone: a block is refused only for a wrong stake, and never connected with
\* one.
THEOREM StakeVerdictAlwaysExact == Spec => []StakeVerdictExact
  <1>1. PoolInv /\ StakeVerdictExact /\ [Next]_vars => StakeVerdictExact'
    BY StakeNext
  <1>2. QED
    BY PoolInvariant, StakeInit, <1>1, PTL DEF Spec

=============================================================================
