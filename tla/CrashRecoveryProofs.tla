------------------------- MODULE CrashRecoveryProofs -------------------------
(***************************************************************************)
(* Proofs about CrashRecovery, for every tree of blocks, every content of  *)
(* the blocks and every number of crashes: the coins are exact whenever    *)
(* the node runs, and a restart goes on unless undo data was lost.         *)
(*                                                                         *)
(* The heart of the inductive invariant is what is known of a database in  *)
(* transition: an outpoint that no block between the two heads touches     *)
(* holds its coin; of any other nothing is known, because partial batches  *)
(* were written in any order and perhaps in several attempts.  A rollback  *)
(* makes the outpoints of one block after the other exact, and the replay  *)
(* of the new branch does the same in the other direction.                 *)
(***************************************************************************)
EXTENDS CrashRecovery, TLAPS

\* leaves are tried with Zenon unless they ask for SMT
USE Zenon

\* the block lies in a set of index entries with all its ancestors, and they
\* can be undone
Held(b, data, undo) ==
  Chain(b) \subseteq data /\ Chain(b) \ {Genesis} \subseteq undo

\* some block of the set has to do with the outpoint
Touched(s, o) == \E a \in s : Touches(a, o)

\* the blocks between the heads of a database
Between(d) == (Chain(d.old) \ Chain(d.new)) \cup (Chain(d.new) \ Chain(d.old))

\* what holds of the coin database, and of the state it may fall back to
Sound(d) ==
  /\ Held(d.best, diskData, diskUndo)
  /\ Held(d.new, diskData, diskUndo) /\ Held(d.old, diskData, diskUndo)
  /\ d.new = NONE => d.old = NONE /\ d.coins = CoinsOf(d.best)
  /\ d.new # NONE => d.best = NONE
  /\ \A o \in Outpoints :
       d.new = NONE \/ Touched(Between(d), o) \/ d.coins[o] = CoinsOf(d.old)[o]

\* the undo data that can be read is that of a block its parent's coins allow
UndoSound ==
  \A b \in Blocks : revFile[b] # NONE =>
    /\ b # Genesis
    /\ \A o \in Creates[b] : CoinsOf(Parent[b])[o] = NONE
    /\ \A o \in Inputs(b) : revFile[b][o] = CoinsOf(Parent[b])[o]

\* undo data that is lost or may be is in a file before the last one of last
Exposed(b, last) ==
  revFile[b] = NONE \/ <<"rev", b>> \in unsynced => nFile[b] < last

\* the index on disk names only blocks the files hold for good, and undo data
\* they hold for good if it is in the last file
FilesSound ==
  /\ \A b \in diskData :
       b \in blkFile /\ <<"blk", b>> \notin unsynced /\ nFile[b] <= diskLast
  /\ \A b \in diskUndo : b \in diskData /\ Exposed(b, diskLast)
  /\ diskData # {} => Genesis \in diskData

\* the index in memory is ahead of it by the dirty entries
IndexSound ==
  /\ status # "down" =>
       /\ diskData \subseteq haveData /\ diskUndo \subseteq haveUndo
       /\ haveData \subseteq diskData \cup dirty
       /\ haveUndo \subseteq diskUndo \cup dirty
       /\ haveData \subseteq blkFile
       /\ \A b \in haveUndo :
            b \in haveData /\ (b \in diskUndo \/ revFile[b] # NONE)
       /\ Genesis \in haveData
  /\ status = "down" => dirty = {}
  /\ status \notin {"down", "running", "files"} => dirty = {}

\* blocks that are not on disk for good are in the last file; once that is
\* committed, only undo data in earlier files is not
LastFileSound ==
  /\ status # "down" =>
       /\ diskLast <= lastFile
       /\ \A b \in haveData :
            /\ nFile[b] <= lastFile
            /\ <<"blk", b>> \in unsynced => nFile[b] = lastFile
  /\ status = "files" =>
       /\ \A b \in haveData : <<"blk", b>> \notin unsynced
       /\ \A b \in haveUndo : <<"rev", b>> \in unsynced => nFile[b] < lastFile

Flushing == {"coins", "batches", "replayed", "rebatches"}

\* what the process knows in each of its phases
MemorySound ==
  /\ status = "failed" => LostUndo # {}
  /\ status \in {"running", "files", "verify"} \cup Flushing =>
       Held(best, haveData, haveUndo) /\ coins = CoinsOf(best)
  /\ status \in {"running", "files", "coins", "verify"} => db.new = NONE
  /\ status \in {"verify"} \cup Flushing => best # NONE
  /\ status \in {"batches", "replayed", "rebatches"} => db.new = best
  /\ status \in {"rollback", "forward"} => db.new # NONE
  /\ status = "rollback" =>
       /\ Chain(cursor) \subseteq Chain(db.old)
       /\ \A o \in Outpoints :
            \/ coins[o] = CoinsOf(cursor)[o]
            \/ Touched(Chain(cursor) \ Chain(db.new), o)
            \/ Touched(Chain(db.new) \ Chain(db.old), o)
  /\ status = "forward" =>
       /\ cursor \in Chain(db.new)
       /\ \A o \in Outpoints :
            \/ coins[o] = CoinsOf(cursor)[o]
            \/ Touched(Chain(db.new) \ Chain(cursor), o)

IInv ==
  /\ TypeOK
  /\ Sound(db) /\ Sound(synced)
  /\ UndoSound /\ FilesSound /\ IndexSound /\ LastFileSound /\ MemorySound

-----------------------------------------------------------------------------
(* Chains and the coins they leave.                                        *)

\* a chain is its parent's chain and one more block
LEMMA ChainGrows ==
  ASSUME NEW b \in Blocks
  PROVE  /\ Parent[b] \in Coins /\ (Parent[b] = NONE <=> b = Genesis)
         /\ Chain(b) = Chain(Parent[b]) \cup {b} /\ b \notin Chain(Parent[b])
         /\ Genesis \in Chain(b)
         /\ Chain(b) \subseteq Blocks
  BY CrashAssumption DEF CrashAssumption, Chain, Coins

LEMMA ChainClosed ==
  ASSUME NEW b \in Coins, NEW a \in Chain(b)
  PROVE  a \in Blocks /\ Chain(a) \subseteq Chain(b)
  BY CrashAssumption DEF CrashAssumption, Chain, Coins

LEMMA ChainNone == Chain(NONE) = {}
  BY DEF Chain

\* a block decides the coins it touches
LEMMA TouchedCoin ==
  ASSUME NEW b \in Blocks, NEW o \in Outpoints, Touches(b, o)
  PROVE  CoinsOf(b)[o] = IF o \in Spends[b] THEN NONE ELSE b
  <1> DEFINE S == Touching(b, o)
  <1>1. b \in S /\ S \subseteq Path[b]
    BY ChainGrows, CrashAssumption, SMT DEF Touching, Chain, CrashAssumption
  <1>2. ASSUME NEW a \in S, S \subseteq Path[a]
        PROVE  a = b
    <2>1. b # Genesis
      BY CrashAssumption DEF CrashAssumption, Touches
    <2>2. a \in Path[Parent[b]] => Path[a] \subseteq Path[Parent[b]]
      BY <2>1, CrashAssumption DEF CrashAssumption
    <2>3. QED
      BY <1>1, <1>2, <2>1, <2>2, CrashAssumption DEF CrashAssumption
  <1>3. Last(S) = b
    BY <1>1, <1>2 DEF Last
  <1>4. QED
    BY <1>1, <1>3 DEF CoinsOf, CoinAt

\* chains that differ only in blocks that do not touch an outpoint agree on it
LEMMA UntouchedCoin ==
  ASSUME NEW a, NEW b, NEW o \in Outpoints,
         ~ Touched(Chain(a) \ Chain(b), o), ~ Touched(Chain(b) \ Chain(a), o)
  PROVE  CoinsOf(a)[o] = CoinsOf(b)[o]
  <1>1. Touching(a, o) = Touching(b, o)
    BY DEF Touching, Touched
  <1>2. QED
    BY <1>1 DEF CoinsOf

LEMMA UntouchedByBlock ==
  ASSUME NEW b \in Blocks, NEW o \in Outpoints, ~ Touches(b, o)
  PROVE  CoinsOf(b)[o] = CoinsOf(Parent[b])[o]
  BY ChainGrows, UntouchedCoin, SMT DEF Touched

LEMMA NoCoinsBefore == CoinsOf(NONE) = NoCoins /\ CoinsOf(Genesis) = NoCoins
  <1>1. \A o \in Outpoints : Touching(NONE, o) = {} /\ Touching(Genesis, o) = {}
    BY CrashAssumption, ChainNone
    DEF CrashAssumption, Touching, Touches, Chain
  <1>2. QED
    BY <1>1 DEF CoinsOf, NoCoins, CoinAt

\* RollforwardBlock and ConnectBlock leave every outpoint of the block exact,
\* and the others as they were
LEMMA AppliedExact ==
  ASSUME NEW b \in Blocks, NEW c \in [Outpoints -> Coins], NEW o \in Outpoints
  PROVE  /\ Applied(c, b)[o] \in Coins
         /\ Touches(b, o) => Applied(c, b)[o] = CoinsOf(b)[o]
         /\ ~ Touches(b, o) => Applied(c, b)[o] = c[o]
  BY TouchedCoin DEF Applied, Touches, Coins

\* and so does DisconnectBlock, with sound undo data, for the parent
LEMMA UndoneExact ==
  ASSUME NEW b \in Blocks, NEW c \in [Outpoints -> Coins], NEW o \in Outpoints,
         revFile \in [Blocks -> [Outpoints -> Coins] \cup {NONE}],
         revFile[b] # NONE, UndoSound
  PROVE  /\ Undone(c, b, revFile[b])[o] \in Coins
         /\ Touches(b, o) => Undone(c, b, revFile[b])[o] = CoinsOf(Parent[b])[o]
         /\ ~ Touches(b, o) => Undone(c, b, revFile[b])[o] = c[o]
  BY DEF Undone, Touches, Coins, UndoSound, Inputs

LEMMA Extensional ==
  ASSUME NEW f \in [Outpoints -> Coins], NEW b,
         \A o \in Outpoints : f[o] = CoinsOf(b)[o]
  PROVE  f = CoinsOf(b)
  BY DEF CoinsOf

-----------------------------------------------------------------------------
(* The invariant is inductive.                                             *)

LEMMA InitInv ==
  ASSUME Init
  PROVE  IInv
  <1>1. TypeOK
    BY CrashAssumption, SMT
    DEF CrashAssumption, Init, TypeOK, Status, Coins, NoCoins, Database
  <1>2. Sound(db) /\ Sound(synced)
    BY ChainNone, NoCoinsBefore DEF Init, Sound, Held
  <1>3. QED
    BY <1>1, <1>2
    DEF Init, IInv, UndoSound, FilesSound, IndexSound, LastFileSound, MemorySound,
        Flushing

\* Sound depends on the database and on an index that only grows
LEMMA SoundKept ==
  ASSUME NEW d, Sound(d),
         diskData \subseteq diskData', diskUndo \subseteq diskUndo'
  PROVE  /\ Held(d.best, diskData', diskUndo')
         /\ Held(d.new, diskData', diskUndo') /\ Held(d.old, diskData', diskUndo')
  BY DEF Sound, Held

LEMMA SoundNext ==
  ASSUME Sound(db), Sound(synced), UNCHANGED <<db, synced>>,
         diskData \subseteq diskData', diskUndo \subseteq diskUndo'
  PROVE  Sound(db)' /\ Sound(synced)'
  BY SoundKept DEF Sound

LEMMA AcceptBlockInv ==
  ASSUME IInv, NEW b \in Blocks, AcceptBlock(b)
  PROVE  IInv'
  <1> USE DEF IInv, AcceptBlock, index
  <1>1. /\ lastFile' \in {lastFile, lastFile + 1}
        /\ nFile' = [nFile EXCEPT ![b] = lastFile']
        /\ unsynced' \subseteq unsynced \cup {<<"blk", b>>}
        /\ lastFile' # lastFile => unsynced' = Committed(lastFile) \cup {<<"blk", b>>}
    BY SMT DEF FindBlockPos, Committed, TypeOK
  <1>2. TypeOK'
    BY <1>1, SMT DEF TypeOK
  <1>3. Sound(db)' /\ Sound(synced)'
    BY SoundNext
  <1>4. UndoSound'
    BY DEF UndoSound
  <1>5. b \notin diskData /\ b \notin diskUndo /\ b \notin haveUndo
    BY DEF IndexSound
  <1>6. FilesSound'
    <2>1. \A a \in diskData \cup diskUndo : nFile'[a] = nFile[a]
      BY <1>1, <1>5, SMT DEF TypeOK
    <2>2. \A a \in diskUndo : <<"rev", a>> \in unsynced' => <<"rev", a>> \in unsynced
      BY <1>1, SMT
    <2>3. \A a \in diskUndo : Exposed(a, diskLast)'
      BY <2>1, <2>2 DEF FilesSound, Exposed
    <2>4. \A a : <<"blk", a>> \in unsynced' => <<"blk", a>> \in unsynced \/ a = b
      BY <1>1, SMT
    <2>5. QED
      BY <1>5, <2>1, <2>3, <2>4 DEF FilesSound
  <1>7. IndexSound'
    BY DEF IndexSound
  <1>8. LastFileSound'
    <2>1. lastFile \in Nat /\ lastFile' \in Nat /\ diskLast <= lastFile
      BY <1>1, SMT DEF LastFileSound, TypeOK
    <2>2. diskLast' <= lastFile'
      BY <1>1, <2>1, SMT DEF TypeOK
    <2>3. ASSUME NEW a \in haveData'
          PROVE  /\ nFile'[a] <= lastFile'
                 /\ <<"blk", a>> \in unsynced' => nFile'[a] = lastFile'
      <3>1. CASE a = b
        BY <1>1, <2>1, <3>1, SMT DEF TypeOK
      <3>2. CASE a # b
        <4>1. a \in haveData /\ a \in Blocks /\ nFile'[a] = nFile[a] /\ nFile[a] \in Nat
          BY <1>1, <2>3, <3>2, SMT DEF TypeOK
        <4>2. /\ nFile[a] <= lastFile
              /\ <<"blk", a>> \in unsynced => nFile[a] = lastFile
          BY <4>1 DEF LastFileSound
        <4>3. nFile'[a] <= lastFile'
          BY <1>1, <2>1, <4>1, <4>2, SMT
        <4>4. <<"blk", a>> \in unsynced' => <<"blk", a>> \in unsynced
          BY <1>1, <3>2, SMT
        <4>5. lastFile' # lastFile => <<"blk", a>> \notin unsynced'
          BY <1>1, <3>2, <4>2, SMT DEF Committed
        <4>6. QED
          BY <4>1, <4>2, <4>3, <4>4, <4>5
      <3>3. QED
        BY <3>1, <3>2
    <2>4. QED
      BY <2>2, <2>3 DEF LastFileSound
  <1>9. MemorySound'
    BY DEF MemorySound, Held, Flushing
  <1>10. QED
    BY <1>2, <1>3, <1>4, <1>6, <1>7, <1>8, <1>9

LEMMA ConnectTipInv ==
  ASSUME IInv, NEW b \in Blocks, ConnectTip(b)
  PROVE  IInv'
  <1> USE DEF IInv, ConnectTip, index
  <1>1. coins' \in [Outpoints -> Coins] /\ coins' = CoinsOf(b)
    <2>1. coins \in [Outpoints -> Coins] /\ coins = CoinsOf(Parent[b])
      BY DEF TypeOK, MemorySound
    <2>2. coins' \in [Outpoints -> Coins]
      BY <2>1, AppliedExact DEF Applied
    <2>3. \A o \in Outpoints : coins'[o] = CoinsOf(b)[o]
      BY <2>1, AppliedExact, UntouchedByBlock, ZenonT(30)
    <2>4. QED
      BY <2>2, <2>3, Extensional
  <1>2. TypeOK'
    BY <1>1, SMT DEF TypeOK, Coins
  <1>3. Sound(db)' /\ Sound(synced)'
    BY SoundNext
  <1>4. UndoSound'
    <2>1. coins = CoinsOf(Parent[b]) /\ revFile \in [Blocks -> [Outpoints -> Coins] \cup {NONE}]
      BY DEF TypeOK, MemorySound
    <2>2. \A o \in Creates[b] : CoinsOf(Parent[b])[o] = NONE
      BY <2>1 DEF Connectable
    <2>3. QED
      BY <2>1, <2>2, SMT DEF UndoSound
  <1>5. FilesSound'
    BY <1>1, SMT DEF FilesSound, IndexSound, TypeOK, Exposed
  <1>6. IndexSound'
    <2>1. coins # NONE
      BY CrashAssumption DEF CrashAssumption, TypeOK
    <2>2. QED
      BY <2>1 DEF IndexSound, TypeOK
  <1>7. LastFileSound'
    <2>1. \A a : <<"blk", a>> \in unsynced' => <<"blk", a>> \in unsynced
      BY SMT
    <2>2. QED
      BY <2>1 DEF LastFileSound
  <1>8. MemorySound'
    <2>1. Held(b, haveData', haveUndo')
      BY ChainGrows, SMT DEF MemorySound, Held
    <2>2. QED
      BY <1>1, <2>1 DEF MemorySound, Flushing
  <1>9. QED
    BY <1>2, <1>3, <1>4, <1>5, <1>6, <1>7, <1>8

LEMMA DisconnectTipInv ==
  ASSUME IInv, DisconnectTip
  PROVE  IInv'
  <1> USE DEF IInv, DisconnectTip, blockIndex, index, files
  <1>1. best \in Blocks /\ coins = CoinsOf(best) /\ revFile[best] # NONE
    BY DEF TypeOK, MemorySound, Coins, UndoesCleanly, ReadableUndo
  <1>2. coins' \in [Outpoints -> Coins] /\ coins' = CoinsOf(Parent[best])
    <2>1. coins' \in [Outpoints -> Coins]
      BY <1>1, UndoneExact DEF Undone, TypeOK
    <2>2. \A o \in Outpoints : coins'[o] = CoinsOf(Parent[best])[o]
      BY <1>1, UndoneExact, UntouchedByBlock, ZenonT(30) DEF TypeOK
    <2>3. QED
      BY <2>1, <2>2, Extensional
  <1>3. TypeOK'
    BY <1>1, <1>2, ChainGrows DEF TypeOK
  <1>4. Sound(db)' /\ Sound(synced)'
    BY SoundNext
  <1>5. UndoSound' /\ FilesSound' /\ IndexSound' /\ LastFileSound'
    BY DEF UndoSound, FilesSound, Exposed, IndexSound, LastFileSound
  <1>6. MemorySound'
    <2>1. Held(Parent[best], haveData', haveUndo')
      BY <1>1, ChainGrows DEF MemorySound, Held
    <2>2. QED
      BY <1>2, <2>1 DEF MemorySound, Flushing
  <1>7. QED
    BY <1>3, <1>4, <1>5, <1>6

LEMMA FlushBlockFileInv ==
  ASSUME IInv, FlushBlockFile
  PROVE  IInv'
  <1> USE DEF IInv, FlushBlockFile, memory, blockIndex, index
  <1>1. unsynced' \subseteq unsynced
    BY DEF Committed
  <1>2. TypeOK'
    BY <1>1 DEF TypeOK, Status
  <1>3. Sound(db)' /\ Sound(synced)'
    BY SoundNext
  <1>4. UndoSound' /\ FilesSound' /\ IndexSound'
    BY <1>1 DEF UndoSound, FilesSound, Exposed, IndexSound
  <1>5. LastFileSound'
    <2>1. ASSUME NEW b \in haveData
          PROVE  <<"blk", b>> \notin unsynced'
      <3>1. <<"blk", b>> \in unsynced' =>
              <<"blk", b>> \in unsynced /\ nFile[b] # lastFile
        BY SMT DEF Committed
      <3>2. QED
        BY <3>1 DEF LastFileSound
    <2>2. ASSUME NEW b \in haveUndo, <<"rev", b>> \in unsynced'
          PROVE  nFile[b] < lastFile
      <3>1. nFile[b] # lastFile
        BY <2>2, SMT DEF Committed
      <3>2. nFile[b] <= lastFile /\ nFile[b] \in Nat /\ lastFile \in Nat
        BY DEF LastFileSound, IndexSound, TypeOK
      <3>3. QED
        BY <3>1, <3>2, SMT
    <2>3. QED
      BY <1>1, <2>1, <2>2 DEF LastFileSound
  <1>6. MemorySound'
    BY DEF MemorySound, Held, Flushing
  <1>7. QED
    BY <1>2, <1>3, <1>4, <1>5, <1>6

LEMMA WriteBatchSyncInv ==
  ASSUME IInv, WriteBatchSync
  PROVE  IInv'
  <1> USE DEF IInv, WriteBatchSync, files
  <1>1. status' = "running" \/ (status' = "coins" /\ best # NONE)
    OBVIOUS
  <1>2. TypeOK'
    BY <1>1 DEF TypeOK, Status
  <1>3. Sound(db)' /\ Sound(synced)'
    BY SoundNext
  <1>4. UndoSound'
    BY DEF UndoSound
  <1>5. FilesSound'
    <2>1. ASSUME NEW b \in diskUndo'
          PROVE  b \in diskData' /\ Exposed(b, diskLast)'
      <3>1. b \in diskData'
        BY <2>1 DEF FilesSound, IndexSound
      <3>2. nFile[b] \in Nat /\ diskLast \in Nat /\ lastFile \in Nat
            /\ diskLast <= lastFile
        BY <2>1 DEF TypeOK, LastFileSound
      <3>3. CASE b \in diskUndo
        BY <3>2, <3>3, SMT DEF FilesSound, Exposed
      <3>4. CASE b \notin diskUndo
        BY <2>1, <3>4 DEF IndexSound, LastFileSound, Exposed
      <3>5. QED
        BY <3>1, <3>3, <3>4
    <2>2. ASSUME NEW b \in diskData'
          PROVE  nFile[b] <= lastFile
      BY <2>2 DEF IndexSound, LastFileSound
    <2>3. QED
      BY <2>1, <2>2 DEF FilesSound, IndexSound, LastFileSound
  <1>6. IndexSound'
    BY <1>1 DEF IndexSound
  <1>7. LastFileSound'
    BY <1>1, SMT DEF LastFileSound, TypeOK
  <1>8. MemorySound'
    BY <1>1 DEF MemorySound, Held, Flushing
  <1>9. QED
    BY <1>2, <1>3, <1>4, <1>5, <1>6, <1>7, <1>8

\* in a flush of the coins, the block being flushed is in the index on disk
LEMMA FlushedBlockHeld ==
  ASSUME IInv, status \in Flushing
  PROVE  /\ Held(best, diskData, diskUndo)
         /\ best \in Blocks /\ coins = CoinsOf(best)
         /\ db.new \in {NONE, best}
  BY DEF IInv, TypeOK, Coins, IndexSound, MemorySound, Held, Flushing

LEMMA WriteBatchInv ==
  ASSUME IInv, NEW s \in SUBSET Outpoints, WriteBatch(s)
  PROVE  IInv'
  <1> USE DEF IInv, WriteBatch, memory, blockIndex, files, index
  <1> DEFINE tip == IF db.new = NONE THEN db.best ELSE db.old
  <1>1. status \in Flushing /\ status' \in {"batches", "rebatches"}
    BY DEF Flushing
  <1>2. db.new = NONE \/ (db.new = best /\ best # NONE)
    BY <1>1, FlushedBlockHeld
  <1>3. db'.old = tip /\ db'.new = best /\ db'.best = NONE
    BY <1>1, <1>2 DEF OldTip, Sound, MemorySound, Flushing
  <1>4. db' \in Database
    BY <1>3 DEF TypeOK, Database, Coins
  <1>5. TypeOK'
    BY <1>1, <1>4 DEF TypeOK, Status
  <1>6. Sound(db)'
    <2>1. Held(tip, diskData, diskUndo) /\ Held(NONE, diskData, diskUndo)
      BY ChainNone DEF Sound, Held
    <2>2. ASSUME NEW o \in Outpoints, ~ Touched(Between(db'), o)
          PROVE  db'.coins[o] = CoinsOf(tip)[o]
      <3>1. CoinsOf(tip)[o] = CoinsOf(best)[o]
        BY <1>3, <2>2, UntouchedCoin, SMT DEF Between, Touched
      <3>2. db.coins[o] = CoinsOf(tip)[o]
        BY <1>2, <1>3, <2>2 DEF Sound, Between
      <3>3. QED
        BY <1>1, <3>1, <3>2, FlushedBlockHeld
    <2>3. best # NONE /\ Held(best, diskData, diskUndo)
      BY <1>1, FlushedBlockHeld, CrashAssumption DEF CrashAssumption
    <2>4. QED
      BY <1>3, <2>1, <2>2, <2>3, ZenonT(30) DEF Sound, Held, Between
  <1>7. Sound(synced)'
    BY DEF Sound
  <1>8. UndoSound' /\ FilesSound'
    BY DEF UndoSound, FilesSound, Exposed
  <1>9. IndexSound' /\ LastFileSound'
    BY <1>1 DEF IndexSound, LastFileSound, Flushing
  <1>10. MemorySound'
    BY <1>1, <1>3, FlushedBlockHeld DEF MemorySound, Flushing, Held
  <1>11. QED
    BY <1>5, <1>6, <1>7, <1>8, <1>9, <1>10

LEMMA WriteLastBatchInv ==
  ASSUME IInv, WriteLastBatch
  PROVE  IInv'
  <1> USE DEF IInv, WriteLastBatch, memory, blockIndex, files, index
  <1>1. status \in Flushing /\ status' \in {"running", "verify"}
    BY DEF Flushing
  <1>2. TypeOK'
    BY <1>1 DEF TypeOK, Status, Database, Coins
  <1>3. Sound(db)' /\ Sound(synced)'
    BY <1>1, FlushedBlockHeld, ChainNone DEF Sound, Held
  <1>4. UndoSound' /\ FilesSound'
    BY DEF UndoSound, FilesSound, Exposed
  <1>5. IndexSound' /\ LastFileSound'
    BY <1>1 DEF IndexSound, LastFileSound, Flushing
  <1>6. MemorySound'
    BY <1>1 DEF MemorySound, Flushing, Held
  <1>7. QED
    BY <1>2, <1>3, <1>4, <1>5, <1>6

LEMMA SyncDatabaseInv ==
  ASSUME IInv, SyncDatabase
  PROVE  IInv'
  <1> USE DEF IInv, SyncDatabase, memory, blockIndex, files, index
  <1>1. TypeOK'
    BY DEF TypeOK
  <1>2. Sound(db)' /\ Sound(synced)'
    BY DEF Sound
  <1>3. UndoSound' /\ FilesSound' /\ IndexSound' /\ LastFileSound'
    BY DEF UndoSound, FilesSound, Exposed, IndexSound, LastFileSound
  <1>4. MemorySound'
    BY DEF MemorySound, Held, Flushing, LostUndo
  <1>5. QED
    BY <1>1, <1>2, <1>3, <1>4

LEMMA CrashInv ==
  ASSUME IInv, Kill \/ PowerFailure
  PROVE  IInv'
  <1> USE DEF IInv, MayCrash, Forget, index
  <1>1. PICK lost \in SUBSET unsynced : Keep(Named \ lost)
    <2>1. CASE Kill
      <3>1. Named \ {} = Named
        OBVIOUS
      <3>2. Keep(Named \ {})
        BY <2>1, <3>1 DEF Kill
      <3>3. QED
        BY <3>2
    <2>2. CASE PowerFailure
      BY <2>2 DEF PowerFailure
    <2>3. QED
      BY <2>1, <2>2
  <1>2. /\ unsynced' \subseteq unsynced /\ db' \in {db, synced}
        /\ UNCHANGED <<index, synced>>
    BY DEF Kill, PowerFailure
  <1>3. TypeOK'
    <2>1. blkFile' \subseteq Blocks
          /\ revFile' \in [Blocks -> [Outpoints -> Coins] \cup {NONE}]
      BY <1>1 DEF TypeOK, Keep
    <2>2. crashes' \in 0 .. MaxCrashes
      BY CrashAssumption, SMT DEF CrashAssumption, Kill, PowerFailure, TypeOK
    <2>3. coins' \in [Outpoints -> Coins] /\ best' \in Coins /\ cursor' \in Coins
          /\ status' \in Status /\ haveData' = {} /\ haveUndo' = {} /\ dirty' = {}
      BY DEF Kill, PowerFailure, NoCoins, Coins, Status
    <2>4. nFile' \in [Blocks -> Nat] /\ lastFile' \in Nat
      BY SMT DEF Kill, PowerFailure, TypeOK
    <2>5. QED
      BY <1>2, <2>1, <2>2, <2>3, <2>4 DEF TypeOK
  <1>4. Sound(db)' /\ Sound(synced)'
    BY <1>2 DEF Sound
  <1>5. UndoSound'
    BY <1>1 DEF UndoSound, Keep
  <1>6. FilesSound'
    <2>1. ASSUME NEW b \in diskData
          PROVE  b \in blkFile' /\ <<"blk", b>> \notin unsynced' /\ nFile'[b] <= diskLast
      <3>1. b \in blkFile /\ <<"blk", b>> \notin unsynced /\ nFile[b] <= diskLast
        BY DEF FilesSound
      <3>2. <<"blk", b>> \in Named
        BY SMT DEF Named
      <3>3. nFile'[b] = nFile[b]
        BY DEF Kill, PowerFailure, TypeOK
      <3>4. QED
        BY <1>1, <1>2, <3>1, <3>2, <3>3 DEF Keep
    <2>2. ASSUME NEW b \in diskUndo
          PROVE  Exposed(b, diskLast)'
      <3>1. b \in Blocks /\ b \in diskData /\ Exposed(b, diskLast)
        BY DEF FilesSound, TypeOK
      <3>2. <<"rev", b>> \in Named
        BY SMT DEF Named
      <3>3. revFile'[b] = NONE => revFile[b] = NONE \/ <<"rev", b>> \in unsynced
        BY <1>1, <3>1, <3>2 DEF Keep
      <3>4. nFile'[b] = nFile[b] /\ diskLast' = diskLast
        BY <1>2, <3>1 DEF Kill, PowerFailure
      <3>5. QED
        BY <1>2, <3>1, <3>3, <3>4 DEF Exposed
    <2>3. QED
      BY <1>2, <2>1, <2>2 DEF FilesSound
  <1>7. IndexSound' /\ LastFileSound' /\ MemorySound'
    BY DEF IndexSound, LastFileSound, MemorySound, Flushing, Kill, PowerFailure
  <1>8. QED
    BY <1>3, <1>4, <1>5, <1>6, <1>7

-----------------------------------------------------------------------------
(* A restart.                                                              *)

\* a start finds what it looks for
LEMMA StartFinds ==
  ASSUME IInv, Start
  PROVE  /\ diskData = {} \/ Genesis \in diskData
         /\ {db.best, db.new, db.old} \subseteq haveData' \cup {NONE}
         /\ db.new # NONE \/ db.best # NONE => dirty' = {}
  <1>1. {db.best, db.new, db.old} \subseteq Coins
    BY DEF IInv, TypeOK, Database
  <1>2. \A b \in {db.best, db.new, db.old} : b = NONE \/ b \in diskData
    <2>1. ASSUME NEW b \in Blocks
          PROVE  b \in Chain(b)
      BY ChainGrows, SMT
    <2>2. \A b \in {db.best, db.new, db.old} : Chain(b) \subseteq diskData
      BY DEF IInv, Sound, Held
    <2>3. QED
      BY <1>1, <2>1, <2>2 DEF Coins
  <1>3. QED
    BY <1>2 DEF IInv, FilesSound, IndexSound, Start

LEMMA StartInv ==
  ASSUME IInv, Start
  PROVE  IInv'
  <1> USE DEF Start, index
  <1>1. /\ coins' = db.coins /\ UNCHANGED <<revFile, index, db, synced, crashes>>
        /\ \/ /\ db.new = NONE
              /\ status' = IF db.best = NONE THEN "running" ELSE "verify"
              /\ best' = db.best /\ UNCHANGED cursor
           \/ /\ db.new # NONE /\ status' = "rollback"
              /\ cursor' = db.old /\ UNCHANGED best
    BY StartFinds
  <1> USE DEF IInv
  <1>2. TypeOK'
    BY <1>1, CrashAssumption, SMT DEF CrashAssumption, TypeOK, Status, Database
  <1>3. Sound(db)' /\ Sound(synced)'
    BY SoundNext
  <1>4. UndoSound'
    BY <1>1 DEF UndoSound
  <1>5. IndexSound' /\ FilesSound' /\ LastFileSound'
    <2>1. /\ status' \in {"running", "verify", "rollback"}
          /\ status' = "running" \/ dirty' = {}
      BY <1>1, StartFinds
    <2>2. diskLast <= diskLast
      BY SMT DEF TypeOK
    <2>3. CASE diskData = {}
      <3>1. diskUndo = {} /\ haveUndo' = {} /\ haveData' = {Genesis}
            /\ blkFile' = blkFile \cup {Genesis} /\ dirty' = {Genesis}
        BY <2>3 DEF FilesSound
      <3>2. nFile'[Genesis] = diskLast
        <4>1. nFile' = [nFile EXCEPT ![Genesis] = diskLast]
          BY <2>3
        <4>2. Genesis \in Blocks /\ nFile \in [Blocks -> Nat]
          BY CrashAssumption DEF TypeOK, CrashAssumption
        <4>3. QED
          BY <4>1, <4>2, SMT
      <3>3. IndexSound'
        BY <1>1, <2>1, <2>3, <3>1 DEF IndexSound
      <3>4. FilesSound' /\ LastFileSound'
        BY <1>1, <2>1, <2>2, <2>3, <3>1, <3>2 DEF FilesSound, LastFileSound
      <3>5. QED
        BY <3>3, <3>4
    <2>4. CASE diskData # {}
      <3>1. haveData' = diskData /\ UNCHANGED <<dirty, nFile, blkFile, unsynced>>
        BY <2>4
      <3>2. \A b \in diskUndo : b \in diskData
        BY DEF FilesSound
      <3>3. IndexSound'
        BY <1>1, <2>1, <2>4, <3>1, <3>2 DEF IndexSound, FilesSound
      <3>4. FilesSound' /\ LastFileSound'
        BY <1>1, <2>1, <2>2, <3>1 DEF FilesSound, LastFileSound, Exposed
      <3>5. QED
        BY <3>3, <3>4
    <2>5. QED
      BY <2>3, <2>4
  <1>6. MemorySound'
    <2>1. CASE db.new = NONE
      <3>1. Held(db.best, haveData', haveUndo')
        BY DEF Sound, Held
      <3>2. QED
        BY <1>1, <2>1, <3>1 DEF MemorySound, Flushing, Sound
    <2>2. CASE db.new # NONE
      <3>1. \A o \in Outpoints :
              \/ db.coins[o] = CoinsOf(db.old)[o]
              \/ Touched(Chain(db.old) \ Chain(db.new), o)
              \/ Touched(Chain(db.new) \ Chain(db.old), o)
        BY <2>2 DEF Sound, Touched, Between
      <3>2. QED
        BY <1>1, <2>2, <3>1 DEF MemorySound, Flushing
    <2>3. QED
      BY <2>1, <2>2
  <1>7. QED
    BY <1>2, <1>3, <1>4, <1>5, <1>6

\* what the two loops of ReplayBlocks and VerifyDB share
LEMMA ReplayStepInv ==
  ASSUME IInv, status \in {"rollback", "forward", "verify"},
         \/ status' \in {"rollback", "forward", "replayed", "failed"}
         \/ status = "verify" /\ status' = "running",
         coins' \in [Outpoints -> Coins], cursor' \in Coins, best' \in Coins,
         UNCHANGED <<blockIndex, files, index, db, synced, crashes>>,
         MemorySound'
  PROVE  IInv'
  <1> USE DEF IInv, blockIndex, files, index
  <1>1. TypeOK'
    BY DEF TypeOK, Status
  <1>2. Sound(db)' /\ Sound(synced)'
    BY SoundNext
  <1>3. UndoSound' /\ FilesSound' /\ IndexSound' /\ LastFileSound'
    BY DEF UndoSound, FilesSound, Exposed, IndexSound, LastFileSound
  <1>4. QED
    BY <1>1, <1>2, <1>3

\* a start that gives up keeps its reason
LEMMA FailInv ==
  ASSUME IInv, status \in {"rollback", "forward", "verify"}, Fail, LostUndo # {},
         UNCHANGED <<blockIndex, files, index, db, synced, crashes>>
  PROVE  IInv'
  <1>1. MemorySound'
    BY DEF Fail, MemorySound, Flushing, LostUndo, files, index
  <1>2. QED
    BY <1>1, ReplayStepInv DEF Fail, IInv, TypeOK

\* a block of a chain that is held can be read, and if its undo data cannot,
\* that was lost
LEMMA HeldReadable ==
  ASSUME IInv, status # "down", NEW b, NEW a \in Chain(b) \ {Genesis},
         Held(b, haveData, haveUndo)
  PROVE  ReadableBlock(a) /\ (ReadableUndo(a) \/ LostUndo # {})
  BY DEF IInv, IndexSound, Held, ReadableBlock, ReadableUndo, LostUndo

LEMMA VerifyDBInv ==
  ASSUME IInv, VerifyDB
  PROVE  IInv'
  <1>1. /\ status = "verify" /\ Held(best, haveData, haveUndo)
        /\ UNCHANGED <<blockIndex, files, index, db, synced, crashes>>
    BY DEF VerifyDB, IInv, MemorySound
  <1>2. CASE status' = "running" /\ UNCHANGED <<coins, best, cursor>>
    <2>1. MemorySound'
      BY <1>1, <1>2 DEF IInv, MemorySound, Flushing, Held, blockIndex
    <2>2. QED
      BY <1>1, <1>2, <2>1, ReplayStepInv DEF IInv, TypeOK
  <1>3. ASSUME NEW a \in Chain(best) \ {Genesis}, NEW b \in Chain(best) \ Chain(Parent[a]),
               ~ (ReadableBlock(b) /\ ReadableUndo(b)), Fail
        PROVE  IInv'
    <2>1. b # Genesis
      <3>1. a \in Blocks /\ a # Genesis
        BY <1>3, ChainClosed DEF IInv, TypeOK
      <3>2. Genesis \in Chain(Parent[a])
        BY <3>1, ChainGrows DEF Coins
      <3>3. QED
        BY <1>3, <3>2
    <2>2. LostUndo # {}
      BY <1>1, <1>3, <2>1, HeldReadable
    <2>3. QED
      BY <1>1, <1>3, <2>2, FailInv
  <1>4. QED
    BY <1>2, <1>3 DEF VerifyDB

LEMMA RollbackInv ==
  ASSUME IInv, Rollback
  PROVE  IInv'
  <1> USE DEF Rollback
  <1> DEFINE new == db.new  old == db.old
  <1>1. /\ cursor \in Coins /\ old \in Coins /\ new \in Blocks
        /\ coins \in [Outpoints -> Coins]
        /\ Chain(cursor) \subseteq Chain(old)
        /\ \A o \in Outpoints : \/ coins[o] = CoinsOf(cursor)[o]
                                \/ Touched(Chain(cursor) \ Chain(new), o)
                                \/ Touched(Chain(new) \ Chain(old), o)
    BY DEF IInv, TypeOK, MemorySound, Database, Coins
  <1>2. CASE cursor \notin OldBranch
    <2>1. cursor' \in Chain(new) /\ cursor' \in Coins
      <3>1. Genesis \in Chain(new) /\ Genesis \in Coins
        BY <1>1, ChainGrows, CrashAssumption DEF CrashAssumption, Coins
      <3>2. CASE cursor = NONE
        BY <3>1, <3>2, <1>2
      <3>3. CASE cursor # NONE
        <4>1. cursor \in Chain(cursor)
          BY <1>1, <3>3, ChainGrows, SMT DEF Coins
        <4>2. cursor \in Chain(new)
          BY <4>1, <1>1, <1>2 DEF OldBranch
        <4>3. cursor' = cursor
          BY <1>2, <3>3
        <4> QED BY <4>2, <4>3, <1>1
      <3> QED BY <3>2, <3>3
    <2>2. CoinsOf(cursor') = CoinsOf(cursor)
      BY <1>2, NoCoinsBefore
    <2>3. ASSUME NEW o \in Outpoints
          PROVE  \/ coins[o] = CoinsOf(cursor')[o]
                 \/ Touched(Chain(new) \ Chain(cursor'), o)
      <3>1. CASE cursor = NONE
        <4>1. ~ Touches(Genesis, o) /\ Chain(Genesis) = {Genesis}
          BY CrashAssumption DEF CrashAssumption, Touches, Chain
        <4>2. QED
          BY <1>1, <1>2, <2>2, <3>1, <4>1, ChainNone DEF Touched
      <3>2. CASE cursor # NONE
        <4>1. cursor \in Chain(new) /\ Chain(cursor) \subseteq Chain(new)
          BY <1>1, <1>2, <2>1, <3>2, ChainClosed DEF Coins
        <4>2. QED
          BY <1>1, <1>2, <2>2, <3>2, <4>1 DEF Touched
      <3>3. QED
        BY <3>1, <3>2
    <2>4. MemorySound'
      BY <1>2, <2>1, <2>3 DEF IInv, MemorySound, Flushing
    <2>5. QED
      BY <1>1, <1>2, <2>1, <2>4, ReplayStepInv DEF IInv, TypeOK
  <1>3. cursor \in OldBranch => cursor \in Blocks /\ cursor \in Chain(old)
                                /\ cursor # Genesis
    <2>1. cursor \in OldBranch => cursor \in Blocks /\ cursor \in Chain(old)
      BY <1>1, ChainClosed DEF OldBranch
    <2>2. Genesis \notin OldBranch
      BY <1>1, ChainGrows, SMT DEF OldBranch
    <2>3. QED
      BY <2>1, <2>2
  <1>4. CASE cursor \in OldBranch /\ ~ (ReadableBlock(cursor) /\ ReadableUndo(cursor))
    <2>1. status = "rollback" /\ Held(old, haveData, haveUndo)
      BY DEF IInv, Sound, Held, IndexSound
    <2>2. LostUndo # {}
      BY <1>3, <1>4, <2>1, HeldReadable
    <2>3. QED
      BY <1>4, <2>1, <2>2, FailInv
  <1>5. CASE cursor \in OldBranch /\ ReadableBlock(cursor) /\ ReadableUndo(cursor)
    <2>1. cursor \in Blocks /\ cursor \in Chain(old)
      BY <1>3, <1>5
    <2>3. revFile[cursor] # NONE
      BY <1>5 DEF ReadableUndo
    <2>4. /\ coins' = Undone(coins, cursor, revFile[cursor])
          /\ cursor' = Parent[cursor] /\ UNCHANGED <<status, best>>
      BY <1>5
    <2>5. coins' \in [Outpoints -> Coins] /\ cursor' \in Coins
      BY <1>1, <2>1, <2>3, <2>4, UndoneExact, ChainGrows
      DEF IInv, TypeOK, Undone
    <2>6. ASSUME NEW o \in Outpoints
          PROVE  \/ coins'[o] = CoinsOf(cursor')[o]
                 \/ Touched(Chain(cursor') \ Chain(new), o)
                 \/ Touched(Chain(new) \ Chain(old), o)
      <3>1. Touches(cursor, o) => coins'[o] = CoinsOf(cursor')[o]
        BY <1>1, <2>1, <2>3, <2>4, UndoneExact DEF IInv, TypeOK
      <3>2. ~ Touches(cursor, o) =>
              coins'[o] = coins[o] /\ CoinsOf(cursor')[o] = CoinsOf(cursor)[o]
        BY <1>1, <2>1, <2>3, <2>4, UndoneExact, UntouchedByBlock
        DEF IInv, TypeOK
      <3>3. Chain(cursor) = Chain(cursor') \cup {cursor}
        BY <2>1, <2>4, ChainGrows
      <3>4. QED
        BY <1>1, <3>1, <3>2, <3>3 DEF Touched
    <2>7. MemorySound'
      <3>1. Chain(cursor') \subseteq Chain(old)
        BY <1>1, <2>1, <2>4, ChainGrows, SMT
      <3>2. QED
        BY <2>4, <2>6, <3>1 DEF IInv, MemorySound, Flushing
    <2>8. QED
      BY <1>1, <2>4, <2>5, <2>7, ReplayStepInv DEF IInv, TypeOK
  <1>6. QED
    BY <1>2, <1>4, <1>5

LEMMA RollforwardInv ==
  ASSUME IInv, Rollforward
  PROVE  IInv'
  <1> USE DEF Rollforward
  <1> DEFINE new == db.new
  <1>1. /\ cursor \in Chain(new) /\ cursor \in Coins /\ new \in Coins
        /\ coins \in [Outpoints -> Coins]
        /\ \A o \in Outpoints : \/ coins[o] = CoinsOf(cursor)[o]
                                \/ Touched(Chain(new) \ Chain(cursor), o)
    BY DEF IInv, TypeOK, MemorySound, Database
  <1>2. ASSUME NEW b \in Blocks, IsNext(b),
               IF ~ ReadableBlock(b)
               THEN Fail
               ELSE coins' = Applied(coins, b) /\ cursor' = b
                    /\ UNCHANGED <<status, best>>
        PROVE  IInv'
    <2>1. ReadableBlock(b)
      BY <1>2 DEF IInv, IsNext, ReadableBlock, IndexSound, FilesSound, Sound, Held
    <2>2. coins' \in [Outpoints -> Coins]
      BY <1>1, <1>2, <2>1, AppliedExact DEF Applied
    <2>3. ASSUME NEW o \in Outpoints
          PROVE  \/ coins'[o] = CoinsOf(b)[o]
                 \/ Touched(Chain(new) \ Chain(b), o)
      <3>1. Touches(b, o) => coins'[o] = CoinsOf(b)[o]
        BY <1>1, <1>2, <2>1, AppliedExact, ZenonT(30)
      <3>2. ~ Touches(b, o) =>
              coins'[o] = coins[o] /\ CoinsOf(b)[o] = CoinsOf(cursor)[o]
        BY <1>1, <1>2, <2>1, AppliedExact, UntouchedByBlock, SMT DEF IsNext
      <3>3. Chain(b) = Chain(cursor) \cup {b}
        BY <1>2, ChainGrows DEF IsNext
      <3>4. QED
        BY <1>1, <3>1, <3>2, <3>3 DEF Touched
    <2>4. MemorySound'
      BY <1>2, <2>1, <2>3 DEF IInv, MemorySound, Flushing, IsNext
    <2>5. QED
      BY <1>2, <2>1, <2>2, <2>4, ReplayStepInv DEF IInv, TypeOK, Coins
  <1>3. CASE /\ cursor = new /\ status' = "replayed" /\ best' = new
             /\ UNCHANGED <<coins, cursor>>
    <2>1. coins = CoinsOf(new)
      BY <1>1, <1>3, Extensional DEF Touched
    <2>2. new # NONE /\ Held(new, haveData, haveUndo)
      BY DEF IInv, MemorySound, IndexSound, Sound, Held
    <2>3. MemorySound'
      BY <1>3, <2>1, <2>2 DEF IInv, MemorySound, Flushing, Held, blockIndex
    <2>4. QED
      BY <1>1, <1>3, <2>3, ReplayStepInv
  <1>4. QED
    BY <1>2, <1>3

LEMMA NextInv ==
  ASSUME IInv, [Next]_vars
  PROVE  IInv'
  <1>1. CASE UNCHANGED vars
    <2> USE <1>1 DEF vars, memory, blockIndex, files, index, IInv
    <2>1. TypeOK' /\ UndoSound' /\ FilesSound' /\ IndexSound' /\ LastFileSound'
      BY DEF TypeOK, UndoSound, FilesSound, Exposed, IndexSound, LastFileSound
    <2>2. Sound(db)' /\ Sound(synced)'
      BY SoundNext
    <2>3. MemorySound'
      BY DEF MemorySound, LostUndo
    <2>4. QED
      BY <2>1, <2>2, <2>3
  <1>2. CASE Next
    BY <1>2, AcceptBlockInv, ConnectTipInv, DisconnectTipInv, FlushBlockFileInv,
       WriteBatchSyncInv, WriteBatchInv, WriteLastBatchInv, SyncDatabaseInv,
       CrashInv, StartInv, RollbackInv, RollforwardInv, VerifyDBInv
    DEF Next, Write, Startup
  <1>3. QED
    BY <1>1, <1>2

LEMMA AlwaysInv == Spec => []IInv
  BY InitInv, NextInv, PTL DEF Spec

-----------------------------------------------------------------------------

\* the variables keep their types
THEOREM TypeCorrect == Spec => []TypeOK
  <1>1. IInv => TypeOK
    BY DEF IInv
  <1>2. QED
    BY <1>1, AlwaysInv, PTL

\* FlushStateToDisk, BatchWrite, ReplayBlocks: whatever was interrupted and how
\* often, a running node has exactly the coins of its tip, and so has a database
\* that is not marked as in transition
THEOREM CoinsAlwaysExact == Spec => []CoinsExact
  <1>1. IInv => CoinsExact
    BY DEF IInv, CoinsExact, MemorySound, Flushing, Sound
  <1>2. QED
    BY <1>1, AlwaysInv, PTL

\* FlushStateToDisk, ReplayBlocks, VerifyDB: whatever was interrupted, a start
\* gives up only for want of undo data, and only undo data in a rev file before
\* the last one is ever lost
THEOREM AlwaysRecoverable == Spec => []Recoverable
  <1>1. IInv => Recoverable
    BY DEF IInv, Recoverable, LostUndo, MemorySound, FilesSound, Exposed
  <1>2. QED
    BY <1>1, AlwaysInv, PTL

\* FlushBlockFile: as long as all blocks are in the first file, no crash leaves
\* a data directory that cannot be started from
THEOREM OneFileRecovers == Spec => [](diskLast = 0 => status # "failed")
  <1>1. TypeOK /\ Recoverable => (diskLast = 0 => status # "failed")
    <2>1. TypeOK => \A b \in LostUndo : nFile[b] \in Nat
      BY DEF TypeOK, LostUndo
    <2>2. \A n \in Nat : ~ (n < 0)
      BY SMT
    <2>3. QED
      BY <2>1, <2>2 DEF Recoverable
  <1>2. QED
    BY <1>1, TypeCorrect, AlwaysRecoverable, PTL

\* BatchWrite: assert(old_heads[0] == hashBlock) never fails
THEOREM AlwaysSameTransition == Spec => []SameTransition
  <1>1. IInv => SameTransition
    BY DEF IInv, SameTransition, MemorySound
  <1>2. QED
    BY <1>1, AlwaysInv, PTL

=============================================================================
