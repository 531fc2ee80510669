---------------------------- MODULE CrashRecovery ----------------------------
(***************************************************************************)
(* What reaches the disk and what a restart makes of it: FlushStateToDisk, *)
(* the partial batches of CCoinsViewDB::BatchWrite, the load of the block  *)
(* index and ReplayBlocks (src/validation.cpp, src/txdb.cpp, src/init.cpp) *)
(* with a crash between any two writes, during a replay too.               *)
(*                                                                         *)
(* A coin is named by the block that created it, so that a transaction     *)
(* mined on two branches leaves different coins at one outpoint.  The      *)
(* coins pcoinsTip shows are one function: CoinsCache is about its layers. *)
(* Which block is connected next is free: ChainState is about the choice.  *)
(* Blocks are stored in any order and in several files.  Nothing is pruned.*)
(***************************************************************************)
EXTENDS Naturals

CONSTANTS
  Blocks, Genesis, NONE,   \* NONE: a null hash, or a coin that is spent
  Parent,      \* hashPrevBlock
  Path,        \* a block with all its ancestors
  Outpoints,
  Spends,      \* outpoints the transactions of a block spend
  Creates,     \* outpoints they create
  Fitting,     \* the sets of blocks that fit into one file (MAX_BLOCKFILE_SIZE)
  MaxCrashes   \* bound on crashes

Coins == Blocks \cup {NONE}
NoCoins == [o \in Outpoints |-> NONE]

\* what a block makes of the coins c: inputs spent, outputs added (UpdateCoins,
\* RollforwardBlock); an output spent in its own block does not survive it
Applied(c, b) ==
  [o \in Outpoints |->
     IF o \in Spends[b] THEN NONE ELSE IF o \in Creates[b] THEN b ELSE c[o]]

\* DisconnectBlock: outputs removed, inputs restored from the undo data u
Undone(c, b, u) ==
  [o \in Outpoints |->
     IF o \in Creates[b] THEN NONE ELSE IF o \in Spends[b] THEN u[o] ELSE c[o]]

\* the coins a block takes from its chain, which its undo data holds
Inputs(b) == Spends[b] \ Creates[b]

\* blocks form a tree; nothing of the first block enters the coins
ASSUME CrashAssumption ==
  /\ Genesis \in Blocks /\ MaxCrashes \in Nat
  /\ NONE \notin Blocks /\ NONE \notin [Outpoints -> Coins]
  /\ Parent \in [Blocks -> Coins] /\ Parent[Genesis] = NONE
  /\ Path \in [Blocks -> SUBSET Blocks] /\ Path[Genesis] = {Genesis}
  /\ \A b \in Blocks \ {Genesis} :
       /\ Parent[b] \in Blocks
       /\ Path[b] = Path[Parent[b]] \cup {b} /\ b \notin Path[Parent[b]]
  /\ \A b \in Blocks :
       /\ Genesis \in Path[b]
       /\ \A a \in Path[b] : Path[a] \subseteq Path[b]
  /\ Spends \in [Blocks -> SUBSET Outpoints] /\ Spends[Genesis] = {}
  /\ Creates \in [Blocks -> SUBSET Outpoints] /\ Creates[Genesis] = {}

VARIABLES
  \* memory
  status,      \* what the process is doing
  coins,       \* what pcoinsTip, or the cache of ReplayBlocks, shows
  best,        \* its GetBestBlock
  cursor,      \* the block ReplayBlocks has reached
  haveData,    \* mapBlockIndex: entries with BLOCK_HAVE_DATA
  haveUndo,    \* entries with BLOCK_HAVE_UNDO
  dirty,       \* setDirtyBlockIndex
  nFile,       \* of an entry with data: the file of the block and its undo data
  lastFile,    \* nLastBlockFile
  \* disk
  blkFile,     \* blocks that can be read from the blk files
  revFile,     \* the undo data that can be read from the rev files, by block
  unsynced,    \* what the files lose in a power failure, at worst
  diskData, diskUndo, diskLast,  \* the block index database
  db,          \* the coin database as the process sees it
  synced,      \* the state of it a power failure goes back to
  crashes

blockIndex == <<haveData, haveUndo, dirty, nFile, lastFile>>
memory == <<coins, best, cursor, blockIndex>>
files == <<blkFile, revFile, unsynced>>
index == <<diskData, diskUndo, diskLast>>
vars == <<status, memory, files, index, db, synced, crashes>>

\* the chainstate database: DB_COIN entries, DB_BEST_BLOCK, DB_HEAD_BLOCKS
\* (the block being flushed and the one before; both NONE when absent)
Database == [coins : [Outpoints -> Coins], best : Coins,
             new : Coins, old : Coins]

\* "down", starting ("rollback", "forward", "verify"), "running", a flush at
\* rest between two of its writes ("files", "coins", "batches"), the flush
\* of a replay ("replayed", "rebatches"), or "failed": -reindex is needed
Status == {"down", "rollback", "forward", "replayed", "rebatches", "verify",
           "running", "files", "coins", "batches", "failed"}

Init ==
  /\ status = "down" /\ crashes = 0
  /\ coins = NoCoins /\ best = NONE /\ cursor = NONE
  /\ haveData = {} /\ haveUndo = {} /\ dirty = {}
  /\ nFile = [b \in Blocks |-> 0] /\ lastFile = 0
  /\ blkFile = {} /\ revFile = [b \in Blocks |-> NONE] /\ unsynced = {}
  /\ diskData = {} /\ diskUndo = {} /\ diskLast = 0
  /\ db = [coins |-> NoCoins, best |-> NONE, new |-> NONE, old |-> NONE]
  /\ synced = db

-----------------------------------------------------------------------------
(* A running node, between two flushes.                                    *)

\* what was written to a blk and a rev file and is not known to be on disk,
\* after both were committed (FlushBlockFile)
Committed(f) == {u \in unsynced : nFile[u[2]] # f}

\* FindBlockPos: the last file, or, if the block does not fit, the next one
\* after the last one was committed; a block never goes to an earlier file
FindBlockPos(b) ==
  /\ IF {a \in haveData : nFile[a] = lastFile} \cup {b} \in Fitting
     THEN UNCHANGED lastFile /\ unsynced' = unsynced \cup {<<"blk", b>>}
     ELSE /\ lastFile' = lastFile + 1
          /\ unsynced' = Committed(lastFile) \cup {<<"blk", b>>}
  /\ nFile' = [nFile EXCEPT ![b] = lastFile']

\* AcceptBlock: the block goes to a file and its entry becomes dirty; its
\* parent may have only a header yet
AcceptBlock(b) ==
  /\ status = "running"
  /\ b \notin haveData
  /\ FindBlockPos(b)
  /\ blkFile' = blkFile \cup {b}
  /\ haveData' = haveData \cup {b}
  /\ dirty' = dirty \cup {b}
  /\ UNCHANGED <<status, coins, best, cursor, haveUndo, revFile, index, db,
                 synced, crashes>>

\* CheckTxInputs and the BIP30 test of ConnectBlock
Connectable(b) ==
  /\ \A o \in Inputs(b) : coins[o] # NONE
  /\ \A o \in Creates[b] : coins[o] = NONE

\* ConnectTip: ConnectBlock writes the undo data if the entry has none, to the
\* rev file that goes with the block's file (WriteUndoDataForBlock), and the
\* view is flushed into pcoinsTip.  The first block has no undo data.  The
\* undo data is the coins the block found; only its inputs are ever read.
ConnectTip(b) ==
  /\ status = "running"
  /\ b \in haveData /\ Parent[b] = best /\ Connectable(b)
  /\ coins' = Applied(coins, b) /\ best' = b
  /\ IF b \in haveUndo \cup {Genesis}
     THEN UNCHANGED <<haveUndo, revFile, unsynced, dirty>>
     ELSE /\ revFile' = [revFile EXCEPT ![b] = coins]
          /\ unsynced' = unsynced \cup {<<"rev", b>>}
          /\ haveUndo' = haveUndo \cup {b}
          /\ dirty' = dirty \cup {b}
  /\ UNCHANGED <<status, cursor, haveData, nFile, lastFile, blkFile, index, db,
                 synced, crashes>>

\* ReadBlockFromDisk and UndoReadFromDisk succeed
ReadableBlock(b) == b \in haveData /\ b \in blkFile
ReadableUndo(b) == b \in haveUndo /\ revFile[b] # NONE

\* DisconnectBlock would return DISCONNECT_OK
UndoesCleanly(b) ==
  /\ ReadableBlock(b) /\ ReadableUndo(b)
  /\ \A o \in Creates[b] : coins[o] = IF o \in Spends[b] THEN NONE ELSE b
  /\ \A o \in Inputs(b) : coins[o] = NONE

\* DisconnectTip; one that fails returns an error and leaves all as it is
DisconnectTip ==
  /\ status = "running"
  /\ best \notin {NONE, Genesis} /\ UndoesCleanly(best)
  /\ coins' = Undone(coins, best, revFile[best])
  /\ best' = Parent[best]
  /\ UNCHANGED <<status, cursor, blockIndex, files, index, db, synced, crashes>>

-----------------------------------------------------------------------------
(* FlushStateToDisk.  Whether it writes, and whether it flushes the coins  *)
(* as well, depends on the clock and the size of the cache: both are free. *)
(* cs_main is held throughout, so only a crash comes between its writes.   *)

\* mutant: the last block file is not committed
FlushBlockFileSkipped ==
  /\ status = "running"
  /\ status' = "files" /\ UNCHANGED unsynced
  /\ UNCHANGED <<memory, blkFile, revFile, index, db, synced, crashes>>

\* FlushBlockFile: the blk and the rev file of nLastBlockFile are committed
FlushBlockFile ==
  /\ status = "running"
  /\ status' = "files" /\ unsynced' = Committed(lastFile)
  /\ UNCHANGED <<memory, blkFile, revFile, index, db, synced, crashes>>

\* the block index and nLastBlockFile, in one synchronous batch; then the
\* coins, if the flush is a full one and there is a best block
WriteBatchSync ==
  /\ status = "files"
  /\ diskData' = diskData \cup (dirty \cap haveData)
  /\ diskUndo' = diskUndo \cup (dirty \cap haveUndo)
  /\ diskLast' = lastFile
  /\ dirty' = {}
  /\ status' \in {"running"} \cup (IF best # NONE THEN {"coins"} ELSE {})
  /\ UNCHANGED <<coins, best, cursor, haveData, haveUndo, nFile, lastFile,
                 files, db, synced, crashes>>

\* the old tip of BatchWrite, which may be in the middle of a replay
OldTip == IF db.best # NONE THEN db.best ELSE db.old

\* mutant: a partial batch does not say that the database is in transition
WriteBatchUnmarked(s) ==
  /\ status \in {"coins", "batches", "replayed", "rebatches"}
  /\ status' = IF status \in {"coins", "batches"} THEN "batches" ELSE "rebatches"
  /\ db' = [db EXCEPT !.coins = [o \in Outpoints |->
                                   IF o \in s THEN coins[o] ELSE @[o]]]
  /\ UNCHANGED <<memory, files, index, synced, crashes>>

\* BatchWrite: a batch that is not the last one, with the entries s; the first
\* one also marks the transition
WriteBatch(s) ==
  /\ status \in {"coins", "batches", "replayed", "rebatches"}
  /\ status' = IF status \in {"coins", "batches"} THEN "batches" ELSE "rebatches"
  /\ db' = [coins |-> [o \in Outpoints |->
                         IF o \in s THEN coins[o] ELSE db.coins[o]],
            best |-> NONE, new |-> best,
            old |-> IF status \in {"coins", "replayed"} THEN OldTip ELSE db.old]
  /\ UNCHANGED <<memory, files, index, synced, crashes>>

\* BatchWrite: the last batch; a replay is followed by LoadChainTip and VerifyDB
WriteLastBatch ==
  /\ status \in {"coins", "batches", "replayed", "rebatches"}
  /\ status' = IF status \in {"coins", "batches"} THEN "running" ELSE "verify"
  /\ db' = [coins |-> coins, best |-> best, new |-> NONE, old |-> NONE]
  /\ UNCHANGED <<memory, files, index, synced, crashes>>

\* the log of the coin database reaches the disk, whenever LevelDB likes
SyncDatabase ==
  /\ synced # db
  /\ synced' = db
  /\ UNCHANGED <<status, memory, files, index, db, crashes>>

-----------------------------------------------------------------------------
(* Crash and restart.                                                      *)

Forget ==
  /\ status' = "down"
  /\ coins' = NoCoins /\ best' = NONE /\ cursor' = NONE
  /\ haveData' = {} /\ haveUndo' = {} /\ dirty' = {} /\ lastFile' = 0
  /\ nFile' = [b \in Blocks |-> IF b \in diskData THEN nFile[b] ELSE 0]

\* what the index on disk names
Named == ({"blk"} \X diskData) \cup ({"rev"} \X diskUndo)

\* the files hold only what is in s
Keep(s) ==
  /\ blkFile' = {b \in blkFile : <<"blk", b>> \in s}
  /\ revFile' = [b \in Blocks |-> IF <<"rev", b>> \in s THEN revFile[b] ELSE NONE]

MayCrash ==
  /\ status \notin {"down", "failed"}
  /\ crashes < MaxCrashes /\ crashes' = crashes + 1

\* the process dies: what it has written stays, but with the sizes of the files
\* (vinfoBlockFile) read from the index, what that does not name is overwritten
Kill ==
  /\ MayCrash /\ Forget /\ Keep(Named)
  /\ unsynced' = unsynced \cap Named
  /\ UNCHANGED <<index, db, synced>>

\* the machine stops: anything that was not synced may be gone, and the coin
\* database goes back to some earlier state
PowerFailure ==
  /\ MayCrash /\ Forget
  /\ \E lost \in SUBSET unsynced : Keep(Named \ lost)
  /\ unsynced' = {} /\ db' = synced
  /\ UNCHANGED <<index, synced>>

Fail == status' = "failed" /\ UNCHANGED <<coins, best, cursor>>

\* LoadBlockIndex; LoadGenesisBlock if the index is empty; then ReplayBlocks if
\* DB_HEAD_BLOCKS is there, else LoadChainTip if there is a best block
Start ==
  /\ status = "down"
  /\ haveUndo' = diskUndo /\ lastFile' = diskLast
  /\ IF diskData = {}
     THEN /\ haveData' = {Genesis} /\ dirty' = {Genesis}
          /\ nFile' = [nFile EXCEPT ![Genesis] = diskLast]
          /\ blkFile' = blkFile \cup {Genesis}
          /\ unsynced' = unsynced \cup {<<"blk", Genesis>>}
     ELSE /\ haveData' = diskData
          /\ UNCHANGED <<dirty, nFile, blkFile, unsynced>>
  /\ IF \/ diskData # {} /\ Genesis \notin diskData
        \/ ~ ({db.best, db.new, db.old} \subseteq haveData' \cup {NONE})
     THEN Fail
     ELSE /\ coins' = db.coins
          /\ IF db.new # NONE
             THEN status' = "rollback" /\ cursor' = db.old /\ UNCHANGED best
             ELSE /\ status' = IF db.best = NONE THEN "running" ELSE "verify"
                  /\ best' = db.best /\ UNCHANGED cursor
  /\ UNCHANGED <<revFile, index, db, synced, crashes>>

\* the blocks of one of the two heads that are not in the other's chain;
\* LastCommonAncestor is where they begin
Chain(b) == IF b = NONE THEN {} ELSE Path[b]
OldBranch == Chain(db.old) \ Chain(db.new)

\* mutant: pindexOld = pindexOld->pprev is forgotten
RollbackInPlace ==
  /\ status = "rollback"
  /\ IF cursor \notin OldBranch
     THEN /\ status' = "forward"
          /\ cursor' = IF cursor = NONE THEN Genesis ELSE cursor
          /\ UNCHANGED <<coins, best>>
     ELSE IF ~ (ReadableBlock(cursor) /\ ReadableUndo(cursor))
     THEN Fail
     ELSE /\ coins' = Undone(coins, cursor, revFile[cursor])
          /\ UNCHANGED <<status, cursor, best>>
  /\ UNCHANGED <<blockIndex, files, index, db, synced, crashes>>

\* ReplayBlocks, the loop along the old branch: one block, or its end.  With
\* no old tip the next loop starts at height 1.
Rollback ==
  /\ status = "rollback"
  /\ IF cursor \notin OldBranch
     THEN /\ status' = "forward"
          /\ cursor' = IF cursor = NONE THEN Genesis ELSE cursor
          /\ UNCHANGED <<coins, best>>
     ELSE IF ~ (ReadableBlock(cursor) /\ ReadableUndo(cursor))
     THEN Fail
     ELSE /\ coins' = Undone(coins, cursor, revFile[cursor])
          /\ cursor' = Parent[cursor]
          /\ UNCHANGED <<status, best>>
  /\ UNCHANGED <<blockIndex, files, index, db, synced, crashes>>

\* the ancestor of the new tip that follows the cursor
IsNext(b) == b \in Chain(db.new) /\ Parent[b] = cursor

\* mutant: nHeight < pindexNew->nHeight
RollforwardShort ==
  /\ status = "forward"
  /\ \/ \E b \in Blocks \ {db.new} :
          /\ IsNext(b) /\ ReadableBlock(b)
          /\ coins' = Applied(coins, b) /\ cursor' = b
          /\ UNCHANGED <<status, best>>
     \/ /\ cursor = db.new \/ IsNext(db.new)
        /\ status' = "replayed" /\ best' = cursor
        /\ UNCHANGED <<coins, cursor>>
  /\ UNCHANGED <<blockIndex, files, index, db, synced, crashes>>

\* ReplayBlocks, the loop towards the new tip: one block (RollforwardBlock), or
\* its end, where the cache is given its best block and flushed
Rollforward ==
  /\ status = "forward"
  /\ \/ \E b \in Blocks :
          /\ IsNext(b)
          /\ IF ~ ReadableBlock(b)
             THEN Fail
             ELSE /\ coins' = Applied(coins, b) /\ cursor' = b
                  /\ UNCHANGED <<status, best>>
     \/ /\ cursor = db.new
        /\ status' = "replayed" /\ best' = db.new
        /\ UNCHANGED <<coins, cursor>>
  /\ UNCHANGED <<blockIndex, files, index, db, synced, crashes>>

\* VerifyDB: the blocks from a on are read once more, and from level 2 on their
\* undo data too; -checkblocks and -checklevel decide, so both are free.  The
\* levels above disconnect and connect the same blocks in a cache of their own.
VerifyDB ==
  /\ status = "verify"
  /\ \/ /\ best = Genesis
        /\ status' = "running" /\ UNCHANGED <<coins, best, cursor>>
     \/ \E a \in Chain(best) \ {Genesis}, level2 \in BOOLEAN :
          IF \A b \in Chain(best) \ Chain(Parent[a]) :
               ReadableBlock(b) /\ (level2 => ReadableUndo(b))
          THEN status' = "running" /\ UNCHANGED <<coins, best, cursor>>
          ELSE Fail
  /\ UNCHANGED <<blockIndex, files, index, db, synced, crashes>>

-----------------------------------------------------------------------------

Write == FlushBlockFile \/ WriteBatchSync \/ WriteLastBatch
Startup == Start \/ Rollback \/ Rollforward \/ VerifyDB

Next ==
  \/ \E b \in Blocks : AcceptBlock(b) \/ ConnectTip(b)
  \/ DisconnectTip
  \/ Write
  \/ \E s \in SUBSET Outpoints : WriteBatch(s)
  \/ SyncDatabase
  \/ Kill
  \/ PowerFailure
  \/ Startup

Spec == Init /\ [][Next]_vars

\* a start goes on, and a flush gets to its last batch
FairSpec == Spec /\ WF_vars(Startup) /\ WF_vars(WriteLastBatch)

-----------------------------------------------------------------------------
(* Properties.                                                             *)

\* the variables keep their types
TypeOK ==
  /\ status \in Status /\ crashes \in 0 .. MaxCrashes
  /\ coins \in [Outpoints -> Coins] /\ best \in Coins /\ cursor \in Coins
  /\ haveData \subseteq Blocks /\ haveUndo \subseteq Blocks
  /\ dirty \subseteq Blocks
  /\ nFile \in [Blocks -> Nat] /\ lastFile \in Nat
  /\ blkFile \subseteq Blocks
  /\ revFile \in [Blocks -> [Outpoints -> Coins] \cup {NONE}]
  /\ unsynced \subseteq {"blk", "rev"} \X Blocks
  /\ diskData \subseteq Blocks /\ diskUndo \subseteq Blocks
  /\ diskLast \in Nat
  /\ db \in Database /\ synced \in Database

\* the coins after a block, by looking at its whole chain: an outpoint holds
\* what the last block that has to do with it left there
Touches(b, o) == o \in Spends[b] \cup Creates[b]
Touching(b, o) == {a \in Chain(b) : Touches(a, o)}
Last(s) == CHOOSE a \in s : s \subseteq Path[a]
CoinAt(s, o) ==
  IF s = {} \/ o \in Spends[Last(s)] THEN NONE ELSE Last(s)
CoinsOf(b) == [o \in Outpoints |-> CoinAt(Touching(b, o), o)]

\* FlushStateToDisk, ReplayBlocks, LoadChainTip: whenever the node runs it shows
\* exactly the coins of the chain it says it is on, whatever flush or replay was
\* interrupted before; a database that is not marked as in transition holds
\* exactly the coins of its best block
CoinsExact ==
  /\ status \in {"running", "files", "coins", "batches", "replayed", "rebatches",
                 "verify"} => coins = CoinsOf(best)
  /\ \A d \in {db, synced} : d.new = NONE => d.coins = CoinsOf(d.best)

\* undo data that the index on disk names and no file holds any more
LostUndo == {b \in diskUndo : revFile[b] = NONE}

\* FlushStateToDisk writes files, index and coins in an order that lets every
\* restart go on, but for undo data: there is no "reorganization to unknown
\* block requested", no tip that is not in the index and no block that cannot
\* be read, whatever was interrupted.  A start gives up only for want of undo
\* data, and what is lost went to a rev file before the last one.
Recoverable ==
  /\ status = "failed" => LostUndo # {}
  /\ \A b \in LostUndo : nFile[b] < diskLast

\* FlushStateToDisk: "First make sure all block and undo data is flushed to
\* disk. ... Then update all block file information (which may refer to block
\* and undo files)": undo data the index on disk names outlives any crash
UndoOutlivesCrashes == LostUndo = {}

\* BatchWrite: assert(old_heads[0] == hashBlock)
SameTransition ==
  status \in {"coins", "replayed"} /\ db.best = NONE /\ db.new # NONE
    => db.new = best

\* AppInitMain: once crashes cease, a start ends: with a running node, or for
\* want of undo data that was lost
RecoveryEnds ==
  status = "down" ~> status = "running" \/ (status = "failed" /\ LostUndo # {})

=============================================================================
