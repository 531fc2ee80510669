# A TLA+ verification of XPChain Core

XPChain Core is a full node derived from Bitcoin Core 0.17 whose chain switches
from proof of work to proof of stake at a fixed height. These modules model the
parts of the node where correctness depends on the order of events: how blocks
become the active chain, how the layered coin caches stay one set of coins and
survive crashes, how the threads that verify scripts agree on a verdict, how
callbacks reach their listeners and the transaction index keeps up with them, how
blocks are fetched from peers, and how the pool of transactions follows a chain
that is reorganized. TLC checks the models on small instances; TLAPS proves the
main safety results for every instance.

Paths below are relative to the repository; `validation.cpp` means
`src/validation.cpp`. `PROJECT.json` gives, for every definition, the lines it
translates, and lists the runs, the mutants, the findings and the hazards.

## 1. The system and its parts

| Part | Sources | Here |
|---|---|---|
| Block tree, choice of the active chain | `validation.cpp` (`CChainState`), `chain.*` | `ChainState` |
| Coins views | `coins.*`, `txdb.cpp` | `CoinsCache`, `UtxoSet` |
| Script check queue | `checkqueue.h`, `ConnectBlock` | `CheckQueue` |
| Flushing, crash recovery, restart | `validation.cpp`, `txdb.cpp`, `init.cpp` | `CrashRecovery` |
| Validation interface, scheduler | `validationinterface.cpp`, `scheduler.*` | `Callbacks`, `SerialQueue` |
| Transaction index | `index/base.cpp` | `TxIndex` |
| Peer protocol | `net_processing.cpp` | `BlockDownload`: block download only |
| Memory pool | `txmempool.*`, `validation.cpp` | `Mempool` |
| Proof of stake | `pos/kernel.cpp`, `GetTransaction` | `Mempool`: the lookup of the stake |
| Block and transaction rules | `validation.cpp`, `consensus/`, `versionbits.cpp` | verdicts, coins, locks and maturity; see section 6 |
| Start-up | `init.cpp` | `CrashRecovery`: index and coins |
| RPC | `rpc/` | three calls as actions of `ChainState` |
| The rest | | section 6 |

How they interact. A peer, a file or the minter hands headers and blocks to
`ProcessNewBlockHeaders` and `ProcessNewBlock`. `AcceptBlock` stores a block and
links it into the tree under `cs_main`. `ActivateBestChain`, one thread at a
time under `m_cs_chainstate`, moves the tip towards the best candidate in steps
and gives up `cs_main` between them. Each step connects or disconnects blocks
through a temporary coins view over `pcoinsTip` over the database, and
`ConnectBlock` spreads the script checks over a pool of threads and waits for
their verdict. `ChainState` models the first two, `CoinsCache` what happens to
the coins, `CheckQueue` the pool.

Around this core: `FlushStateToDisk` writes files, block index and coins, in this
order, and a start has to make one state of whatever a crash left
(`CrashRecovery`, which takes the coins as one function because of `CoinsCache`
and leaves the choice of the next block free because of `ChainState`). The moves
of the tip are told to listeners through a serial queue on top of the scheduler
(`Callbacks`, shown to implement `SerialQueue`), and `TxIndex` composes that queue
with the validation thread, the index and an RPC caller. `BlockDownload` is where
the blocks come from. `Mempool` composes the pool with the moves of the chain, and
with the proof-of-stake check of a connected block, which looks into the pool.

## 2. The modules

### ChainState

State: a set per status bit of `CBlockIndex` (`haveData`, `haveUndo`,
`failedValid`, `failedChild`, `linked` for `nChainTx`), `valid` for the validity
level, `seqId`, and the globals of `CChainState` under their own names or as the
comments say (`candidates` is `setBlockIndexCandidates`, `unlinked`
`mapBlocksUnlinked`, `failedBlocks` `m_failed_blocks`). `act` holds the program
counter and the locals of the thread inside `ActivateBestChain`; `pending` says
that some thread is about to call it.

| Action | Code |
|---|---|
| `AcceptBlockHeader` | `ProcessNewBlockHeaders` with one header, including the marking of descendants of failed blocks |
| `ProcessNewBlock` | `AcceptBlock` up to the loop in `ReceivedBlockTransactions`: already known, unwanted, bad, stored |
| `LinkBlock` | one round of that loop; `cs_main` stays held |
| `StartActivation`, `LockCsMain` | entry of `ActivateBestChain`, and of a round of its outer loop |
| `FindMostWorkChain` | one round of its loop |
| `StartStep`, `DisconnectTip`, `ConnectTip`, `ConnectTipInvalid` | `ActivateBestChainStep`, block by block |
| `PreciousBlock`, `InvalidateBlock`, `ResetBlockFailureFlags` | the operator calls `preciousblock`, `invalidateblock`, `reconsiderblock` |

A block's content is abstract. The constants give its parent, height, work, the
address of its index entry (the comparator's last tie break), and whether its
contextual check (`BadContext`) and its connection (`BadConnect`) succeed. Steps
that run under one hold of `cs_main` exclude the others through `CsMainFree`;
they are split so that loops need no recursion, and properties that the code
promises only outside the lock are stated for `CsMainFree` states.

Left out: pruning (so `nTx > 0` and `BLOCK_HAVE_DATA` coincide, and the missing
data branch of `FindMostWorkChain` cannot occur), loading the index at start,
shutdown requests, and errors after which the node aborts (disk, corruption).
The batch of 32 blocks, `MIN_BLOCKS_TO_KEEP` and `nMinimumChainWork` are
constants.

### CoinsCache and UtxoSet

State: the database (`db`, `dbBest`), `pcoinsTip` (`tip`, `tipBest`) and the
temporary view (`view`, `viewBest`, `open`). An entry of a cache is a coin with a
set of flags, or `ABSENT`. `Fetched`, `Added`, `Spent`, `Merged`, `Stored` and
`Uncached` are `FetchCoin`, `AddCoin`, `SpendCoin`, the two `BatchWrite`s and
`Uncache` on one entry. The actions are the callers' steps. A fetch through the
view also leaves a copy in `pcoinsTip`, as in the code.

The callers' rules are guards: a transaction other than a coinbase never
creates an output that exists (the BIP30 test of `ConnectBlock`), and a flushed
view has been labelled with a block. Reads of `pcoinsTip` are allowed while a
view is open, because `CheckProofOfStake` does that; evictions and flushes are
not, because `cs_main` is held.

`UtxoSet` is the promise: one labelled set of coins, a block in progress that is
committed whole or abandoned without trace, and a durable copy that always
equals some committed set under its own label. `OneUtxoSet` says `CoinsCache`
implements it; fetches, evictions and copies between layers are stuttering
steps.

### CheckQueue

State: the members of `CCheckQueue`, and for every thread its position, its
batch and its result. What a thread does in one critical section is one step
(`Return`, `Sleep`, `TakeBatch`), executing a batch outside the mutex another
(`Run`). Condition variables may wake a thread at any time (`SpuriousWakeup`),
and a notification to nobody is lost. The master opens a block, adds checks, and
either waits for the verdict or leaves early. `txdata` tells whether the vector
the checks point into still exists; a check run without it has an arbitrary
result.

### CrashRecovery

State: what the process has in memory (`coins`, `best`, the entries of the block
index with data, with undo data, and dirty, the file of each block and
`nLastBlockFile`), and what is on disk: the readable
part of the block and undo files, the block index database, and the coin
database with `DB_BEST_BLOCK` and `DB_HEAD_BLOCKS`. `unsynced` and `synced` say
what a power failure takes back; the block index is written synchronously, the
coins are not, so that the coin database may go back to any earlier state.
`status` is the position inside a flush or a start. A coin is named by the block
that created it. Blocks are stored in the order they arrive, parents first or not;
`Fitting` says which of them fit into one file. Undo data goes to the rev file with
the number of the block's file, so it may go to an earlier one than the last, and
`FlushBlockFile` commits the last blk and rev file only. After a crash the files hold
what the index names: with the sizes of the files read from the index, the rest is
overwritten.

| Action | Code |
|---|---|
| `AcceptBlock`, `ConnectTip`, `DisconnectTip` | what these write to files, index entries and coins; `FindBlockPos` chooses the file |
| `FlushBlockFile`, `WriteBatchSync`, `WriteBatch`, `WriteLastBatch` | the writes of `FlushStateToDisk` and `CCoinsViewDB::BatchWrite`; a batch holds any set of entries |
| `SyncDatabase`, `Kill`, `PowerFailure` | the environment |
| `Start` | `LoadBlockIndex`, `LoadGenesisBlock`, the entry of `ReplayBlocks`, or `LoadChainTip` |
| `Rollback`, `Rollforward` | the loops of `ReplayBlocks`, one block at a time, up to its flush, which is the same `BatchWrite` |
| `VerifyDB` | the check of the last blocks at start: they, and from level 2 on their undo data, can be read |

A start that fails ends in `"failed"`, where the node asks for `-reindex`. That this can
happen is a finding (`undo_files`, section 5): the comment at `validation.cpp:2246`
promises that all undo data is flushed before the index names it. The properties of the
passing run say what is left of the promise: only undo data can be missed, and only
such as went to a rev file before the last one (`Recoverable`); a start ends, and a start
that does not end with a running node is one for which undo data is lost (`RecoveryEnds`).

Left out: pruning, the levels of `VerifyDB` that disconnect and connect blocks in a
cache of their own, `RewindBlockIndex` and the upgrade of the old coin format.

### Callbacks, SerialQueue and TxIndex

`Callbacks` has `m_callbacks_pending`, `m_are_callbacks_running`, the number of
scheduled tasks and a position per thread. A step is one critical section of
`newTaskMutex` or of `m_cs_callbacks_pending`; `notify_one` comes after the unlock
and is a step of its own (`Notify`), which may be spent on a thread that is already
on its way to the task, and waits may end for no reason. All tasks are
`ProcessQueue` and are due when they are scheduled. `SerialQueue` is the promise:
one callback at a time, in order, each once.

`TxIndex` uses `SerialQueue`. The validation thread moves the tip (`ChangeTip`) and
queues `BlockConnected` and `ChainStateFlushed` before it gives up `cs_main`
(`Notify`), a flush possibly in the middle of the move; it waits when the queue is
too long (`LimitQueue`). `NextSyncBlock`, `WriteBestBlock`, `WriteBlock`, `CaughtUp`
and `Interrupted` are the steps of `ThreadSync`, in the order of the code;
`BlockConnected` and `ChainStateFlushed` are the callbacks; `Ask`, `Drain` and
`Drained` are `BlockUntilSyncedToCurrentChain`. `Restart` kills the node at any
moment and starts it with the chain state as last flushed.

`ThreadSync` writes the locator for a block before the block itself
(`index/base.cpp:117-132`). A node killed between the two goes on after a block that
was not written, and nothing goes back for it. `index_skipped` shows that
`BlockUntilSyncedToCurrentChain` then returns true all the same (section 5). The variable
`skipped` collects exactly these blocks, and `IndexComplete`, `LocatorIndexed` and
`AnswerTrue` are stated up to them (`IndexedButSkipped`); no other way to miss a block exists.

Left out: sparse locators (chains are shorter than ten blocks), database writes that
fail, and the migration of the old database.

### BlockDownload

State: `mapNodeState` (the fields of `CNodeState` that block download uses),
`mapBlocksInFlight`, the three counters beside it, and of the block tree what the
requests look at. `asked` and `owing` are the requests that a prompt peer is still
going to answer.

| Action | Code |
|---|---|
| `InitializeNode`, `Version`, `Close`, `FinalizeNode` | a connection begins, becomes usable, is given up, is forgotten |
| `TimeOut`, `RequestBlocks` | `SendMessages`: start of the synchronization, then either one of the three time-outs, or `FindNextBlocksToDownload`, its requests and the peer found to stall |
| `Announce` | an `inv`, or headers that do not connect |
| `Headers` | `ProcessHeadersMessage` with its direct fetch |
| `Block` | a block, asked for or not: `MarkBlockAsReceived`, `ProcessNewBlock` and what it makes of the tip |

Time is left out: a time-out may strike whenever the thing it watches is pending,
and "recent" is a set of blocks, so that `IsInitialBlockDownload`, `CanDirectFetch` and
"close to today" change together with the tip and the best header. Left out as well:
compact blocks, blocks that fail `CheckBlock` and misbehaviour scores (`Close` stands
for the disconnections they cause), `ConsiderEviction`, `nMinimumChainWork`,
`fTooFarAhead`, whitelisted, limited and one-shot peers, the limit of 2000 headers and
the witness flags. The message handler is one thread, so a block message is one step
although it takes `cs_main` twice.

### Mempool

State: the chain's tip and failure marks, the pool as a record (entries, links to
parents and children, counts of ancestors and descendants, cached lock points), the
locals of the thread that moves the chain, the pool of disconnected transactions in
its order of insertion, and `vHashUpdate`. Operators on the pool have the names of the
methods of `CTxMemPool`.

| Action | Code |
|---|---|
| `AcceptToMemoryPool` | `AcceptToMemoryPoolWorker` with replacement, chain limits and `LimitMempoolSize`, which may evict anything with its descendants |
| `ActivateBestChain`, `InvalidateBlock` | a move of the chain begins |
| `DisconnectTip`, `ConnectTip`, `RefuseBlock`, `MarkInvalid`, `Fault` | its steps: blocks disconnected (with the overflow of the disconnection pool), connected, refused by `CheckProofOfStake`, the end of `invalidateblock`, a read error |
| `ReAdd`, `FinishUpdate` | `UpdateMempoolForReorg`: one transaction; `UpdateTransactionsFromBlock`, `removeForReorg` and the limit |

Blocks are chosen so that they pass every check of `ConnectBlock` but the stake's.
`CheckProofOfStake` is modelled by its lookup: the kernel was made with the time of one
block and fails with another's. `GetTransaction` is modelled without `-txindex`. With it
the answer comes from the index and, after the pool, from nothing else: the index runs
behind the chain and may lack a block, so that `StakeVerdictExact` is not claimed for such a
node. Of the sums an entry keeps
only the counts are modelled (sizes and fees are updated by the same calls);
`mapNextTx` is derived from the entries; the cache of `UpdateForDescendants` is left
out. A relative lock is one height for all inputs; time locks, fee policy and the
rolling minimum fee, `PrioritiseTransaction`, orphans and `mempool.dat` are left out. A read
error strikes before a block is touched. Ancestor and descendant limits are
checked on acceptance only: after a reorganization chains may be longer, in the code
and in the model.

## 3. What the runs check

| Run | Instance | Shows |
|---|---|---|
| `network` | genesis and two branches of three blocks, one block bad in context, one failing to connect, batches of 2 | block-tree consistency, progress before unlocking, activation ends, the best chain wins |
| `operator` | two branches of two blocks, up to three operator calls on a node at rest | failure marks, candidates exact, the node rests on the best valid chain, failed blocks are not connected |
| `coins` | two outpoints, two coins, two hashes | flags tell the truth, no `logic_error`, refinement of `UtxoSet` |
| `scripts` | a master, two workers, four checks, one failing, batches of at most 2 | verdict, counters, nothing left behind, no lost wake-up |
| `crash` | genesis, a block and two children that mine the same transaction, two blocks to a file, three outpoints, batches of any content, two kills or power failures | coins exact after every restart, a restart gives up only for want of undo data of an earlier file, `BatchWrite`'s assertion, a start ends |
| `index` | the same tree, two moves of the tip, a queue limit of 1, one kill | the index and its locator are complete and answers are true, up to skipped blocks; the index is with the chain when all is told; nobody waits for ever |
| `download` | a chain of two blocks and a bad block beside its tip, a prompt peer and one that need not answer, each connecting twice, window 1, two blocks in transit | the map, lists and counters agree, only peers that owe a block are stalling, the best chain is reached |
| `pool` | branches of two and of three blocks, the longer with two ends, three staked blocks of which one names the wrong origin, 19 transactions, one `invalidateblock`, one read error | counts follow links, links exact, every entry minable, the stake verdict depends on the block's chain alone |
| `racing`, `early_return`, `undo_files`, `index_skipped` | as above | findings, section 5 |

Bounds. Two branches of three blocks are the smallest tree with a
reorganisation of several blocks that fails half-way, a batch that ends inside a
branch, and a block that waits for two ancestors. Three operator calls allow
invalidate, reconsider, and a third call on the other branch (`MaxRpc`); the
network run has none, so that its liveness properties are about arrivals only.
Two coins make an overwrite differ from a re-add, two outpoints make a half
applied block visible. Two workers with a master give every pairing of busy,
sleeping and woken threads, and four checks in batches of two let a thread come
back for a second batch. In `crash` the second crash may hit the replay that
follows the first, and the transaction that is mined on both branches leaves
different coins at one outpoint, so that a rollback or rollforward of the wrong
block shows; with two blocks to a file the last two of four begin a second one while the
undo data of the first may still be unwritten. A failed start is an end, so
`CHECK_DEADLOCK` is off. In `index` two moves give a reorganization behind the index's back and
one back again, and a queue limit of 1 makes the validation thread wait. In
`download` a window of 1 makes the second block wait for the first, which is what
stalling is about, and a second connection follows a time-out. In `pool` the two
branches hold the same transaction at different heights, conflicting
transactions, a child of two re-added parents, a replacement, a coinbase spend and
both kinds of locks; the disconnection pool holds six transactions and a block
with its parent has seven. There `CHECK_DEADLOCK` is off: the sets of transactions and
blocks are finite, and a node with nothing to do waits. Sequence numbers grow only with linked blocks and
operator calls, so no other counter needs a bound.

Fairness. In `ChainState`, a thread inside `ReceivedBlockTransactions` or
`ActivateBestChain`, or about to enter it, keeps running (weak fairness of
`LinkBlock` and of `Activate` as a whole): these threads never wait for a peer or
an operator, only for locks that are released. Arrivals and operator calls are
not fair. In `CheckQueue` each thread that is awake in `Loop` goes on (weak
fairness per thread); notifications and spurious wakeups are not assumed to
happen. In `CrashRecovery` a start goes on and a flush gets to its last batch;
crashes are bounded, so `RecoveryEnds` is about the start after the last one. In
`TxIndex` the scheduler runs what is queued (no callback is forgotten and no
wake-up lost, as proved for `Callbacks`), and a
thread that queues notifications or drains the queue goes on; `ThreadSync` and the
moves of the chain are not fair. In `BlockDownload` time passes for peers that do
not answer (a time-out that stays due strikes, and the peer is forgotten), and
a prompt peer connects, is served by the message handler and answers;
nothing is assumed of what the others send.

## 4. What is proved

For every value of the constants allowed by the assumptions, checked by TLAPS:

* `ChainStateProofs`: `TypeCorrect`, `ChainAlwaysStored`, `FailedSetSound`,
  `MarksHaveCauses`. From `TreeAssumption` (blocks form a tree, in which height and work
  grow from a block to its child) and `InputAssumption`.
  That the active chain has all its data is not inductive by itself: the tip
  comes from `act.mostWork`, that from the candidates, those from `linked`, and
  `linked` from the queue of blocks to link and from `mapBlocksUnlinked`. The
  invariant says that everything in `candidates`, `linked`, the queue's parents and the
  activation's locals is whole (`AllWhole`), that waiting blocks have their own
  data (`WaitingWhole`), and that the activating thread is where its locals say
  (`StepSane`). It holds for operator calls at any moment, also during an
  activation. The module also says what each handler does to the tip, the marks and the
  locals, that the block index is closed under ancestors (`Indexed`), and that `linked`
  is, while a block on its way there is in one place, once (`Linking`). `Caused` carries
  `MarksHaveCauses`: all marks lie on or above blocks that failed or were invalidated.
  Its second half is about what activation does with all this, for any tree, any batch
  size and any set of failing blocks. The theorems have a hypothesis on the operator's
  calls, never on what the network sends:
  * `InvalidStaysOut`, `NeverConnectsFailed`, `ValidityOrdered` and
    `CandidatesWorthwhile` assume `QuietRpc`: operator calls come while no activation
    runs. `racing` shows the first is false otherwise. `Clean` says that neither the
    tip's chain nor the one being activated has a failure mark, `Checked` orders the
    validity levels along chains, `Useful` keeps candidates at or above the tip in
    every state of the activation.
  * `NoCandidateLost`, `CandidatesStay`, `ProgressBeforeUnlock` and `RestsOnBestChain`
    assume `CarefulOperator`: besides `QuietRpc`, what is reconsidered has no ancestor
    that fails or is invalidated (section 5 says why), and no two blocks that are
    made precious have the same work. The last part came out of the proof: a
    `preciousblock` call on the current tip can raise the tip's sequence number, after
    the counter was reset on a lower tip, and then a sibling of equal work
    that was pruned as worse is no longer worse and not a candidate. It takes
    seven calls of `invalidateblock`, `reconsiderblock` and `preciousblock`, more than `operator`
    explores; the tip stays right, and only the completeness of the set is lost. The
    invariant `Choosing` covers a whole activation: outside it the candidates are complete
    above the tip; inside, they are complete above the tip at which this hold of
    `cs_main` began (`Complete`), the activation is on the way to a block
    at least as good as that tip (`Progress`), and work that is still undone is announced
    by `pending` or by the activation's state (`Awaited`). `Ranked` and `Connectable`
    keep the comparison of blocks stable and the remembered blocks connected.
  * `LinksAllThatArrived` assumes that failure marks are not set or cleared by the operator
    (`NoOperatorMarks`); section 5 says why. `Arrived` says that a block with data is
    linked, queued, waiting, or above a marked block that will never be linked. `Frontier`
    takes the place of an induction down the tree: below a block that is not linked there is
    one that is not linked and whose parent is.
* `CoinsCacheProofs`: `TypeCorrect`, `CachesCoherent`, `CachesNeverThrow` and
  the refinement `CachesRefineUtxoSet`. From `CoinsAssumption`. Coherence is
  proved entry by entry: lemmas say what each operation on an entry does to what
  the layer answers and to the truth of its flags.
* `CheckQueueProofs`: `TypeCorrect`, `CountersAlwaysExact`, `AlwaysFinished`,
  `VerdictAlwaysExact`. From `CheckQueueAssumption`, which asks for finitely many
  workers and checks. The invariant locates every check in exactly one place,
  says that between two blocks the queue is as new, and that every failing check
  of the block is either still to be run or has been noticed by the thread that
  ran it or in `fAllOk`, while nothing else makes either of them false.
* `CrashRecoveryProofs`: `TypeCorrect`, `CoinsAlwaysExact`, `AlwaysRecoverable`,
  `OneFileRecovers`, `AlwaysSameTransition`. From `CrashAssumption` (blocks form a tree), for
  any size of the files. `Sound` says of
  the coin database, the present one and the one a power failure goes back to: without
  heads it holds the coins of its best block; with heads, an outpoint that no block
  between them touches holds its coin, and nothing is known of the others, because
  batches were written in any order and perhaps in several attempts. The blocks it
  refers to are in the index on disk with their undo entries. What that index names is
  in the files for good, except undo data of a block in an earlier file than the last
  (`Exposed`, `FilesSound`, `IndexSound`, `LastFileSound`): that is how far one committed file
  reaches, and why nothing is lost while there is one file. Undo data that is there holds
  the coins its block found (`UndoSound`). `MemorySound` follows a replay: undoing a block makes the
  outpoints it touches exact whatever they held, and so does redoing one, so that an
  outpoint is exact unless a block still to be undone or redone touches it.
* `TxIndexProofs`, last section, on `Callbacks`: `CallbacksAreSerial`, the refinement of `SerialQueue`;
  `CallbacksNeverForgotten`; `SchedulerNeverOversleeps`, if there is a scheduler thread. For
  any number of threads and clients. `Callbacks` has no run of its own: its results are
  proved, and `TxIndex` is checked on top of the abstract queue.
* `TxIndexProofs`: `AlwaysIndexComplete`, `AlwaysLocatorIndexed`,
  `AlwaysWithChainWhenQuiet`, `AlwaysAnswerTrue`, `UnkilledAnswerWritten`. From `TxIndexAssumption` (blocks form a
  tree of finite paths). For the first two the invariant adds that what `ThreadSync` has
  reached is indexed up to the block it is about to write (`SyncIndexed`). For the third, `Orderly`
  says of every block that is going to be connected, in the callback that runs, in the
  queue or among the notifications still to be queued: unless the tip is at or below it,
  a later notification tells of a block that connects to it or to an ancestor; and
  `WillFollow` says the same of the block a synced index is at. A change of the chain keeps this
  because its notifications begin at the fork and follow the new branch block by
  block (`ConnectedFeeds`). For the fourth, `Coming` singles out the part of the queue that
  was there when the caller looked at the tip: it leads the index to that tip
  (`Reaches`), and it runs before the caller's promise. The first, the second and
  the fourth are up to skipped blocks; the fifth says that without a kill there are none, so that a
  true answer then holds without exception.
* `BlockDownloadProofs`: `DownloadTypes`, `InFlightAlwaysExact`, `StallersAlwaysOwe`.
  From `DownloadAssumption`, for any finite set of peers. The counters are cardinalities,
  so the invariant adds that the lists are finite (`FiniteFlights`), and that a peer that
  is not connected has an unused state (`Fresh`), which a new connection starts from.
  Lemmas on heights show that a request picks no more blocks than the limit leaves.
* `MempoolProofs`: `CountsAlwaysFollowLinks`, `LinksAlwaysExact`, `PoolAlwaysReady`,
  `StakeVerdictAlwaysExact`, all from `PoolInvariant`. `MempoolInvariant` holds the invariant and
  the notions the argument is made of, `MempoolLemmas` what is proved of the operators of
  `Mempool`, `MempoolProofs` what its actions do. From `MempoolAssumption`: finitely many
  transactions; blocks that form a tree and pass what `ConnectBlock` checks of their inputs
  (unspent, mature, final, past their locks, no transaction twice on a chain); a coinbase
  maturity above zero; outputs numbered per transaction. Nothing is assumed of the limits, the
  fees, the number of commands or of faults. The four properties are not inductive: two hold
  only at rest, and what makes them hold then is what happened in the middle of the move.
  `PoolInv` says of every state:
  * `Sound`: an entry is linked with what it spends from and what spends from it, except that
    a re-added transaction (`ReAdded`) does not know the children that stayed in the pool;
    counts are those of the links. Counts stay right while links are incomplete because
    `UpdateForRemoveFromMempool` walks the same links it takes away. The lemmas say how the
    set reached from an entry changes when a set closed downwards leaves (`RemoveWithDescendants`),
    when one entry leaves from under its descendants (`RemoveConfirmed`), when an entry
    arrives, and when one re-added transaction gets its children. That no entry is passed over
    or counted twice by `UpdateTransactionsFromBlock` needs that it goes from children to
    parents, and that no re-added transaction spends from one that stayed.
  * `Sources`: no entry is confirmed or waits to return, no two spend the same output, and an
    input comes from an entry, a transaction that waits to return or an unspent output of
    the chain. Cached lock points are right on every chain that holds their block
    (`LockSound`), which is why `removeForReorg` may trust them.
  * `Queued`: the disconnected transactions wait in an order in which none returns before
    what it spends from, none of them spends from an entry that stayed, and no two of them
    conflict. `DisconnectTip` keeps this by taking the block from its end, and the overflow of
    the pool of disconnected transactions by dropping the newest first, with what spends from them.
  * `Moving` and `Ready`: where the tip is between the old tip and the target, that what waits was
    confirmed by the old chain and is not by the present one, and that every entry could be mined
    at rest and in a move that has disconnected nothing (`Minable`).

  For the stake: a coinstake cannot spend the coinbase of its own block because of the
  maturity, so its input is an unspent output of the parent's chain, its transaction is
  confirmed and hence not in the pool, and the height of the coin leads `GetTransaction` to the
  one block of this chain that holds it.
  The recursive functions of `Mempool` (`Reach`, and the walks along a block or a queue) are
  handled by induction over numbers and over the finite sets of transactions, carried
  out with the least counterexample instead of an induction rule.

Only model-checked: every liveness property (`ActivationEnds`, `BestChainWins`,
`WaitReturns`, `RecoveryEnds`, `PromisesKept`, `Downloaded`), which is out of the prover's
reach. Every invariant and every action property of a passing run is proved.

## 5. Findings

* `racing`: an activation that is between two rounds keeps its target while
  `invalidateblock` runs, and connects the invalidated block again. The same
  window can reach the assertion of `PruneBlockIndexCandidates`.
* `early_return`: in `ConnectBlock`, `txdata` is declared after the control
  object, so an early return destroys it before the queue is finished.
* `undo_files`: a flush commits the last block file and its rev file, although undo data
  may have gone to an earlier one. After a power failure the index names undo data that
  is gone. If the coins were flushed as well, the next start fails in `VerifyDB`; if a flush
  of coins was interrupted, a `ReplayBlocks` that has to undo the block fails.
* `index_skipped`: `ThreadSync` names a block in the locator before it writes the block. After
  a kill in between the index goes on behind it and reports that it is in sync. With
  `-txindex` a stake of a transaction in that block is then refused, since
  `CheckProofOfStake` finds it in the index or not at all.

`PROJECT.json` quotes the lines each of these disagrees with.

Two more limits of `reconsiderblock` explain hypotheses of section 4. They have no
run of their own; with the constants of `Racing.cfg`, `QuietRpc = TRUE`,
`InvalidateTargets = {1}`, `PreciousTargets = {}` and the given targets TLC shows them:

* `ReconsiderTargets = {2}`, `CandidatesComplete`: on a child, it clears the mark of the
  invalidated parent (`validation.cpp:2988`) without making the parent a candidate.
* `ReconsiderTargets = {1}`, `LinkedWhenAncestorsArrived`: a block whose data arrives while its
  parent is marked is not remembered as unlinked (`validation.cpp:3080`) and stays
  unlinked after `reconsiderblock` of the parent.

## 6. Not modelled

* Difficulty and the compact format, coin age and reward: 256-bit integers, `double` and
  `exp`. TLC's integers have 32 bits, and with a narrower format the overflow and
  truncation the source is exposed to would happen elsewhere.
* The minter (`pos/staker.cpp`, `miner.cpp`). `XPChainMinter` reads the height and the tip
  without `cs_main`; `CreateNewBlock` compares the tip again under the lock and gives up if
  it moved, and `ProcessNewBlock` treats the result like a peer's block, so that a stale
  tip costs a candidate.
* Reindexing and pruning. `LoadExternalBlockFile` runs in a thread of its own, while
  the node ignores the headers and blocks of its peers; `ChainState` models the same linking for blocks that arrive out of order.
  Pruning takes data away again and would change the statements of `ActiveChainStored`
  and `Recoverable`.
* Amounts, sigops, merkle trees, version bits and the script interpreter: sequential
  computations over one block or one transaction.
* Compact blocks, transaction relay, orphans, the address manager, sockets; the wallet;
  RPC, REST and the graphical interface; cryptography and encodings.

`PROJECT.json` lists the hazards that stay without a property, each with its reason.

## 7. Running

    tlc -config Network.cfg MCChainState
    tlc -config Operator.cfg MCChainState
    tlc -config Coins.cfg CoinsCache
    tlc -config Scripts.cfg CheckQueue
    tlc -config Crash.cfg MCCrashRecovery
    tlc -config Index.cfg MCTxIndex
    tlc -config Download.cfg MCBlockDownload
    tlc -config Pool.cfg MCMempool
    tlapm ChainStateProofs.tla
    tlapm CoinsCacheProofs.tla
    tlapm CheckQueueProofs.tla
    tlapm CrashRecoveryProofs.tla
    tlapm TxIndexProofs.tla
    tlapm BlockDownloadProofs.tla
    tlapm MempoolLemmas.tla
    tlapm MempoolProofs.tla

Each run takes two to three minutes at most with two workers. The proofs of the pool take up
to twenty minutes per module, those of the chain ten, the others less. Leaves have a limit of 5 s of wall-clock time, so the modules
are best checked one or two at a time. tlapm's SMT backend gets slower with every leaf it
translates, until small leaves of a long module run out of time. Every proof
module therefore starts with `USE Zenon`, and a leaf that needs arithmetic or sequences asks
for `SMT` by name.
