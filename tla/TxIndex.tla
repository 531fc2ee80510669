------------------------------- MODULE TxIndex -------------------------------
(***************************************************************************)
(* BaseIndex (src/index/base.cpp): the transaction index follows the       *)
(* active chain, first with a thread of its own and then through the       *)
(* callbacks of the validation interface, which run behind the chain.  The *)
(* chain is changed under cs_main by the validation thread, which queues   *)
(* its notifications before it lets go of the lock (src/validation.cpp).   *)
(* The node may be killed and started again at any time.  The queue of     *)
(* callbacks is SerialQueue, which Callbacks implements.                   *)
(*                                                                         *)
(* The index is the set of blocks whose transactions are in its database.  *)
(* A locator is the block it begins with; chains are shorter than ten      *)
(* blocks, so that it holds all ancestors.                                 *)
(***************************************************************************)
EXTENDS Naturals, Sequences, FiniteSets

CONSTANTS
  NONE,
  Blocks, Genesis,
  Parent,         \* pprev
  Path,           \* a block with all its ancestors
  MaxPending,     \* queued callbacks ActivateBestChain puts up with
  MaxMoves,       \* bound on changes of the chain
  MaxRestarts     \* bound on kills

\* the threads that add callbacks
Validation == "validation"
Caller == "caller"
Clients == {Validation, Caller}

Callback == ({"connected", "flushed"} \X Blocks) \cup ({"promise"} \X Clients)

ASSUME TxIndexAssumption ==
  /\ Genesis \in Blocks /\ NONE \notin Blocks
  /\ Path \in [Blocks -> SUBSET Blocks] /\ Path[Genesis] = {Genesis}
  /\ Parent \in [Blocks -> Blocks \cup {NONE}] /\ Parent[Genesis] = NONE
  /\ \A b \in Blocks \ {Genesis} :
       Parent[b] \in Blocks /\ Path[b] = Path[Parent[b]] \cup {b}
  /\ \A b \in Blocks :
       Genesis \in Path[b] /\ (\A a \in Path[b] : Path[a] \subseteq Path[b])
  /\ \A a, b \in Blocks :
       \E c \in Path[a] \cap Path[b] : Path[a] \cap Path[b] \subseteq Path[c]
  /\ \A b \in Blocks :
       /\ IsFiniteSet(Path[b])
       /\ \A a \in Path[b] \ {b} : b \notin Path[a]
       /\ \A a, c \in Path[b] : a \in Path[c] \/ c \in Path[a]
  /\ \A b \in Blocks \ {Genesis} : b \notin Path[Parent[b]]
  /\ MaxPending \in Nat /\ MaxMoves \in Nat /\ MaxRestarts \in Nat

VARIABLES
  queue, busy,  \* the callbacks of the validation interface
  tip,          \* chainActive.Tip()
  todo,         \* notifications to queue before cs_main is unlocked
  waiting,      \* threads in SyncWithValidationInterfaceQueue
  best,         \* m_best_block_index
  synced,       \* m_synced
  sync, pindex, \* ThreadSync
  call, asked,  \* a caller of BlockUntilSyncedToCurrentChain, and the tip it saw
  \* disk
  flushed,      \* the block of the flushed chain state
  written,      \* blocks in the index
  locator,      \* DB_BEST_BLOCK of the index
  skipped,      \* blocks a killed ThreadSync had named and not written
  moves, restarts

Queue == INSTANCE SerialQueue WITH Callbacks <- Callback

callbackVars == <<queue, busy>>
chain == <<tip, todo, flushed, moves>>
index == <<best, synced, sync, pindex, written, locator, skipped>>
caller == <<call, asked>>
vars == <<callbackVars, chain, waiting, index, caller, restarts>>

\* LastCommonAncestor
Fork(a, b) == LET common == Path[a] \cap Path[b]
              IN  CHOOSE c \in common : common \subseteq Path[c]

\* Init, with FindForkInGlobalIndex; then ThreadSync begins
Start(t) ==
  LET b == IF locator = NONE THEN Genesis ELSE Fork(locator, t) IN
  /\ best' = b /\ synced' = (b = t)
  /\ pindex' = b /\ sync' = IF b = t THEN "done" ELSE "next"

Init ==
  /\ Queue!Init
  /\ tip \in Blocks /\ flushed = tip /\ todo = <<>> /\ moves = 0
  /\ waiting = {} /\ call = "idle" /\ asked = NONE
  /\ written = {} /\ locator = NONE /\ skipped = {} /\ restarts = 0
  /\ best = Genesis /\ synced = (tip = Genesis)
  /\ pindex = Genesis /\ sync = IF synced THEN "done" ELSE "next"

-----------------------------------------------------------------------------
(* The validation thread.                                                  *)

\* cs_main is held from a change of the chain to its last notification
CsMainFree == todo = <<>>
ValidationIdle == CsMainFree /\ Validation \notin waiting

\* what ActivateBestChain says of a change from a to b: the blocks of the new
\* branch were connected, in order
Connected(a, b) ==
  LET branch == Path[b] \ Path[a]
      At(i) == CHOOSE x \in branch : Cardinality(Path[x] \cap branch) = i
  IN  [i \in 1 .. Cardinality(branch) |-> <<"connected", At(i)>>]

\* a flush in the middle of a change from a to b: the block the coins are then
\* at, and chainActive.Tip(), which ConnectTip and DisconnectTip set afterwards
FlushPoints(a, b) ==
  {<<Parent[d], d>> : d \in Path[a] \ Path[b]}
    \cup {<<d, Parent[d]>> : d \in Path[b] \ Path[a]}

\* ActivateBestChain, one round under cs_main, or InvalidateBlock, which only
\* disconnects: BlockConnected is queued at the end, and ChainStateFlushed
\* before it if the coin cache is flushed on the way
ChangeTip(b) ==
  /\ ValidationIdle
  /\ moves < MaxMoves /\ moves' = moves + 1
  /\ Len(queue) <= MaxPending
  /\ b # tip /\ tip' = b
  /\ \/ todo' = Connected(tip, b) /\ UNCHANGED flushed
     \/ \E f \in FlushPoints(tip, b) :
          /\ flushed' = f[1]
          /\ todo' = <<<<"flushed", f[2]>>>> \o Connected(tip, b)
  /\ UNCHANGED <<callbackVars, waiting, index, caller, restarts>>

\* FlushStateToDisk on its own
FlushStateToDisk ==
  /\ ValidationIdle
  /\ flushed # tip /\ flushed' = tip
  /\ todo' = <<<<"flushed", tip>>>>
  /\ UNCHANGED <<callbackVars, tip, moves, waiting, index, caller, restarts>>

\* CMainSignals queues the next notification
Notify ==
  /\ todo # <<>> /\ Validation \notin waiting
  /\ Queue!Add(Head(todo))
  /\ todo' = Tail(todo)
  /\ UNCHANGED <<tip, flushed, moves, waiting, index, caller, restarts>>

\* SyncWithValidationInterfaceQueue, up to the wait
SyncWithQueue(p) ==
  /\ Queue!Add(<<"promise", p>>)
  /\ waiting' = waiting \cup {p}

\* mutant: waits for a promise that was not added to the queue
LimitQueueUnheard ==
  /\ ValidationIdle
  /\ Len(queue) > MaxPending
  /\ waiting' = waiting \cup {Validation}
  /\ UNCHANGED <<callbackVars, chain, index, caller, restarts>>

\* ActivateBestChain waits for a queue that has grown too long
LimitQueue ==
  /\ ValidationIdle
  /\ Len(queue) > MaxPending
  /\ SyncWithQueue(Validation)
  /\ UNCHANGED <<chain, index, caller, restarts>>

-----------------------------------------------------------------------------
(* The index: ThreadSync.                                                  *)

\* the block after the fork point, in the active chain
IsNextSyncBlock(b) == b \in Path[tip] /\ Parent[b] = Fork(pindex, tip)

\* ThreadSync finds the next block
NextSyncBlock ==
  /\ sync = "next" /\ CsMainFree
  /\ \E b \in Blocks : IsNextSyncBlock(b) /\ pindex' = b
  /\ sync' \in {"locate", "write"}   \* every 30 seconds, the locator first
  /\ UNCHANGED <<callbackVars, chain, waiting, best, synced, written, locator,
                 skipped, caller, restarts>>

\* mutant: does not look for blocks that were connected meanwhile
CaughtUpUnseen ==
  /\ sync = "next" /\ CsMainFree
  /\ locator' = pindex /\ best' = pindex
  /\ synced' = TRUE /\ sync' = "done"
  /\ UNCHANGED <<callbackVars, chain, waiting, pindex, written, skipped, caller,
                 restarts>>

\* ThreadSync finds no further block
CaughtUp ==
  /\ sync = "next" /\ CsMainFree
  /\ \A b \in Blocks : ~ IsNextSyncBlock(b)
  /\ locator' = pindex /\ best' = pindex
  /\ synced' = TRUE /\ sync' = "done"
  /\ UNCHANGED <<callbackVars, chain, waiting, pindex, written, skipped, caller,
                 restarts>>

\* WriteBestBlock in ThreadSync
WriteBestBlock ==
  /\ sync = "locate" /\ CsMainFree
  /\ locator' = pindex /\ sync' = "write"
  /\ UNCHANGED <<callbackVars, chain, waiting, best, synced, pindex, written,
                 skipped, caller, restarts>>

\* WriteBlock in ThreadSync
WriteBlock ==
  /\ sync = "write"
  /\ written' = written \cup {pindex} /\ sync' = "next"
  /\ UNCHANGED <<callbackVars, chain, waiting, best, synced, pindex, locator,
                 skipped, caller, restarts>>

\* ThreadSync sees m_interrupt
Interrupted ==
  /\ sync = "next" /\ CsMainFree
  /\ restarts < MaxRestarts     \* the node is shutting down
  /\ locator' = pindex /\ sync' = "stopped"
  /\ UNCHANGED <<callbackVars, chain, waiting, best, synced, pindex, written,
                 skipped, caller, restarts>>

-----------------------------------------------------------------------------
(* The index: callbacks.                                                   *)

\* mutant: connects whatever comes
BlockConnectedAnyhow(b) ==
  /\ busy = {<<"connected", b>>} /\ Queue!End
  /\ IF synced
     THEN written' = written \cup {b} /\ best' = b
     ELSE UNCHANGED <<written, best>>
  /\ UNCHANGED <<chain, waiting, synced, sync, pindex, locator, skipped, caller,
                 restarts>>

\* BlockConnected: blocks that do not connect to an ancestor of the best one
\* are left from before the index was in sync
BlockConnected(b) ==
  /\ busy = {<<"connected", b>>} /\ Queue!End
  /\ IF synced /\ Parent[b] \in Path[best]
     THEN written' = written \cup {b} /\ best' = b
     ELSE UNCHANGED <<written, best>>
  /\ UNCHANGED <<chain, waiting, synced, sync, pindex, locator, skipped, caller,
                 restarts>>

\* mutant: trusts that the callbacks for the blocks came before
ChainStateFlushedUnchecked(b) ==
  /\ busy = {<<"flushed", b>>} /\ Queue!End
  /\ synced => CsMainFree
  /\ locator' = IF synced THEN b ELSE locator
  /\ UNCHANGED <<chain, waiting, best, synced, sync, pindex, written, skipped,
                 caller, restarts>>

\* ChainStateFlushed, which looks the block up under cs_main
ChainStateFlushed(b) ==
  /\ busy = {<<"flushed", b>>} /\ Queue!End
  /\ synced => CsMainFree
  /\ locator' = IF synced /\ b \in Path[best] THEN b ELSE locator
  /\ UNCHANGED <<chain, waiting, best, synced, sync, pindex, written, skipped,
                 caller, restarts>>

\* promise.set_value()
KeepPromise(p) ==
  /\ busy = {<<"promise", p>>} /\ Queue!End
  /\ waiting' = waiting \ {p}
  /\ UNCHANGED <<chain, index, caller, restarts>>

RunCallback ==
  \/ \E b \in Blocks : BlockConnected(b) \/ ChainStateFlushed(b)
  \/ \E p \in Clients : KeepPromise(p)

-----------------------------------------------------------------------------
(* BlockUntilSyncedToCurrentChain: idle, "behind" (the queue has to be     *)
(* drained), "draining", "true" (it has returned true).                    *)

\* mutant: does not compare the tip
AskOnlySynced ==
  /\ call \in {"idle", "true"} /\ synced /\ CsMainFree
  /\ asked' = tip /\ call' = "true"
  /\ UNCHANGED <<callbackVars, chain, waiting, index, restarts>>

\* what is known of the tip, under cs_main
Ask ==
  /\ call \in {"idle", "true"} /\ synced /\ CsMainFree
  /\ asked' = tip
  /\ call' = IF tip \in Path[best] THEN "true" ELSE "behind"
  /\ UNCHANGED <<callbackVars, chain, waiting, index, restarts>>

Drain ==
  /\ call = "behind"
  /\ SyncWithQueue(Caller) /\ call' = "draining"
  /\ UNCHANGED <<chain, index, asked, restarts>>

Drained ==
  /\ call = "draining" /\ Caller \notin waiting
  /\ call' = "true"
  /\ UNCHANGED <<callbackVars, chain, waiting, index, asked, restarts>>

-----------------------------------------------------------------------------

\* the node is killed and started again, with the chain state as last flushed
Restart ==
  /\ restarts < MaxRestarts /\ restarts' = restarts + 1
  /\ Queue!Crash
  /\ tip' = flushed /\ todo' = <<>>
  /\ waiting' = {} /\ call' = "idle" /\ asked' = NONE
  /\ skipped' = skipped \cup
                   IF sync = "write" /\ locator = pindex THEN {pindex} \ written
                                                         ELSE {}
  /\ Start(flushed)
  /\ UNCHANGED <<flushed, moves, written, locator>>

BeginCallback ==
  Queue!Begin /\ UNCHANGED <<chain, waiting, index, caller, restarts>>

ThreadSync == NextSyncBlock \/ CaughtUp \/ WriteBestBlock \/ WriteBlock

Next ==
  \/ \E b \in Blocks : ChangeTip(b)
  \/ FlushStateToDisk \/ Notify \/ LimitQueue
  \/ BeginCallback \/ RunCallback
  \/ ThreadSync \/ Interrupted
  \/ Ask \/ Drain \/ Drained
  \/ Restart

Spec == Init /\ [][Next]_vars

\* threads that have something to do go on; the chain need not change
FairSpec ==
  /\ Spec
  /\ WF_vars(BeginCallback \/ RunCallback)
  /\ WF_vars(Notify)
  /\ WF_vars(Drain \/ Drained)

-----------------------------------------------------------------------------
(* Properties.                                                             *)

\* the block and its ancestors are in the index; one that is created for an
\* existing chain begins after genesis
Indexed(b) == Path[b] \subseteq written \cup {Genesis}

\* the same, except for the blocks that a kill made the index skip: ThreadSync
\* had named them in the locator and not yet written them
IndexedButSkipped(b) == Path[b] \subseteq written \cup skipped \cup {Genesis}

\* m_best_block_index, "the last block in the chain that the index is in sync
\* with": all its ancestors are in the index but for skipped blocks, however
\* reorganizations, late callbacks and restarts come together
IndexComplete == IndexedButSkipped(best)

\* WriteBestBlock, ChainStateFlushed: the same of the locator on disk, from which
\* the next start goes on; ThreadSync may be about to write its block
LocatorIndexed ==
  \/ locator = NONE
  \/ IndexedButSkipped(locator)
  \/ sync = "write" /\ locator = pindex /\ IndexedButSkipped(Parent[pindex])

\* BlockConnected: once in sync the index is with the chain whenever nothing is
\* left to be told, although it ignores callbacks that do not connect
WithChainWhenQuiet ==
  synced /\ todo = <<>> /\ queue = <<>> /\ busy = {}
    => tip \in Path[best]

\* BlockUntilSyncedToCurrentChain: when it returns true, the chain it was called
\* in is in the index but for skipped blocks; if no kill came between a locator
\* and its block, all of it is
AnswerTrue == call = "true" => IndexedButSkipped(asked)

\* BlockUntilSyncedToCurrentChain, as src/index/base.h has it: it "blocks the
\* current thread until the index is caught up to the current state of the block
\* chain", so that the caller's chain is in the index when it returns true.  No
\* start goes back for a skipped block, and the answer is true all the same.
TrueAnswerWritten == call = "true" => Indexed(asked)

\* SyncWithValidationInterfaceQueue does not wait for ever, neither in an RPC
\* thread nor in ActivateBestChain
PromisesKept == \A p \in Clients : p \in waiting ~> p \notin waiting

=============================================================================
