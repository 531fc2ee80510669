----------------------------- MODULE ChainState -----------------------------
(***************************************************************************)
(* The block tree and the choice of the active chain: CChainState of       *)
(* src/validation.cpp with the parts of CBlockIndex (src/chain.h) that     *)
(* steer it.  Blocks are abstract: what a block's content decides (its     *)
(* parent, its accumulated work, whether its contextual check and its      *)
(* connection succeed) is given by the constants.                          *)
(*                                                                         *)
(* Locks.  cs_main protects every variable of the block tree; m_cs_chain-  *)
(* state admits one ActivateBestChain at a time.  The thread inside        *)
(* ActivateBestChain is the variable act; it releases cs_main between two  *)
(* rounds of its outer loop (act.pc = "outer"), and there every other      *)
(* handler may run while act.mostWork, a local of the activating thread,   *)
(* stays cached.  A handler that holds cs_main over several model steps    *)
(* keeps the others out through CsMainFree.                                *)
(***************************************************************************)
EXTENDS Integers, Sequences

CONSTANTS
  Blocks,        \* every block a peer, a file or a miner may deliver
  Genesis,       \* chainparams.GenesisBlock()
  NONE,          \* nullptr
  Parent,        \* hashPrevBlock
  Height,        \* nHeight
  Path,          \* a block with all its ancestors (the pprev chain)
  ChainWork,     \* nChainWork
  Addr,          \* address of the CBlockIndex: the comparator's tie break
  BadContext,    \* blocks that ContextualCheckBlock refuses
  BadConnect,    \* blocks that ConnectBlock refuses
  BatchSize,     \* the 32 of ActivateBestChainStep
  MinBlocksToKeep,   \* MIN_BLOCKS_TO_KEEP
  MinimumChainWork,  \* nMinimumChainWork
  \* what the operator may ask for, and how often
  InvalidateTargets, ReconsiderTargets, PreciousTargets,
  MaxRpc,
  QuietRpc       \* TRUE: the operator waits for the node to be idle

ASSUME TreeAssumption ==
  /\ Genesis \in Blocks /\ NONE \notin Blocks
  /\ Parent \in [Blocks -> Blocks \cup {NONE}]
  /\ Height \in [Blocks -> Nat]
  /\ ChainWork \in [Blocks -> Nat]
  /\ Path \in [Blocks -> SUBSET Blocks]
  /\ Addr \in [Blocks -> Nat]
  /\ Parent[Genesis] = NONE /\ Height[Genesis] = 0 /\ Path[Genesis] = {Genesis}
  /\ \A b \in Blocks \ {Genesis} :
       /\ Parent[b] \in Blocks
       /\ Height[b] = Height[Parent[b]] + 1
       /\ Path[b] = Path[Parent[b]] \cup {b}
       /\ ChainWork[b] > ChainWork[Parent[b]]
  /\ \A b \in Blocks :
       /\ Genesis \in Path[b]
       /\ \A a \in Path[b] : Path[a] \subseteq Path[b] /\ Height[a] <= Height[b]
       /\ \A a \in Path[b] \ {b} : Height[a] < Height[b] /\ ChainWork[a] < ChainWork[b]
       /\ \A a, c \in Path[b] : a \in Path[c] \/ c \in Path[a]
       /\ \A h \in 0 .. Height[b] : \E a \in Path[b] : Height[a] = h
  /\ \A a, b \in Blocks : Addr[a] = Addr[b] => a = b

ASSUME InputAssumption ==
  /\ BadContext \subseteq Blocks \ {Genesis}
  /\ BadConnect \subseteq Blocks \ {Genesis}
  /\ InvalidateTargets \subseteq Blocks \ {Genesis}
  /\ ReconsiderTargets \subseteq Blocks
  /\ PreciousTargets \subseteq Blocks
  /\ BatchSize \in Nat \ {0} /\ MinBlocksToKeep \in Nat
  /\ MinimumChainWork \in Nat /\ MaxRpc \in Nat /\ QuietRpc \in BOOLEAN

VARIABLES
  mapBlockIndex,  \* blocks whose header has an entry
  valid,          \* nStatus & BLOCK_VALID_MASK
  haveData,       \* BLOCK_HAVE_DATA (and, pruning left out, nTx > 0)
  haveUndo,       \* BLOCK_HAVE_UNDO
  failedValid,    \* BLOCK_FAILED_VALID
  failedChild,    \* BLOCK_FAILED_CHILD
  linked,         \* nChainTx # 0: data of the block and all ancestors received
  seqId,          \* nSequenceId
  nBlockSequenceId,
  candidates,     \* setBlockIndexCandidates
  unlinked,       \* mapBlocksUnlinked: per parent, its children in arrival order
  failedBlocks,   \* m_failed_blocks
  bestHeader,     \* pindexBestHeader
  bestInvalid,    \* pindexBestInvalid
  dirty,          \* setDirtyBlockIndex
  tip,            \* chainActive.Tip()
  precious,       \* nLastPreciousChainwork and nBlockReverseSequenceId
  queue,          \* the deque of ReceivedBlockTransactions
  pending,        \* some thread is about to call ActivateBestChain
  act,            \* the thread inside ActivateBestChain
  rpcs            \* operator calls so far (bound)

status == <<valid, haveData, haveUndo, failedValid, failedChild>>
order  == <<linked, seqId, nBlockSequenceId, unlinked, queue>>
best   == <<failedBlocks, bestHeader, bestInvalid>>
vars == <<mapBlockIndex, status, order, candidates, best, dirty, tip, precious,
          pending, act, rpcs>>

-----------------------------------------------------------------------------
(* Block index entries.                                                    *)

NO_HEADER    == 0
VALID_TREE   == 2
VALID_TRANSACTIONS == 3
VALID_SCRIPTS      == 5

Failed == failedValid \cup failedChild

\* CBlockIndex::IsValid
IsValid(b, upTo) == b \notin Failed /\ valid[b] >= upTo

\* mutant: the new level is added to the old one, which is not masked out
RaiseValidityUnmasked(b, upTo) ==
  IF b \notin Failed /\ valid[b] < upTo THEN [valid EXCEPT ![b] = @ + upTo] ELSE valid

\* CBlockIndex::RaiseValidity
RaiseValidity(b, upTo) ==
  IF b \notin Failed /\ valid[b] < upTo THEN [valid EXCEPT ![b] = upTo] ELSE valid

\* CBlockIndexWorkComparator: a sorts before (is worse than) b under ids s
WorseBy(s, a, b) ==
  \/ ChainWork[a] < ChainWork[b]
  \/ ChainWork[a] = ChainWork[b] /\ s[a] > s[b]
  \/ ChainWork[a] = ChainWork[b] /\ s[a] = s[b] /\ Addr[a] > Addr[b]

Worse(a, b) == WorseBy(seqId, a, b)

\* chainActive.Contains and CBlockIndex::GetAncestor
InChain(b) == b \in Path[tip]
AncestorAt(b, h) == CHOOSE a \in Path[b] : Height[a] = h

\* InvalidChainFound, and the same test in FindMostWorkChain
MoreInvalid(b) ==
  IF bestInvalid = NONE \/ ChainWork[b] > ChainWork[bestInvalid] THEN b ELSE bestInvalid

\* mutant: the current tip is pruned too
BetterThan(S, t) == {c \in S : Worse(t, c)}

\* PruneBlockIndexCandidates, against a new tip t
NotWorseThan(S, t) == {c \in S : ~ Worse(c, t)}

-----------------------------------------------------------------------------
(* Who holds cs_main.                                                      *)

HoldsCsMain == {"find", "step", "disconnect", "connect"}
CsMainFree  == act.pc \notin HoldsCsMain /\ queue = << >>
NodeIdle    == act.pc = "idle" /\ queue = << >> /\ ~ pending

Idle == [pc |-> "idle", mostWork |-> NONE, startTip |-> NONE, oldTip |-> NONE,
         batchEnd |-> NONE, connected |-> FALSE]

\* the genesis block is loaded (LoadGenesisBlock) and activated (LoadChainTip);
\* ConnectBlock returns early for it, so it has no undo data and stays at
\* VALID_TRANSACTIONS
Init ==
  /\ mapBlockIndex = {Genesis}
  /\ valid = [b \in Blocks |-> IF b = Genesis THEN VALID_TRANSACTIONS ELSE NO_HEADER]
  /\ haveData = {Genesis} /\ haveUndo = {}
  /\ failedValid = {} /\ failedChild = {}
  /\ linked = {Genesis}
  /\ seqId = [b \in Blocks |-> IF b = Genesis THEN 1 ELSE 0]
  /\ nBlockSequenceId = 2
  /\ candidates = {Genesis}
  /\ unlinked = [b \in Blocks |-> << >>]
  /\ queue = << >>
  /\ failedBlocks = {} /\ bestHeader = Genesis /\ bestInvalid = NONE
  /\ dirty = {Genesis}
  /\ tip = Genesis
  /\ precious = [work |-> 0, revId |-> -1]
  /\ pending = FALSE /\ act = Idle /\ rpcs = 0

-----------------------------------------------------------------------------
(* Headers and blocks arriving.                                            *)

\* AcceptBlockHeader finds no reason to refuse a header whose parent is known
HeaderAccepted(b) ==
  \/ b \in mapBlockIndex /\ b \notin Failed
  \/ /\ b \notin mapBlockIndex
     /\ Parent[b] \in mapBlockIndex \ Failed
     /\ \/ IsValid(Parent[b], VALID_SCRIPTS)
        \/ Path[Parent[b]] \cap failedBlocks = {}

\* ... or it descends from a block of m_failed_blocks through blocks that do
\* not know it yet: these are marked, down to one such failed ancestor
DescendsFromFailed(b) ==
  /\ b \notin mapBlockIndex
  /\ Parent[b] \in mapBlockIndex \ Failed
  /\ ~ IsValid(Parent[b], VALID_SCRIPTS)
  /\ \E f \in Path[Parent[b]] \cap failedBlocks :
       /\ failedChild' = failedChild \cup (Path[Parent[b]] \ Path[f])
       /\ dirty' = dirty \cup (Path[Parent[b]] \ Path[f])
  /\ UNCHANGED <<mapBlockIndex, valid, haveData, haveUndo, failedValid, order,
                 candidates, best, tip, precious, pending, act, rpcs>>

\* AddToBlockIndex, when the header is new
AddToBlockIndex(b) ==
  /\ mapBlockIndex' = mapBlockIndex \cup {b}
  /\ bestHeader' = IF b \notin mapBlockIndex /\ ChainWork[bestHeader] < ChainWork[b]
                   THEN b ELSE bestHeader

\* ProcessNewBlockHeaders with one header
AcceptBlockHeader(b) ==
  /\ CsMainFree
  /\ b \notin mapBlockIndex
  /\ Parent[b] \in mapBlockIndex
  /\ \/ /\ HeaderAccepted(b)
        /\ AddToBlockIndex(b)
        /\ valid' = RaiseValidity(b, VALID_TREE)
        /\ dirty' = dirty \cup {b}
        /\ UNCHANGED <<haveData, haveUndo, failedValid, failedChild, order,
                       candidates, failedBlocks, bestInvalid, tip, precious,
                       pending, act, rpcs>>
     \/ DescendsFromFailed(b)

\* the tests of AcceptBlock that drop a block nobody asked for
Unwanted(b) ==
  \/ ChainWork[b] < ChainWork[tip]
  \/ Height[b] > Height[tip] + MinBlocksToKeep
  \/ ChainWork[b] < MinimumChainWork

\* mutant: the parent only needs a header
ReceivedWithoutAncestors(b) ==
  /\ haveData' = haveData \cup {b}
  /\ valid' = RaiseValidity(b, VALID_TRANSACTIONS)
  /\ queue' = <<b>>
  /\ UNCHANGED <<unlinked, haveUndo, failedValid, failedChild, linked, seqId, nBlockSequenceId>>

\* mutant: the validity is not raised
ReceivedNotRaised(b) ==
  /\ haveData' = haveData \cup {b}
  /\ IF Parent[b] \in linked
     THEN queue' = <<b>> /\ UNCHANGED unlinked
     ELSE unlinked' = [unlinked EXCEPT ![Parent[b]] = Append(@, b)] /\ UNCHANGED queue
  /\ UNCHANGED <<valid, haveUndo, failedValid, failedChild, linked, seqId, nBlockSequenceId>>

\* ReceivedBlockTransactions up to its loop: the block joins the queue of
\* blocks to link, or waits for its parent's data
ReceivedBlockTransactions(b) ==
  /\ haveData' = haveData \cup {b}
  /\ valid' = RaiseValidity(b, VALID_TRANSACTIONS)
  /\ IF Parent[b] \in linked
     THEN queue' = <<b>> /\ UNCHANGED unlinked
     ELSE /\ unlinked' = IF IsValid(Parent[b], VALID_TREE)
                         THEN [unlinked EXCEPT ![Parent[b]] = Append(@, b)]
                         ELSE unlinked
          /\ UNCHANGED queue
  /\ UNCHANGED <<haveUndo, failedValid, failedChild, linked, seqId, nBlockSequenceId>>

\* mutant: children that arrived earlier are not looked up
LinkWithoutChildren ==
  /\ queue # << >>
  /\ LET b == Head(queue)
         s == [seqId EXCEPT ![b] = nBlockSequenceId]
     IN /\ linked' = linked \cup {b}
        /\ seqId' = s
        /\ nBlockSequenceId' = nBlockSequenceId + 1
        /\ candidates' = IF WorseBy(s, b, tip) THEN candidates ELSE candidates \cup {b}
        /\ queue' = Tail(queue)
  /\ UNCHANGED <<mapBlockIndex, status, unlinked, best, dirty, tip, precious, pending, act, rpcs>>

\* mutant: every linked block becomes a candidate
LinkAlwaysCandidate ==
  /\ queue # << >>
  /\ LET b == Head(queue)
     IN /\ linked' = linked \cup {b}
        /\ seqId' = [seqId EXCEPT ![b] = nBlockSequenceId]
        /\ nBlockSequenceId' = nBlockSequenceId + 1
        /\ candidates' = candidates \cup {b}
        /\ queue' = Tail(queue) \o unlinked[b]
        /\ unlinked' = [unlinked EXCEPT ![b] = << >>]
  /\ UNCHANGED <<mapBlockIndex, status, best, dirty, tip, precious, pending, act, rpcs>>

\* one round of the loop of ReceivedBlockTransactions, cs_main held throughout
LinkBlock ==
  /\ queue # << >>
  /\ LET b == Head(queue)
         s == [seqId EXCEPT ![b] = nBlockSequenceId]
     IN /\ linked' = linked \cup {b}
        /\ seqId' = s
        /\ nBlockSequenceId' = nBlockSequenceId + 1
        /\ candidates' = IF WorseBy(s, b, tip) THEN candidates ELSE candidates \cup {b}
        /\ queue' = Tail(queue) \o unlinked[b]
        /\ unlinked' = [unlinked EXCEPT ![b] = << >>]
  /\ UNCHANGED <<mapBlockIndex, status, best, dirty, tip, precious, pending, act, rpcs>>

\* ProcessNewBlock: AcceptBlock under cs_main, then ActivateBestChain
ProcessNewBlock(b, fRequested) ==
  /\ CsMainFree
  /\ b # Genesis
  /\ Parent[b] \in mapBlockIndex
  /\ \/ /\ HeaderAccepted(b)
        /\ AddToBlockIndex(b)
        /\ \/ \* already have it, or unrequested and not worth keeping
              /\ b \in haveData \/ (~ fRequested /\ Unwanted(b))
              /\ valid' = RaiseValidity(b, VALID_TREE)
              /\ dirty' = IF b \in mapBlockIndex THEN dirty ELSE dirty \cup {b}
              /\ pending' = TRUE
              /\ UNCHANGED <<haveData, haveUndo, failedValid, failedChild, order>>
           \/ \* ContextualCheckBlock fails: the header is marked, nothing activated
              /\ b \notin haveData /\ (fRequested \/ ~ Unwanted(b))
              /\ b \in BadContext
              /\ valid' = RaiseValidity(b, VALID_TREE)
              /\ failedValid' = failedValid \cup {b}
              /\ dirty' = dirty \cup {b}
              /\ UNCHANGED <<haveData, haveUndo, failedChild, order, pending>>
           \/ /\ b \notin haveData /\ (fRequested \/ ~ Unwanted(b))
              /\ b \notin BadContext
              /\ ReceivedBlockTransactions(b)
              /\ dirty' = dirty \cup {b}
              /\ pending' = TRUE
        /\ UNCHANGED <<candidates, failedBlocks, bestInvalid, tip, precious, act, rpcs>>
     \/ DescendsFromFailed(b)

-----------------------------------------------------------------------------
(* ActivateBestChain.                                                      *)

\* a thread that accepted a block, or an operator, calls ActivateBestChain and
\* gets m_cs_chainstate
StartActivation ==
  /\ pending /\ act.pc = "idle" /\ queue = << >>
  /\ pending' = FALSE
  /\ act' = [Idle EXCEPT !.pc = "outer"]
  /\ UNCHANGED <<mapBlockIndex, status, order, candidates, best, dirty, tip,
                 precious, rpcs>>

\* where a round of the inner loop begins: pindexMostWork is looked for only
\* when no earlier round left one
NextRound(mostWork) == IF mostWork = NONE THEN "find" ELSE "step"

\* take cs_main at the top of the outer loop
LockCsMain ==
  /\ act.pc = "outer" /\ queue = << >>
  /\ act' = [act EXCEPT !.pc = NextRound(act.mostWork), !.startTip = tip,
                        !.connected = FALSE]
  /\ UNCHANGED <<mapBlockIndex, status, order, candidates, best, dirty, tip,
                 precious, pending, rpcs>>

\* the best entry of setBlockIndexCandidates, NONE if there is none
BestCandidate ==
  IF candidates = {} THEN {NONE}
  ELSE {c \in candidates : \A d \in candidates \ {c} : Worse(d, c)}

\* mutant: the failed candidate stays in the set
FindKeepsFailed ==
  /\ act.pc = "find"
  /\ \E new \in BestCandidate :
       \/ /\ (Path[new] \ Path[tip]) \cap Failed = {}
          /\ act' = [act EXCEPT !.pc = "step", !.mostWork = new]
          /\ UNCHANGED bestInvalid
       \/ /\ (Path[new] \ Path[tip]) \cap Failed # {}
          /\ bestInvalid' = MoreInvalid(new)
          /\ UNCHANGED act
  /\ UNCHANGED <<mapBlockIndex, status, order, candidates, failedBlocks, bestHeader,
                 dirty, tip, precious, pending, rpcs>>

\* mutant: only the candidate itself is tested, not its ancestors
FindTestsTipOnly ==
  /\ act.pc = "find"
  /\ \E new \in BestCandidate :
       \/ /\ new \notin Failed
          /\ act' = [act EXCEPT !.pc = "step", !.mostWork = new]
          /\ UNCHANGED <<candidates, bestInvalid>>
       \/ /\ new \in Failed
          /\ candidates' = candidates \ {new}
          /\ bestInvalid' = MoreInvalid(new)
          /\ UNCHANGED act
  /\ UNCHANGED <<mapBlockIndex, status, order, failedBlocks, bestHeader, dirty, tip,
                 precious, pending, rpcs>>

\* one round of the loop of FindMostWorkChain
FindMostWorkChain ==
  /\ act.pc = "find"
  /\ \E new \in BestCandidate :
       \/ /\ new # NONE => (Path[new] \ Path[tip]) \cap Failed = {}
          /\ act' = [act EXCEPT !.pc = "step", !.mostWork = new]
          /\ UNCHANGED <<candidates, failedChild, bestInvalid>>
       \/ \* the failed block nearest to the candidate takes all between with it
          /\ new # NONE
          /\ \E test \in (Path[new] \ Path[tip]) \cap Failed :
               LET above == Path[new] \ Path[test]
               IN /\ above \cap Failed = {}
                  /\ failedChild' = failedChild \cup above
                  /\ candidates' = candidates \ (above \cup {test})
          /\ bestInvalid' = MoreInvalid(new)
          /\ UNCHANGED act
  /\ UNCHANGED <<mapBlockIndex, valid, haveData, haveUndo, failedValid, order,
                 failedBlocks, bestHeader, dirty, tip, precious, pending, rpcs>>

\* mutant: one round of the outer loop is all
UnlockForGood(a, t) == Idle

\* leave the inner loop with tip t: cs_main is released, and the outer loop
\* goes on until the tip is the chain it was after
Unlock(a, t) ==
  IF ~ a.connected \/ t = a.mostWork
  THEN Idle
  ELSE [Idle EXCEPT !.pc = "outer", !.mostWork = a.mostWork]

\* mutant: cs_main is released after every step
AfterStepUnlocks(t, m) ==
  Unlock([act EXCEPT !.mostWork = m, !.connected = TRUE], t)

\* ActivateBestChainStep is over with tip t and pindexMostWork m: leave the
\* inner loop unless the tip is worse than where the round started
AfterStep(t, m) ==
  LET a == [act EXCEPT !.mostWork = m, !.connected = TRUE, !.oldTip = NONE,
                       !.batchEnd = NONE]
  IN IF Worse(t, act.startTip)
     THEN [a EXCEPT !.pc = NextRound(m)]
     ELSE Unlock(a, t)

\* the last block of the batch that starts above t
BatchEnd(t) ==
  AncestorAt(act.mostWork, IF Height[t] + BatchSize < Height[act.mostWork]
                           THEN Height[t] + BatchSize ELSE Height[act.mostWork])

\* what ActivateBestChainStep does next once blocks down to t are disconnected
AfterDisconnect(t) ==
  IF t \notin Path[act.mostWork]
  THEN [act EXCEPT !.pc = "disconnect"]
  ELSE IF t = act.mostWork
  THEN AfterStep(t, act.mostWork)
  ELSE [act EXCEPT !.pc = "connect", !.batchEnd = BatchEnd(t)]

\* the test before ActivateBestChainStep, and its entry
StartStep ==
  /\ act.pc = "step"
  /\ act' = IF act.mostWork \in {NONE, tip}
            THEN Unlock(act, tip)
            ELSE [AfterDisconnect(tip) EXCEPT !.oldTip = tip]
  /\ UNCHANGED <<mapBlockIndex, status, order, candidates, best, dirty, tip,
                 precious, pending, rpcs>>

DisconnectTip ==
  /\ act.pc = "disconnect"
  /\ tip' = Parent[tip]
  /\ act' = AfterDisconnect(Parent[tip])
  /\ UNCHANGED <<mapBlockIndex, status, order, candidates, best, dirty, precious,
                 pending, rpcs>>

\* the block after the tip towards act.mostWork
NextToConnect == AncestorAt(act.mostWork, Height[tip] + 1)

\* ConnectTip succeeds (ConnectBlock raises the validity and writes undo data),
\* PruneBlockIndexCandidates, and the test for being better off than before
ConnectTip ==
  /\ act.pc = "connect"
  /\ NextToConnect \notin BadConnect
  /\ LET b == NextToConnect
     IN /\ dirty' = IF b \in haveUndo /\ IsValid(b, VALID_SCRIPTS)
                    THEN dirty ELSE dirty \cup {b}
        /\ haveUndo' = haveUndo \cup {b}
        /\ valid' = RaiseValidity(b, VALID_SCRIPTS)
        /\ tip' = b
        /\ candidates' = NotWorseThan(candidates, b)
        /\ act' = IF ChainWork[b] > ChainWork[act.oldTip] \/ b = act.mostWork
                  THEN AfterStep(b, act.mostWork)
                  ELSE IF b = act.batchEnd
                  THEN [act EXCEPT !.batchEnd = BatchEnd(b)]
                  ELSE act
  /\ UNCHANGED <<mapBlockIndex, haveData, failedValid, failedChild, order, best,
                 precious, pending, rpcs>>

\* mutant: the batch in work leaves the set, the old tip with it
ConnectInvalidDropsTip ==
  /\ act.pc = "connect"
  /\ NextToConnect \in BadConnect
  /\ failedValid' = failedValid \cup {NextToConnect}
  /\ failedBlocks' = failedBlocks \cup {NextToConnect}
  /\ dirty' = dirty \cup {NextToConnect}
  /\ candidates' = candidates \ {NextToConnect, act.oldTip}
  /\ bestInvalid' = MoreInvalid(act.batchEnd)
  /\ act' = AfterStep(tip, NONE)
  /\ UNCHANGED <<mapBlockIndex, valid, haveData, haveUndo, failedChild, order,
                 bestHeader, tip, precious, pending, rpcs>>

\* ConnectTip fails: InvalidBlockFound marks the block, InvalidChainFound is
\* told the end of the batch, and pindexMostWork is wiped
ConnectTipInvalid ==
  /\ act.pc = "connect"
  /\ NextToConnect \in BadConnect
  /\ failedValid' = failedValid \cup {NextToConnect}
  /\ failedBlocks' = failedBlocks \cup {NextToConnect}
  /\ dirty' = dirty \cup {NextToConnect}
  /\ candidates' = candidates \ {NextToConnect}
  /\ bestInvalid' = MoreInvalid(act.batchEnd)
  /\ act' = AfterStep(tip, NONE)
  /\ UNCHANGED <<mapBlockIndex, valid, haveData, haveUndo, failedChild, order,
                 bestHeader, tip, precious, pending, rpcs>>

-----------------------------------------------------------------------------
(* Operator calls.  Each changes the tree under one hold of cs_main and     *)
(* then calls ActivateBestChain; none of them takes m_cs_chainstate first.  *)

OperatorCall ==
  /\ rpcs < MaxRpc /\ rpcs' = rpcs + 1
  /\ CsMainFree
  /\ QuietRpc => NodeIdle
  /\ pending' = TRUE

\* mutant: the block gets its new order but is not made a candidate
PreciousNotInserted(b) ==
  /\ OperatorCall
  /\ b \in mapBlockIndex
  /\ ChainWork[b] >= ChainWork[tip]
  /\ seqId' = [seqId EXCEPT ![b] = -1]
  /\ precious' = [work |-> ChainWork[tip], revId |-> -2]
  /\ candidates' = candidates \ {b}
  /\ UNCHANGED <<mapBlockIndex, status, linked, nBlockSequenceId, unlinked, queue,
                 best, dirty, tip, act>>

\* a call for a block with less work than the tip returns without effect
PreciousBlock(b) ==
  /\ OperatorCall
  /\ b \in mapBlockIndex
  /\ ChainWork[b] >= ChainWork[tip]
  /\ LET id == IF ChainWork[tip] > precious.work THEN -1 ELSE precious.revId
         s  == [seqId EXCEPT ![b] = id]
     IN /\ seqId' = s
        /\ precious' = [work |-> ChainWork[tip], revId |-> id - 1]
        /\ candidates' =
             IF IsValid(b, VALID_TRANSACTIONS) /\ b \in linked
             THEN {c \in candidates \cup {b} : ~ WorseBy(s, c, tip)}
             ELSE candidates \ {b}
  /\ UNCHANGED <<mapBlockIndex, status, linked, nBlockSequenceId, unlinked, queue,
                 best, dirty, tip, act>>

\* mutant: the blocks that became good enough are not made candidates again
InvalidateNotRefilled(b) ==
  /\ OperatorCall
  /\ b \in mapBlockIndex
  /\ LET above == IF InChain(b) THEN Path[tip] \ Path[b] ELSE {}
     IN /\ tip' = IF InChain(b) THEN Parent[b] ELSE tip
        /\ failedChild' = failedChild \cup above
        /\ dirty' = dirty \cup above \cup {b}
        /\ candidates' = (candidates \ (above \cup {b})) \cup {tip'}
  /\ failedValid' = failedValid \cup {b}
  /\ failedBlocks' = failedBlocks \cup {b}
  /\ bestInvalid' = MoreInvalid(b)
  /\ UNCHANGED <<mapBlockIndex, valid, haveData, haveUndo, order, bestHeader,
                 precious, act>>

InvalidateBlock(b) ==
  /\ OperatorCall
  /\ b \in mapBlockIndex
  /\ LET above == IF InChain(b) THEN Path[tip] \ Path[b] ELSE {}
         t == IF InChain(b) THEN Parent[b] ELSE tip
         ok(c) == /\ c \notin Failed \cup above \cup {b}
                  /\ valid[c] >= VALID_TRANSACTIONS /\ c \in linked
                  /\ ~ Worse(c, t)
     IN /\ tip' = t
        /\ failedChild' = failedChild \cup above
        /\ dirty' = dirty \cup above \cup {b}
        /\ candidates' = (candidates \ (above \cup {b})) \cup {c \in mapBlockIndex : ok(c)}
  /\ failedValid' = failedValid \cup {b}
  /\ failedBlocks' = failedBlocks \cup {b}
  /\ bestInvalid' = MoreInvalid(b)
  /\ UNCHANGED <<mapBlockIndex, valid, haveData, haveUndo, order, bestHeader,
                 precious, act>>

\* mutant: descendants keep their marks, and m_failed_blocks its entry
ResetOnlyBlock(b) ==
  /\ OperatorCall
  /\ b \in mapBlockIndex
  /\ failedValid' = failedValid \ {b}
  /\ failedChild' = failedChild \ {b}
  /\ dirty' = dirty \cup {b}
  /\ candidates' = candidates \cup
       {d \in {b} : valid[d] >= VALID_TRANSACTIONS /\ d \in linked /\ Worse(tip, d)}
  /\ bestInvalid' = IF bestInvalid = b THEN NONE ELSE bestInvalid
  /\ UNCHANGED <<mapBlockIndex, valid, haveData, haveUndo, order, bestHeader, tip,
                 precious, act, failedBlocks>>

\* reconsiderblock: the flags of the block, its descendants and its ancestors
\* go, and the descendants that beat the tip are candidates again
ResetBlockFailureFlags(b) ==
  /\ OperatorCall
  /\ b \in mapBlockIndex
  /\ LET below == {d \in mapBlockIndex :
                     b \in Path[d] /\ ~ IsValid(d, VALID_TRANSACTIONS)}
         cleared == below \cup (Path[b] \cap Failed)
     IN /\ failedValid' = failedValid \ cleared
        /\ failedChild' = failedChild \ cleared
        /\ failedBlocks' = failedBlocks \ cleared
        /\ dirty' = dirty \cup cleared
        /\ candidates' = candidates \cup
             {d \in below : valid[d] >= VALID_TRANSACTIONS /\ d \in linked /\ Worse(tip, d)}
        /\ bestInvalid' = IF bestInvalid \in below THEN NONE ELSE bestInvalid
  /\ UNCHANGED <<mapBlockIndex, valid, haveData, haveUndo, order, bestHeader, tip,
                 precious, act>>

-----------------------------------------------------------------------------
Activate == \/ StartActivation \/ LockCsMain \/ FindMostWorkChain \/ StartStep
            \/ DisconnectTip \/ ConnectTip \/ ConnectTipInvalid

Receive(b) == \/ AcceptBlockHeader(b)
              \/ \E r \in BOOLEAN : ProcessNewBlock(b, r)

Operate == \/ \E b \in PreciousTargets : PreciousBlock(b)
           \/ \E b \in InvalidateTargets : InvalidateBlock(b)
           \/ \E b \in ReconsiderTargets : ResetBlockFailureFlags(b)

Next == \/ \E b \in Blocks \ {Genesis} : Receive(b)
        \/ LinkBlock
        \/ Activate
        \/ Operate

Spec == Init /\ [][Next]_vars

\* a thread inside ReceivedBlockTransactions or ActivateBestChain, and one about
\* to enter, keeps running
FairSpec == Spec /\ WF_vars(LinkBlock) /\ WF_vars(Activate)

-----------------------------------------------------------------------------
(* Properties.                                                             *)

\* the locals of ActivateBestChain and ActivateBestChainStep
Activation ==
  [pc : HoldsCsMain \cup {"idle", "outer"}, mostWork : Blocks \cup {NONE},
   startTip : Blocks \cup {NONE}, oldTip : Blocks \cup {NONE},
   batchEnd : Blocks \cup {NONE}, connected : BOOLEAN]

\* The variables keep their types; the tip and the best header always exist.
TypeOK ==
  /\ mapBlockIndex \subseteq Blocks
  /\ valid \in [Blocks -> {NO_HEADER, VALID_TREE, VALID_TRANSACTIONS, VALID_SCRIPTS}]
  /\ haveData \subseteq Blocks /\ haveUndo \subseteq Blocks
  /\ failedValid \subseteq Blocks /\ failedChild \subseteq Blocks
  /\ linked \subseteq Blocks
  /\ seqId \in [Blocks -> Int] /\ nBlockSequenceId \in Nat
  /\ candidates \subseteq Blocks
  /\ unlinked \in [Blocks -> Seq(Blocks)] /\ queue \in Seq(Blocks)
  /\ failedBlocks \subseteq Blocks
  /\ bestHeader \in Blocks /\ bestInvalid \in Blocks \cup {NONE}
  /\ dirty \subseteq Blocks /\ tip \in Blocks
  /\ precious \in [work : Nat, revId : Int]
  /\ pending \in BOOLEAN /\ rpcs \in Nat
  /\ act \in Activation

\* No block of b's chain was found invalid (pindexFirstInvalid = nullptr in
\* CheckBlockIndex).
Sound(b) == Path[b] \cap failedValid = {}

\* b is found in mapBlocksUnlinked under its parent
InUnlinked(b) == \E i \in 1 .. Len(unlinked[Parent[b]]) : unlinked[Parent[b]][i] = b

\* CheckBlockIndex: nChainTx is set exactly when the data of the block and of
\* all its ancestors arrived, in whatever order it arrived; and a block with
\* data and a missing ancestor waits in mapBlocksUnlinked under its parent,
\* once, so that LinkBlock will find it.
LinkedWhenAncestorsArrived ==
  CsMainFree =>
    /\ linked = {b \in mapBlockIndex : Path[b] \subseteq haveData}
    /\ \A p \in Blocks : \A i, j \in DOMAIN unlinked[p] :
         unlinked[p][i] = unlinked[p][j] => i = j
    /\ \A b \in mapBlockIndex \ {Genesis} :
         /\ InUnlinked(b) => b \in haveData \ linked
         /\ b \in haveData \ linked /\ Sound(b) => InUnlinked(b)

\* FindMostWorkChain asserts that candidates are fully received: the active chain
\* and the chain being activated never include a block whose data is missing,
\* in whatever order blocks arrived and whatever the operator did.
ActiveChainStored ==
  /\ Path[tip] \subseteq haveData
  /\ act.mostWork # NONE => Path[act.mostWork] \subseteq haveData

\* CheckBlockIndex: a block whose scripts were checked (it was connected once)
\* has ancestors that all were, genesis excepted; TRANSACTIONS validity comes
\* exactly with the data; undo data only with the scripts.
ValidityFollowsAncestors ==
  CsMainFree =>
    \A b \in mapBlockIndex :
      /\ valid[b] >= VALID_SCRIPTS => \A a \in Path[b] \ {Genesis} : valid[a] >= VALID_SCRIPTS
      /\ valid[b] >= VALID_TRANSACTIONS <=> b \in haveData
      /\ b \in haveUndo => valid[b] >= VALID_SCRIPTS

\* CheckBlockIndex: "The failed mask cannot be set for blocks without invalid
\* parents".  A failed-child mark always has a block below it that was itself
\* found invalid.
FailureHasCause ==
  CsMainFree => \A b \in Failed : ~ Sound(b)

\* AcceptBlockHeader asserts this of every entry of m_failed_blocks it meets.
FailedBlocksAreFailed ==
  failedBlocks \subseteq failedValid

\* CheckBlockIndex: setBlockIndexCandidates has every block that could be the
\* tip: not worse than the tip, fully received and on a chain without an
\* invalid block.  A missing one would never be activated.
CandidatesComplete ==
  CsMainFree =>
    \A b \in linked : Sound(b) /\ ~ Worse(b, tip) => b \in candidates

\* CheckBlockIndex: and it has nothing that is worse than the tip or not fully
\* received.
CandidatesUseful ==
  CsMainFree => \A b \in candidates : b \in linked /\ ~ Worse(b, tip)

\* PruneBlockIndexCandidates asserts that the set never runs empty; with the tip
\* gone from it a failed reorganisation could not come back.
CandidatesNeverEmpty ==
  act.pc # "find" => candidates # {}

\* The help of invalidateblock: "Permanently marks a block as invalid, as if it
\* violated a consensus rule".  A node at rest has no invalid block in its
\* active chain.
InvalidatedStaysInactive ==
  NodeIdle => Path[tip] \cap failedValid = {}

\* When no activation runs or is due, no received chain without an invalid
\* block beats the tip: no event was lost between the threads.
IdleOnBestChain ==
  NodeIdle => \A b \in linked : Sound(b) /\ Path[b] \cap BadConnect = {} => ~ Worse(tip, b)

\* ActivateBestChain: "We absolutely may not unlock cs_main until we've made
\* forward progress": a hold of cs_main that began at a tip never ends at a
\* worse one, whatever failed in between.
UnlockOnlyAfterProgress ==
  [][act.pc \in HoldsCsMain /\ act'.pc \notin HoldsCsMain
       => ~ WorseBy(seqId', tip', act.startTip)]_vars

\* A block with a failure mark is never connected.
FailedNeverConnected ==
  [][tip' # tip /\ Parent[tip'] = tip => tip' \notin Failed]_vars

\* ActivateBestChain returns: no chain of failing candidates and no stream of
\* arriving blocks keeps a thread in its loops, holding m_cs_chainstate.
ActivationEnds == act.pc # "idle" ~> act.pc = "idle"

\* A fully received block on a chain that connects is overtaken only by its own
\* invalidation: in the end the tip is at least as good.
BestChainWins ==
  \A b \in {x \in Blocks : Path[x] \cap BadConnect = {}} :
    b \in linked ~> ~ Worse(tip, b) \/ ~ Sound(b)

=============================================================================
