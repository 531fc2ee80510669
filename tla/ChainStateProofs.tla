-------------------------- MODULE ChainStateProofs --------------------------
(***************************************************************************)
(* ChainState for any block tree, any batch size and any operator calls:   *)
(* the types, and that the active chain and the chain being activated never *)
(* include a block whose data is missing; what each handler does to the    *)
(* tree, the block index and the linking of blocks; the cause of every     *)
(* failure mark; and the choice of the active chain: the marks, the        *)
(* validity levels, the set of candidates, the tip they lead to, and the   *)
(* blocks that get linked.                                                 *)
(***************************************************************************)
EXTENDS ChainState, TLAPS

\* leaves are tried with Zenon unless they ask for SMT
USE Zenon

Block0 == Blocks \cup {NONE}

\* a block with its ancestors is on disk
Whole(b) == Path[b] \subseteq haveData

\* everything that is, or may become, a target of ActivateBestChain is whole
AllWhole ==
  /\ \A b \in linked : Whole(b)
  /\ candidates \subseteq linked
  /\ Whole(tip)
  /\ act.mostWork # NONE => Whole(act.mostWork)

\* so are the blocks being linked, and a waiting block is with its parent
WaitingWhole ==
  /\ \A i \in 1 .. Len(queue) : Whole(queue[i])
  /\ \A p \in Blocks : \A i \in 1 .. Len(unlinked[p]) :
       /\ unlinked[p][i] \in haveData \ {Genesis}
       /\ Parent[unlinked[p][i]] = p

\* where ActivateBestChainStep stands
StepSane ==
  /\ act.pc = "disconnect" => act.mostWork \in Blocks /\ tip \notin Path[act.mostWork]
  /\ act.pc = "connect" =>
       act.mostWork \in Blocks /\ tip \in Path[act.mostWork] \ {act.mostWork}

Inv == TypeOK /\ AllWhole /\ WaitingWhole /\ StepSane

-----------------------------------------------------------------------------
(* The block tree.                                                          *)

LEMMA PathFacts ==
  ASSUME NEW b \in Blocks
  PROVE  /\ Path[b] \subseteq Blocks /\ Genesis \in Path[b] /\ b \in Path[b]
         /\ Height[b] \in Nat
         /\ \A a \in Path[b] : Path[a] \subseteq Path[b]
         /\ \A a \in Path[b] \ {b} : Height[a] < Height[b]
         /\ b # Genesis => /\ Parent[b] \in Blocks /\ Parent[b] \in Path[b]
                           /\ Path[b] = Path[Parent[b]] \cup {b}
  <1>1. ASSUME NEW x \in Blocks PROVE x \in Path[x]
    <2>1. CASE x = Genesis
      BY <2>1, TreeAssumption DEF TreeAssumption
    <2>2. CASE x # Genesis
      <3>1. Path[x] = Path[Parent[x]] \cup {x}
        BY <2>2, TreeAssumption DEF TreeAssumption
      <3>2. QED
        BY <3>1
    <2>3. QED
      BY <2>1, <2>2
  <1>2. /\ Path[b] \subseteq Blocks /\ Genesis \in Path[b] /\ Height[b] \in Nat
        /\ \A a \in Path[b] : Path[a] \subseteq Path[b]
        /\ \A a \in Path[b] \ {b} : Height[a] < Height[b]
    BY TreeAssumption DEF TreeAssumption
  <1>3. b # Genesis => Parent[b] \in Blocks /\ Path[b] = Path[Parent[b]] \cup {b}
    BY TreeAssumption DEF TreeAssumption
  <1>4. QED
    BY <1>1, <1>2, <1>3

LEMMA AncestorFacts ==
  ASSUME NEW b \in Blocks, NEW h \in 0 .. Height[b]
  PROVE  AncestorAt(b, h) \in Path[b] /\ Height[AncestorAt(b, h)] = h
  BY TreeAssumption DEF TreeAssumption, AncestorAt

-----------------------------------------------------------------------------
(* The locals of the activating thread.                                     *)

LEMMA IdleType == Idle \in Activation
  BY DEF Idle, Activation, HoldsCsMain

\* leaving the inner loop keeps pindexMostWork or forgets it
LEMMA UnlockFacts ==
  ASSUME NEW a \in Activation, NEW t \in Blocks
  PROVE  /\ Unlock(a, t) \in Activation
         /\ Unlock(a, t).pc \in {"idle", "outer"}
         /\ Unlock(a, t).mostWork \in {a.mostWork, NONE}
  BY DEF Unlock, Idle, Activation, HoldsCsMain

LEMMA AfterStepFacts ==
  ASSUME act \in Activation, NEW t \in Blocks, NEW m \in Block0
  PROVE  /\ AfterStep(t, m) \in Activation
         /\ AfterStep(t, m).pc \in {"idle", "outer", "find", "step"}
         /\ AfterStep(t, m).mostWork \in {m, NONE}
  <1> DEFINE a == [act EXCEPT !.mostWork = m, !.connected = TRUE, !.oldTip = NONE,
                              !.batchEnd = NONE]
  <1>1. a \in Activation /\ a.mostWork = m
    BY DEF Activation, Block0
  <1>2. /\ [a EXCEPT !.pc = NextRound(m)] \in Activation
        /\ [a EXCEPT !.pc = NextRound(m)].pc \in {"find", "step"}
        /\ [a EXCEPT !.pc = NextRound(m)].mostWork = m
    <2>1. NextRound(m) \in {"find", "step"}
      BY DEF NextRound
    <2> HIDE DEF a
    <2>2. \A p \in {"find", "step"} : /\ [a EXCEPT !.pc = p] \in Activation
                                      /\ [a EXCEPT !.pc = p].pc = p
                                      /\ [a EXCEPT !.pc = p].mostWork = a.mostWork
      BY <1>1 DEF Activation, HoldsCsMain
    <2>3. QED
      BY <1>1, <2>1, <2>2
  <1>3. AfterStep(t, m) = IF Worse(t, act.startTip) THEN [a EXCEPT !.pc = NextRound(m)]
                          ELSE Unlock(a, t)
    BY DEF AfterStep
  <1> HIDE DEF a
  <1>4. QED
    BY <1>1, <1>2, <1>3, UnlockFacts, SMT

LEMMA BatchEndType ==
  ASSUME TypeOK, act.mostWork \in Blocks, BatchSize \in Nat \ {0},
         NEW t \in Path[act.mostWork]
  PROVE  BatchEnd(t) \in Blocks
  <1> DEFINE h == IF Height[t] + BatchSize < Height[act.mostWork]
                  THEN Height[t] + BatchSize ELSE Height[act.mostWork]
  <1>1. h \in 0 .. Height[act.mostWork]
    BY PathFacts, SMT
  <1>2. QED
    BY <1>1, AncestorFacts, PathFacts, SMT DEF BatchEnd

LEMMA AfterDisconnectFacts ==
  ASSUME TypeOK, act.mostWork \in Blocks, NEW t \in Blocks
  PROVE  LET a == AfterDisconnect(t)
         IN /\ a \in Activation
            /\ a.pc \in {"idle", "outer", "find", "step", "disconnect", "connect"}
            /\ a.mostWork \in {act.mostWork, NONE}
            /\ a.pc = "disconnect" => a.mostWork = act.mostWork /\ t \notin Path[act.mostWork]
            /\ a.pc = "connect" => /\ a.mostWork = act.mostWork
                                   /\ t \in Path[act.mostWork] \ {act.mostWork}
  <1>0. act \in Activation /\ act.mostWork \in Block0
    BY DEF TypeOK, Block0
  <1>1. CASE t \notin Path[act.mostWork]
    BY <1>0, <1>1 DEF AfterDisconnect, Activation, HoldsCsMain
  <1>2. CASE t \in Path[act.mostWork] /\ t = act.mostWork
    <2>1. AfterDisconnect(t) = AfterStep(t, act.mostWork)
      BY <1>2 DEF AfterDisconnect
    <2>2. QED
      BY <1>0, <2>1, AfterStepFacts
  <1>3. CASE t \in Path[act.mostWork] /\ t # act.mostWork
    <2>1. BatchEnd(t) \in Blocks
      BY <1>3, BatchEndType, InputAssumption DEF InputAssumption
    <2>2. AfterDisconnect(t) = [act EXCEPT !.pc = "connect", !.batchEnd = BatchEnd(t)]
      BY <1>3 DEF AfterDisconnect
    <2>3. QED
      BY <1>0, <1>3, <2>1, <2>2 DEF Activation, HoldsCsMain
  <1>4. QED
    BY <1>1, <1>2, <1>3

-----------------------------------------------------------------------------
(* Headers and blocks arriving.                                             *)

LEMMA RaiseValidityType ==
  ASSUME TypeOK, NEW b \in Blocks, NEW u \in {VALID_TREE, VALID_TRANSACTIONS, VALID_SCRIPTS}
  PROVE  RaiseValidity(b, u) \in
           [Blocks -> {NO_HEADER, VALID_TREE, VALID_TRANSACTIONS, VALID_SCRIPTS}]
  BY DEF TypeOK, RaiseValidity

\* the mark AcceptBlockHeader leaves on blocks between the parent and a failed one
LEMMA DescendsFromFailedStep ==
  ASSUME Inv, NEW b \in Blocks, DescendsFromFailed(b)
  PROVE  Inv'
  <1>1. Parent[b] \in Blocks
    BY DEF DescendsFromFailed, Inv, TypeOK
  <1>2. failedChild' \subseteq Blocks /\ dirty' \subseteq Blocks
    BY <1>1, PathFacts DEF DescendsFromFailed, Inv, TypeOK
  <1>3. TypeOK'
    BY <1>2 DEF DescendsFromFailed, Inv, TypeOK, order, best
  <1>4. AllWhole' /\ WaitingWhole' /\ StepSane'
    BY DEF DescendsFromFailed, Inv, AllWhole, WaitingWhole, StepSane, Whole, order, best
  <1>5. QED
    BY <1>3, <1>4 DEF Inv

LEMMA AcceptBlockHeaderStep ==
  ASSUME Inv, NEW b \in Blocks \ {Genesis}, AcceptBlockHeader(b)
  PROVE  Inv'
  <1>1. CASE DescendsFromFailed(b)
    BY <1>1, DescendsFromFailedStep
  <1>2. CASE ~ DescendsFromFailed(b)
    <2>1. /\ valid' = RaiseValidity(b, VALID_TREE) /\ dirty' = dirty \cup {b}
          /\ AddToBlockIndex(b)
          /\ UNCHANGED <<haveData, haveUndo, failedValid, failedChild, order, candidates,
                         failedBlocks, bestInvalid, tip, precious, pending, act, rpcs>>
      BY <1>2 DEF AcceptBlockHeader
    <2>2. TypeOK'
      BY <2>1, RaiseValidityType DEF Inv, TypeOK, AddToBlockIndex, order
    <2>3. AllWhole' /\ WaitingWhole' /\ StepSane'
      BY <2>1 DEF Inv, AllWhole, WaitingWhole, StepSane, Whole, order
    <2>4. QED
      BY <2>2, <2>3 DEF Inv
  <1>3. QED
    BY <1>1, <1>2

\* ReceivedBlockTransactions: the block's data is there, and it waits for its
\* parent or is whole.
LEMMA ReceivedStep ==
  ASSUME Inv, NEW b \in Blocks \ {Genesis}, ReceivedBlockTransactions(b), queue = << >>
  PROVE  /\ haveData' \subseteq Blocks /\ haveData \subseteq haveData' /\ b \in haveData'
         /\ unlinked' \in [Blocks -> Seq(Blocks)] /\ queue' \in Seq(Blocks)
         /\ WaitingWhole'
  <1>1. /\ haveData' = haveData \cup {b} /\ haveData \subseteq Blocks
        /\ unlinked \in [Blocks -> Seq(Blocks)]
    BY DEF Inv, TypeOK, ReceivedBlockTransactions
  <1>2. Parent[b] \in Blocks
    BY PathFacts
  <1>3. CASE Parent[b] \in linked
    <2>1. queue' = <<b>> /\ unlinked' = unlinked
      BY <1>3 DEF ReceivedBlockTransactions
    <2>2. Path[b] \subseteq haveData'
      <3>1. Path[Parent[b]] \subseteq haveData
        BY <1>3 DEF Inv, AllWhole, Whole
      <3>2. Path[b] = Path[Parent[b]] \cup {b}
        BY PathFacts
      <3>3. QED
        BY <1>1, <3>1, <3>2
    <2>3. WaitingWhole'
      BY <1>1, <2>1, <2>2, SMT DEF Inv, WaitingWhole, Whole
    <2>4. QED
      BY <1>1, <2>1, <2>3, SMT
  <1>4. CASE Parent[b] \notin linked
    <2>1. queue' = << >>
      BY <1>4 DEF ReceivedBlockTransactions
    <2>2. CASE unlinked' = unlinked
      BY <1>1, <2>1, <2>2, SMT DEF Inv, WaitingWhole, Whole
    <2>3. CASE unlinked' = [unlinked EXCEPT ![Parent[b]] = Append(@, b)]
      <3>1. unlinked' \in [Blocks -> Seq(Blocks)]
        BY <1>1, <1>2, <2>3, SMT
      <3>2. ASSUME NEW p \in Blocks, NEW k \in 1 .. Len(unlinked'[p])
            PROVE  unlinked'[p][k] \in haveData' \ {Genesis} /\ Parent[unlinked'[p][k]] = p
        <4>1. CASE p # Parent[b]
          BY <1>1, <1>2, <2>3, <3>2, <4>1 DEF Inv, WaitingWhole
        <4>2. CASE p = Parent[b]
          <5>1. unlinked'[p] = Append(unlinked[p], b) /\ unlinked[p] \in Seq(Blocks)
            BY <1>1, <2>3, <4>2
          <5>2. CASE k \in 1 .. Len(unlinked[p])
            BY <1>1, <5>1, <5>2, SMT DEF Inv, WaitingWhole
          <5>3. CASE k = Len(unlinked[p]) + 1
            BY <1>1, <4>2, <5>1, <5>3, SMT
          <5>4. QED
            BY <3>2, <5>1, <5>2, <5>3, SMT
        <4>3. QED
          BY <4>1, <4>2
      <3>3. WaitingWhole'
        BY <2>1, <3>2, SMT DEF WaitingWhole
      <3>4. QED
        BY <1>1, <2>1, <3>1, <3>3, SMT
    <2>4. QED
      BY <1>4, <2>2, <2>3 DEF ReceivedBlockTransactions
  <1>5. QED
    BY <1>3, <1>4

LEMMA ProcessNewBlockStep ==
  ASSUME Inv, NEW b \in Blocks \ {Genesis}, NEW r \in BOOLEAN, ProcessNewBlock(b, r)
  PROVE  Inv'
  <1>1. CASE DescendsFromFailed(b)
    BY <1>1, DescendsFromFailedStep
  <1>2. CASE ~ DescendsFromFailed(b)
    <2>1. /\ AddToBlockIndex(b) /\ dirty' \subseteq dirty \cup {b}
          /\ pending' \in {pending, TRUE}
          /\ failedValid' \subseteq failedValid \cup {b}
          /\ UNCHANGED <<candidates, failedBlocks, bestInvalid, tip, precious, act, rpcs,
                         haveUndo, failedChild, linked, seqId, nBlockSequenceId>>
      BY <1>2 DEF ProcessNewBlock, ReceivedBlockTransactions, order
    <2>2. valid' \in [Blocks -> {NO_HEADER, VALID_TREE, VALID_TRANSACTIONS, VALID_SCRIPTS}]
      BY <1>2, RaiseValidityType DEF ProcessNewBlock, ReceivedBlockTransactions, Inv
    <2>3. /\ haveData' \subseteq Blocks /\ haveData \subseteq haveData'
          /\ unlinked' \in [Blocks -> Seq(Blocks)] /\ queue' \in Seq(Blocks)
          /\ WaitingWhole'
      <3>1. CASE ReceivedBlockTransactions(b)
        BY <3>1, ReceivedStep DEF ProcessNewBlock, CsMainFree
      <3>2. CASE UNCHANGED <<haveData, unlinked, queue>>
        BY <3>2 DEF Inv, TypeOK, WaitingWhole, Whole
      <3>3. QED
        BY <1>2, <3>1, <3>2 DEF ProcessNewBlock, order
    <2>4. TypeOK'
      BY <2>1, <2>2, <2>3 DEF Inv, TypeOK, AddToBlockIndex
    <2>5. AllWhole' /\ StepSane'
      BY <2>1, <2>3 DEF Inv, AllWhole, StepSane, Whole
    <2>6. QED
      BY <2>3, <2>4, <2>5 DEF Inv
  <1>3. QED
    BY <1>1, <1>2

\* The loop of ReceivedBlockTransactions links a whole block and queues the
\* children that waited for it, which are whole now.
LEMMA LinkBlockStep ==
  ASSUME Inv, LinkBlock
  PROVE  Inv'
  <1> DEFINE b == Head(queue)
  <1>1. /\ queue \in Seq(Blocks) /\ queue # << >> /\ b \in Blocks /\ b = queue[1]
        /\ Len(queue) \in Nat \ {0}
        /\ unlinked \in [Blocks -> Seq(Blocks)] /\ unlinked[b] \in Seq(Blocks)
    BY SMT DEF LinkBlock, Inv, TypeOK
  <1>2. Whole(b)
    BY <1>1, SMT DEF Inv, WaitingWhole
  <1>3. /\ linked' = linked \cup {b}
        /\ candidates' \subseteq candidates \cup {b}
        /\ seqId' = [seqId EXCEPT ![b] = nBlockSequenceId]
        /\ nBlockSequenceId' = nBlockSequenceId + 1
        /\ queue' = Tail(queue) \o unlinked[b]
        /\ unlinked' = [unlinked EXCEPT ![b] = << >>]
        /\ UNCHANGED <<mapBlockIndex, valid, haveData, haveUndo, failedValid, failedChild,
                       failedBlocks, bestHeader, bestInvalid, dirty, tip, precious,
                       pending, act, rpcs>>
    BY DEF LinkBlock, status, best
  <1> HIDE DEF b
  <1>4. queue' \in Seq(Blocks) /\ unlinked' \in [Blocks -> Seq(Blocks)]
    BY <1>1, <1>3, SMT
  <1>5. \A k \in 1 .. Len(unlinked[b]) : Whole(unlinked[b][k])
    <2> SUFFICES ASSUME NEW k \in 1 .. Len(unlinked[b]) PROVE Whole(unlinked[b][k])
      OBVIOUS
    <2>1. /\ unlinked[b][k] \in haveData \ {Genesis} /\ Parent[unlinked[b][k]] = b
          /\ unlinked[b][k] \in Blocks
      BY <1>1, SMT DEF Inv, WaitingWhole
    <2>2. QED
      BY <1>2, <2>1, PathFacts, SMT DEF Whole
  <1>6. \A k \in 1 .. Len(queue') : Whole(queue'[k])
    <2> SUFFICES ASSUME NEW k \in 1 .. Len(queue') PROVE Whole(queue'[k])
      OBVIOUS
    <2>1. Tail(queue) \in Seq(Blocks) /\ Len(Tail(queue)) = Len(queue) - 1
      BY <1>1, SMT
    <2>2. CASE k \in 1 .. Len(queue) - 1
      <3>1. queue'[k] = queue[k + 1] /\ k + 1 \in 1 .. Len(queue)
        BY <1>1, <1>3, <2>1, <2>2, SMT
      <3>2. QED
        BY <3>1 DEF Inv, WaitingWhole
    <2>3. CASE k \notin 1 .. Len(queue) - 1
      <3>1. Len(queue') = (Len(queue) - 1) + Len(unlinked[b])
        BY <1>1, <1>3, <2>1, SMT
      <3>2. /\ k - (Len(queue) - 1) \in 1 .. Len(unlinked[b])
            /\ queue'[k] = unlinked[b][k - (Len(queue) - 1)]
        BY <1>1, <1>3, <2>1, <2>3, <3>1, SMT
      <3>3. QED
        BY <1>5, <3>2
    <2>4. QED
      BY <2>2, <2>3
  <1>7. TypeOK'
    <2>1. linked' \subseteq Blocks /\ candidates' \subseteq Blocks
      BY <1>1, <1>3 DEF Inv, TypeOK
    <2>2. seqId' \in [Blocks -> Int] /\ nBlockSequenceId' \in Nat
      BY <1>1, <1>3, SMT DEF Inv, TypeOK
    <2>3. QED
      BY <1>3, <1>4, <2>1, <2>2 DEF Inv, TypeOK
  <1>8. AllWhole' /\ StepSane'
    BY <1>2, <1>3 DEF Inv, AllWhole, StepSane, Whole
  <1>9. WaitingWhole'
    <2>1. \A k \in 1 .. Len(queue') : Path[queue'[k]] \subseteq haveData'
      BY <1>3, <1>6 DEF Whole
    <2>2. ASSUME NEW p \in Blocks, NEW k \in 1 .. Len(unlinked'[p])
          PROVE  unlinked'[p][k] \in haveData' \ {Genesis} /\ Parent[unlinked'[p][k]] = p
      <3>1. p # b
        BY <1>1, <1>3, <2>2, SMT
      <3>2. unlinked'[p] = unlinked[p]
        BY <1>1, <1>3, <3>1
      <3>3. QED
        BY <1>3, <2>2, <3>2 DEF Inv, WaitingWhole
    <2>3. QED
      BY <2>1, <2>2 DEF WaitingWhole, Whole
  <1>10. QED
    BY <1>7, <1>8, <1>9 DEF Inv

-----------------------------------------------------------------------------
(* ActivateBestChain.                                                       *)

\* A step of the activating thread that touches no block data keeps the
\* invariant if its new locals, tip and candidates are as the invariant wants.
LEMMA ActivateSuffices ==
  ASSUME Inv, NEW a \in Activation, act' = a, tip' \in Blocks,
         UNCHANGED <<mapBlockIndex, haveData, order, bestHeader, precious, rpcs>>,
         failedBlocks' \subseteq Blocks,
         valid' \in [Blocks -> {NO_HEADER, VALID_TREE, VALID_TRANSACTIONS, VALID_SCRIPTS}],
         haveUndo' \subseteq Blocks, failedValid' \subseteq Blocks,
         failedChild' \subseteq Blocks, candidates' \subseteq candidates,
         bestInvalid' \in Block0, dirty' \subseteq Blocks, pending' \in BOOLEAN,
         Path[tip'] \subseteq haveData,
         a.mostWork # NONE => Path[a.mostWork] \subseteq haveData,
         a.pc = "disconnect" => a.mostWork \in Blocks /\ tip' \notin Path[a.mostWork],
         a.pc = "connect" =>
           a.mostWork \in Blocks /\ tip' \in Path[a.mostWork] \ {a.mostWork}
  PROVE  Inv'
  <1>1. TypeOK'
    BY DEF Inv, TypeOK, order, Block0
  <1>2. AllWhole' /\ StepSane'
    BY DEF Inv, AllWhole, StepSane, Whole, order
  <1>3. WaitingWhole'
    BY DEF Inv, WaitingWhole, Whole, order
  <1>4. QED
    BY <1>1, <1>2, <1>3 DEF Inv

\* what the invariant says of the state a step starts from
LEMMA ActivateFrom ==
  ASSUME Inv
  PROVE  /\ act \in Activation /\ tip \in Blocks /\ act.mostWork \in Block0
         /\ valid \in [Blocks -> {NO_HEADER, VALID_TREE, VALID_TRANSACTIONS, VALID_SCRIPTS}]
         /\ haveUndo \subseteq Blocks /\ failedValid \subseteq Blocks
         /\ failedChild \subseteq Blocks /\ candidates \subseteq Blocks
         /\ failedBlocks \subseteq Blocks
         /\ bestInvalid \in Block0 /\ dirty \subseteq Blocks /\ pending \in BOOLEAN
         /\ Path[tip] \subseteq haveData
         /\ act.mostWork # NONE => Path[act.mostWork] \subseteq haveData
         /\ \A c \in candidates : Path[c] \subseteq haveData
  BY DEF Inv, TypeOK, AllWhole, Whole, Block0, Activation

LEMMA StartActivationStep ==
  ASSUME Inv, StartActivation
  PROVE  Inv'
  <1> DEFINE a == [Idle EXCEPT !.pc = "outer"]
  <1>1. a \in Activation /\ a.pc = "outer" /\ a.mostWork = NONE
    BY DEF Idle, Activation, HoldsCsMain
  <1>2. act' = a
    BY DEF StartActivation
  <1> HIDE DEF a
  <1>3. QED
    BY <1>1, <1>2, ActivateFrom, ActivateSuffices DEF StartActivation, status, best

LEMMA LockCsMainStep ==
  ASSUME Inv, LockCsMain
  PROVE  Inv'
  <1> DEFINE a == [act EXCEPT !.pc = NextRound(act.mostWork), !.startTip = tip,
                              !.connected = FALSE]
  <1>1. a \in Activation /\ a.pc \in {"find", "step"} /\ a.mostWork = act.mostWork
    BY ActivateFrom DEF Activation, HoldsCsMain, NextRound
  <1>2. act' = a
    BY DEF LockCsMain
  <1> HIDE DEF a
  <1>3. QED
    BY <1>1, <1>2, ActivateFrom, ActivateSuffices DEF LockCsMain, status, best

LEMMA MoreInvalidType ==
  ASSUME Inv, NEW b \in Blocks
  PROVE  MoreInvalid(b) \in Block0
  BY ActivateFrom DEF MoreInvalid, Block0

LEMMA FindMostWorkChainStep ==
  ASSUME Inv, FindMostWorkChain
  PROVE  Inv'
  <1>1. PICK new \in BestCandidate :
          \/ /\ act' = [act EXCEPT !.pc = "step", !.mostWork = new]
             /\ UNCHANGED <<candidates, failedChild, bestInvalid>>
          \/ /\ new # NONE
             /\ failedChild' \subseteq failedChild \cup Path[new]
             /\ candidates' \subseteq candidates
             /\ bestInvalid' = MoreInvalid(new) /\ UNCHANGED act
    BY DEF FindMostWorkChain
  <1>2. new \in Block0 /\ (new # NONE => Path[new] \subseteq haveData /\ Path[new] \subseteq Blocks)
    BY ActivateFrom, PathFacts DEF BestCandidate, Block0
  <1>3. CASE act' = [act EXCEPT !.pc = "step", !.mostWork = new]
             /\ UNCHANGED <<candidates, failedChild, bestInvalid>>
    <2> DEFINE a == [act EXCEPT !.pc = "step", !.mostWork = new]
    <2>1. a \in Activation /\ a.pc = "step" /\ a.mostWork = new
      BY <1>2, ActivateFrom DEF Activation, HoldsCsMain, Block0
    <2>2. act' = a
      BY <1>3
    <2> HIDE DEF a
    <2>3. QED
      BY <1>2, <1>3, <2>1, <2>2, ActivateFrom, ActivateSuffices DEF FindMostWorkChain
  <1>4. CASE /\ new # NONE
             /\ failedChild' \subseteq failedChild \cup Path[new]
             /\ candidates' \subseteq candidates
             /\ bestInvalid' = MoreInvalid(new) /\ UNCHANGED act
    <2>1. bestInvalid' \in Block0 /\ failedChild' \subseteq Blocks
      BY <1>2, <1>4, MoreInvalidType, ActivateFrom DEF Block0
    <2>2. act.pc = "find" /\ act' = act
      BY <1>4 DEF FindMostWorkChain
    <2>3. QED
      BY <1>4, <2>1, <2>2, ActivateFrom, ActivateSuffices DEF FindMostWorkChain
  <1>5. QED
    BY <1>1, <1>3, <1>4

LEMMA StartStepStep ==
  ASSUME Inv, StartStep
  PROVE  Inv'
  <1>1. CASE act.mostWork \in {NONE, tip}
    <2>1. act' = Unlock(act, tip)
      BY <1>1 DEF StartStep
    <2>2. QED
      BY <2>1, UnlockFacts, ActivateFrom, ActivateSuffices, SMT DEF StartStep, status, best
  <1>2. CASE act.mostWork \notin {NONE, tip}
    <2> DEFINE d == AfterDisconnect(tip)
               a == [d EXCEPT !.oldTip = tip]
    <2>1. act.mostWork \in Blocks
      BY <1>2, ActivateFrom DEF Block0
    <2>2. /\ d \in Activation /\ d.mostWork \in {act.mostWork, NONE}
          /\ d.pc = "disconnect" => d.mostWork = act.mostWork /\ tip \notin Path[act.mostWork]
          /\ d.pc = "connect" => /\ d.mostWork = act.mostWork
                                 /\ tip \in Path[act.mostWork] \ {act.mostWork}
      BY <2>1, ActivateFrom, AfterDisconnectFacts DEF Inv
    <2>3. act' = a
      BY <1>2 DEF StartStep
    <2> HIDE DEF d
    <2>4. a \in Activation /\ a.pc = d.pc /\ a.mostWork = d.mostWork
      BY <2>2, ActivateFrom DEF Activation
    <2> HIDE DEF a
    <2>5. QED
      BY <2>1, <2>2, <2>3, <2>4, ActivateFrom, ActivateSuffices DEF StartStep, status, best
  <1>3. QED
    BY <1>1, <1>2

LEMMA DisconnectTipStep ==
  ASSUME Inv, DisconnectTip
  PROVE  Inv'
  <1> DEFINE t == Parent[tip]
             a == AfterDisconnect(t)
  <1>1. act.mostWork \in Blocks /\ tip \in Blocks /\ tip \notin Path[act.mostWork]
    BY ActivateFrom DEF DisconnectTip, Inv, StepSane
  <1>2. tip # Genesis
    BY <1>1, PathFacts
  <1>3. t \in Blocks /\ Path[t] \subseteq haveData
    BY <1>1, <1>2, PathFacts, ActivateFrom
  <1>4. act' = a /\ tip' = t
    BY DEF DisconnectTip
  <1> HIDE DEF t
  <1>5. /\ a \in Activation /\ a.mostWork \in {act.mostWork, NONE}
        /\ a.pc = "disconnect" => a.mostWork = act.mostWork /\ t \notin Path[act.mostWork]
        /\ a.pc = "connect" => /\ a.mostWork = act.mostWork
                               /\ t \in Path[act.mostWork] \ {act.mostWork}
    BY <1>1, <1>3, AfterDisconnectFacts DEF Inv
  <1> HIDE DEF a
  <1>6. QED
    BY <1>1, <1>3, <1>4, <1>5, ActivateFrom, ActivateSuffices DEF DisconnectTip, status, best

\* the next block to connect is whole, being on the way to a whole block
LEMMA NextToConnectFacts ==
  ASSUME Inv, act.pc = "connect"
  PROVE  /\ act.mostWork \in Blocks
         /\ NextToConnect \in Blocks /\ NextToConnect \in Path[act.mostWork]
         /\ Path[NextToConnect] \subseteq haveData
  <1>1. act.mostWork \in Blocks /\ tip \in Path[act.mostWork] \ {act.mostWork}
    BY DEF Inv, StepSane
  <1>2. act.mostWork # NONE
    BY <1>1, TreeAssumption DEF TreeAssumption
  <1>3. Height[tip] + 1 \in 0 .. Height[act.mostWork]
    BY <1>1, PathFacts, ActivateFrom, SMT
  <1>4. NextToConnect \in Path[act.mostWork]
    BY <1>1, <1>3, AncestorFacts DEF NextToConnect
  <1>5. QED
    BY <1>1, <1>2, <1>4, PathFacts, ActivateFrom

LEMMA ConnectTipStep ==
  ASSUME Inv, ConnectTip
  PROVE  Inv'
  <1> DEFINE b == NextToConnect
  <1>1. /\ act.mostWork \in Blocks /\ act.mostWork \in Block0
        /\ b \in Blocks /\ b \in Path[act.mostWork] /\ Path[b] \subseteq haveData
    BY NextToConnectFacts DEF ConnectTip, Block0
  <1>2. /\ dirty' \subseteq dirty \cup {b} /\ haveUndo' = haveUndo \cup {b}
        /\ valid' = RaiseValidity(b, VALID_SCRIPTS) /\ tip' = b
        /\ candidates' \subseteq candidates
        /\ \/ act' = AfterStep(b, act.mostWork)
           \/ b # act.mostWork /\ act' = [act EXCEPT !.batchEnd = BatchEnd(b)]
           \/ b # act.mostWork /\ act' = act
        /\ UNCHANGED <<mapBlockIndex, haveData, failedValid, failedChild, order,
                       failedBlocks, bestHeader, bestInvalid, precious, pending, rpcs>>
    BY DEF ConnectTip, NotWorseThan, best
  <1>3. act' \in Activation /\ act.pc = "connect"
        /\ \/ act'.pc \in {"idle", "outer", "find", "step"} /\ act'.mostWork \in {act.mostWork, NONE}
           \/ b # act.mostWork /\ act'.pc = "connect" /\ act'.mostWork = act.mostWork
    <2>0. act \in Activation /\ act.pc = "connect"
      BY ActivateFrom DEF ConnectTip
    <2>1. CASE act' = AfterStep(b, act.mostWork)
      BY <1>1, <2>0, <2>1, AfterStepFacts
    <2>2. CASE b # act.mostWork /\ act' = [act EXCEPT !.batchEnd = BatchEnd(b)]
      <3>1. BatchEnd(b) \in Blocks
        BY <1>1, BatchEndType, InputAssumption DEF Inv, InputAssumption
      <3>2. QED
        BY <2>0, <2>2, <3>1 DEF Activation
    <2>3. CASE b # act.mostWork /\ act' = act
      BY <2>0, <2>3
    <2>4. QED
      BY <1>2, <2>0, <2>1, <2>2, <2>3
  <1>4. valid' \in [Blocks -> {NO_HEADER, VALID_TREE, VALID_TRANSACTIONS, VALID_SCRIPTS}]
    BY <1>1, <1>2, RaiseValidityType DEF Inv
  <1> HIDE DEF b
  <1>5. QED
    BY <1>1, <1>2, <1>3, <1>4, ActivateFrom, ActivateSuffices

LEMMA ConnectTipInvalidStep ==
  ASSUME Inv, ConnectTipInvalid
  PROVE  Inv'
  <1> DEFINE b == NextToConnect
             a == AfterStep(tip, NONE)
  <1>1. b \in Blocks
    BY NextToConnectFacts DEF ConnectTipInvalid
  <1>2. a \in Activation /\ a.pc \in {"idle", "outer", "find", "step"} /\ a.mostWork = NONE
    BY ActivateFrom, AfterStepFacts DEF Block0
  <1>3. bestInvalid' \in Block0
    BY ActivateFrom DEF ConnectTipInvalid, MoreInvalid, Activation, Block0
  <1>4. act' = a
    BY DEF ConnectTipInvalid
  <1> HIDE DEF a
  <1>5. QED
    BY <1>1, <1>2, <1>3, <1>4, ActivateFrom, ActivateSuffices DEF ConnectTipInvalid

-----------------------------------------------------------------------------
(* Operator calls.                                                          *)

LEMMA PreciousBlockStep ==
  ASSUME Inv, NEW b \in Blocks, PreciousBlock(b)
  PROVE  Inv'
  <1> DEFINE id == IF ChainWork[tip] > precious.work THEN -1 ELSE precious.revId
  <1>0. id \in Int /\ id - 1 \in Int /\ ChainWork[tip] \in Nat
    BY TreeAssumption, SMT DEF Inv, TypeOK, TreeAssumption
  <1>a. /\ seqId' = [seqId EXCEPT ![b] = id]
        /\ precious' = [work |-> ChainWork[tip], revId |-> id - 1]
        /\ rpcs' = rpcs + 1 /\ pending' = TRUE
    BY DEF PreciousBlock, OperatorCall
  <1> HIDE DEF id
  <1>1. /\ seqId' \in [Blocks -> Int] /\ precious' \in [work : Nat, revId : Int]
        /\ rpcs' \in Nat /\ pending' \in BOOLEAN
    BY <1>0, <1>a, SMT DEF Inv, TypeOK
  <1>2. candidates' \subseteq linked
    BY DEF PreciousBlock, Inv, AllWhole
  <1>3. UNCHANGED <<mapBlockIndex, valid, haveData, haveUndo, failedValid, failedChild,
                    linked, nBlockSequenceId, unlinked, queue, failedBlocks, bestHeader,
                    bestInvalid, dirty, tip, act>>
    BY DEF PreciousBlock, status, best
  <1>4. TypeOK'
    BY <1>1, <1>2, <1>3 DEF Inv, TypeOK
  <1>5. AllWhole' /\ WaitingWhole' /\ StepSane'
    BY <1>2, <1>3 DEF Inv, AllWhole, WaitingWhole, StepSane, Whole
  <1>6. QED
    BY <1>4, <1>5 DEF Inv

LEMMA InvalidateBlockStep ==
  ASSUME Inv, NEW b \in Blocks \ {Genesis}, InvalidateBlock(b)
  PROVE  Inv'
  <1>0. rpcs' = rpcs + 1 /\ pending' = TRUE /\ bestInvalid' = MoreInvalid(b)
    BY DEF InvalidateBlock, OperatorCall
  <1>1. rpcs' \in Nat /\ pending' \in BOOLEAN /\ bestInvalid' \in Block0
    BY <1>0, MoreInvalidType, SMT DEF Inv, TypeOK
  <1>2. tip' \in Blocks /\ Path[tip'] \subseteq haveData
    <2>1. CASE InChain(b)
      <3>1. tip' = Parent[b] /\ b \in Path[tip]
        BY <2>1 DEF InvalidateBlock, InChain
      <3>2. Parent[b] \in Blocks /\ Path[Parent[b]] \subseteq Path[b]
        BY PathFacts
      <3>3. Path[b] \subseteq Path[tip]
        BY <3>1, PathFacts, ActivateFrom
      <3>4. QED
        BY <3>1, <3>2, <3>3, ActivateFrom
    <2>2. CASE ~ InChain(b)
      BY <2>2, ActivateFrom DEF InvalidateBlock
    <2>3. QED
      BY <2>1, <2>2
  <1>3. failedChild' \subseteq Blocks /\ dirty' \subseteq Blocks
    BY ActivateFrom, PathFacts DEF InvalidateBlock
  <1>4. candidates' \subseteq linked
    BY DEF InvalidateBlock, Inv, AllWhole
  <1>5. /\ failedValid' = failedValid \cup {b} /\ failedBlocks' = failedBlocks \cup {b}
        /\ UNCHANGED <<mapBlockIndex, valid, haveData, haveUndo, order, bestHeader,
                       precious, act>>
    BY DEF InvalidateBlock
  <1>6. act.pc \notin {"disconnect", "connect"}
    BY DEF InvalidateBlock, OperatorCall, CsMainFree, HoldsCsMain
  <1>7. TypeOK'
    BY <1>1, <1>2, <1>3, <1>4, <1>5 DEF Inv, TypeOK, order, Block0
  <1>8. AllWhole' /\ StepSane'
    BY <1>2, <1>4, <1>5, <1>6 DEF Inv, AllWhole, StepSane, Whole, order
  <1>9. WaitingWhole'
    BY <1>5 DEF Inv, WaitingWhole, Whole, order
  <1>10. QED
    BY <1>7, <1>8, <1>9 DEF Inv

LEMMA ResetBlockFailureFlagsStep ==
  ASSUME Inv, NEW b \in Blocks, ResetBlockFailureFlags(b)
  PROVE  Inv'
  <1>0. rpcs' = rpcs + 1 /\ pending' = TRUE /\ bestInvalid' \in {NONE, bestInvalid}
    BY DEF ResetBlockFailureFlags, OperatorCall
  <1>1. rpcs' \in Nat /\ pending' \in BOOLEAN /\ bestInvalid' \in Block0
    BY <1>0, SMT DEF Inv, TypeOK, Block0
  <1>2. /\ failedValid' \subseteq failedValid /\ failedChild' \subseteq failedChild
        /\ failedBlocks' \subseteq failedBlocks
    BY DEF ResetBlockFailureFlags
  <1>3. dirty' \subseteq Blocks
    BY PathFacts DEF ResetBlockFailureFlags, Inv, TypeOK
  <1>4. candidates' \subseteq linked
    BY DEF ResetBlockFailureFlags, Inv, AllWhole
  <1>5. UNCHANGED <<mapBlockIndex, valid, haveData, haveUndo, order, bestHeader, tip,
                    precious, act>>
    BY DEF ResetBlockFailureFlags
  <1>6. TypeOK'
    BY <1>1, <1>2, <1>3, <1>4, <1>5 DEF Inv, TypeOK, order, Block0
  <1>7. AllWhole' /\ WaitingWhole' /\ StepSane'
    BY <1>4, <1>5 DEF Inv, AllWhole, WaitingWhole, StepSane, Whole, order
  <1>8. QED
    BY <1>6, <1>7 DEF Inv

-----------------------------------------------------------------------------
(* The theorems.                                                            *)

LEMMA InitInv == Init => Inv
  <1> SUFFICES ASSUME Init PROVE Inv
    OBVIOUS
  <1>1. /\ Genesis \in Blocks
        /\ valid \in [Blocks -> {NO_HEADER, VALID_TREE, VALID_TRANSACTIONS, VALID_SCRIPTS}]
        /\ seqId \in [Blocks -> Int] /\ unlinked \in [Blocks -> Seq(Blocks)]
        /\ queue \in Seq(Blocks) /\ precious \in [work : Nat, revId : Int]
    BY TreeAssumption, SMT DEF Init, TreeAssumption
  <1>a. TypeOK
    BY <1>1, IdleType DEF Init, TypeOK
  <1>2. AllWhole /\ WaitingWhole /\ StepSane
    BY TreeAssumption, SMT DEF Init, AllWhole, WaitingWhole, StepSane, Whole, Idle, TreeAssumption
  <1>3. QED
    BY <1>a, <1>2 DEF Inv

LEMMA ActivateInv ==
  ASSUME Inv, Activate
  PROVE  Inv'
  BY StartActivationStep, LockCsMainStep, FindMostWorkChainStep, StartStepStep,
     DisconnectTipStep, ConnectTipStep, ConnectTipInvalidStep DEF Activate

LEMMA OperateInv ==
  ASSUME Inv, Operate
  PROVE  Inv'
  BY PreciousBlockStep, InvalidateBlockStep, ResetBlockFailureFlagsStep, InputAssumption
     DEF Operate, InputAssumption

LEMMA NextInv == Inv /\ [Next]_vars => Inv'
  <1> SUFFICES ASSUME Inv, [Next]_vars PROVE Inv'
    OBVIOUS
  <1>1. ASSUME NEW b \in Blocks \ {Genesis}, Receive(b)
        PROVE  Inv'
    BY <1>1, AcceptBlockHeaderStep, ProcessNewBlockStep DEF Receive
  <1>2. CASE LinkBlock
    BY <1>2, LinkBlockStep
  <1>3. CASE Activate
    BY <1>3, ActivateInv
  <1>4. CASE Operate
    BY <1>4, OperateInv
  <1>5. CASE UNCHANGED vars
    BY <1>5 DEF vars, status, order, best, Inv, TypeOK, AllWhole, WaitingWhole, StepSane, Whole
  <1>6. QED
    BY <1>1, <1>2, <1>3, <1>4, <1>5 DEF Next

LEMMA InvAlways == Spec => []Inv
  BY InitInv, NextInv, PTL DEF Spec

\* The variables of the block tree keep their types; the activating thread never
\* runs off a chain (the tip it disconnects has a parent, the block it connects
\* exists).
THEOREM TypeCorrect == Spec => []TypeOK
  <1>1. Inv => TypeOK
    BY DEF Inv
  <1>2. QED
    BY <1>1, InvAlways, PTL

\* The active chain and the chain ActivateBestChain works towards have all their
\* data, for any tree, any order of arrival, any operator calls at any time.
THEOREM ChainAlwaysStored == Spec => []ActiveChainStored
  <1>1. Inv => ActiveChainStored
    BY DEF Inv, AllWhole, Whole, ActiveChainStored
  <1>2. QED
    BY <1>1, InvAlways, PTL

\* The assertion AcceptBlockHeader makes of the entries of m_failed_blocks: no
\* order of failed connections, invalidations and reconsiderations leaves an
\* entry behind whose block is no longer marked.
THEOREM FailedSetSound == Spec => []FailedBlocksAreFailed
  <1>1. Init => FailedBlocksAreFailed
    BY DEF Init, FailedBlocksAreFailed
  <1>2. FailedBlocksAreFailed /\ [Next]_vars => FailedBlocksAreFailed'
    <2> SUFFICES ASSUME FailedBlocksAreFailed, [Next]_vars PROVE FailedBlocksAreFailed'
      OBVIOUS
    <2>1. ASSUME NEW b \in Blocks \ {Genesis}, AcceptBlockHeader(b)
          PROVE  FailedBlocksAreFailed'
      BY <2>1 DEF FailedBlocksAreFailed, AcceptBlockHeader, DescendsFromFailed, best
    <2>2. ASSUME NEW b \in Blocks \ {Genesis}, NEW r \in BOOLEAN, ProcessNewBlock(b, r)
          PROVE  FailedBlocksAreFailed'
      <3>1. failedBlocks' = failedBlocks
        BY <2>2 DEF ProcessNewBlock, DescendsFromFailed, best
      <3>2. failedValid \subseteq failedValid'
        BY <2>2 DEF ProcessNewBlock, DescendsFromFailed, ReceivedBlockTransactions
      <3>3. QED
        BY <3>1, <3>2 DEF FailedBlocksAreFailed
    <2>3. CASE LinkBlock
      BY <2>3 DEF FailedBlocksAreFailed, LinkBlock, status, best
    <2>4. CASE Activate
      <3>1. CASE ConnectTipInvalid
        BY <3>1 DEF FailedBlocksAreFailed, ConnectTipInvalid
      <3>2. CASE ~ ConnectTipInvalid
        BY <2>4, <3>2 DEF FailedBlocksAreFailed, Activate, StartActivation, LockCsMain,
           FindMostWorkChain, StartStep, DisconnectTip, ConnectTip, status, best
      <3>3. QED
        BY <3>1, <3>2
    <2>5. CASE Operate
      BY <2>5 DEF FailedBlocksAreFailed, Operate, PreciousBlock, InvalidateBlock,
         ResetBlockFailureFlags, status, best
    <2>6. CASE UNCHANGED vars
      BY <2>6 DEF FailedBlocksAreFailed, vars, status, best
    <2>7. QED
      BY <2>1, <2>2, <2>3, <2>4, <2>5, <2>6 DEF Next, Receive
  <1>3. QED
    BY <1>1, <1>2, PTL DEF Spec

-----------------------------------------------------------------------------
(* The block tree and the order of blocks.                                  *)

LEMMA BranchFacts ==
  ASSUME NEW b \in Blocks
  PROVE  /\ ChainWork[b] \in Nat
         /\ \A a \in Path[b] \ {b} : ChainWork[a] < ChainWork[b]
         /\ \A a, c \in Path[b] : a \in Path[c] \/ c \in Path[a]
         /\ b # Genesis => Height[b] = Height[Parent[b]] + 1
  BY TreeAssumption DEF TreeAssumption

\* CBlockIndexWorkComparator is a strict total order, whatever the sequence ids
LEMMA OrderFacts ==
  ASSUME NEW s \in [Blocks -> Int], NEW a \in Blocks, NEW b \in Blocks
  PROVE  /\ ~ WorseBy(s, a, a)
         /\ WorseBy(s, a, b) => ~ WorseBy(s, b, a)
         /\ a # b => WorseBy(s, a, b) \/ WorseBy(s, b, a)
         /\ \A c \in Blocks : ~ WorseBy(s, a, b) /\ ~ WorseBy(s, b, c) => ~ WorseBy(s, a, c)
         /\ \A c \in Blocks : WorseBy(s, a, b) /\ WorseBy(s, b, c) => WorseBy(s, a, c)
  <1>1. \A x \in Blocks : ChainWork[x] \in Nat /\ Addr[x] \in Nat /\ s[x] \in Int
    BY TreeAssumption DEF TreeAssumption
  <1>2. a # b => Addr[a] # Addr[b]
    BY TreeAssumption DEF TreeAssumption
  <1>3. QED
    BY <1>1, <1>2, SMT DEF WorseBy

\* an ancestor is worse
LEMMA AncestorWorse ==
  ASSUME NEW s, NEW b \in Blocks, NEW a \in Path[b]
  PROVE  a # b => WorseBy(s, a, b)
  BY BranchFacts DEF WorseBy

\* the block that ConnectTip takes is the tip's child
LEMMA NextIsChild ==
  ASSUME Inv, act.pc = "connect"
  PROVE  /\ NextToConnect \in Blocks \ {Genesis}
         /\ Parent[NextToConnect] = tip
         /\ NextToConnect \notin Path[tip]
         /\ Path[NextToConnect] = Path[tip] \cup {NextToConnect}
  <1> DEFINE n == NextToConnect
  <1>1. act.mostWork \in Blocks /\ tip \in Path[act.mostWork] \ {act.mostWork} /\ tip \in Blocks
    BY ActivateFrom DEF Inv, StepSane
  <1>2. Height[tip] + 1 \in 0 .. Height[act.mostWork]
    BY <1>1, PathFacts, SMT
  <1>3. n \in Path[act.mostWork] /\ Height[n] = Height[tip] + 1 /\ n \in Blocks
    BY <1>1, <1>2, AncestorFacts, PathFacts, SMT DEF NextToConnect
  <1> HIDE DEF n
  <1>4. n # Genesis
    BY <1>1, <1>3, PathFacts, TreeAssumption, SMT DEF TreeAssumption
  <1>5. n \notin Path[tip]
    BY <1>1, <1>3, PathFacts, SMT
  <1>6. Parent[n] \in Path[act.mostWork] /\ Height[Parent[n]] = Height[tip] /\ Parent[n] \in Blocks
    BY <1>1, <1>3, <1>4, PathFacts, BranchFacts, SMT
  <1>7. Parent[n] = tip
    BY <1>1, <1>6, BranchFacts, PathFacts, SMT
  <1>8. QED
    BY <1>3, <1>4, <1>5, <1>7, PathFacts DEF n

-----------------------------------------------------------------------------
(* What each handler does to the activation and to the tree.                *)

\* where AfterStep(t, m) leaves the activating thread
Landed(a, t, m) ==
  \/ /\ Worse(t, act.startTip)
     /\ a.pc = NextRound(m) /\ a.mostWork = m /\ a.startTip = act.startTip
  \/ /\ ~ Worse(t, act.startTip) /\ t = m
     /\ a.pc = "idle" /\ a.mostWork = NONE
  \/ /\ ~ Worse(t, act.startTip) /\ t # m
     /\ a.pc = "outer" /\ a.mostWork = m

Onward(a, p) == a.pc = p /\ a.mostWork = act.mostWork /\ a.startTip = act.startTip

\* where AfterDisconnect(t) leaves it
Towards(a, t) ==
  \/ t \notin Path[act.mostWork] /\ Onward(a, "disconnect")
  \/ t = act.mostWork /\ Landed(a, t, t)
  \/ t \in Path[act.mostWork] \ {act.mostWork} /\ Onward(a, "connect")

LEMMA AfterStepLands ==
  ASSUME act \in Activation, NEW t \in Blocks, NEW m \in Block0
  PROVE  Landed(AfterStep(t, m), t, m)
  <1> DEFINE a == [act EXCEPT !.mostWork = m, !.connected = TRUE, !.oldTip = NONE,
                              !.batchEnd = NONE]
  <1>1. a \in Activation /\ a.mostWork = m /\ a.connected = TRUE /\ a.startTip = act.startTip
    BY DEF Activation, Block0
  <1>2. AfterStep(t, m) = IF Worse(t, act.startTip) THEN [a EXCEPT !.pc = NextRound(m)]
                          ELSE Unlock(a, t)
    BY DEF AfterStep
  <1> HIDE DEF a
  <1>3. CASE Worse(t, act.startTip)
    <2>1. /\ [a EXCEPT !.pc = NextRound(m)].pc = NextRound(m)
          /\ [a EXCEPT !.pc = NextRound(m)].mostWork = m
          /\ [a EXCEPT !.pc = NextRound(m)].startTip = act.startTip
      BY <1>1 DEF Activation
    <2>2. QED
      BY <1>2, <1>3, <2>1 DEF Landed
  <1>4. CASE ~ Worse(t, act.startTip)
    <2>1. /\ t = m => Unlock(a, t).pc = "idle" /\ Unlock(a, t).mostWork = NONE
          /\ t # m => Unlock(a, t).pc = "outer" /\ Unlock(a, t).mostWork = m
      BY <1>1 DEF Unlock, Idle
    <2>2. QED
      BY <1>2, <1>4, <2>1 DEF Landed
  <1>5. QED
    BY <1>3, <1>4

LEMMA AfterDisconnectTowards ==
  ASSUME Inv, act.mostWork \in Blocks, NEW t \in Blocks
  PROVE  Towards(AfterDisconnect(t), t)
  <1>0. act \in Activation /\ act.mostWork \in Block0
    BY ActivateFrom
  <1>1. CASE t \notin Path[act.mostWork]
    BY <1>0, <1>1 DEF AfterDisconnect, Activation, Towards, Onward
  <1>2. CASE t \in Path[act.mostWork] /\ t = act.mostWork
    BY <1>0, <1>2, AfterStepLands DEF AfterDisconnect, Towards
  <1>3. CASE t \in Path[act.mostWork] /\ t # act.mostWork
    BY <1>0, <1>3 DEF AfterDisconnect, Activation, Towards, Onward
  <1>4. QED
    BY <1>1, <1>2, <1>3

\* StartStep leaves the loop when there is nothing to do, and else begins to move
LEMMA StartStepMoves ==
  ASSUME Inv, StartStep
  PROVE  /\ act.pc = "step"
         /\ UNCHANGED <<mapBlockIndex, valid, haveData, haveUndo, failedValid, failedChild,
                        linked, seqId, unlinked, queue, candidates, failedBlocks, tip, pending>>
         /\ \/ act.mostWork = NONE /\ act'.pc \in {"idle", "outer"} /\ act'.mostWork = NONE
            \/ act.mostWork = tip /\ act'.pc = "idle" /\ act'.mostWork = NONE
            \/ act.mostWork \in Blocks \ {tip} /\ Towards(act', tip)
  <1>1. CASE act.mostWork \in {NONE, tip}
    <2>1. act' = Unlock(act, tip)
      BY <1>1 DEF StartStep
    <2>2. \/ act.mostWork = NONE /\ act'.pc \in {"idle", "outer"} /\ act'.mostWork = NONE
          \/ act.mostWork = tip /\ act'.pc = "idle" /\ act'.mostWork = NONE
      BY <1>1, <2>1 DEF Unlock, Idle
    <2>3. QED
      BY <2>2 DEF StartStep, status, order, best
  <1>2. CASE act.mostWork \notin {NONE, tip}
    <2> DEFINE d == AfterDisconnect(tip)
    <2>1. act.mostWork \in Blocks /\ tip \in Blocks
      BY <1>2, ActivateFrom DEF Block0
    <2>2. d \in Activation /\ Towards(d, tip)
      BY <2>1, AfterDisconnectFacts, AfterDisconnectTowards DEF Inv
    <2>3. act' = [d EXCEPT !.oldTip = tip]
      BY <1>2 DEF StartStep
    <2> HIDE DEF d
    <2>4. act'.pc = d.pc /\ act'.mostWork = d.mostWork /\ act'.startTip = d.startTip
      BY <2>2, <2>3 DEF Activation
    <2>5. Towards(act', tip)
      BY <2>2, <2>4 DEF Towards, Landed, Onward
    <2>6. QED
      BY <1>2, <2>1, <2>5 DEF StartStep, status, order, best
  <1>3. QED
    BY <1>1, <1>2

LEMMA DisconnectTipMoves ==
  ASSUME Inv, DisconnectTip
  PROVE  /\ act.pc = "disconnect"
         /\ UNCHANGED <<mapBlockIndex, valid, haveData, haveUndo, failedValid, failedChild,
                        linked, seqId, unlinked, queue, candidates, failedBlocks, pending>>
         /\ act.mostWork \in Blocks /\ tip \in Blocks \ {Genesis}
         /\ tip' = Parent[tip] /\ tip' \in Blocks /\ tip' \in Path[tip] /\ tip' # tip
         /\ Towards(act', tip')
  <1>1. act.mostWork \in Blocks /\ tip \in Blocks /\ tip \notin Path[act.mostWork]
    BY ActivateFrom DEF DisconnectTip, Inv, StepSane
  <1>2. tip # Genesis
    BY <1>1, PathFacts
  <1>3. tip' = Parent[tip] /\ act' = AfterDisconnect(Parent[tip])
    BY DEF DisconnectTip
  <1>4. Parent[tip] \in Blocks /\ Parent[tip] \in Path[tip] /\ Parent[tip] # tip
    BY <1>1, <1>2, PathFacts, BranchFacts, SMT
  <1>5. QED
    BY <1>1, <1>2, <1>3, <1>4, AfterDisconnectTowards DEF DisconnectTip, status, order, best

LEMMA ConnectTipMoves ==
  ASSUME Inv, ConnectTip
  PROVE  /\ act.pc = "connect"
         /\ UNCHANGED <<mapBlockIndex, haveData, failedValid, failedChild,
                        linked, seqId, unlinked, queue, failedBlocks, pending>>
         /\ act.mostWork \in Blocks
         /\ tip' = NextToConnect /\ tip' \in Path[act.mostWork] /\ tip' \notin BadConnect
         /\ haveUndo' = haveUndo \cup {tip'}
         /\ valid' = RaiseValidity(tip', VALID_SCRIPTS)
         /\ candidates' = NotWorseThan(candidates, tip')
         /\ \/ Landed(act', tip', act.mostWork)
            \/ tip' # act.mostWork /\ Onward(act', "connect")
  <1> DEFINE n == NextToConnect
  <1>1. /\ act.pc = "connect" /\ tip' = n /\ n \notin BadConnect
        /\ haveUndo' = haveUndo \cup {n} /\ valid' = RaiseValidity(n, VALID_SCRIPTS)
        /\ candidates' = NotWorseThan(candidates, n)
        /\ UNCHANGED <<mapBlockIndex, haveData, failedValid, failedChild,
                        linked, seqId, unlinked, queue, failedBlocks, pending>>
        /\ \/ act' = AfterStep(n, act.mostWork)
           \/ n # act.mostWork /\ act' = [act EXCEPT !.batchEnd = BatchEnd(n)]
           \/ n # act.mostWork /\ act' = act
    BY DEF ConnectTip, order, best
  <1>2. /\ act.mostWork \in Blocks /\ n \in Blocks /\ n \in Path[act.mostWork]
        /\ act \in Activation /\ act.mostWork \in Block0
    BY <1>1, NextToConnectFacts, ActivateFrom
  <1> HIDE DEF n
  <1>3. CASE act' = AfterStep(n, act.mostWork)
    BY <1>1, <1>2, <1>3, AfterStepLands DEF n
  <1>4. CASE n # act.mostWork /\ act' = [act EXCEPT !.batchEnd = BatchEnd(n)]
    <2>1. Onward(act', "connect")
      BY <1>1, <1>2, <1>4 DEF Onward, Activation
    <2>2. QED
      BY <1>1, <1>2, <1>4, <2>1 DEF n
  <1>5. CASE n # act.mostWork /\ act' = act
    <2>1. Onward(act', "connect")
      BY <1>1, <1>5 DEF Onward
    <2>2. QED
      BY <1>1, <1>2, <1>5, <2>1 DEF n
  <1>6. QED
    BY <1>1, <1>3, <1>4, <1>5

LEMMA ConnectTipInvalidMoves ==
  ASSUME Inv, ConnectTipInvalid
  PROVE  /\ act.pc = "connect"
         /\ UNCHANGED <<mapBlockIndex, valid, haveData, haveUndo, failedChild,
                        linked, seqId, unlinked, queue, tip, pending>>
         /\ NextToConnect \in BadConnect
         /\ failedValid' = failedValid \cup {NextToConnect}
         /\ failedBlocks' = failedBlocks \cup {NextToConnect}
         /\ candidates' = candidates \ {NextToConnect}
         /\ Landed(act', tip, NONE)
  <1>1. act \in Activation /\ tip \in Blocks /\ NONE \in Block0
    BY ActivateFrom DEF Block0
  <1>2. Landed(AfterStep(tip, NONE), tip, NONE)
    BY <1>1, AfterStepLands
  <1>3. QED
    BY <1>2 DEF ConnectTipInvalid, order

LEMMA StartActivationMoves ==
  ASSUME StartActivation
  PROVE  /\ act.pc = "idle" /\ act'.pc = "outer" /\ act'.mostWork = NONE
         /\ queue = << >>
         /\ UNCHANGED <<mapBlockIndex, valid, haveData, haveUndo, failedValid, failedChild,
                        linked, seqId, unlinked, queue, candidates, failedBlocks, tip>>
  BY DEF StartActivation, Idle, status, order, best

LEMMA LockCsMainMoves ==
  ASSUME Inv, LockCsMain
  PROVE  /\ act.pc = "outer" /\ act'.pc = NextRound(act.mostWork)
         /\ act'.mostWork = act.mostWork /\ act'.startTip = tip
         /\ UNCHANGED <<mapBlockIndex, valid, haveData, haveUndo, failedValid, failedChild,
                        linked, seqId, unlinked, queue, candidates, failedBlocks, tip, pending>>
  <1>1. act \in Activation
    BY ActivateFrom
  <1>2. QED
    BY <1>1 DEF LockCsMain, Activation, status, order, best

\* one round of FindMostWorkChain: the best candidate is taken, or the part of
\* its chain above a failed block leaves the set with a mark
LEMMA FindMoves ==
  ASSUME Inv, FindMostWorkChain
  PROVE  /\ act.pc = "find"
         /\ UNCHANGED <<mapBlockIndex, valid, haveData, haveUndo, failedValid,
                        linked, seqId, unlinked, queue, failedBlocks, tip, pending>>
         /\ \/ /\ UNCHANGED <<candidates, failedChild>>
               /\ act'.pc = "step" /\ act'.startTip = act.startTip
               /\ \/ candidates = {} /\ act'.mostWork = NONE
                  \/ /\ act'.mostWork \in candidates
                     /\ \A d \in candidates \ {act'.mostWork} : Worse(d, act'.mostWork)
                     /\ (Path[act'.mostWork] \ Path[tip]) \cap Failed = {}
            \/ /\ act' = act
               /\ \E new \in candidates : \E test \in (Path[new] \ Path[tip]) \cap Failed :
                    /\ failedChild' = failedChild \cup (Path[new] \ Path[test])
                    /\ candidates' = candidates \ ((Path[new] \ Path[test]) \cup {test})
  <1>1. PICK new \in BestCandidate :
          \/ /\ new # NONE => (Path[new] \ Path[tip]) \cap Failed = {}
             /\ act' = [act EXCEPT !.pc = "step", !.mostWork = new]
             /\ UNCHANGED <<candidates, failedChild, bestInvalid>>
          \/ /\ new # NONE
             /\ \E test \in (Path[new] \ Path[tip]) \cap Failed :
                  /\ failedChild' = failedChild \cup (Path[new] \ Path[test])
                  /\ candidates' = candidates \ ((Path[new] \ Path[test]) \cup {test})
             /\ UNCHANGED act
    BY DEF FindMostWorkChain
  <1>2. /\ act.pc = "find"
        /\ UNCHANGED <<mapBlockIndex, valid, haveData, haveUndo, failedValid,
                       linked, seqId, unlinked, queue, failedBlocks, tip, pending>>
    BY DEF FindMostWorkChain, order
  <1>3. \/ candidates = {} /\ new = NONE
        \/ new \in candidates /\ \A d \in candidates \ {new} : Worse(d, new)
    BY DEF BestCandidate
  <1>4. act \in Activation /\ NONE \notin candidates
    BY ActivateFrom, TreeAssumption DEF TreeAssumption
  <1>5. CASE /\ new # NONE => (Path[new] \ Path[tip]) \cap Failed = {}
             /\ act' = [act EXCEPT !.pc = "step", !.mostWork = new]
             /\ UNCHANGED <<candidates, failedChild, bestInvalid>>
    <2>1. act'.pc = "step" /\ act'.mostWork = new /\ act'.startTip = act.startTip
      BY <1>4, <1>5 DEF Activation
    <2>2. QED
      BY <1>2, <1>3, <1>4, <1>5, <2>1
  <1>6. QED
    BY <1>1, <1>2, <1>3, <1>4, <1>5

\* what accepting a header or a block changes: nothing of the chosen chain
LEMMA ReceiveMoves ==
  ASSUME NEW b \in Blocks \ {Genesis}, Receive(b)
  PROVE  /\ CsMainFree /\ Parent[b] \in mapBlockIndex
         /\ UNCHANGED <<haveUndo, linked, seqId, candidates, failedBlocks, tip, act>>
         /\ pending' \in {pending, TRUE}
         /\ \/ DescendsFromFailed(b)
            \/ /\ HeaderAccepted(b)
               /\ mapBlockIndex' = mapBlockIndex \cup {b} /\ failedChild' = failedChild
               /\ \/ /\ valid' = RaiseValidity(b, VALID_TREE)
                     /\ UNCHANGED <<haveData, failedValid, unlinked, queue>>
                  \/ /\ b \notin haveData /\ b \in BadContext
                     /\ valid' = RaiseValidity(b, VALID_TREE)
                     /\ failedValid' = failedValid \cup {b}
                     /\ UNCHANGED <<haveData, unlinked, queue>>
                  \/ /\ b \notin haveData /\ ReceivedBlockTransactions(b) /\ pending' = TRUE
                     /\ failedValid' = failedValid
  <1>1. CASE AcceptBlockHeader(b)
    BY <1>1 DEF AcceptBlockHeader, AddToBlockIndex, DescendsFromFailed, order, best
  <1>2. ASSUME NEW r \in BOOLEAN, ProcessNewBlock(b, r)
        PROVE  /\ CsMainFree /\ Parent[b] \in mapBlockIndex
               /\ \/ DescendsFromFailed(b)
                  \/ /\ HeaderAccepted(b) /\ AddToBlockIndex(b)
                     /\ UNCHANGED <<candidates, failedBlocks, tip, act>>
                     /\ \/ /\ valid' = RaiseValidity(b, VALID_TREE) /\ pending' = TRUE
                           /\ UNCHANGED <<haveData, haveUndo, failedValid, failedChild, order>>
                        \/ /\ b \notin haveData /\ b \in BadContext
                           /\ valid' = RaiseValidity(b, VALID_TREE)
                           /\ failedValid' = failedValid \cup {b}
                           /\ UNCHANGED <<haveData, haveUndo, failedChild, order, pending>>
                        \/ /\ b \notin haveData /\ ReceivedBlockTransactions(b) /\ pending' = TRUE
    BY <1>2 DEF ProcessNewBlock
  <1>3. QED
    BY <1>1, <1>2 DEF Receive, AddToBlockIndex, DescendsFromFailed, ReceivedBlockTransactions,
                      order, best

LEMMA OperateMoves ==
  ASSUME Operate
  PROVE  /\ CsMainFree /\ (QuietRpc => NodeIdle) /\ pending' = TRUE
         /\ UNCHANGED <<mapBlockIndex, valid, haveData, haveUndo, linked, unlinked, queue, act>>
         /\ \/ \E b \in PreciousTargets : PreciousBlock(b)
            \/ \E b \in InvalidateTargets : InvalidateBlock(b)
            \/ \E b \in ReconsiderTargets : ResetBlockFailureFlags(b)
  BY DEF Operate, OperatorCall, PreciousBlock, InvalidateBlock, ResetBlockFailureFlags,
         status, order

LEMMA UsefulFrom ==
  ASSUME Inv
  PROVE  /\ tip \in Blocks /\ seqId \in [Blocks -> Int] /\ candidates \subseteq linked
         /\ linked \subseteq Blocks
  BY DEF Inv, TypeOK, AllWhole

\* what a step of the activating thread leaves alone and where it can lead
LEMMA ActivateMoves ==
  ASSUME Inv, Activate
  PROVE  /\ UNCHANGED <<mapBlockIndex, haveData, linked, seqId, unlinked, queue>>
         /\ tip' \in Path[tip] \/ (act.mostWork \in Blocks /\ tip' \in Path[act.mostWork])
         /\ act'.mostWork \in {NONE, act.mostWork} \cup candidates
         /\ act'.pc \in HoldsCsMain =>
              \/ act.pc \in HoldsCsMain /\ act'.startTip = act.startTip
              \/ act'.startTip = tip
  <1>0. tip \in Blocks /\ tip \in Path[tip]
    BY ActivateFrom, PathFacts
  <1>1. CASE StartActivation
    BY <1>0, <1>1, StartActivationMoves DEF HoldsCsMain
  <1>2. CASE LockCsMain
    BY <1>0, <1>2, LockCsMainMoves
  <1>3. CASE FindMostWorkChain
    BY <1>0, <1>3, FindMoves DEF HoldsCsMain
  <1>4. CASE StartStep
    BY <1>0, <1>4, StartStepMoves DEF HoldsCsMain, Towards, Landed, Onward
  <1>5. CASE DisconnectTip
    BY <1>0, <1>5, DisconnectTipMoves DEF HoldsCsMain, Towards, Landed, Onward
  <1>6. CASE ConnectTip
    BY <1>0, <1>6, ConnectTipMoves DEF HoldsCsMain, Landed, Onward
  <1>7. CASE ConnectTipInvalid
    BY <1>0, <1>7, ConnectTipInvalidMoves DEF HoldsCsMain, Landed
  <1>8. QED
    BY <1>1, <1>2, <1>3, <1>4, <1>5, <1>6, <1>7 DEF Activate

-----------------------------------------------------------------------------
(* The block index is closed under ancestors and holds what is marked.      *)

Indexed ==
  /\ haveData \subseteq mapBlockIndex /\ Failed \subseteq mapBlockIndex
  /\ \A b \in mapBlockIndex : Path[b] \subseteq mapBlockIndex

LEMMA ReceiveIndexed ==
  ASSUME Inv, Indexed, NEW b \in Blocks \ {Genesis}, Receive(b)
  PROVE  Indexed'
  <1>1. Parent[b] \in mapBlockIndex /\ Path[b] = Path[Parent[b]] \cup {b}
    BY ReceiveMoves, PathFacts
  <1>2. CASE DescendsFromFailed(b)
    <2>1. /\ UNCHANGED <<mapBlockIndex, haveData, failedValid>>
          /\ failedChild' \subseteq failedChild \cup Path[Parent[b]]
      BY <1>2 DEF DescendsFromFailed
    <2>2. QED
      BY <1>1, <2>1 DEF Indexed, Failed
  <1>3. CASE ~ DescendsFromFailed(b)
    <2>1. /\ mapBlockIndex' = mapBlockIndex \cup {b} /\ failedChild' = failedChild
          /\ haveData' \subseteq haveData \cup {b} /\ failedValid' \subseteq failedValid \cup {b}
      BY <1>3, ReceiveMoves DEF ReceivedBlockTransactions
    <2>2. QED
      BY <1>1, <2>1 DEF Indexed, Failed
  <1>4. QED
    BY <1>2, <1>3

LEMMA ActivateIndexed ==
  ASSUME Inv, Indexed, Activate
  PROVE  Indexed'
  <1>1. UNCHANGED <<mapBlockIndex, haveData>>
    BY ActivateMoves
  <1>2. CASE FindMostWorkChain
    <2>1. failedValid' = failedValid
      BY <1>2, FindMoves
    <2>2. failedChild' \subseteq failedChild \cup haveData
      BY <1>2, FindMoves, ActivateFrom
    <2>3. QED
      BY <1>1, <2>1, <2>2 DEF Indexed, Failed
  <1>3. CASE ConnectTipInvalid
    <2>1. NextToConnect \in haveData
      BY <1>3, NextToConnectFacts, PathFacts, ConnectTipInvalidMoves
    <2>2. QED
      BY <1>1, <1>3, <2>1, ConnectTipInvalidMoves DEF Indexed, Failed
  <1>4. CASE ~ FindMostWorkChain /\ ~ ConnectTipInvalid
    <2>1. UNCHANGED <<failedValid, failedChild>>
      BY <1>4, StartActivationMoves, LockCsMainMoves, StartStepMoves, DisconnectTipMoves,
         ConnectTipMoves DEF Activate
    <2>2. QED
      BY <1>1, <2>1 DEF Indexed, Failed
  <1>5. QED
    BY <1>2, <1>3, <1>4

LEMMA OperateIndexed ==
  ASSUME Inv, Indexed, Operate
  PROVE  Indexed'
  <1>1. UNCHANGED <<mapBlockIndex, haveData>>
    BY OperateMoves
  <1>2. ASSUME NEW b \in PreciousTargets, PreciousBlock(b) PROVE Failed' \subseteq Failed
    BY <1>2 DEF PreciousBlock, status, Failed
  <1>3. ASSUME NEW b \in InvalidateTargets, InvalidateBlock(b)
        PROVE  Failed' \subseteq Failed \cup Path[tip] \cup {b} /\ b \in mapBlockIndex
    BY <1>3 DEF InvalidateBlock, Failed
  <1>4. ASSUME NEW b \in ReconsiderTargets, ResetBlockFailureFlags(b)
        PROVE  Failed' \subseteq Failed
    BY <1>4 DEF ResetBlockFailureFlags, Failed
  <1>5. Failed' \subseteq Failed \cup haveData \cup mapBlockIndex
    BY <1>2, <1>3, <1>4, OperateMoves, ActivateFrom
  <1>6. QED
    BY <1>1, <1>5 DEF Indexed

LEMMA IndexedAlways == Spec => []Indexed
  <1>1. Init => Indexed
    BY TreeAssumption DEF Init, Indexed, Failed, TreeAssumption
  <1>2. Inv /\ Indexed /\ [Next]_vars => Indexed'
    <2> SUFFICES ASSUME Inv, Indexed, [Next]_vars PROVE Indexed'
      OBVIOUS
    <2>1. CASE LinkBlock
      BY <2>1 DEF LinkBlock, status, Indexed, Failed
    <2>2. CASE UNCHANGED vars
      BY <2>2 DEF vars, status, Indexed, Failed
    <2>3. QED
      BY <2>1, <2>2, ReceiveIndexed, ActivateIndexed, OperateIndexed DEF Next
  <1>3. QED
    BY <1>1, <1>2, InvAlways, PTL DEF Spec

-----------------------------------------------------------------------------
(* Linking: the blocks with nChainTx set are closed under ancestors, and a  *)
(* block on its way there is in one place, once.                            *)

InLinked ==
  /\ tip \in linked
  /\ act.mostWork # NONE => act.mostWork \in linked
  /\ act.pc \in HoldsCsMain => act.startTip \in linked
  /\ \A b \in linked : Path[b] \subseteq linked

Waits ==
  /\ \A i \in 1 .. Len(queue) :
       queue[i] \notin linked /\ queue[i] # Genesis /\ Parent[queue[i]] \in linked
  /\ \A i, j \in 1 .. Len(queue) : i # j => queue[i] # queue[j]
  /\ \A p \in linked : unlinked[p] = << >>
  /\ \A p \in Blocks : \A i, j \in 1 .. Len(unlinked[p]) :
       i # j => unlinked[p][i] # unlinked[p][j]

Linking == InLinked /\ Waits

LEMMA LinkedHaveData ==
  ASSUME Inv, NEW b \in linked
  PROVE  b \in haveData /\ b \in Blocks /\ Path[b] \subseteq haveData
  BY PathFacts DEF Inv, TypeOK, AllWhole, Whole

LEMMA ReceiveLinking ==
  ASSUME Inv, Linking, NEW b \in Blocks \ {Genesis}, Receive(b)
  PROVE  Linking'
  <1>0. queue = << >> /\ UNCHANGED <<linked, tip, act>>
    BY ReceiveMoves DEF CsMainFree
  <1>1. CASE UNCHANGED <<unlinked, queue>>
    BY <1>0, <1>1, SMT DEF Linking, InLinked, Waits
  <1>2. CASE b \notin haveData /\ ReceivedBlockTransactions(b)
    <2>1. b \notin linked
      BY <1>2, LinkedHaveData
    <2>2. CASE Parent[b] \in linked
      <3>1. queue' = <<b>> /\ unlinked' = unlinked
        BY <1>2, <2>2 DEF ReceivedBlockTransactions
      <3>2. QED
        BY <1>0, <2>1, <2>2, <3>1, SMT DEF Linking, InLinked, Waits
    <2>3. CASE Parent[b] \notin linked /\ unlinked' = [unlinked EXCEPT ![Parent[b]] = Append(@, b)]
      <3>1. queue' = queue /\ Parent[b] \in Blocks /\ unlinked \in [Blocks -> Seq(Blocks)]
        BY <1>2, <2>3, PathFacts DEF ReceivedBlockTransactions, Inv, TypeOK
      <3>2. \A p \in linked : unlinked'[p] = << >>
        BY <2>3, <3>1 DEF Linking, Waits, Inv, TypeOK
      <3>3. ASSUME NEW p \in Blocks, NEW i \in 1 .. Len(unlinked'[p]),
                   NEW j \in 1 .. Len(unlinked'[p]), i # j
            PROVE  unlinked'[p][i] # unlinked'[p][j]
        <4>1. CASE p # Parent[b]
          BY <2>3, <3>1, <3>3, <4>1 DEF Linking, Waits
        <4>2. CASE p = Parent[b]
          <5>1. unlinked'[p] = Append(unlinked[p], b) /\ unlinked[p] \in Seq(Blocks)
            BY <2>3, <3>1, <4>2
          <5>2. \A k \in 1 .. Len(unlinked[p]) : unlinked[p][k] # b
            BY <1>2, SMT DEF Inv, WaitingWhole
          <5>3. QED
            BY <3>3, <5>1, <5>2, SMT DEF Linking, Waits
        <4>3. QED
          BY <4>1, <4>2
      <3>4. QED
        BY <1>0, <3>1, <3>2, <3>3, SMT DEF Linking, InLinked, Waits
    <2>4. CASE Parent[b] \notin linked /\ unlinked' = unlinked
      <3>1. queue' = queue
        BY <1>2, <2>4 DEF ReceivedBlockTransactions
      <3>2. QED
        BY <1>1, <2>4, <3>1
    <2>5. QED
      BY <1>2, <2>2, <2>3, <2>4 DEF ReceivedBlockTransactions
  <1>3. QED
    BY <1>1, <1>2, ReceiveMoves DEF DescendsFromFailed, order

\* where the blocks of the queue come from in a round of the linking loop
LEMMA QueueAfterLink ==
  ASSUME Inv, LinkBlock, NEW k \in 1 .. Len(queue')
  PROVE  \/ k + 1 \in 2 .. Len(queue) /\ queue'[k] = queue[k + 1]
         \/ /\ k - (Len(queue) - 1) \in 1 .. Len(unlinked[Head(queue)])
            /\ queue'[k] = unlinked[Head(queue)][k - (Len(queue) - 1)]
  <1> DEFINE b == Head(queue)
  <1>0. queue # << >> /\ queue' = Tail(queue) \o unlinked[b]
    BY DEF LinkBlock
  <1>1. /\ queue \in Seq(Blocks) /\ queue # << >> /\ Len(queue) \in Nat \ {0}
        /\ b \in Blocks /\ unlinked[b] \in Seq(Blocks)
        /\ queue' = Tail(queue) \o unlinked[b]
    BY <1>0, SMT DEF Inv, TypeOK
  <1> HIDE DEF b
  <1>2. Tail(queue) \in Seq(Blocks) /\ Len(Tail(queue)) = Len(queue) - 1
    BY <1>1, SMT
  <1>3. Len(queue') = (Len(queue) - 1) + Len(unlinked[b])
    BY <1>1, <1>2, SMT
  <1>4. CASE k \in 1 .. Len(queue) - 1
    <2>1. queue'[k] = Tail(queue)[k]
      BY <1>1, <1>2, <1>4, SMT
    <2>2. Tail(queue)[k] = queue[k + 1]
      BY <1>1, <1>2, <1>4, SMT
    <2>3. QED
      BY <1>1, <1>4, <2>1, <2>2, SMT
  <1>5. CASE k \notin 1 .. Len(queue) - 1
    BY <1>1, <1>2, <1>3, <1>5, SMT DEF b
  <1>6. QED
    BY <1>4, <1>5

LEMMA LinkBlockLinking ==
  ASSUME Inv, Linking, LinkBlock
  PROVE  Linking'
  <1> DEFINE b == Head(queue)
             m == Len(queue) - 1
  <1>1. /\ queue \in Seq(Blocks) /\ Len(queue) \in Nat \ {0} /\ b \in Blocks /\ b = queue[1]
        /\ unlinked \in [Blocks -> Seq(Blocks)] /\ unlinked[b] \in Seq(Blocks)
        /\ linked' = linked \cup {b} /\ unlinked' = [unlinked EXCEPT ![b] = << >>]
        /\ UNCHANGED <<tip, act>>
    BY SMT DEF LinkBlock, Inv, TypeOK
  <1>2. b \notin linked /\ b # Genesis /\ Parent[b] \in linked
    BY <1>1, SMT DEF Linking, Waits
  <1>3. \A k \in 1 .. Len(unlinked[b]) :
          /\ unlinked[b][k] # Genesis /\ Parent[unlinked[b][k]] = b /\ unlinked[b][k] \in Blocks
    BY <1>1 DEF Inv, WaitingWhole, TypeOK
  <1>4. \A k \in 1 .. Len(unlinked[b]) : unlinked[b][k] \notin linked \cup {b}
    <2> SUFFICES ASSUME NEW k \in 1 .. Len(unlinked[b]) PROVE unlinked[b][k] \notin linked \cup {b}
      OBVIOUS
    <2> DEFINE c == unlinked[b][k]
    <2>1. c \in Blocks \ {Genesis} /\ Parent[c] = b
      BY <1>3
    <2> HIDE DEF c
    <2>2. Height[c] = Height[b] + 1 /\ Height[b] \in Nat
      BY <1>1, <2>1, BranchFacts, PathFacts
    <2>3. b \in Path[c]
      BY <2>1, PathFacts
    <2>4. c # b /\ c \notin linked
      BY <1>2, <2>2, <2>3, SMT DEF Linking, InLinked
    <2>5. QED
      BY <2>4 DEF c
  <1>5. ASSUME NEW k \in 1 .. Len(queue')
        PROVE  \/ /\ k \in 1 .. m /\ k + 1 \in 2 .. Len(queue) /\ queue'[k] = queue[k + 1]
               \/ k > m /\ k - m \in 1 .. Len(unlinked[b]) /\ queue'[k] = unlinked[b][k - m]
    BY <1>1, <1>5, QueueAfterLink, SMT
  <1> HIDE DEF b, m
  <1>6. InLinked'
    <2>1. Path[b] = Path[Parent[b]] \cup {b}
      BY <1>1, <1>2, PathFacts
    <2>2. QED
      BY <1>1, <1>2, <2>1 DEF Linking, InLinked
  <1>7. ASSUME NEW k \in 1 .. Len(queue')
        PROVE  queue'[k] \notin linked' /\ queue'[k] # Genesis /\ Parent[queue'[k]] \in linked'
    <2>1. CASE k + 1 \in 2 .. Len(queue) /\ queue'[k] = queue[k + 1]
      BY <1>1, <2>1, SMT DEF Linking, Waits
    <2>2. CASE k - m \in 1 .. Len(unlinked[b]) /\ queue'[k] = unlinked[b][k - m]
      BY <1>1, <1>3, <1>4, <2>2
    <2>3. QED
      BY <1>5, <1>7, <2>1, <2>2
  <1>8. ASSUME NEW i \in 1 .. Len(queue'), NEW j \in 1 .. Len(queue'), i # j
        PROVE  queue'[i] # queue'[j]
    <2>0. m \in Nat
      BY <1>1, SMT DEF m
    <2>1. CASE i \in 1 .. m /\ j \in 1 .. m
      BY <1>5, <1>8, <2>0, <2>1, SMT DEF Linking, Waits
    <2>2. CASE i > m /\ j > m
      <3>1. /\ i - m \in 1 .. Len(unlinked[b]) /\ queue'[i] = unlinked[b][i - m]
            /\ j - m \in 1 .. Len(unlinked[b]) /\ queue'[j] = unlinked[b][j - m]
        BY <1>5, <2>0, <2>2, SMT
      <3>2. i - m # j - m
        BY <1>8, <2>0, SMT
      <3>3. \A x, y \in 1 .. Len(unlinked[b]) : x # y => unlinked[b][x] # unlinked[b][y]
        BY <1>1 DEF Linking, Waits
      <3>4. QED
        BY <3>1, <3>2, <3>3
    <2>3. \A x, y \in 1 .. Len(queue') : x <= m /\ y > m => queue'[x] # queue'[y]
      <3> SUFFICES ASSUME NEW x \in 1 .. Len(queue'), NEW y \in 1 .. Len(queue'), x <= m, y > m
                   PROVE  queue'[x] # queue'[y]
        OBVIOUS
      <3>1. Parent[queue'[x]] \in linked
        BY <1>5, <2>0, SMT DEF Linking, Waits
      <3>2. y - m \in 1 .. Len(unlinked[b]) /\ queue'[y] = unlinked[b][y - m]
        BY <1>5, <2>0, SMT
      <3>3. QED
        BY <1>2, <1>3, <3>1, <3>2
    <2>4. QED
      BY <2>0, <2>1, <2>2, <2>3, SMT
  <1>9. \A p \in linked' : unlinked'[p] = << >>
    BY <1>1 DEF Linking, Waits, Inv, TypeOK
  <1>10. \A p \in Blocks : \A i, j \in 1 .. Len(unlinked'[p]) :
           i # j => unlinked'[p][i] # unlinked'[p][j]
    <2> SUFFICES ASSUME NEW p \in Blocks, NEW i \in 1 .. Len(unlinked'[p]),
                        NEW j \in 1 .. Len(unlinked'[p]), i # j
                 PROVE  unlinked'[p][i] # unlinked'[p][j]
      OBVIOUS
    <2>1. p # b
      BY <1>1, SMT
    <2>2. QED
      BY <1>1, <2>1 DEF Linking, Waits
  <1>11. QED
    BY <1>6, <1>7, <1>8, <1>9, <1>10 DEF Linking, Waits

LEMMA LinkingAlways == Spec => []Linking
  <1>1. Init => Linking
    BY TreeAssumption, SMT DEF Init, Linking, InLinked, Waits, Idle, HoldsCsMain, TreeAssumption
  <1>2. Inv /\ Linking /\ [Next]_vars => Linking'
    <2> SUFFICES ASSUME Inv, Linking, [Next]_vars PROVE Linking'
      OBVIOUS
    <2>1. CASE Activate
      <3>1. tip' \in linked
        BY <2>1, ActivateMoves, TreeAssumption DEF Linking, InLinked, TreeAssumption
      <3>2. act'.mostWork # NONE => act'.mostWork \in linked
        BY <2>1, ActivateMoves DEF Linking, InLinked, Inv, AllWhole
      <3>3. act'.pc \in HoldsCsMain => act'.startTip \in linked
        BY <2>1, ActivateMoves DEF Linking, InLinked
      <3>4. UNCHANGED <<linked, unlinked, queue>>
        BY <2>1, ActivateMoves
      <3>5. InLinked'
        BY <3>1, <3>2, <3>3, <3>4 DEF Linking, InLinked
      <3>6. Waits'
        BY <3>4, SMT DEF Linking, Waits
      <3>7. QED
        BY <3>5, <3>6 DEF Linking
    <2>2. CASE Operate
      <3>1. UNCHANGED <<linked, unlinked, queue, act>>
        BY <2>2, OperateMoves
      <3>2. tip' \in linked
        <4>1. ASSUME NEW b \in InvalidateTargets, InvalidateBlock(b) PROVE tip' \in linked
          <5>1. b \in Blocks \ {Genesis} /\ tip \in Blocks /\ tip \in linked
            BY InputAssumption, ActivateFrom DEF InputAssumption, Linking, InLinked
          <5>2. b \in Path[tip] => Parent[b] \in Path[tip]
            BY <5>1, PathFacts
          <5>3. tip' = IF b \in Path[tip] THEN Parent[b] ELSE tip
            BY <4>1 DEF InvalidateBlock, InChain
          <5>4. QED
            BY <5>1, <5>2, <5>3 DEF Linking, InLinked
        <4>2. (\E b \in PreciousTargets : PreciousBlock(b)) \/
              (\E b \in ReconsiderTargets : ResetBlockFailureFlags(b)) => tip' = tip
          BY DEF PreciousBlock, ResetBlockFailureFlags
        <4>3. QED
          BY <2>2, <4>1, <4>2, OperateMoves DEF Linking, InLinked
      <3>3. InLinked'
        BY <3>1, <3>2 DEF Linking, InLinked
      <3>4. Waits'
        BY <3>1, SMT DEF Linking, Waits
      <3>5. QED
        BY <3>3, <3>4 DEF Linking
    <2>3. CASE UNCHANGED vars
      BY <2>3, SMT DEF vars, order, Linking, InLinked, Waits
    <2>4. QED
      BY <2>1, <2>2, <2>3, ReceiveLinking, LinkBlockLinking DEF Next
  <1>3. QED
    BY <1>1, <1>2, InvAlways, PTL DEF Spec

LEMMA RaiseFacts ==
  ASSUME TypeOK, NEW b \in Blocks, NEW u \in {VALID_TREE, VALID_TRANSACTIONS, VALID_SCRIPTS}
  PROVE  LET v == RaiseValidity(b, u)
         IN /\ \A x \in Blocks : v[x] \in Nat /\ valid[x] \in Nat /\ (x # b => v[x] = valid[x])
            /\ v[b] = valid[b] \/ (v[b] = u /\ valid[b] < u)
            /\ b \notin Failed => v[b] >= u
  <1>1. /\ DOMAIN valid = Blocks /\ \A x \in Blocks : valid[x] \in Nat
    <2>1. valid \in [Blocks -> {NO_HEADER, VALID_TREE, VALID_TRANSACTIONS, VALID_SCRIPTS}]
      BY DEF TypeOK
    <2>2. {NO_HEADER, VALID_TREE, VALID_TRANSACTIONS, VALID_SCRIPTS} \subseteq Nat
      BY SMT DEF NO_HEADER, VALID_TREE, VALID_TRANSACTIONS, VALID_SCRIPTS
    <2>3. QED
      BY <2>1, <2>2
  <1>2. u \in Nat
    BY SMT DEF VALID_TREE, VALID_TRANSACTIONS, VALID_SCRIPTS
  <1>3. CASE b \notin Failed /\ valid[b] < u
    BY <1>1, <1>2, <1>3, SMT DEF RaiseValidity
  <1>4. CASE ~ (b \notin Failed /\ valid[b] < u)
    BY <1>1, <1>2, <1>4, SMT DEF RaiseValidity
  <1>5. QED
    BY <1>3, <1>4

-----------------------------------------------------------------------------
(* Every failure mark has its cause, if the operator reconsiders a block    *)
(* whose ancestors cannot fail.                                             *)

Causes == BadContext \cup BadConnect \cup InvalidateTargets

\* what is reconsidered is the block that failed, not a descendant of it, through
\* which the failed block would lose its mark without being a candidate again
ReconsidersRoots == \A b \in ReconsiderTargets : (Path[b] \ {b}) \cap Causes = {}

Caused ==
  /\ failedValid \subseteq Causes
  /\ \A b \in Failed : ~ Sound(b)

LEMMA AboveCaused ==
  ASSUME Inv, Caused, NEW top \in Blocks, NEW f \in Path[top] \cap Failed,
         NEW x \in Path[top] \ Path[f]
  PROVE  ~ Sound(x)
  <1>1. f \in Path[x]
    BY BranchFacts
  <1>2. Path[f] \subseteq Path[x]
    BY <1>1, PathFacts
  <1>3. QED
    BY <1>2 DEF Caused, Sound

LEMMA ReceiveCaused ==
  ASSUME Inv, Caused, FailedBlocksAreFailed, NEW b \in Blocks \ {Genesis}, Receive(b)
  PROVE  Caused'
  <1>1. CASE DescendsFromFailed(b)
    <2>1. Parent[b] \in Blocks /\ failedValid' = failedValid
      BY <1>1, PathFacts DEF DescendsFromFailed
    <2>2. PICK f \in Path[Parent[b]] \cap failedBlocks :
            failedChild' = failedChild \cup (Path[Parent[b]] \ Path[f])
      BY <1>1 DEF DescendsFromFailed
    <2>3. f \in Failed
      BY <2>2 DEF FailedBlocksAreFailed, Failed
    <2>4. \A x \in Path[Parent[b]] \ Path[f] : ~ Sound(x)
      BY <2>1, <2>2, <2>3, AboveCaused
    <2>5. QED
      BY <2>1, <2>2, <2>4 DEF Caused, Failed, Sound
  <1>2. CASE ~ DescendsFromFailed(b)
    <2>1. /\ failedChild' = failedChild
          /\ failedValid' = failedValid \/ (b \in BadContext /\ failedValid' = failedValid \cup {b})
      BY <1>2, ReceiveMoves
    <2>2. QED
      BY <2>1, PathFacts, SMT DEF Caused, Failed, Sound, Causes
  <1>3. QED
    BY <1>1, <1>2

LEMMA ActivateCaused ==
  ASSUME Inv, Caused, Activate
  PROVE  Caused'
  <1>1. CASE FindMostWorkChain /\ failedChild' # failedChild
    <2>1. PICK new \in candidates : \E test \in Path[new] \cap Failed :
            failedChild' = failedChild \cup (Path[new] \ Path[test])
      BY <1>1, FindMoves
    <2>2. PICK test \in Path[new] \cap Failed :
            failedChild' = failedChild \cup (Path[new] \ Path[test])
      BY <2>1
    <2>3. new \in Blocks /\ failedValid' = failedValid
      BY <1>1, ActivateFrom, FindMoves
    <2>4. \A x \in Path[new] \ Path[test] : ~ Sound(x)
      BY <2>2, <2>3, AboveCaused
    <2>5. QED
      BY <2>2, <2>3, <2>4 DEF Caused, Failed, Sound
  <1>2. CASE ConnectTipInvalid
    <2>1. /\ failedChild' = failedChild /\ failedValid' = failedValid \cup {NextToConnect}
          /\ NextToConnect \in BadConnect /\ NextToConnect \in Blocks
      BY <1>2, ConnectTipInvalidMoves, NextToConnectFacts
    <2>2. QED
      BY <2>1, PathFacts, SMT DEF Caused, Failed, Sound, Causes
  <1>3. CASE ~ ConnectTipInvalid /\ failedChild' = failedChild
    <2>1. failedValid' = failedValid
      BY <1>3, StartActivationMoves, LockCsMainMoves, FindMoves, StartStepMoves,
         DisconnectTipMoves, ConnectTipMoves DEF Activate
    <2>2. QED
      BY <1>3, <2>1 DEF Caused, Failed, Sound
  <1>4. QED
    BY <1>1, <1>2, <1>3, StartActivationMoves, LockCsMainMoves, StartStepMoves,
       DisconnectTipMoves, ConnectTipMoves DEF Activate

LEMMA InvalidateCaused ==
  ASSUME Inv, Caused, NEW b \in InvalidateTargets, InvalidateBlock(b)
  PROVE  Caused'
  <1>0. b \in Blocks /\ tip \in Blocks
    BY InputAssumption, ActivateFrom DEF InputAssumption
  <1>1. /\ failedValid' = failedValid \cup {b}
        /\ \A x \in failedChild' : x \in failedChild \/ (b \in Path[tip] /\ x \in Path[tip] \ Path[b])
    BY DEF InvalidateBlock, InChain
  <1>2. \A x \in Path[tip] : b \in Path[tip] /\ x \notin Path[b] => b \in Path[x]
    BY <1>0, BranchFacts
  <1>3. failedValid' \subseteq Causes
    BY <1>1 DEF Caused, Causes
  <1>4. \A x \in Failed' : x \in Failed \/ b \in Path[x]
    BY <1>0, <1>1, <1>2, PathFacts DEF Failed
  <1>5. QED
    BY <1>1, <1>3, <1>4 DEF Caused, Sound

LEMMA ResetCaused ==
  ASSUME Inv, Indexed, Caused, ReconsidersRoots, NEW b \in ReconsiderTargets,
         ResetBlockFailureFlags(b)
  PROVE  Caused'
  <1> DEFINE below == {d \in mapBlockIndex : b \in Path[d] /\ ~ IsValid(d, VALID_TRANSACTIONS)}
             cleared == below \cup (Path[b] \cap Failed)
  <1>1. failedValid' = failedValid \ cleared /\ failedChild' = failedChild \ cleared
    BY DEF ResetBlockFailureFlags
  <1>2. ASSUME NEW d \in Failed' PROVE Path[d] \cap failedValid' # {}
    <2>1. d \in Failed /\ d \notin cleared /\ d \in mapBlockIndex /\ d \in Blocks
      BY <1>1, <1>2 DEF Failed, Indexed, Inv, TypeOK
    <2>2. b \notin Path[d]
      BY <2>1 DEF IsValid
    <2>3. PICK x \in Path[d] : x \in failedValid
      BY <2>1 DEF Caused, Sound
    <2>4. Path[x] \subseteq Path[d]
      BY <2>1, PathFacts
    <2>5. x \notin below
      BY <2>2, <2>4
    <2>6. x \notin Path[b]
      BY <2>2, <2>3 DEF Caused, ReconsidersRoots
    <2>7. QED
      BY <1>1, <2>3, <2>5, <2>6
  <1>3. failedValid' \subseteq Causes
    BY <1>1 DEF Caused
  <1> HIDE DEF cleared, below
  <1>4. QED
    BY <1>2, <1>3 DEF Caused, Sound

LEMMA CausedAlways == ASSUME ReconsidersRoots PROVE Spec => []Caused
  <1>1. Init => Caused
    BY DEF Init, Caused, Failed
  <1>2. Inv /\ Indexed /\ FailedBlocksAreFailed /\ Caused /\ [Next]_vars => Caused'
    <2> SUFFICES ASSUME Inv, Indexed, FailedBlocksAreFailed, Caused, [Next]_vars PROVE Caused'
      OBVIOUS
    <2>1. CASE LinkBlock
      BY <2>1 DEF LinkBlock, status, Caused, Failed, Sound
    <2>2. CASE UNCHANGED vars
      BY <2>2 DEF vars, status, Caused, Failed, Sound
    <2>3. ASSUME NEW b \in PreciousTargets, PreciousBlock(b) PROVE Caused'
      BY <2>3 DEF PreciousBlock, status, Caused, Failed, Sound
    <2>4. CASE Operate
      BY <2>3, <2>4, InvalidateCaused, ResetCaused, OperateMoves
    <2>5. QED
      BY <2>1, <2>2, <2>4, ReceiveCaused, ActivateCaused DEF Next
  <1>3. QED
    BY <1>1, <1>2, InvAlways, IndexedAlways, FailedSetSound, PTL DEF Spec

\* CheckBlockIndex's "The failed mask cannot be set for blocks without invalid
\* parents": for operator calls at any time, as long as what is reconsidered has
\* no ancestor that can fail.
THEOREM MarksHaveCauses == ASSUME ReconsidersRoots PROVE Spec => []FailureHasCause
  <1>1. Caused => FailureHasCause
    BY DEF Caused, FailureHasCause
  <1>2. QED
    BY <1>1, CausedAlways, PTL

-----------------------------------------------------------------------------
(* Marks: with an operator who waits for the node to be idle, no block with *)
(* a failure mark is in the active chain or on the way there.               *)

Clean ==
  /\ Path[tip] \cap Failed = {}
  /\ act.mostWork # NONE => Path[act.mostWork] \cap Failed = {}
  /\ act.pc = "idle" => act.mostWork = NONE
  /\ failedBlocks \subseteq failedValid

\* no mark that AcceptBlockHeader, AcceptBlock or FindMostWorkChain sets falls on
\* a whole chain without failed blocks
LEMMA MarksMiss ==
  ASSUME NEW x \in Blocks, Path[x] \cap Failed = {},
         NEW top \in Blocks, NEW f \in Path[top] \cap Failed
  PROVE  Path[x] \cap (Path[top] \ Path[f]) = {}
  <1> SUFFICES ASSUME NEW y \in Path[x], y \in Path[top], y \notin Path[f] PROVE FALSE
    OBVIOUS
  <1>1. f \in Path[y]
    BY BranchFacts
  <1>2. f \in Path[x]
    BY <1>1, PathFacts
  <1>3. QED
    BY <1>2

LEMMA ReceiveClean ==
  ASSUME Inv, Clean, NEW b \in Blocks \ {Genesis}, Receive(b)
  PROVE  Clean'
  <1>0. UNCHANGED <<tip, act, failedBlocks>> /\ failedValid \subseteq failedValid'
    BY ReceiveMoves DEF DescendsFromFailed, ReceivedBlockTransactions
  <1>1. ASSUME NEW x \in Blocks, Path[x] \subseteq haveData, Path[x] \cap Failed = {}
        PROVE  Path[x] \cap Failed' = {}
    <2>1. CASE DescendsFromFailed(b)
      <3>1. Parent[b] \in Blocks /\ failedValid' = failedValid
        BY <2>1, PathFacts DEF DescendsFromFailed
      <3>2. PICK f \in Path[Parent[b]] \cap failedBlocks :
              failedChild' = failedChild \cup (Path[Parent[b]] \ Path[f])
        BY <2>1 DEF DescendsFromFailed
      <3>3. f \in Failed
        BY <3>2 DEF Clean, Failed
      <3>4. QED
        BY <1>1, <3>1, <3>2, <3>3, MarksMiss DEF Failed
    <2>2. CASE ~ DescendsFromFailed(b)
      <3>1. Failed' = Failed \/ (b \notin haveData /\ Failed' = Failed \cup {b})
        BY <2>2, ReceiveMoves DEF Failed
      <3>2. QED
        BY <1>1, <3>1
    <2>3. QED
      BY <2>1, <2>2
  <1>2. QED
    BY <1>0, <1>1, ActivateFrom DEF Clean, Block0

LEMMA ActivateClean ==
  ASSUME Inv, Clean, Activate
  PROVE  Clean'
  <1>0. tip \in Blocks /\ act.mostWork \in Block0 /\ candidates \subseteq Blocks
    BY ActivateFrom
  <1>1. CASE FindMostWorkChain
    <2>1. UNCHANGED <<tip, failedBlocks, failedValid>> /\ act'.pc # "idle"
      BY <1>1, FindMoves
    <2>2. CASE UNCHANGED failedChild
      BY <1>1, <2>1, <2>2, FindMoves DEF Clean, Failed
    <2>3. CASE failedChild' # failedChild
      <3>1. PICK new \in candidates : \E test \in Path[new] \cap Failed :
              failedChild' = failedChild \cup (Path[new] \ Path[test])
        BY <1>1, <2>3, FindMoves
      <3>2. PICK test \in Path[new] \cap Failed :
              failedChild' = failedChild \cup (Path[new] \ Path[test])
        BY <3>1
      <3>3. act' = act
        BY <1>1, <2>3, FindMoves
      <3>4. QED
        BY <1>0, <2>1, <3>2, <3>3, MarksMiss DEF Clean, Failed, Block0
    <2>4. QED
      BY <2>2, <2>3
  <1>2. CASE ConnectTipInvalid
    <2>1. act'.mostWork = NONE /\ tip' = tip /\ failedChild' = failedChild
      BY <1>2, ConnectTipInvalidMoves DEF Landed
    <2>2. NextToConnect \notin Path[tip]
      BY <1>2, NextIsChild, ConnectTipInvalidMoves
    <2>3. QED
      BY <1>2, <2>1, <2>2, ConnectTipInvalidMoves DEF Clean, Failed
  <1>3. CASE ~ FindMostWorkChain /\ ~ ConnectTipInvalid
    <2>1. UNCHANGED <<failedValid, failedChild, failedBlocks>>
      BY <1>3, StartActivationMoves, LockCsMainMoves, StartStepMoves, DisconnectTipMoves,
         ConnectTipMoves DEF Activate
    <2>2. Path[tip'] \subseteq Path[tip] \/ (act.mostWork # NONE /\ Path[tip'] \subseteq Path[act.mostWork])
      BY <1>0, ActivateMoves, PathFacts, TreeAssumption, ZenonT(30) DEF TreeAssumption
    <2>3. act'.mostWork \in {NONE, act.mostWork} /\ (act'.pc = "idle" => act'.mostWork = NONE)
      BY <1>3, StartActivationMoves, LockCsMainMoves, StartStepMoves, DisconnectTipMoves,
         ConnectTipMoves DEF Activate, Towards, Landed, Onward, NextRound
    <2>4. QED
      BY <2>1, <2>2, <2>3 DEF Clean, Failed
  <1>4. QED
    BY <1>1, <1>2, <1>3

LEMMA OperateClean ==
  ASSUME Inv, Clean, QuietRpc, Operate
  PROVE  Clean'
  <1>1. act.mostWork = NONE /\ act' = act /\ tip \in Blocks
    BY OperateMoves, ActivateFrom DEF NodeIdle, Clean
  <1>2. ASSUME NEW b \in PreciousTargets, PreciousBlock(b) PROVE Clean'
    BY <1>1, <1>2 DEF PreciousBlock, status, best, Clean, Failed
  <1>3. ASSUME NEW b \in ReconsiderTargets, ResetBlockFailureFlags(b) PROVE Clean'
    BY <1>1, <1>3 DEF ResetBlockFailureFlags, Clean, Failed
  <1>4. ASSUME NEW b \in InvalidateTargets, InvalidateBlock(b) PROVE Clean'
    <2>0. b \in Blocks \ {Genesis}
      BY InputAssumption DEF InputAssumption
    <2>1. /\ failedValid' = failedValid \cup {b} /\ failedBlocks' = failedBlocks \cup {b}
          /\ b \in Path[tip] => /\ tip' = Parent[b]
                                /\ failedChild' = failedChild \cup (Path[tip] \ Path[b])
          /\ b \notin Path[tip] => tip' = tip /\ failedChild' = failedChild
      BY <1>4 DEF InvalidateBlock, InChain
    <2>2. CASE b \in Path[tip]
      <3>1. Path[Parent[b]] \subseteq Path[b] /\ b \notin Path[Parent[b]] /\ Path[b] \subseteq Path[tip]
        BY <1>1, <2>0, <2>2, PathFacts, BranchFacts, SMT
      <3>2. QED
        BY <1>1, <2>1, <2>2, <3>1 DEF Clean, Failed
    <2>3. CASE b \notin Path[tip]
      BY <1>1, <2>1, <2>3 DEF Clean, Failed
    <2>4. QED
      BY <2>2, <2>3
  <1>5. QED
    BY <1>2, <1>3, <1>4, OperateMoves

LEMMA CleanAlways == ASSUME QuietRpc PROVE Spec => []Clean
  <1>1. Init => Clean
    BY SMT DEF Init, Clean, Failed, Idle
  <1>2. Inv /\ Clean /\ [Next]_vars => Clean'
    <2> SUFFICES ASSUME Inv, Clean, [Next]_vars PROVE Clean'
      OBVIOUS
    <2>1. CASE LinkBlock
      BY <2>1 DEF LinkBlock, status, best, Clean, Failed
    <2>2. CASE UNCHANGED vars
      BY <2>2 DEF vars, status, best, Clean, Failed
    <2>3. QED
      BY <2>1, <2>2, ReceiveClean, ActivateClean, OperateClean DEF Next
  <1>3. QED
    BY <1>1, <1>2, InvAlways, PTL DEF Spec

\* invalidateblock on a quiet node is permanent: at rest, no block of the active
\* chain is marked invalid.  The racing run shows that the operator has to wait.
THEOREM InvalidStaysOut == ASSUME QuietRpc PROVE Spec => []InvalidatedStaysInactive
  <1>1. Clean => InvalidatedStaysInactive
    BY DEF Clean, InvalidatedStaysInactive, Failed
  <1>2. QED
    BY <1>1, CleanAlways, PTL

\* ConnectTip never gets a block with a failure mark, even though blocks arrive,
\* fail their checks and mark their descendants while pindexMostWork is cached
\* between two holds of cs_main.
THEOREM NeverConnectsFailed == ASSUME QuietRpc PROVE Spec => FailedNeverConnected
  <1>1. Inv /\ Clean /\ [Next]_vars => [tip' # tip /\ Parent[tip'] = tip => tip' \notin Failed]_vars
    <2> SUFFICES ASSUME Inv, Clean, Next, tip' # tip PROVE tip' \notin Failed
      BY DEF vars
    <2>1. CASE Activate
      BY <2>1, ActivateMoves, TreeAssumption DEF Clean, TreeAssumption
    <2>2. CASE Operate
      <3>1. PICK b \in InvalidateTargets : InvalidateBlock(b)
        BY <2>2, OperateMoves DEF PreciousBlock, ResetBlockFailureFlags
      <3>2. b \in Blocks \ {Genesis} /\ tip \in Blocks
        BY InputAssumption, ActivateFrom DEF InputAssumption
      <3>3. b \in Path[tip] /\ tip' = Parent[b]
        BY <3>1 DEF InvalidateBlock, InChain
      <3>4. tip' \in Path[tip]
        BY <3>2, <3>3, PathFacts
      <3>5. QED
        BY <3>4 DEF Clean
    <2>3. ASSUME NEW b \in Blocks \ {Genesis}, Receive(b) PROVE tip' = tip
      BY <2>3, ReceiveMoves
    <2>4. CASE LinkBlock
      BY <2>4 DEF LinkBlock
    <2>5. QED
      BY <2>1, <2>2, <2>3, <2>4 DEF Next
  <1>2. QED
    BY <1>1, InvAlways, CleanAlways, PTL DEF Spec, FailedNeverConnected

-----------------------------------------------------------------------------
(* Validity levels.                                                         *)

Checked ==
  /\ \A b \in Blocks : valid[b] >= VALID_TRANSACTIONS <=> b \in haveData
  /\ \A b \in haveUndo : valid[b] >= VALID_SCRIPTS
  /\ \A b \in Blocks : valid[b] >= VALID_SCRIPTS =>
       \A a \in Path[b] \ {Genesis} : valid[a] >= VALID_SCRIPTS
  /\ \A a \in Path[tip] \ {Genesis} : valid[a] >= VALID_SCRIPTS

LEMMA ReceiveChecked ==
  ASSUME Inv, Indexed, Checked, NEW b \in Blocks \ {Genesis}, Receive(b)
  PROVE  Checked'
  <1>0. UNCHANGED <<tip, haveUndo>> /\ tip \in Blocks /\ Path[tip] \subseteq Blocks
    BY ReceiveMoves, ActivateFrom, PathFacts
  <1>t. TypeOK /\ haveUndo \subseteq Blocks /\ \A x \in Blocks : Path[x] \subseteq Blocks
    BY PathFacts DEF Inv, TypeOK
  <1>1. CASE DescendsFromFailed(b)
    BY <1>0, <1>1 DEF DescendsFromFailed, Checked
  <1>2. CASE valid' = RaiseValidity(b, VALID_TREE) /\ haveData' = haveData
    <2>1. \A x \in Blocks : /\ valid'[x] >= VALID_TRANSACTIONS <=> valid[x] >= VALID_TRANSACTIONS
                            /\ valid'[x] >= VALID_SCRIPTS <=> valid[x] >= VALID_SCRIPTS
      BY <1>t, <1>2, RaiseFacts, SMT DEF VALID_TREE, VALID_TRANSACTIONS, VALID_SCRIPTS
    <2>2. QED
      BY <1>0, <1>t, <1>2, <2>1 DEF Checked
  <1>3. CASE HeaderAccepted(b) /\ b \notin haveData /\ ReceivedBlockTransactions(b)
    <2>1. b \notin Failed
      BY <1>3 DEF HeaderAccepted, Indexed
    <2>2. valid' = RaiseValidity(b, VALID_TRANSACTIONS) /\ haveData' = haveData \cup {b}
      BY <1>3 DEF ReceivedBlockTransactions
    <2>3. valid[b] < VALID_TRANSACTIONS /\ valid'[b] >= VALID_TRANSACTIONS
      BY <1>t, <1>3, <2>1, <2>2, RaiseFacts DEF Checked, VALID_TRANSACTIONS
    <2>a. /\ \A x \in Blocks : valid'[x] \in Nat /\ valid[x] \in Nat /\ (x # b => valid'[x] = valid[x])
          /\ valid'[b] = valid[b] \/ (valid'[b] = VALID_TRANSACTIONS /\ valid[b] < VALID_TRANSACTIONS)
      BY <1>t, <2>2, RaiseFacts
    <2>4. \A x \in Blocks : /\ x # b => valid'[x] = valid[x]
                            /\ valid'[x] >= VALID_SCRIPTS <=> valid[x] >= VALID_SCRIPTS
      BY <2>a, SMT DEF VALID_TRANSACTIONS, VALID_SCRIPTS
    <2>5. \A x \in Blocks : valid'[x] >= VALID_TRANSACTIONS <=> x \in haveData'
      BY <2>2, <2>3, <2>4 DEF Checked
    <2>6. QED
      BY <1>0, <1>t, <2>4, <2>5 DEF Checked
  <1>4. QED
    BY <1>1, <1>2, <1>3, ReceiveMoves

LEMMA ConnectTipChecked ==
  ASSUME Inv, Clean, Checked, ConnectTip
  PROVE  Checked'
  <1> DEFINE n == NextToConnect
  <1>1. /\ haveData' = haveData /\ tip' = n /\ haveUndo' = haveUndo \cup {n}
        /\ valid' = RaiseValidity(n, VALID_SCRIPTS)
        /\ n \in Path[act.mostWork] /\ act.mostWork \in Blocks /\ act.pc = "connect"
    BY ConnectTipMoves
  <1>2. /\ n \in Blocks \ {Genesis} /\ Path[n] = Path[tip] \cup {n} /\ n \in haveData
        /\ haveUndo \subseteq Blocks /\ TypeOK
    BY <1>1, NextIsChild, NextToConnectFacts, PathFacts DEF Inv, TypeOK
  <1>3. n \notin Failed
    BY <1>1, TreeAssumption DEF Clean, TreeAssumption
  <1> HIDE DEF n
  <1>4. /\ \A x \in Blocks : /\ x # n => valid'[x] = valid[x]
                             /\ valid'[x] \in Nat /\ valid[x] \in Nat
        /\ valid'[n] >= VALID_SCRIPTS
    BY <1>1, <1>2, <1>3, RaiseFacts
  <1>5. valid[n] >= VALID_TRANSACTIONS /\ valid'[n] >= VALID_TRANSACTIONS
    BY <1>2, <1>4, SMT DEF Checked, VALID_TRANSACTIONS, VALID_SCRIPTS
  <1>6. \A x \in Blocks : valid'[x] >= VALID_TRANSACTIONS <=> x \in haveData'
    BY <1>1, <1>2, <1>4, <1>5 DEF Checked
  <1>7. \A x \in Blocks : valid[x] >= VALID_SCRIPTS => valid'[x] >= VALID_SCRIPTS
    BY <1>4
  <1>8. \A a \in Path[n] \ {Genesis} : valid'[a] >= VALID_SCRIPTS
    BY <1>2, <1>4, <1>7, PathFacts DEF Checked
  <1>9. \A x \in Blocks : valid'[x] >= VALID_SCRIPTS =>
          \A a \in Path[x] \ {Genesis} : valid'[a] >= VALID_SCRIPTS
    BY <1>4, <1>7, <1>8, PathFacts DEF Checked
  <1>10. QED
    BY <1>1, <1>2, <1>4, <1>6, <1>7, <1>8, <1>9 DEF Checked

LEMMA CheckedAlways == ASSUME QuietRpc PROVE Spec => []Checked
  <1>1. Init => Checked
    <2> SUFFICES ASSUME Init PROVE Checked
      OBVIOUS
    <2>1. \A b \in Blocks : valid[b] = IF b = Genesis THEN VALID_TRANSACTIONS ELSE NO_HEADER
      BY DEF Init
    <2>2. haveData = {Genesis} /\ haveUndo = {} /\ tip = Genesis
      BY DEF Init
    <2>3. Path[Genesis] = {Genesis} /\ \A b \in Blocks : Path[b] \subseteq Blocks
      BY TreeAssumption DEF TreeAssumption
    <2>4. QED
      BY <2>1, <2>2, <2>3, SMT DEF Checked, VALID_TRANSACTIONS, VALID_SCRIPTS, NO_HEADER
  <1>2. Inv /\ Indexed /\ Clean /\ Checked /\ [Next]_vars => Checked'
    <2> SUFFICES ASSUME Inv, Indexed, Clean, Checked, [Next]_vars PROVE Checked'
      OBVIOUS
    <2>1. ASSUME UNCHANGED <<valid, haveData, haveUndo>>, tip' \in Path[tip] PROVE Checked'
      BY <2>1, PathFacts, ActivateFrom DEF Checked
    <2>2. tip \in Blocks /\ tip \in Path[tip]
      BY ActivateFrom, PathFacts
    <2>3. CASE Activate /\ ~ ConnectTip
      BY <2>1, <2>2, <2>3, StartActivationMoves, LockCsMainMoves, FindMoves, StartStepMoves,
         DisconnectTipMoves, ConnectTipInvalidMoves DEF Activate
    <2>4. CASE Operate
      <3>1. UNCHANGED <<valid, haveData, haveUndo>>
        BY <2>4, OperateMoves
      <3>2. ASSUME NEW b \in InvalidateTargets, InvalidateBlock(b) PROVE tip' \in Path[tip]
        <4>1. b \in Blocks \ {Genesis} /\ tip' = IF b \in Path[tip] THEN Parent[b] ELSE tip
          BY <3>2, InputAssumption DEF InputAssumption, InvalidateBlock, InChain
        <4>2. QED
          BY <2>2, <4>1, PathFacts
      <3>3. QED
        BY <2>1, <2>2, <2>4, <3>1, <3>2, OperateMoves DEF PreciousBlock, ResetBlockFailureFlags
    <2>5. CASE LinkBlock
      BY <2>5 DEF LinkBlock, status, Checked
    <2>6. CASE UNCHANGED vars
      BY <2>6 DEF vars, status, Checked
    <2>7. QED
      BY <2>3, <2>4, <2>5, <2>6, ReceiveChecked, ConnectTipChecked DEF Next
  <1>3. QED
    BY <1>1, <1>2, InvAlways, IndexedAlways, CleanAlways, PTL DEF Spec

\* Only a block whose ancestors were all connected is connected, the level of a
\* block follows its data, and undo data comes with a connected block: for any
\* order of arrival and any reorganisation, if the operator waits for the node.
THEOREM ValidityOrdered == ASSUME QuietRpc PROVE Spec => []ValidityFollowsAncestors
  <1>1. Inv /\ Checked => ValidityFollowsAncestors
    BY DEF Inv, TypeOK, Checked, ValidityFollowsAncestors
  <1>2. QED
    BY <1>1, InvAlways, CheckedAlways, PTL

-----------------------------------------------------------------------------
(* The candidates are never worse than the tip, in no state of the          *)
(* activation.                                                              *)

Useful == \A c \in candidates : ~ Worse(c, tip)

\* the order of two blocks depends on their own sequence ids only
LEMMA SameOrder ==
  ASSUME NEW s, NEW r, NEW a, NEW b, s[a] = r[a], s[b] = r[b]
  PROVE  WorseBy(s, a, b) <=> WorseBy(r, a, b)
  BY DEF WorseBy

\* moving the tip down its own chain makes no candidate worse than it
LEMMA DownKeepsUseful ==
  ASSUME Inv, NEW t \in Path[tip], NEW c \in Blocks, ~ Worse(c, tip)
  PROVE  ~ Worse(c, t)
  <1>1. t \in Blocks /\ tip \in Blocks /\ seqId \in [Blocks -> Int]
    BY UsefulFrom, PathFacts
  <1>2. ~ WorseBy(seqId, tip, t)
    BY <1>1, AncestorWorse, OrderFacts
  <1>3. QED
    BY <1>1, <1>2, OrderFacts DEF Worse

LEMMA LinkBlockUseful ==
  ASSUME Inv, Linking, Useful, LinkBlock
  PROVE  Useful'
  <1> DEFINE b == Head(queue)
             s == [seqId EXCEPT ![b] = nBlockSequenceId]
  <1>1. /\ seqId' = s /\ tip' = tip
        /\ candidates' = IF WorseBy(s, b, tip) THEN candidates ELSE candidates \cup {b}
    BY DEF LinkBlock
  <1>2. b = queue[1] /\ Len(queue) >= 1 /\ Len(queue) \in Nat
    BY SMT DEF LinkBlock, Inv, TypeOK
  <1>3. b \notin linked
    BY <1>2, SMT DEF Linking, Waits
  <1>4. tip # b /\ \A c \in candidates : c # b /\ c \in Blocks
    BY <1>3, UsefulFrom DEF Linking, InLinked
  <1>5. \A c \in Blocks \ {b} : s[c] = seqId[c]
    BY UsefulFrom
  <1> HIDE DEF b, s
  <1>6. \A c \in candidates : ~ WorseBy(s, c, tip)
    BY <1>4, <1>5, UsefulFrom DEF Useful, Worse, WorseBy
  <1>7. \A c \in candidates' : ~ WorseBy(s, c, tip)
    BY <1>1, <1>6
  <1>8. QED
    BY <1>1, <1>7 DEF Useful, Worse

LEMMA ActivateUseful ==
  ASSUME Inv, Useful, Activate
  PROVE  Useful'
  <1>0. seqId' = seqId /\ tip \in Blocks /\ candidates \subseteq Blocks /\ tip \in Path[tip]
    BY ActivateMoves, UsefulFrom, PathFacts
  <1>1. CASE ConnectTip
    BY <1>0, <1>1, ConnectTipMoves DEF Useful, NotWorseThan, Worse
  <1>2. CASE ~ ConnectTip
    <2>1. candidates' \subseteq candidates /\ tip' \in Path[tip]
      BY <1>0, <1>2, StartActivationMoves, LockCsMainMoves, FindMoves, StartStepMoves,
         DisconnectTipMoves, ConnectTipInvalidMoves DEF Activate
    <2>2. QED
      BY <1>0, <2>1, DownKeepsUseful DEF Useful, Worse
  <1>3. QED
    BY <1>1, <1>2

LEMMA OperateUseful ==
  ASSUME Inv, Linking, Clean, Checked, Useful, Operate
  PROVE  Useful'
  <1>0. tip \in Blocks /\ candidates \subseteq Blocks /\ tip \in Path[tip]
    BY UsefulFrom, PathFacts
  <1>1. ASSUME NEW b \in PreciousTargets, PreciousBlock(b) PROVE Useful'
    <2> DEFINE id == IF ChainWork[tip] > precious.work THEN -1 ELSE precious.revId
               s == [seqId EXCEPT ![b] = id]
    <2>1. /\ seqId' = s /\ tip' = tip
          /\ candidates' = IF IsValid(b, VALID_TRANSACTIONS) /\ b \in linked
                           THEN {c \in candidates \cup {b} : ~ WorseBy(s, c, tip)}
                           ELSE candidates \ {b}
      BY <1>1 DEF PreciousBlock
    <2>2. tip \in linked /\ IsValid(tip, VALID_TRANSACTIONS)
      BY <1>0, LinkedHaveData DEF Linking, InLinked, Clean, Checked, IsValid
    <2>3. \A c \in Blocks \ {b} : s[c] = seqId[c]
      BY UsefulFrom
    <2> HIDE DEF id, s
    <2>4. CASE IsValid(b, VALID_TRANSACTIONS) /\ b \in linked
      BY <2>1, <2>4 DEF Useful, Worse
    <2>5. CASE ~ (IsValid(b, VALID_TRANSACTIONS) /\ b \in linked)
      <3>1. tip # b
        BY <2>2, <2>5
      <3>2. \A c \in candidates \ {b} : ~ WorseBy(s, c, tip)
        BY <1>0, <2>3, <3>1 DEF Useful, Worse, WorseBy
      <3>3. QED
        BY <2>1, <2>5, <3>2 DEF Useful, Worse
    <2>6. QED
      BY <2>4, <2>5
  <1>2. ASSUME NEW b \in InvalidateTargets, InvalidateBlock(b) PROVE Useful'
    <2>1. seqId' = seqId /\ \A c \in candidates' : c \in candidates \/ ~ Worse(c, tip')
      BY <1>2 DEF InvalidateBlock, order
    <2>2. tip' \in Path[tip]
      <3>1. b \in Blocks \ {Genesis} /\ tip' = IF b \in Path[tip] THEN Parent[b] ELSE tip
        BY <1>2, InputAssumption DEF InputAssumption, InvalidateBlock, InChain
      <3>2. QED
        BY <1>0, <3>1, PathFacts
    <2>3. QED
      BY <1>0, <2>1, <2>2, DownKeepsUseful DEF Useful, Worse
  <1>3. ASSUME NEW b \in ReconsiderTargets, ResetBlockFailureFlags(b) PROVE Useful'
    <2>1. /\ seqId' = seqId /\ tip' = tip
          /\ \A c \in candidates' : c \in candidates \/ (c \in linked /\ Worse(tip, c))
      BY <1>3 DEF ResetBlockFailureFlags, order
    <2>2. QED
      BY <1>0, <2>1, UsefulFrom, OrderFacts DEF Useful, Worse
  <1>4. QED
    BY <1>1, <1>2, <1>3, OperateMoves

LEMMA UsefulAlways == ASSUME QuietRpc PROVE Spec => []Useful
  <1>1. Init => Useful
    <2> SUFFICES ASSUME Init PROVE ~ WorseBy(seqId, Genesis, Genesis)
      BY DEF Init, Useful, Worse
    <2>1. seqId \in [Blocks -> Int] /\ Genesis \in Blocks
      BY TreeAssumption, SMT DEF Init, TreeAssumption
    <2>2. QED
      BY <2>1, OrderFacts
  <1>2. Inv /\ Linking /\ Clean /\ Checked /\ Useful /\ [Next]_vars => Useful'
    <2> SUFFICES ASSUME Inv, Linking, Clean, Checked, Useful, [Next]_vars PROVE Useful'
      OBVIOUS
    <2>1. ASSUME NEW b \in Blocks \ {Genesis}, Receive(b) PROVE Useful'
      BY <2>1, ReceiveMoves DEF Useful, Worse
    <2>2. CASE UNCHANGED vars
      BY <2>2 DEF vars, order, Useful, Worse
    <2>3. QED
      BY <2>1, <2>2, LinkBlockUseful, ActivateUseful, OperateUseful DEF Next
  <1>3. QED
    BY <1>1, <1>2, InvAlways, LinkingAlways, CleanAlways, CheckedAlways, PTL DEF Spec

\* setBlockIndexCandidates never holds a block that is worse than the tip or not
\* fully received, whatever reorganised, failed, arrived or was invalidated,
\* reconsidered and made precious.
THEOREM CandidatesWorthwhile == ASSUME QuietRpc PROVE Spec => []CandidatesUseful
  <1>1. Inv /\ Useful => CandidatesUseful
    BY DEF Inv, AllWhole, Useful, CandidatesUseful
  <1>2. QED
    BY <1>1, InvAlways, UsefulAlways, PTL

-----------------------------------------------------------------------------
(* The best chain is never lost.                                            *)

\* what the operator may be asked for: calls on a quiet node, reconsidering only
\* what failed by itself, and no two precious blocks of the same work
CarefulOperator ==
  /\ QuietRpc
  /\ ReconsidersRoots
  /\ \A b, c \in PreciousTargets : b # c => ChainWork[b] # ChainWork[c]

Holding == act.pc \in HoldsCsMain

\* the tip, and the tip a hold of cs_main began with, can be connected again
Connectable ==
  /\ Path[tip] \cap BadConnect = {}
  /\ Holding => Path[act.startTip] \cap (BadConnect \cup Failed) = {}

\* only preciousblock hands out negative sequence ids
Ranked ==
  /\ \A c \in Blocks \ PreciousTargets : seqId[c] >= 0
  /\ precious.revId <= -1

\* while cs_main is held and the tip is on its way down, the candidates are
\* complete from the tip the hold began with
Complete ==
  \A c \in linked \ Failed :
    ~ Worse(c, tip) /\ (Holding => ~ Worse(c, act.startTip)) => c \in candidates

\* where the activation stands with respect to the tip it began with
Progress ==
  /\ act.pc \in {"find", "step", "disconnect"} => ~ Worse(act.startTip, tip)
  /\ act.pc = "find" => act.mostWork = NONE
  /\ act.pc \in {"step", "disconnect", "connect"} =>
       act.mostWork # NONE /\ ~ Worse(act.mostWork, act.startTip)
  /\ act.pc = "outer" /\ act.mostWork # NONE => ~ Worse(act.mostWork, tip)

BestOf(x) == \A c \in linked \ Failed : ~ Worse(x, c)

\* what beats the choice of the activating thread has a caller of
\* ActivateBestChain behind it
Awaited ==
  /\ queue # << >> => pending
  /\ act.pc = "idle" => pending \/ BestOf(tip)
  /\ act.mostWork # NONE => pending \/ BestOf(act.mostWork)

Choosing == Complete /\ Progress /\ Awaited

\* the order of blocks under the present sequence ids
LEMMA OrderNow ==
  ASSUME Inv
  PROVE  /\ \A a \in Blocks : ~ Worse(a, a)
         /\ \A a, b \in Blocks : Worse(a, b) => ~ Worse(b, a)
         /\ \A a, b \in Blocks : a # b => Worse(a, b) \/ Worse(b, a)
         /\ \A a, b, c \in Blocks : ~ Worse(a, b) /\ ~ Worse(b, c) => ~ Worse(a, c)
         /\ \A b \in Blocks : \A a \in Path[b] : a # b => Worse(a, b)
  <1>1. seqId \in [Blocks -> Int]
    BY UsefulFrom
  <1>2. QED
    BY <1>1, OrderFacts, AncestorWorse DEF Worse

\* the blocks whose order matters have their data
LEMMA ChoosingFrom ==
  ASSUME Inv, Linking
  PROVE  /\ linked \subseteq Blocks /\ candidates \subseteq linked
         /\ tip \in linked /\ tip \in Blocks
         /\ act.mostWork # NONE => act.mostWork \in linked /\ act.mostWork \in Blocks
         /\ Holding => act.startTip \in linked /\ act.startTip \in Blocks
         /\ NONE \notin Blocks
  BY UsefulFrom, TreeAssumption DEF Linking, InLinked, Holding, TreeAssumption

\* steps that leave the sequence ids alone leave the order alone
LEMMA OrderKept ==
  ASSUME seqId' = seqId
  PROVE  \A a, b : Worse(a, b)' <=> Worse(a, b)
  BY DEF Worse

-----------------------------------------------------------------------------

LEMMA ActivateConnectable ==
  ASSUME Inv, Linking, Clean, Connectable, Activate
  PROVE  Connectable'
  <1>0. tip \in Blocks /\ tip \in Path[tip] /\ Path[tip] \cap Failed = {}
    BY ActivateFrom, PathFacts DEF Clean
  <1>1. Path[tip'] \cap BadConnect = {}
    <2>1. CASE ConnectTip
      BY <2>1, ConnectTipMoves, NextIsChild DEF Connectable
    <2>2. CASE ~ ConnectTip
      <3>1. tip' \in Path[tip]
        BY <1>0, <2>2, StartActivationMoves, LockCsMainMoves, FindMoves, StartStepMoves,
           DisconnectTipMoves, ConnectTipInvalidMoves DEF Activate
      <3>2. QED
        BY <1>0, <3>1, PathFacts DEF Connectable
    <2>3. QED
      BY <2>1, <2>2
  <1>2. ASSUME Holding' PROVE Path[act'.startTip] \cap (BadConnect \cup Failed') = {}
    <2>1. CASE FindMostWorkChain
      <3>1. /\ Holding /\ act'.startTip = act.startTip /\ failedValid' = failedValid
            /\ \/ failedChild' = failedChild
               \/ \E new \in candidates : \E test \in Path[new] \cap Failed :
                    failedChild' = failedChild \cup (Path[new] \ Path[test])
        BY <2>1, FindMoves DEF Holding, HoldsCsMain
      <3>2. Path[act.startTip] \cap (BadConnect \cup Failed) = {} /\ act.startTip \in Blocks
        BY <3>1, ChoosingFrom DEF Connectable
      <3>3. ASSUME NEW new \in candidates, NEW test \in Path[new] \cap Failed
            PROVE  Path[act.startTip] \cap (Path[new] \ Path[test]) = {}
        BY <3>2, MarksMiss, ActivateFrom, SMT
      <3>4. QED
        BY <3>1, <3>2, <3>3 DEF Failed
    <2>2. CASE LockCsMain
      BY <1>0, <2>2, LockCsMainMoves DEF Connectable, Failed
    <2>3. CASE ConnectTipInvalid
      BY <1>2, <2>3, ConnectTipInvalidMoves DEF Connectable, Failed, Landed, Holding, HoldsCsMain
    <2>4. CASE StartStep
      BY <1>2, <2>4, StartStepMoves
         DEF Connectable, Failed, Towards, Landed, Onward, Holding, HoldsCsMain
    <2>5. CASE DisconnectTip
      BY <1>2, <2>5, DisconnectTipMoves
         DEF Connectable, Failed, Towards, Landed, Onward, Holding, HoldsCsMain
    <2>6. CASE ConnectTip
      BY <1>2, <2>6, ConnectTipMoves
         DEF Connectable, Failed, Landed, Onward, Holding, HoldsCsMain
    <2>7. CASE StartActivation
      BY <1>2, <2>7, StartActivationMoves DEF Holding, HoldsCsMain
    <2>8. QED
      BY <2>1, <2>2, <2>3, <2>4, <2>5, <2>6, <2>7 DEF Activate
  <1>3. QED
    BY <1>1, <1>2 DEF Connectable, Holding, Failed

LEMMA ConnectableAlways == ASSUME QuietRpc PROVE Spec => []Connectable
  <1>1. Init => Connectable
    BY TreeAssumption, InputAssumption, SMT
       DEF Init, Idle, Connectable, Holding, HoldsCsMain, TreeAssumption, InputAssumption
  <1>2. Inv /\ Linking /\ Clean /\ Connectable /\ [Next]_vars => Connectable'
    <2> SUFFICES ASSUME Inv, Linking, Clean, Connectable, [Next]_vars PROVE Connectable'
      OBVIOUS
    <2>1. ASSUME tip' \in Path[tip], act' = act, ~ Holding PROVE Connectable'
      BY <2>1, PathFacts, ActivateFrom, ZenonT(30) DEF Connectable, Holding
    <2>2. tip \in Blocks /\ tip \in Path[tip]
      BY ActivateFrom, PathFacts
    <2>3. ASSUME NEW b \in Blocks \ {Genesis}, Receive(b) PROVE Connectable'
      BY <2>1, <2>2, <2>3, ReceiveMoves DEF CsMainFree, Holding
    <2>4. CASE Operate
      <3>1. act' = act /\ ~ Holding
        BY <2>4, OperateMoves DEF CsMainFree, Holding
      <3>2. ASSUME NEW b \in InvalidateTargets, InvalidateBlock(b) PROVE tip' \in Path[tip]
        <4>1. b \in Blocks \ {Genesis} /\ tip' = IF b \in Path[tip] THEN Parent[b] ELSE tip
          BY <3>2, InputAssumption DEF InputAssumption, InvalidateBlock, InChain
        <4>2. QED
          BY <2>2, <4>1, PathFacts
      <3>3. tip' \in Path[tip]
        BY <2>2, <2>4, <3>2, OperateMoves DEF PreciousBlock, ResetBlockFailureFlags
      <3>4. QED
        BY <2>1, <3>1, <3>3
    <2>5. CASE LinkBlock
      BY <2>5 DEF LinkBlock, status, Connectable, Failed, Holding
    <2>6. CASE UNCHANGED vars
      BY <2>6 DEF vars, status, Connectable, Failed, Holding
    <2>7. QED
      BY <2>3, <2>4, <2>5, <2>6, ActivateConnectable DEF Next
  <1>3. QED
    BY <1>1, <1>2, InvAlways, LinkingAlways, CleanAlways, PTL DEF Spec

LEMMA RankedAlways == Spec => []Ranked
  <1>1. Init => Ranked
    BY SMT DEF Init, Ranked
  <1>2. Inv /\ Ranked /\ [Next]_vars => Ranked'
    <2> SUFFICES ASSUME Inv, Ranked, [Next]_vars PROVE Ranked'
      OBVIOUS
    <2>0. seqId \in [Blocks -> Int] /\ nBlockSequenceId \in Nat /\ precious.revId \in Int
      BY DEF Inv, TypeOK
    <2>1. CASE LinkBlock
      <3>1. /\ seqId' = [seqId EXCEPT ![Head(queue)] = nBlockSequenceId]
            /\ precious' = precious
        BY <2>1 DEF LinkBlock
      <3>2. QED
        BY <2>0, <3>1, SMT DEF Ranked
    <2>2. ASSUME NEW b \in PreciousTargets, PreciousBlock(b) PROVE Ranked'
      <3> DEFINE id == IF ChainWork[tip] > precious.work THEN -1 ELSE precious.revId
      <3>1. /\ seqId' = [seqId EXCEPT ![b] = id]
            /\ precious'.revId = id - 1
        BY <2>2 DEF PreciousBlock
      <3>2. id \in Int /\ id <= -1
        BY <2>0, SMT DEF Ranked
      <3> HIDE DEF id
      <3>3. QED
        BY <2>0, <3>1, <3>2, SMT DEF Ranked
    <2>3. ASSUME seqId' = seqId, precious' = precious PROVE Ranked'
      BY <2>3 DEF Ranked
    <2>4. ASSUME NEW b \in Blocks \ {Genesis}, Receive(b) PROVE seqId' = seqId /\ precious' = precious
      BY <2>4 DEF Receive, AcceptBlockHeader, ProcessNewBlock, ReceivedBlockTransactions,
         DescendsFromFailed, order
    <2>5. CASE Activate
      BY <2>3, <2>5 DEF Activate, StartActivation, LockCsMain, FindMostWorkChain, StartStep,
         DisconnectTip, ConnectTip, ConnectTipInvalid, order
    <2>6. CASE Operate
      BY <2>2, <2>3, <2>6 DEF Operate, InvalidateBlock, ResetBlockFailureFlags, order
    <2>7. CASE UNCHANGED vars
      BY <2>3, <2>7 DEF vars, order
    <2>8. QED
      BY <2>1, <2>3, <2>4, <2>5, <2>6, <2>7 DEF Next
  <1>3. QED
    BY <1>1, <1>2, InvAlways, PTL DEF Spec

-----------------------------------------------------------------------------

\* the order, the received blocks and the failure marks are as before, or there
\* are more marks
Calm == seqId' = seqId /\ linked' = linked /\ Failed \subseteq Failed'

LEMMA ReceiveChoosing ==
  ASSUME Inv, Choosing, NEW b \in Blocks \ {Genesis}, Receive(b)
  PROVE  Choosing'
  <1>1. /\ UNCHANGED <<linked, seqId, candidates, tip, act>> /\ pending' \in {pending, TRUE}
        /\ queue = << >>
    BY ReceiveMoves DEF CsMainFree
  <1>2. Calm
    <2>1. failedValid \subseteq failedValid' /\ failedChild \subseteq failedChild'
      BY ReceiveMoves DEF DescendsFromFailed, ReceivedBlockTransactions
    <2>2. QED
      BY <1>1, <2>1 DEF Calm, Failed
  <1>3. queue' # << >> => pending'
    BY <1>1, ReceiveMoves DEF DescendsFromFailed, order
  <1>4. Complete'
    BY <1>1, <1>2, OrderKept DEF Choosing, Complete, Calm, Holding
  <1>5. Progress'
    BY <1>1, OrderKept DEF Choosing, Progress
  <1>6. Awaited'
    <2>1. /\ act.pc = "idle" => pending \/ BestOf(tip)
          /\ act.mostWork # NONE => pending \/ BestOf(act.mostWork)
      BY DEF Choosing, Awaited
    <2>2. BestOf(tip) => BestOf(tip)'
      BY <1>1, <1>2, OrderKept DEF BestOf, Calm
    <2>3. BestOf(act.mostWork) => BestOf(act.mostWork)'
      BY <1>1, <1>2, OrderKept DEF BestOf, Calm
    <2>4. QED
      BY <1>1, <1>3, <2>1, <2>2, <2>3 DEF Awaited
  <1>7. QED
    BY <1>4, <1>5, <1>6 DEF Choosing

LEMMA LinkBlockChoosing ==
  ASSUME Inv, Linking, Choosing, LinkBlock
  PROVE  Choosing'
  <1> DEFINE b == Head(queue)
             s == [seqId EXCEPT ![b] = nBlockSequenceId]
  <1>1. /\ seqId' = s /\ linked' = linked \cup {b}
        /\ candidates' = IF WorseBy(s, b, tip) THEN candidates ELSE candidates \cup {b}
        /\ UNCHANGED <<tip, act, pending, failedValid, failedChild>>
        /\ queue # << >>
    BY DEF LinkBlock, status
  <1>2. b = queue[1] /\ Len(queue) >= 1 /\ Len(queue) \in Nat
    BY SMT DEF LinkBlock, Inv, TypeOK
  <1>3. b \notin linked
    BY <1>2, SMT DEF Linking, Waits
  <1>4. \A x \in linked : s[x] = seqId[x]
    BY <1>3, UsefulFrom
  <1> HIDE DEF b, s
  <1>5. \A x, y \in linked : WorseBy(s, x, y) <=> Worse(x, y)
    BY <1>4, SameOrder DEF Worse
  <1>6. Complete'
    <2>1. ASSUME NEW c \in linked \ Failed, ~ WorseBy(s, c, tip),
                 Holding => ~ WorseBy(s, c, act.startTip)
          PROVE  c \in candidates
      BY <1>5, <2>1, ChoosingFrom DEF Choosing, Complete
    <2>2. \A c \in linked' \ Failed :
            ~ WorseBy(s, c, tip) /\ (Holding => ~ WorseBy(s, c, act.startTip)) => c \in candidates'
      BY <1>1, <2>1
    <2>3. QED
      BY <1>1, <2>2 DEF Complete, Holding, Failed, Worse
  <1>7. Progress'
    BY <1>1, <1>5, ChoosingFrom DEF Choosing, Progress, Holding, HoldsCsMain, Worse
  <1>8. Awaited'
    BY <1>1 DEF Choosing, Awaited
  <1>9. QED
    BY <1>6, <1>7, <1>8 DEF Choosing

\* calls on a quiet node find no activation to disturb and leave one due
LEMMA QuietChoosing ==
  ASSUME Inv, Choosing, QuietRpc, Operate,
         \A c \in linked' \ Failed' : ~ Worse(c, tip)' => c \in candidates'
  PROVE  Choosing'
  <1>1. act.pc = "idle" /\ act' = act /\ pending' = TRUE
    BY OperateMoves DEF NodeIdle
  <1>2. QED
    BY <1>1 DEF Choosing, Complete, Progress, Awaited, Holding, HoldsCsMain

LEMMA InvalidateChoosing ==
  ASSUME Inv, Indexed, Linking, Checked, Choosing, QuietRpc,
         NEW b \in InvalidateTargets, InvalidateBlock(b), Operate
  PROVE  Choosing'
  <1> DEFINE above == IF InChain(b) THEN Path[tip] \ Path[b] ELSE {}
  <1>1. /\ failedChild' = failedChild \cup above /\ failedValid' = failedValid \cup {b}
        /\ seqId' = seqId /\ linked' = linked
        /\ \A c \in mapBlockIndex :
             /\ c \notin Failed \cup above \cup {b} /\ valid[c] >= VALID_TRANSACTIONS
             /\ c \in linked /\ ~ Worse(c, tip')
             => c \in candidates'
    BY DEF InvalidateBlock, order
  <1> HIDE DEF above
  <1>2. \A c \in linked : valid[c] >= VALID_TRANSACTIONS /\ c \in mapBlockIndex
    BY LinkedHaveData DEF Checked, Indexed
  <1>3. \A c \in linked' \ Failed' : ~ Worse(c, tip)' => c \in candidates'
    BY <1>1, <1>2, OrderKept DEF Failed
  <1>4. QED
    BY <1>3, QuietChoosing

\* reconsiderblock adds what it unmarks, but for the ancestors, which had no mark
LEMMA ResetChoosing ==
  ASSUME Inv, Indexed, Linking, Clean, Checked, Caused, Choosing, CarefulOperator,
         NEW b \in ReconsiderTargets, ResetBlockFailureFlags(b), Operate
  PROVE  Choosing'
  <1> DEFINE below == {d \in mapBlockIndex : b \in Path[d] /\ ~ IsValid(d, VALID_TRANSACTIONS)}
             cleared == below \cup (Path[b] \cap Failed)
  <1>1. /\ failedValid' = failedValid \ cleared /\ failedChild' = failedChild \ cleared
        /\ seqId' = seqId /\ linked' = linked /\ tip' = tip
        /\ candidates' = candidates \cup
             {d \in below : valid[d] >= VALID_TRANSACTIONS /\ d \in linked /\ Worse(tip, d)}
    BY DEF ResetBlockFailureFlags, order
  <1>2. b \in Blocks /\ b \in mapBlockIndex /\ tip \in Path[tip] /\ tip \notin Failed
    BY InputAssumption, PathFacts, ActivateFrom DEF InputAssumption, ResetBlockFailureFlags, Clean
  <1>3. Path[b] \cap Failed \subseteq {b}
    <2> SUFFICES ASSUME NEW d \in Path[b], d \in Failed, d # b PROVE FALSE
      OBVIOUS
    <2>1. PICK x \in Path[d] : x \in failedValid
      BY DEF Caused, Sound
    <2>2. x \in Path[b] /\ x \in Blocks /\ d \in Blocks /\ x \in Causes
      BY <1>2, <2>1, PathFacts DEF Caused
    <2>3. x = b
      BY <2>2 DEF CarefulOperator, ReconsidersRoots
    <2>4. b \in Path[d] \ {d} /\ d \in Path[b] \ {b}
      BY <2>1, <2>3
    <2>5. ChainWork[b] < ChainWork[d] /\ ChainWork[d] < ChainWork[b]
          /\ ChainWork[b] \in Nat /\ ChainWork[d] \in Nat
      BY <1>2, <2>2, <2>4, BranchFacts
    <2>6. QED
      BY <2>5, SMT
  <1>4. cleared \cap Failed \subseteq below
    BY <1>2, <1>3, PathFacts, SMT DEF IsValid
  <1>5. \A c \in linked : valid[c] >= VALID_TRANSACTIONS
    BY LinkedHaveData DEF Checked
  <1> HIDE DEF below, cleared
  <1>6. QuietRpc /\ ~ Holding
    BY OperateMoves DEF CarefulOperator, CsMainFree, Holding
  <1>7. \A c \in linked \ Failed : ~ Worse(c, tip) => c \in candidates
    BY <1>6 DEF Choosing, Complete
  <1>8. \A c \in linked \ Failed' : ~ Worse(c, tip) => c \in candidates'
    <2> SUFFICES ASSUME NEW c \in linked \ Failed', ~ Worse(c, tip), c \in Failed
                 PROVE  c \in candidates'
      BY <1>1, <1>7
    <2>1. c \in below
      BY <1>1, <1>4 DEF Failed
    <2>2. Worse(tip, c)
      BY <1>2, OrderNow, UsefulFrom
    <2>3. QED
      BY <1>1, <1>5, <2>1, <2>2
  <1>9. QED
    BY <1>1, <1>6, <1>8, QuietChoosing, OrderKept

\* preciousblock leaves the order of the other blocks, and no block of the same
\* work is as good as the one it prefers
LEMMA PreciousChoosing ==
  ASSUME Inv, Linking, Clean, Checked, Ranked, Choosing, CarefulOperator,
         NEW b \in PreciousTargets, PreciousBlock(b), Operate
  PROVE  Choosing'
  <1> DEFINE id == IF ChainWork[tip] > precious.work THEN -1 ELSE precious.revId
             s == [seqId EXCEPT ![b] = id]
  <1>1. /\ seqId' = s /\ tip' = tip /\ linked' = linked /\ Failed' = Failed
        /\ candidates' = IF IsValid(b, VALID_TRANSACTIONS) /\ b \in linked
                         THEN {c \in candidates \cup {b} : ~ WorseBy(s, c, tip)}
                         ELSE candidates \ {b}
    BY DEF PreciousBlock, status, Failed
  <1>2. id \in Int /\ id <= -1
    BY SMT DEF Ranked, Inv, TypeOK
  <1>3. /\ b \in Blocks /\ seqId \in [Blocks -> Int] /\ s[b] = id
        /\ \A c \in Blocks \ {b} : s[c] = seqId[c]
    BY UsefulFrom, InputAssumption DEF InputAssumption
  <1> HIDE DEF id, s
  <1>4. QuietRpc /\ ~ Holding
    BY OperateMoves DEF CarefulOperator, CsMainFree, Holding
  <1>5. \A c \in linked \ Failed : ~ Worse(c, tip) => c \in candidates
    BY <1>4 DEF Choosing, Complete
  <1>6. \A c \in linked : c \notin Failed => IsValid(c, VALID_TRANSACTIONS)
    BY LinkedHaveData DEF Checked, IsValid
  <1>7. tip \in linked /\ tip \in Blocks /\ tip \notin Failed /\ linked \subseteq Blocks
    BY ChoosingFrom, PathFacts DEF Clean
  <1>8. ASSUME NEW c \in linked \ Failed, ~ WorseBy(s, c, tip), c # b PROVE ~ Worse(c, tip)
    <2>1. CASE tip # b
      BY <1>3, <1>7, <1>8, <2>1, SameOrder, SMT DEF Worse
    <2>2. CASE tip = b
      <3>1. ChainWork[c] \in Nat /\ ChainWork[b] \in Nat /\ c \in Blocks
        BY <1>3, <1>7, BranchFacts
      <3>2. ChainWork[c] # ChainWork[b]
        <4> SUFFICES ASSUME ChainWork[c] = ChainWork[b] PROVE FALSE
          OBVIOUS
        <4>1. c \notin PreciousTargets
          BY <1>8 DEF CarefulOperator
        <4>2. s[c] >= 0 /\ s[c] \in Int
          BY <1>3, <1>8, <3>1, <4>1 DEF Ranked
        <4>3. s[c] > s[b]
          BY <1>2, <1>3, <4>2, SMT
        <4>4. QED
          BY <1>8, <2>2, <4>3 DEF WorseBy
      <3>3. QED
        BY <1>8, <2>2, <3>1, <3>2 DEF Worse, WorseBy
    <2>3. QED
      BY <2>1, <2>2
  <1>9. ASSUME NEW c \in linked \ Failed, ~ WorseBy(s, c, tip) PROVE c \in candidates'
    <2>1. CASE c = b
      BY <1>1, <1>6, <1>9, <2>1
    <2>2. CASE c # b
      BY <1>1, <1>5, <1>8, <1>9, <2>2
    <2>3. QED
      BY <2>1, <2>2
  <1>10. QED
    BY <1>1, <1>4, <1>9, QuietChoosing DEF Worse

-----------------------------------------------------------------------------

\* the tip a round began with is a candidate until the tip is better
LEMMA StartTipCandidate ==
  ASSUME Inv, Linking, Connectable, Complete, Holding, ~ Worse(act.startTip, tip)
  PROVE  act.startTip \in candidates
  <1>1. act.startTip \in linked /\ act.startTip \in Blocks /\ act.startTip \notin Failed
    BY ChoosingFrom, PathFacts DEF Connectable
  <1>2. ~ Worse(act.startTip, act.startTip)
    BY <1>1, OrderNow
  <1>3. QED
    BY <1>1, <1>2 DEF Complete

LEMMA FindChoosing ==
  ASSUME Inv, Linking, Connectable, Choosing, FindMostWorkChain
  PROVE  Choosing'
  <1>0. /\ act.pc = "find" /\ Holding /\ ~ Worse(act.startTip, tip) /\ act.mostWork = NONE
        /\ UNCHANGED <<linked, seqId, queue, tip, pending, failedValid>>
        /\ act.startTip \in Blocks /\ tip \in Blocks /\ linked \subseteq Blocks
        /\ candidates \subseteq linked /\ NONE \notin Blocks
    BY FindMoves, ChoosingFrom DEF Choosing, Progress, Holding, HoldsCsMain
  <1>1. CASE act' = act
    <2>1. PICK new \in candidates : \E test \in Path[new] \cap Failed :
            /\ failedChild' = failedChild \cup (Path[new] \ Path[test])
            /\ candidates' = candidates \ ((Path[new] \ Path[test]) \cup {test})
      BY <1>0, <1>1, FindMoves
    <2>2. Failed \subseteq Failed' /\ \A c \in candidates : c \notin Failed' => c \in candidates'
      BY <1>0, <2>1 DEF Failed
    <2>3. Complete'
      BY <1>0, <1>1, <2>2, OrderKept DEF Choosing, Complete, Holding
    <2>4. Progress' /\ Awaited'
      BY <1>0, <1>1, OrderKept DEF Choosing, Progress, Awaited
    <2>5. QED
      BY <2>3, <2>4 DEF Choosing
  <1>2. CASE act'.pc = "step" /\ act' # act
    <2> DEFINE m == act'.mostWork
    <2>1. act.startTip \in candidates
      BY <1>0, StartTipCandidate DEF Choosing
    <2>2. /\ UNCHANGED <<candidates, failedChild>> /\ act'.startTip = act.startTip
          /\ m \in candidates /\ \A d \in candidates \ {m} : Worse(d, m)
      BY <1>2, <2>1, FindMoves
    <2>3. m \in Blocks /\ ~ Worse(m, act.startTip)
      BY <1>0, <2>1, <2>2, OrderNow
    <2>4. ~ Worse(m, tip)
      BY <1>0, <2>3, OrderNow
    <2>5. BestOf(m)
      <3> SUFFICES ASSUME NEW c \in linked \ Failed, Worse(m, c) PROVE FALSE
        BY DEF BestOf
      <3>1. c \in Blocks /\ ~ Worse(c, m)
        BY <1>0, <2>3, OrderNow
      <3>2. ~ Worse(c, act.startTip) /\ ~ Worse(c, tip)
        BY <1>0, <2>3, <2>4, <3>1, OrderNow
      <3>3. c \in candidates
        BY <3>2 DEF Choosing, Complete
      <3>4. c = m
        BY <2>2, <3>1, <3>3
      <3>5. QED
        BY <2>3, <3>4, OrderNow
    <2> HIDE DEF m
    <2>6. Complete'
      <3>1. \A c \in linked \ Failed : ~ Worse(c, tip) /\ ~ Worse(c, act.startTip) => c \in candidates
        BY <1>0 DEF Choosing, Complete
      <3>2. Holding'
        BY <1>2 DEF Holding, HoldsCsMain
      <3>3. QED
        BY <1>0, <2>2, <3>1, <3>2, OrderKept DEF Complete, Failed
    <2>7. Progress'
      BY <1>0, <1>2, <2>2, <2>3, OrderKept DEF m, Progress
    <2>8. Awaited'
      BY <1>0, <1>2, <2>2, <2>5, OrderKept DEF m, Choosing, Awaited, BestOf, Failed
    <2>9. QED
      BY <2>6, <2>7, <2>8 DEF Choosing
  <1>3. QED
    BY <1>1, <1>2, FindMoves

\* the steps of ActivateBestChainStep: the tip moves, the marks only grow
LEMMA StartStepChoosing ==
  ASSUME Inv, Linking, Choosing, StartStep
  PROVE  Choosing'
  <1>0. /\ act.pc = "step" /\ Holding /\ ~ Worse(act.startTip, tip)
        /\ act.mostWork \in Blocks /\ ~ Worse(act.mostWork, act.startTip)
        /\ UNCHANGED <<linked, seqId, queue, tip, pending, failedValid, failedChild, candidates>>
        /\ act.startTip \in Blocks /\ tip \in Blocks /\ linked \subseteq Blocks /\ NONE \notin Blocks
    BY StartStepMoves, ChoosingFrom DEF Choosing, Progress, Holding, HoldsCsMain
  <1>1. CASE act.mostWork = tip /\ act'.pc = "idle" /\ act'.mostWork = NONE
    <2>1. \A c \in linked : ~ Worse(c, tip) => ~ Worse(c, act.startTip)
      BY <1>0, <1>1, OrderNow
    <2>2. Complete'
      BY <1>0, <1>1, <2>1, OrderKept DEF Choosing, Complete, Holding, HoldsCsMain, Failed
    <2>3. Progress' /\ Awaited'
      BY <1>0, <1>1, OrderKept DEF Choosing, Progress, Awaited, BestOf, Failed
    <2>4. QED
      BY <2>2, <2>3 DEF Choosing
  <1>2. CASE /\ act'.pc \in {"disconnect", "connect"}
             /\ act'.mostWork = act.mostWork /\ act'.startTip = act.startTip
    <2>1. Complete'
      BY <1>0, <1>2, OrderKept DEF Choosing, Complete, Holding, HoldsCsMain, Failed
    <2>2. Progress' /\ Awaited'
      BY <1>0, <1>2, OrderKept DEF Choosing, Progress, Awaited, BestOf, Failed
    <2>3. QED
      BY <2>1, <2>2 DEF Choosing
  <1>3. QED
    BY <1>0, <1>1, <1>2, StartStepMoves DEF Towards, Onward

LEMMA DisconnectTipChoosing ==
  ASSUME Inv, Linking, Choosing, DisconnectTip
  PROVE  Choosing'
  <1>0. /\ act.pc = "disconnect" /\ Holding /\ ~ Worse(act.startTip, tip)
        /\ act.mostWork \in Blocks /\ ~ Worse(act.mostWork, act.startTip)
        /\ UNCHANGED <<linked, seqId, queue, pending, failedValid, failedChild, candidates>>
        /\ act.startTip \in Blocks /\ tip \in Blocks /\ linked \subseteq Blocks /\ NONE \notin Blocks
        /\ tip' \in Blocks /\ Worse(tip', tip)
    BY DisconnectTipMoves, ChoosingFrom, OrderNow
       DEF Choosing, Progress, Holding, HoldsCsMain
  <1>1. Worse(tip', act.startTip)
    BY <1>0, OrderNow
  <1>2. ~ Worse(act.startTip, tip') /\ tip' # act.mostWork
    BY <1>0, <1>1, OrderNow
  <1>3. /\ act'.pc \in {"disconnect", "connect"}
        /\ act'.mostWork = act.mostWork /\ act'.startTip = act.startTip
    BY <1>2, DisconnectTipMoves DEF Towards, Onward
  <1>4. \A c \in linked : ~ Worse(c, act.startTip) => ~ Worse(c, tip)
    BY <1>0, OrderNow
  <1>5. Complete'
    BY <1>0, <1>3, <1>4, OrderKept DEF Choosing, Complete, Holding, HoldsCsMain, Failed
  <1>6. Progress' /\ Awaited'
    BY <1>0, <1>2, <1>3, OrderKept DEF Choosing, Progress, Awaited, BestOf, Failed
  <1>7. QED
    BY <1>5, <1>6 DEF Choosing

LEMMA ConnectTipChoosing ==
  ASSUME Inv, Linking, Choosing, ConnectTip
  PROVE  Choosing'
  <1>0. /\ act.pc = "connect" /\ Holding
        /\ act.mostWork \in Blocks /\ ~ Worse(act.mostWork, act.startTip)
        /\ UNCHANGED <<linked, seqId, queue, pending, failedValid, failedChild>>
        /\ candidates' = NotWorseThan(candidates, tip')
        /\ act.startTip \in Blocks /\ tip \in Blocks /\ linked \subseteq Blocks /\ NONE \notin Blocks
    BY ConnectTipMoves, ChoosingFrom DEF Choosing, Progress, Holding, HoldsCsMain
  <1>1. tip' \in Blocks /\ Worse(tip, tip') /\ ~ Worse(act.mostWork, tip')
    <2>1. /\ tip' \in Blocks /\ tip \in Path[tip'] /\ tip # tip'
          /\ tip' \in Path[act.mostWork]
      BY <1>0, ConnectTipMoves, NextIsChild, PathFacts
    <2>2. QED
      BY <1>0, <2>1, OrderNow
  <1>2. \A c \in linked : ~ Worse(c, tip') => ~ Worse(c, tip)
    BY <1>0, <1>1, OrderNow
  <1>3. \/ /\ act'.pc \in {"step", "connect"} /\ act'.mostWork = act.mostWork
           /\ act'.startTip = act.startTip
           /\ act'.pc = "step" => Worse(tip', act.startTip)
        \/ /\ ~ Worse(tip', act.startTip)
           /\ \/ tip' = act.mostWork /\ act'.pc = "idle" /\ act'.mostWork = NONE
              \/ act'.pc = "outer" /\ act'.mostWork = act.mostWork
    BY <1>0, ConnectTipMoves DEF Landed, Onward, NextRound
  <1>4. Complete'
    <2>1. ASSUME NEW c \in linked \ Failed, ~ Worse(c, tip'), ~ Worse(c, act.startTip)
          PROVE  c \in candidates'
      BY <1>0, <1>2, <2>1 DEF Choosing, Complete, NotWorseThan
    <2>2. \A c \in linked : ~ Worse(c, tip') /\ ~ Worse(tip', act.startTip)
            => ~ Worse(c, act.startTip)
      BY <1>0, <1>1, OrderNow
    <2>3. QED
      BY <1>0, <1>3, <2>1, <2>2, OrderKept DEF Complete, Holding, HoldsCsMain, Failed
  <1>5. Progress'
    <2>1. Worse(tip', act.startTip) => ~ Worse(act.startTip, tip')
      BY <1>0, <1>1, OrderNow
    <2>2. QED
      BY <1>0, <1>1, <1>3, <2>1, OrderKept DEF Progress
  <1>6. Awaited'
    BY <1>0, <1>3, OrderKept DEF Choosing, Awaited, BestOf, Failed
  <1>7. QED
    BY <1>4, <1>5, <1>6 DEF Choosing

LEMMA ConnectTipInvalidChoosing ==
  ASSUME Inv, Linking, Choosing, ConnectTipInvalid
  PROVE  Choosing'
  <1>0. /\ act.pc = "connect" /\ Holding
        /\ UNCHANGED <<linked, seqId, queue, pending, tip, failedChild>>
        /\ failedValid' = failedValid \cup {NextToConnect}
        /\ candidates' = candidates \ {NextToConnect}
        /\ act.startTip \in Blocks /\ tip \in Blocks /\ linked \subseteq Blocks /\ NONE \notin Blocks
    BY ConnectTipInvalidMoves, ChoosingFrom DEF Holding, HoldsCsMain
  <1>1. /\ act'.mostWork = NONE
        /\ \/ Worse(tip, act.startTip) /\ act'.pc = "find" /\ act'.startTip = act.startTip
           \/ ~ Worse(tip, act.startTip) /\ act'.pc = "outer"
    BY <1>0, ConnectTipInvalidMoves DEF Landed, NextRound
  <1>2. Complete'
    <2>1. ASSUME NEW c \in linked \ Failed', ~ Worse(c, tip), ~ Worse(c, act.startTip)
          PROVE  c \in candidates'
      BY <1>0, <2>1 DEF Choosing, Complete, Failed
    <2>2. \A c \in linked : ~ Worse(c, tip) /\ ~ Worse(tip, act.startTip)
            => ~ Worse(c, act.startTip)
      BY <1>0, OrderNow
    <2>3. QED
      BY <1>0, <1>1, <2>1, <2>2, OrderKept DEF Complete, Holding, HoldsCsMain
  <1>3. Progress'
    <2>1. Worse(tip, act.startTip) => ~ Worse(act.startTip, tip)
      BY <1>0, OrderNow
    <2>2. QED
      BY <1>0, <1>1, <2>1, OrderKept DEF Progress
  <1>4. Awaited'
    BY <1>0, <1>1 DEF Choosing, Awaited
  <1>5. QED
    BY <1>2, <1>3, <1>4 DEF Choosing

LEMMA ChoosingAlways == ASSUME CarefulOperator PROVE Spec => []Choosing
  <1>0. QuietRpc /\ ReconsidersRoots
    BY DEF CarefulOperator
  <1>1. Init => Choosing
    <2> SUFFICES ASSUME Init PROVE Choosing
      OBVIOUS
    <2>1. /\ linked = {Genesis} /\ candidates = {Genesis} /\ tip = Genesis /\ queue = << >>
          /\ act.pc = "idle" /\ act.mostWork = NONE
      BY DEF Init, Idle
    <2>2. ~ Worse(Genesis, Genesis)
      BY InitInv, OrderNow, TreeAssumption DEF TreeAssumption
    <2>3. QED
      BY <2>1, <2>2 DEF Choosing, Complete, Progress, Awaited, BestOf
  <1> DEFINE All == Inv /\ Indexed /\ Linking /\ Clean /\ Checked /\ Caused
                    /\ Connectable /\ Ranked
  <1>2. All /\ Choosing /\ [Next]_vars => Choosing'
    <2> SUFFICES ASSUME All, Choosing, [Next]_vars PROVE Choosing'
      OBVIOUS
    <2>1. CASE StartActivation
      BY <2>1, StartActivationMoves, OrderKept
         DEF StartActivation, status, Choosing, Complete, Progress, Awaited, Holding, HoldsCsMain,
             Failed
    <2>2. CASE LockCsMain
      <3>1. /\ act.pc = "outer" /\ act'.pc = NextRound(act.mostWork)
            /\ act'.mostWork = act.mostWork /\ act'.startTip = tip
            /\ UNCHANGED <<failedValid, failedChild, linked, seqId, queue, candidates, tip, pending>>
        BY <2>2, LockCsMainMoves
      <3>2. ~ Worse(tip, tip)
        BY OrderNow, ActivateFrom
      <3>3. Complete'
        BY <3>1, OrderKept DEF Choosing, Complete, Holding, HoldsCsMain, Failed
      <3>4. Progress'
        BY <3>1, <3>2, OrderKept DEF Choosing, Progress, NextRound
      <3>5. Awaited'
        BY <3>1, OrderKept DEF Choosing, Awaited, NextRound, BestOf, Failed
      <3>6. QED
        BY <3>3, <3>4, <3>5 DEF Choosing
    <2>3. CASE Activate
      BY <2>1, <2>2, <2>3, FindChoosing, StartStepChoosing, DisconnectTipChoosing,
         ConnectTipChoosing, ConnectTipInvalidChoosing DEF Activate
    <2>4. CASE Operate
      BY <1>0, <2>4, OperateMoves, PreciousChoosing, InvalidateChoosing, ResetChoosing
    <2>5. CASE UNCHANGED vars
      BY <2>5, OrderKept
         DEF vars, order, status, Choosing, Complete, Progress, Awaited, Holding, BestOf, Failed
    <2>6. QED
      BY <2>3, <2>4, <2>5, ReceiveChoosing, LinkBlockChoosing DEF Next
  <1>3. QED
    BY <1>0, <1>1, <1>2, InvAlways, IndexedAlways, LinkingAlways, CleanAlways, CheckedAlways,
       CausedAlways, ConnectableAlways, RankedAlways, PTL DEF Spec

-----------------------------------------------------------------------------

\* CheckBlockIndex: every fully received block on a chain without an invalid
\* block that is not worse than the tip is in setBlockIndexCandidates whenever
\* cs_main is free.
THEOREM NoCandidateLost == ASSUME CarefulOperator PROVE Spec => []CandidatesComplete
  <1>1. Inv /\ Caused /\ Choosing => CandidatesComplete
    BY DEF Caused, Choosing, Complete, Holding, CsMainFree, CandidatesComplete
  <1>2. QED
    BY <1>1, InvAlways, CausedAlways, ChoosingAlways, PTL DEF CarefulOperator

\* PruneBlockIndexCandidates' assertion: the set never runs empty outside the
\* rounds of FindMostWorkChain, so a failed reorganisation finds its way back.
THEOREM CandidatesStay == ASSUME CarefulOperator PROVE Spec => []CandidatesNeverEmpty
  <1>1. Inv /\ Linking /\ Clean /\ Connectable /\ Choosing => CandidatesNeverEmpty
    <2> SUFFICES ASSUME Inv, Linking, Clean, Connectable, Choosing PROVE candidates # {}
      BY DEF CandidatesNeverEmpty
    <2>1. tip \in linked /\ tip \in Blocks /\ tip \notin Failed /\ ~ Worse(tip, tip)
      BY ChoosingFrom, PathFacts, OrderNow DEF Clean
    <2>2. CASE Holding => ~ Worse(tip, act.startTip)
      BY <2>1, <2>2 DEF Choosing, Complete
    <2>3. CASE Holding /\ Worse(tip, act.startTip)
      BY <2>1, <2>3, ChoosingFrom, OrderNow, StartTipCandidate DEF Choosing
    <2>4. QED
      BY <2>2, <2>3
  <1>2. QED
    BY <1>1, InvAlways, LinkingAlways, CleanAlways, ConnectableAlways, ChoosingAlways, PTL
       DEF CarefulOperator

\* "We absolutely may not unlock cs_main until we've made forward progress": no
\* hold of cs_main by ActivateBestChain ends on a tip worse than it began with,
\* for any tree, any failing blocks and any batch size.
THEOREM ProgressBeforeUnlock == ASSUME CarefulOperator PROVE Spec => UnlockOnlyAfterProgress
  <1>1. /\ Inv /\ Linking /\ Choosing /\ [Next]_vars
        => (act.pc \in HoldsCsMain /\ act'.pc \notin HoldsCsMain
              => ~ WorseBy(seqId', tip', act.startTip)) \/ UNCHANGED vars
    <2> SUFFICES ASSUME Inv, Linking, Choosing, Next, Holding, ~ Holding'
                 PROVE  ~ WorseBy(seqId', tip', act.startTip)
      BY DEF Holding
    <2>1. Activate
      BY ReceiveMoves, OperateMoves DEF Next, LinkBlock, Holding
    <2>2. seqId' = seqId
      BY <2>1, ActivateMoves
    <2>3. SUFFICES ~ Worse(tip', act.startTip)
      BY <2>2 DEF Worse
    <2>4. CASE StartStep
      BY <2>4, StartStepMoves DEF Choosing, Progress, Towards, Onward, Holding, HoldsCsMain
    <2>5. CASE DisconnectTip
      BY <2>5, DisconnectTipMoves DEF Towards, Landed, Onward, NextRound, Holding, HoldsCsMain
    <2>6. CASE ConnectTip
      BY <2>6, ConnectTipMoves DEF Landed, Onward, NextRound, Holding, HoldsCsMain
    <2>7. CASE ConnectTipInvalid
      BY <2>7, ConnectTipInvalidMoves DEF Landed, NextRound, Holding, HoldsCsMain
    <2>8. QED
      BY <2>1, <2>4, <2>5, <2>6, <2>7, StartActivationMoves, LockCsMainMoves, FindMoves
         DEF Activate, Holding, HoldsCsMain, NextRound
  <1>2. QED
    BY <1>1, InvAlways, LinkingAlways, ChoosingAlways, PTL
       DEF Spec, CarefulOperator, UnlockOnlyAfterProgress

\* A node at rest is on the best chain it has received: no block, failure or
\* operator call is lost between the threads.
THEOREM RestsOnBestChain == ASSUME CarefulOperator PROVE Spec => []IdleOnBestChain
  <1>1. Caused /\ Choosing => IdleOnBestChain
    BY DEF Caused, Choosing, Awaited, BestOf, NodeIdle, IdleOnBestChain
  <1>2. QED
    BY <1>1, CausedAlways, ChoosingAlways, PTL DEF CarefulOperator

-----------------------------------------------------------------------------
(* Every block whose ancestors arrived is linked, in whatever order they    *)
(* arrived, if the operator sets and clears no failure marks.               *)

NoOperatorMarks == InvalidateTargets = {} /\ ReconsiderTargets = {}

InQueue(b) == \E i \in 1 .. Len(queue) : queue[i] = b

\* a block that waits will be found, or its parent will never be linked; for a
\* failed block that is not linked never becomes linked: a failed ancestor of it,
\* or it, has no data, and its data will be refused
Arrived ==
  /\ \A b \in haveData \ linked : InQueue(b) \/ InUnlinked(b) \/ Parent[b] \in Failed \ linked
  /\ \A b \in Failed \ linked : Path[b] \cap (Failed \ haveData) # {}
  /\ failedBlocks \subseteq linked
  /\ \A b \in mapBlockIndex : valid[b] >= VALID_TREE

\* below a block that is not linked, one that is not sits on a parent that is
Frontier ==
  \A b \in Blocks \ linked : \E a \in Path[b] \ {Genesis} : a \notin linked /\ Parent[a] \in linked

\* the next block on the way from an ancestor
LEMMA NextAbove ==
  ASSUME NEW b \in Blocks, NEW a \in Path[b], a # b
  PROVE  \E c \in Path[b] \ {Genesis} : Parent[c] = a
  <1>1. a \in Blocks /\ Height[a] \in Nat /\ Height[b] \in Nat /\ Height[a] < Height[b]
    BY PathFacts
  <1>2. PICK c \in Path[b] : Height[c] = Height[a] + 1
    BY <1>1, AncestorFacts, SMT
  <1>3. c \in Blocks \ {Genesis} /\ c # a
    BY <1>1, <1>2, PathFacts, TreeAssumption, SMT DEF TreeAssumption
  <1>4. /\ Parent[c] \in Blocks /\ Path[c] = Path[Parent[c]] \cup {c}
        /\ Height[c] = Height[Parent[c]] + 1 /\ Height[Parent[c]] \in Nat
    BY <1>3, PathFacts, BranchFacts
  <1>5. c \notin Path[a]
    BY <1>1, <1>2, <1>3, PathFacts, SMT
  <1>6. a \in Path[Parent[c]]
    BY <1>3, <1>4, <1>5, BranchFacts
  <1>7. Parent[c] = a
    BY <1>1, <1>2, <1>4, <1>6, PathFacts, SMT
  <1>8. QED
    BY <1>3, <1>7

LEMMA FrontierAlways == Spec => []Frontier
  <1>1. Init => Frontier
    <2> SUFFICES ASSUME Init, NEW b \in Blocks \ linked
                 PROVE  \E a \in Path[b] \ {Genesis} : a \notin linked /\ Parent[a] \in linked
      BY DEF Frontier
    <2>1. linked = {Genesis} /\ Genesis \in Path[b] /\ b # Genesis
      BY PathFacts DEF Init
    <2>2. QED
      BY <2>1, NextAbove
  <1>2. Linking /\ Inv /\ Frontier /\ LinkBlock => Frontier'
    <2> SUFFICES ASSUME Linking, Inv, Frontier, LinkBlock, NEW b \in Blocks \ linked'
                 PROVE  \E a \in Path[b] \ {Genesis} : a \notin linked' /\ Parent[a] \in linked'
      BY DEF Frontier
    <2>1. linked' = linked \cup {Head(queue)}
      BY DEF LinkBlock
    <2>2. PICK a \in Path[b] \ {Genesis} : a \notin linked /\ Parent[a] \in linked
      BY <2>1 DEF Frontier
    <2>3. CASE a = Head(queue)
      <3>1. PICK c \in Path[b] \ {Genesis} : Parent[c] = a
        BY <2>1, <2>2, <2>3, NextAbove
      <3>2. c \in Blocks \ {Genesis} /\ a \in Path[c] /\ a # c
        BY <3>1, PathFacts, BranchFacts, SMT
      <3>3. c \notin linked
        BY <2>2, <3>2 DEF Linking, InLinked
      <3>4. QED
        BY <2>1, <2>3, <3>1, <3>2, <3>3
    <2>4. QED
      BY <2>1, <2>2, <2>3
  <1>3. Linking /\ Inv /\ Frontier /\ [Next]_vars => Frontier'
    <2> SUFFICES ASSUME Linking, Inv, Frontier, [Next]_vars PROVE Frontier'
      OBVIOUS
    <2>1. linked' = linked \/ LinkBlock
      BY ReceiveMoves, ActivateMoves, OperateMoves DEF Next, vars, order
    <2>2. QED
      BY <1>2, <2>1 DEF Frontier
  <1>4. QED
    BY <1>1, <1>3, InvAlways, LinkingAlways, PTL DEF Spec

\* on a linked parent a block that is not being linked has no data
LEMMA MissingOnLinked ==
  ASSUME Inv, Linking, Arrived, NEW a \in Blocks \ {Genesis}, a \notin linked, Parent[a] \in linked,
         ~ InQueue(a)
  PROVE  a \notin haveData
  <1>1. unlinked[Parent[a]] = << >>
    BY DEF Linking, Waits
  <1>2. ~ InUnlinked(a)
    BY <1>1, SMT DEF InUnlinked
  <1>3. QED
    BY <1>2 DEF Arrived

\* marks on linked blocks only
LEMMA MarksOnLinked ==
  ASSUME Arrived, UNCHANGED <<mapBlockIndex, haveData, linked, unlinked, queue>>,
         Failed \subseteq Failed', Failed' \subseteq Failed \cup linked, failedBlocks' \subseteq linked,
         \A b \in mapBlockIndex : valid'[b] >= VALID_TREE
  PROVE  Arrived'
  <1>1. \A b : InQueue(b)' <=> InQueue(b)
    BY DEF InQueue
  <1>2. \A b : InUnlinked(b)' <=> InUnlinked(b)
    BY DEF InUnlinked
  <1>3. QED
    BY <1>1, <1>2 DEF Arrived

LEMMA ReceivedArrived ==
  ASSUME Inv, Indexed, Linking, Arrived, NEW b \in Blocks \ {Genesis}, CsMainFree,
         HeaderAccepted(b), Parent[b] \in mapBlockIndex, b \notin haveData,
         ReceivedBlockTransactions(b), mapBlockIndex' = mapBlockIndex \cup {b},
         failedBlocks' = failedBlocks
  PROVE  Arrived'
  <1>1. /\ haveData' = haveData \cup {b} /\ UNCHANGED <<linked, failedValid, failedChild>>
        /\ valid' = RaiseValidity(b, VALID_TRANSACTIONS) /\ queue = << >>
    BY DEF ReceivedBlockTransactions, CsMainFree
  <1>2. b \notin Failed /\ Failed' = Failed
    BY <1>1 DEF HeaderAccepted, Indexed, Failed
  <1>3. \A x \in mapBlockIndex' : valid'[x] >= VALID_TREE
    <2>1. TypeOK /\ mapBlockIndex \subseteq Blocks
      BY DEF Inv, TypeOK
    <2>2. /\ \A x \in Blocks : valid'[x] \in Nat /\ (x # b => valid'[x] = valid[x])
          /\ valid'[b] >= VALID_TRANSACTIONS
      BY <1>1, <1>2, <2>1, RaiseFacts
    <2>3. valid'[b] >= VALID_TREE
      BY <2>2, SMT DEF VALID_TREE, VALID_TRANSACTIONS
    <2>4. QED
      BY <2>1, <2>2, <2>3 DEF Arrived
  <1>4. \A x : ~ InQueue(x)
    BY <1>1, SMT DEF InQueue
  <1>5. unlinked \in [Blocks -> Seq(Blocks)] /\ Parent[b] \in Blocks /\ haveData \subseteq Blocks
    BY PathFacts DEF Inv, TypeOK
  <1>6. ASSUME NEW x \in haveData \ linked, x # b
        PROVE  InUnlinked(x)' \/ Parent[x] \in Failed \ linked
    <2>1. InUnlinked(x) \/ Parent[x] \in Failed \ linked
      BY <1>4, <1>6 DEF Arrived
    <2>2. ASSUME NEW i \in 1 .. Len(unlinked[Parent[x]]), unlinked[Parent[x]][i] = x
          PROVE  InUnlinked(x)'
      <3>1. CASE unlinked' = unlinked
        BY <2>2, <3>1 DEF InUnlinked
      <3>2. CASE unlinked' = [unlinked EXCEPT ![Parent[b]] = Append(@, b)]
        <4>1. CASE Parent[x] = Parent[b]
          <5>1. unlinked'[Parent[x]] = Append(unlinked[Parent[x]], b)
            BY <1>5, <3>2, <4>1
          <5>2. unlinked[Parent[x]] \in Seq(Blocks)
            BY <1>5, <4>1
          <5>3. i \in 1 .. Len(unlinked'[Parent[x]]) /\ unlinked'[Parent[x]][i] = x
            BY <2>2, <5>1, <5>2, SMT
          <5>4. QED
            BY <5>3 DEF InUnlinked
        <4>2. CASE Parent[x] # Parent[b]
          <5>1. unlinked'[Parent[x]] = unlinked[Parent[x]]
            BY <1>5, <3>2, <4>2, SMT
          <5>2. QED
            BY <2>2, <5>1 DEF InUnlinked
        <4>3. QED
          BY <4>1, <4>2
      <3>3. QED
        BY <3>1, <3>2 DEF ReceivedBlockTransactions
    <2>3. QED
      BY <2>1, <2>2 DEF InUnlinked
  <1>7. b \notin linked => InQueue(b)' \/ InUnlinked(b)' \/ Parent[b] \in Failed \ linked
    <2>1. CASE Parent[b] \in linked
      <3>1. queue' = <<b>>
        BY <2>1 DEF ReceivedBlockTransactions
      <3>2. 1 \in 1 .. Len(queue') /\ queue'[1] = b
        BY <3>1, SMT
      <3>3. QED
        BY <3>2 DEF InQueue
    <2>2. CASE Parent[b] \notin linked /\ Parent[b] \notin Failed
      <3>1. IsValid(Parent[b], VALID_TREE)
        BY <2>2 DEF IsValid, Arrived
      <3>2. unlinked' = [unlinked EXCEPT ![Parent[b]] = Append(@, b)]
        BY <2>2, <3>1 DEF ReceivedBlockTransactions
      <3>3. unlinked'[Parent[b]] = Append(unlinked[Parent[b]], b) /\ unlinked[Parent[b]] \in Seq(Blocks)
        BY <1>5, <3>2
      <3>4. LET n == Len(unlinked'[Parent[b]]) IN n \in 1 .. n /\ unlinked'[Parent[b]][n] = b
        BY <3>3, SMT
      <3>5. QED
        BY <3>4 DEF InUnlinked
    <2>3. QED
      BY <2>1, <2>2
  <1>8. \A x \in Failed \ linked : Path[x] \cap (Failed \ haveData') # {}
    BY <1>1, <1>2 DEF Arrived
  <1>9. QED
    BY <1>1, <1>2, <1>3, <1>6, <1>7, <1>8 DEF Arrived

LEMMA ReceiveArrived ==
  ASSUME Inv, Indexed, Linking, Frontier, Arrived, NEW b \in Blocks \ {Genesis}, Receive(b)
  PROVE  Arrived'
  <1>a. /\ CsMainFree /\ queue = << >> /\ Parent[b] \in mapBlockIndex
        /\ UNCHANGED <<linked, failedBlocks>>
    BY ReceiveMoves DEF CsMainFree
  <1>0. CsMainFree /\ Parent[b] \in mapBlockIndex /\ UNCHANGED <<linked, failedBlocks>>
        /\ \A x : ~ InQueue(x)
    BY <1>a, SMT DEF InQueue
  <1>1. CASE DescendsFromFailed(b)
    <2>1. Parent[b] \in Blocks
          /\ UNCHANGED <<mapBlockIndex, valid, haveData, failedValid, unlinked, queue>>
      BY <1>1, PathFacts DEF DescendsFromFailed, order
    <2>2. PICK f \in Path[Parent[b]] \cap failedBlocks :
            failedChild' = failedChild \cup (Path[Parent[b]] \ Path[f])
      BY <1>1 DEF DescendsFromFailed
    <2>3. f \in linked /\ Path[f] \subseteq linked
      BY <2>2 DEF Arrived, Linking, InLinked
    <2>4. ASSUME NEW x \in Path[Parent[b]] \ Path[f], x \notin linked
          PROVE  Path[x] \cap (Failed' \ haveData) # {}
      <3>1. x \in Blocks
        BY <2>1, <2>4, PathFacts
      <3>2. PICK a \in Path[x] \ {Genesis} : a \notin linked /\ Parent[a] \in linked
        BY <2>4, <3>1 DEF Frontier
      <3>3. a \in Blocks /\ a \in Path[Parent[b]] \ Path[f]
        BY <2>1, <2>3, <2>4, <3>1, <3>2, PathFacts
      <3>4. a \notin haveData
        BY <1>0, <3>2, <3>3, MissingOnLinked
      <3>5. QED
        BY <2>2, <3>2, <3>3, <3>4 DEF Failed
    <2>5. \A x \in Failed' \ linked : Path[x] \cap (Failed' \ haveData) # {}
      BY <2>1, <2>2, <2>4, SMT DEF Failed, Arrived
    <2>6. \A x : (InQueue(x)' <=> InQueue(x)) /\ (InUnlinked(x)' <=> InUnlinked(x))
      BY <2>1 DEF InQueue, InUnlinked
    <2>7. Failed \subseteq Failed'
      BY <2>1, <2>2 DEF Failed
    <2>8. QED
      BY <1>0, <2>1, <2>5, <2>6, <2>7 DEF Arrived
  <1>2. CASE /\ HeaderAccepted(b) /\ mapBlockIndex' = mapBlockIndex \cup {b}
             /\ failedChild' = failedChild /\ valid' = RaiseValidity(b, VALID_TREE)
             /\ UNCHANGED <<haveData, unlinked, queue>>
             /\ failedValid' = failedValid \/ (b \notin haveData /\ failedValid' = failedValid \cup {b})
    <2>1. \A x \in mapBlockIndex' : valid'[x] >= VALID_TREE
      <3>1. TypeOK /\ mapBlockIndex \subseteq Blocks /\ b \notin Failed
        BY <1>2 DEF Inv, TypeOK, HeaderAccepted, Indexed
      <3>2. /\ \A x \in Blocks : x # b => valid'[x] = valid[x]
            /\ valid'[b] >= VALID_TREE
        BY <1>2, <3>1, RaiseFacts
      <3>3. QED
        BY <1>2, <3>1, <3>2 DEF Arrived
    <2>2. \A x : (InQueue(x)' <=> InQueue(x)) /\ (InUnlinked(x)' <=> InUnlinked(x))
      BY <1>2 DEF InQueue, InUnlinked
    <2>3. \A x \in Failed' \ linked : Path[x] \cap (Failed' \ haveData) # {}
      BY <1>2, PathFacts, SMT DEF Failed, Arrived
    <2>4. Failed \subseteq Failed'
      BY <1>2 DEF Failed
    <2>5. QED
      BY <1>0, <1>2, <2>1, <2>2, <2>3, <2>4 DEF Arrived
  <1>3. QED
    BY <1>0, <1>1, <1>2, ReceiveMoves, ReceivedArrived

LEMMA LinkBlockArrived ==
  ASSUME Inv, Linking, Arrived, LinkBlock
  PROVE  Arrived'
  <1> DEFINE b == Head(queue)
  <1>1. /\ linked' = linked \cup {b} /\ queue' = Tail(queue) \o unlinked[b]
        /\ unlinked' = [unlinked EXCEPT ![b] = << >>]
        /\ UNCHANGED <<mapBlockIndex, valid, haveData, failedValid, failedChild, failedBlocks>>
    BY DEF LinkBlock, status, best
  <1>2. /\ queue \in Seq(Blocks) /\ queue # << >> /\ unlinked \in [Blocks -> Seq(Blocks)]
        /\ Len(queue) \in Nat /\ 1 \in 1 .. Len(queue) /\ b = queue[1] /\ b \in Blocks
    BY SMT DEF LinkBlock, Inv, TypeOK
  <1>3. Path[b] \subseteq haveData
    BY <1>2 DEF Inv, WaitingWhole, Whole
  <1>4. b \notin linked
    BY <1>2 DEF Linking, Waits
  <1>5. b \notin Failed
    BY <1>3, <1>4 DEF Arrived
  <1> HIDE DEF b
  <1>6. /\ Tail(queue) \in Seq(Blocks) /\ unlinked[b] \in Seq(Blocks)
        /\ Len(Tail(queue)) = Len(queue) - 1
        /\ Len(queue') = Len(Tail(queue)) + Len(unlinked[b])
        /\ \A i \in 1 .. Len(Tail(queue)) : queue'[i] = queue[i + 1]
        /\ \A i \in 1 .. Len(unlinked[b]) : queue'[Len(Tail(queue)) + i] = unlinked[b][i]
    BY <1>1, <1>2, SMT
  <1>7. \A x \in haveData \ linked' : InQueue(x) => InQueue(x)'
    <2> SUFFICES ASSUME NEW x \in haveData \ linked', NEW i \in 1 .. Len(queue), queue[i] = x
                 PROVE  InQueue(x)'
      BY DEF InQueue
    <2>1. i # 1
      BY <1>1, <1>2
    <2>2. i - 1 \in 1 .. Len(Tail(queue)) /\ Len(unlinked[b]) \in Nat
      BY <1>2, <1>6, <2>1, SMT
    <2>3. i - 1 \in 1 .. Len(queue') /\ queue'[i - 1] = x
      BY <1>6, <2>2, SMT
    <2>4. QED
      BY <2>3 DEF InQueue
  <1>8. \A x \in haveData \ linked' : InUnlinked(x) => InQueue(x)' \/ InUnlinked(x)'
    <2> SUFFICES ASSUME NEW x \in haveData \ linked',
                        NEW i \in 1 .. Len(unlinked[Parent[x]]), unlinked[Parent[x]][i] = x
                 PROVE  InQueue(x)' \/ InUnlinked(x)'
      BY DEF InUnlinked
    <2>1. CASE Parent[x] = b
      <3>1. Len(Tail(queue)) + i \in 1 .. Len(queue') /\ queue'[Len(Tail(queue)) + i] = x
        BY <1>2, <1>6, <2>1, SMT
      <3>2. QED
        BY <3>1 DEF InQueue
    <2>2. CASE Parent[x] # b
      <3>1. x \in Blocks \ {Genesis}
        <4>1. haveData \subseteq Blocks /\ Genesis \in linked
          BY PathFacts, ActivateFrom DEF Inv, TypeOK, Linking, InLinked
        <4>2. QED
          BY <1>1, <4>1
      <3>2. unlinked'[Parent[x]] = unlinked[Parent[x]]
        BY <1>1, <1>2, <2>2, <3>1, PathFacts
      <3>3. QED
        BY <3>2 DEF InUnlinked
    <2>3. QED
      BY <2>1, <2>2
  <1>9. Failed' = Failed
    BY <1>1 DEF Failed
  <1>10. QED
    BY <1>1, <1>5, <1>7, <1>8, <1>9 DEF Arrived

LEMMA ActivateArrived ==
  ASSUME Inv, Linking, Arrived, Activate
  PROVE  Arrived'
  <1>0. UNCHANGED <<mapBlockIndex, haveData, linked, unlinked, queue>>
    BY ActivateMoves
  <1>c. \A c \in linked : Path[c] \subseteq linked
    BY DEF Linking, InLinked
  <1>1. \A x \in mapBlockIndex : valid'[x] >= VALID_TREE
    <2>1. CASE valid' = valid
      BY <2>1 DEF Arrived
    <2>2. CASE ConnectTip
      <3>1. valid' = RaiseValidity(NextToConnect, VALID_SCRIPTS) /\ NextToConnect \in Blocks
        BY <2>2, ConnectTipMoves, NextToConnectFacts
      <3>2. TypeOK /\ mapBlockIndex \subseteq Blocks
        BY DEF Inv, TypeOK
      <3>3. \A x \in Blocks : /\ valid'[x] \in Nat /\ valid[x] \in Nat
                              /\ valid'[x] = valid[x] \/ valid'[x] = VALID_SCRIPTS
        BY <3>1, <3>2, RaiseFacts
      <3>4. QED
        BY <3>2, <3>3, SMT DEF Arrived, VALID_TREE, VALID_SCRIPTS
    <2>3. QED
      BY <2>1, <2>2, StartActivationMoves, LockCsMainMoves, FindMoves, StartStepMoves,
         DisconnectTipMoves, ConnectTipInvalidMoves DEF Activate
  <1>2. CASE FindMostWorkChain
    <2>1. /\ failedValid' = failedValid /\ failedBlocks' = failedBlocks
          /\ failedChild \subseteq failedChild'
          /\ \A x \in failedChild' : x \in failedChild \/ \E c \in candidates : x \in Path[c]
      BY <1>2, FindMoves
    <2>2. candidates \subseteq linked
      BY UsefulFrom
    <2>3. Failed \subseteq Failed' /\ Failed' \subseteq Failed \cup linked
      BY <1>c, <2>1, <2>2 DEF Failed
    <2>4. QED
      BY <1>0, <1>1, <2>1, <2>3, MarksOnLinked DEF Arrived
  <1>3. CASE ConnectTipInvalid
    <2>1. NextToConnect \in linked
      <3>1. act.mostWork \in Blocks /\ NextToConnect \in Path[act.mostWork]
        BY <1>3, ConnectTipInvalidMoves, NextToConnectFacts
      <3>2. act.mostWork \in linked
        BY <3>1, TreeAssumption DEF TreeAssumption, Linking, InLinked
      <3>3. QED
        BY <1>c, <3>1, <3>2
    <2>2. /\ failedValid' = failedValid \cup {NextToConnect} /\ failedChild' = failedChild
          /\ failedBlocks' = failedBlocks \cup {NextToConnect}
      BY <1>3, ConnectTipInvalidMoves
    <2>3. Failed \subseteq Failed' /\ Failed' \subseteq Failed \cup linked
          /\ failedBlocks' \subseteq linked
      BY <2>1, <2>2 DEF Failed, Arrived
    <2>4. QED
      BY <1>0, <1>1, <2>3, MarksOnLinked
  <1>4. CASE UNCHANGED <<failedValid, failedChild, failedBlocks>>
    <2>1. Failed' = Failed /\ failedBlocks' \subseteq linked
      BY <1>4 DEF Failed, Arrived
    <2>2. QED
      BY <1>0, <1>1, <2>1, MarksOnLinked
  <1>5. QED
    BY <1>2, <1>3, <1>4, StartActivationMoves, LockCsMainMoves, StartStepMoves,
       DisconnectTipMoves, ConnectTipMoves DEF Activate

LEMMA ArrivedAlways == ASSUME NoOperatorMarks PROVE Spec => []Arrived
  <1>1. Init => Arrived
    <2> SUFFICES ASSUME Init PROVE Arrived
      OBVIOUS
    <2>1. /\ mapBlockIndex = {Genesis} /\ haveData = linked /\ Failed = {} /\ failedBlocks = {}
          /\ valid[Genesis] = VALID_TRANSACTIONS
      BY TreeAssumption DEF Init, Failed, TreeAssumption
    <2>2. QED
      BY <2>1, SMT DEF Arrived, VALID_TREE, VALID_TRANSACTIONS
  <1>2. Inv /\ Indexed /\ Linking /\ Frontier /\ Arrived /\ [Next]_vars => Arrived'
    <2> SUFFICES ASSUME Inv, Indexed, Linking, Frontier, Arrived, [Next]_vars PROVE Arrived'
      OBVIOUS
    <2>1. ASSUME UNCHANGED <<mapBlockIndex, valid, haveData, linked, unlinked, queue, failedValid,
                             failedChild, failedBlocks>>
          PROVE  Arrived'
      <3>1. Failed' = Failed /\ failedBlocks' \subseteq linked
            /\ \A b \in mapBlockIndex : valid'[b] >= VALID_TREE
        BY <2>1 DEF Failed, Arrived
      <3>2. QED
        BY <2>1, <3>1, MarksOnLinked
    <2>2. CASE Operate
      <3>1. PICK b \in PreciousTargets : PreciousBlock(b)
        BY <2>2, OperateMoves DEF NoOperatorMarks
      <3>2. QED
        BY <2>1, <3>1 DEF PreciousBlock, status, best
    <2>3. CASE UNCHANGED vars
      BY <2>1, <2>3 DEF vars, status, order, best
    <2>4. QED
      BY <2>2, <2>3, ReceiveArrived, LinkBlockArrived, ActivateArrived DEF Next
  <1>3. QED
    BY <1>1, <1>2, InvAlways, IndexedAlways, LinkingAlways, FrontierAlways, PTL DEF Spec

\* CheckBlockIndex: nChainTx and mapBlocksUnlinked are exact whenever cs_main is
\* free, in whatever order headers and blocks arrive and whatever fails, for any
\* tree.  With invalidateblock or reconsiderblock this is not so: a block that
\* arrives while its parent is marked is not remembered.
THEOREM LinksAllThatArrived ==
  ASSUME NoOperatorMarks PROVE Spec => []LinkedWhenAncestorsArrived
  <1>0. ReconsidersRoots
    BY DEF NoOperatorMarks, ReconsidersRoots
  <1>1. Inv /\ Indexed /\ Linking /\ Frontier /\ Arrived /\ Caused => LinkedWhenAncestorsArrived
    <2> SUFFICES ASSUME Inv, Indexed, Linking, Frontier, Arrived, Caused, CsMainFree
                 PROVE  /\ linked = {b \in mapBlockIndex : Path[b] \subseteq haveData}
                        /\ \A p \in Blocks : \A i, j \in DOMAIN unlinked[p] :
                             unlinked[p][i] = unlinked[p][j] => i = j
                        /\ \A b \in mapBlockIndex \ {Genesis} :
                             /\ InUnlinked(b) => b \in haveData \ linked
                             /\ b \in haveData \ linked /\ Sound(b) => InUnlinked(b)
      BY DEF LinkedWhenAncestorsArrived
    <2>0. /\ \A x : ~ InQueue(x)
          /\ mapBlockIndex \subseteq Blocks
      BY SMT DEF CsMainFree, InQueue, Inv, TypeOK
    <2>1. linked \subseteq {b \in mapBlockIndex : Path[b] \subseteq haveData}
      BY LinkedHaveData DEF Indexed
    <2>2. ASSUME NEW b \in mapBlockIndex, Path[b] \subseteq haveData, b \notin linked PROVE FALSE
      <3>1. PICK a \in Path[b] \ {Genesis} : a \notin linked /\ Parent[a] \in linked
        BY <2>0, <2>2 DEF Frontier
      <3>2. a \in Blocks /\ a \in haveData
        BY <2>0, <2>2, <3>1, PathFacts
      <3>3. QED
        BY <2>0, <3>1, <3>2, MissingOnLinked
    <2>3. ASSUME NEW b \in mapBlockIndex \ {Genesis}
          PROVE  /\ InUnlinked(b) => b \in haveData \ linked
                 /\ b \in haveData \ linked /\ Sound(b) => InUnlinked(b)
      <3>1. b \in Blocks \ {Genesis} /\ Parent[b] \in Blocks
        BY <2>0, PathFacts
      <3>2. InUnlinked(b) => b \in haveData
        BY <3>1, SMT DEF InUnlinked, Inv, WaitingWhole
      <3>3. InUnlinked(b) => Parent[b] \notin linked
        BY SMT DEF InUnlinked, Linking, Waits
      <3>4. b \in linked => Parent[b] \in linked
        BY <3>1, PathFacts DEF Linking, InLinked
      <3>5. Parent[b] \in Failed => ~ Sound(b)
        BY <3>1, PathFacts, SMT DEF Caused, Sound
      <3>6. b \in haveData \ linked /\ Sound(b) => InUnlinked(b)
        BY <2>0, <3>5 DEF Arrived
      <3>7. QED
        BY <3>2, <3>3, <3>4, <3>6
    <2>4. ASSUME NEW p \in Blocks, NEW i \in DOMAIN unlinked[p], NEW j \in DOMAIN unlinked[p],
                 unlinked[p][i] = unlinked[p][j]
          PROVE  i = j
      <3>1. DOMAIN unlinked[p] = 1 .. Len(unlinked[p])
        BY SMT DEF Inv, TypeOK
      <3>2. QED
        BY <2>4, <3>1 DEF Linking, Waits
    <2>5. QED
      BY <2>1, <2>2, <2>3, <2>4
  <1>2. QED
    BY <1>0, <1>1, InvAlways, IndexedAlways, LinkingAlways, FrontierAlways, ArrivedAlways,
       CausedAlways, PTL

=============================================================================
