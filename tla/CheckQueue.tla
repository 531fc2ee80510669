----------------------------- MODULE CheckQueue -----------------------------
(***************************************************************************)
(* CCheckQueue and CCheckQueueControl (src/checkqueue.h), the pool of      *)
(* threads that verifies the scripts of a block, driven by ConnectBlock    *)
(* (src/validation.cpp).                                                   *)
(*                                                                         *)
(* What one thread does between taking and releasing the mutex is one      *)
(* step.  A check is a member of Checks, the ones in Bad return false; a   *)
(* block adds a check at most once, the next block may use it again.  The  *)
(* queue is a set: the code takes its elements last in, first out, and     *)
(* says that their order does not matter.                                  *)
(***************************************************************************)
EXTENDS Integers, FiniteSets

CONSTANTS
  Workers,     \* the threads in CCheckQueue::Thread
  Master,      \* the thread in ConnectBlock; cs_main admits one
  Checks, Bad,
  nBatchSize,
  NONE         \* no verdict

Threads == Workers \cup {Master}

ASSUME CheckQueueAssumption ==
  /\ IsFiniteSet(Checks) /\ Bad \subseteq Checks /\ IsFiniteSet(Workers)
  /\ Master \notin Workers
  /\ nBatchSize \in Nat \ {0}
  /\ NONE \notin BOOLEAN

VARIABLES
  queue, nIdle, nTotal, fAllOk, nTodo,
  pc,       \* where each thread is
  vChecks,  \* its batch; kept until its clean-up, where nNow is its size
  fOk,      \* its result so far
  added,    \* the checks of the block
  txdata,   \* the vector the checks of the block point into exists
  verdict   \* what control.Wait() returned for the block

pool == <<queue, nIdle, nTotal, fAllOk, nTodo>>
locals == <<vChecks, fOk>>
block == <<added, txdata, verdict>>
vars == <<pool, pc, locals, block>>

\* the workers are about to enter Loop, and no block is being connected
Init ==
  /\ queue = {} /\ nIdle = 0 /\ nTotal = 0 /\ fAllOk = TRUE /\ nTodo = 0
  /\ pc = [t \in Threads |-> IF t = Master THEN "out" ELSE "enter"]
  /\ vChecks = [t \in Threads |-> {}] /\ fOk = [t \in Threads |-> TRUE]
  /\ added = {} /\ txdata = FALSE /\ verdict = NONE

-----------------------------------------------------------------------------
(* The master.                                                             *)

\* ConnectBlock creates its control object
BeginBlock ==
  /\ pc[Master] = "out"
  /\ pc' = [pc EXCEPT ![Master] = "control"]
  /\ added' = {} /\ txdata' = TRUE /\ verdict' = NONE
  /\ UNCHANGED <<pool, locals>>

\* the workers blocked on condWorker that a call to Add with n checks notifies
Notified(n) ==
  LET asleep == {w \in Workers : pc[w] = "waiting"}
  IN IF n = 0 \/ asleep = {} THEN {{}}
     ELSE IF n = 1 THEN {{w} : w \in asleep}
     ELSE {asleep}

Add(S) ==
  /\ pc[Master] = "control"
  /\ S \subseteq Checks \ added
  /\ queue' = queue \cup S
  /\ nTodo' = nTodo + Cardinality(S)
  /\ added' = added \cup S
  /\ \E W \in Notified(Cardinality(S)) :
       pc' = [t \in Threads |-> IF t \in W THEN "woken" ELSE pc[t]]
  /\ UNCHANGED <<nIdle, nTotal, fAllOk, locals, txdata, verdict>>

\* control.Wait() at the end of the loop over the transactions
WaitForVerdict ==
  /\ pc[Master] = "control"
  /\ pc' = [pc EXCEPT ![Master] = "enter"]
  /\ UNCHANGED <<pool, locals, block>>

\* ConnectBlock returns early: txdata was declared after control, so it is
\* destroyed first, and then ~CCheckQueueControl waits
ReturnEarly ==
  /\ pc[Master] = "control"
  /\ pc' = [pc EXCEPT ![Master] = "enter"]
  /\ txdata' = FALSE
  /\ UNCHANGED <<pool, locals, added, verdict>>

-----------------------------------------------------------------------------
(* CCheckQueue::Loop.                                                      *)

\* mutant: the result of the last batch replaces the others
AllOkLast(t) == IF pc[t] = "ran" THEN fOk[t] ELSE fAllOk

\* mutant: a thread that enters Loop is not counted
TotalNever(t) == nTotal

\* the clean-up of the previous round, in the first critical section after it
AllOk(t) == IF pc[t] = "ran" THEN fAllOk /\ fOk[t] ELSE fAllOk
Todo(t)  == IF pc[t] = "ran" THEN nTodo - Cardinality(vChecks[t]) ELSE nTodo
Total(t) == IF pc[t] = "enter" THEN nTotal + 1 ELSE nTotal

\* mutant: a woken thread still counts as idle
IdleStill(t) == nIdle

\* after cond.wait
Idle(t)  == IF pc[t] = "woken" THEN nIdle - 1 ELSE nIdle

\* mutant: the master is not told
NotifyNobody(t, next) == [pc EXCEPT ![t] = next]

\* where the threads are when t goes on to next; the worker that processed the
\* last element wakes the master
Notify(t, next) ==
  [pc EXCEPT
     ![t] = next,
     ![Master] = IF t = Master THEN next
                 ELSE IF pc[t] = "ran" /\ Todo(t) = 0 /\ @ = "waiting" THEN "woken"
                 ELSE @]

InLoop(t) == pc[t] \in {"enter", "woken", "ran"}

\* mutant: the master leaves when the queue is empty
ReturnOnEmptyQueue(t) == t = Master /\ queue = {}

\* the master returns from Loop
MayReturn(t) == t = Master /\ queue = {} /\ Todo(t) = 0

\* the master's verdict is used unless ConnectBlock had already failed
Return(t) ==
  /\ InLoop(t) /\ MayReturn(t)
  /\ verdict' = IF txdata THEN AllOk(t) ELSE NONE
  /\ fAllOk' = TRUE
  /\ nTotal' = Total(t) - 1 /\ nTodo' = Todo(t) /\ nIdle' = Idle(t)
  /\ pc' = [pc EXCEPT ![t] = "out"]
  /\ vChecks' = [vChecks EXCEPT ![t] = {}]
  /\ UNCHANGED <<queue, fOk, added, txdata>>

\* out of work
Sleep(t) ==
  /\ InLoop(t) /\ queue = {} /\ ~ MayReturn(t)
  /\ nIdle' = Idle(t) + 1
  /\ fAllOk' = AllOk(t) /\ nTotal' = Total(t) /\ nTodo' = Todo(t)
  /\ pc' = Notify(t, "waiting")
  /\ vChecks' = [vChecks EXCEPT ![t] = {}]
  /\ UNCHANGED <<queue, fOk, block>>

\* how many checks t takes
BatchOf(t) ==
  LET share == Cardinality(queue) \div (Total(t) + Idle(t) + 1)
      most  == IF share < nBatchSize THEN share ELSE nBatchSize
  IN IF most > 1 THEN most ELSE 1

TakeBatch(t) ==
  /\ InLoop(t) /\ queue # {}
  /\ \E S \in SUBSET queue :
       /\ Cardinality(S) = BatchOf(t)
       /\ queue' = queue \ S
       /\ vChecks' = [vChecks EXCEPT ![t] = S]
  /\ fAllOk' = AllOk(t) /\ nTotal' = Total(t) /\ nTodo' = Todo(t) /\ nIdle' = Idle(t)
  /\ fOk' = [fOk EXCEPT ![t] = AllOk(t)]
  /\ pc' = Notify(t, "run")
  /\ UNCHANGED block

\* execute the batch up to its first failure, without the mutex; what a check
\* says that reads a destroyed txdata is anyone's guess
Run(t) ==
  /\ pc[t] = "run"
  /\ \E guess \in BOOLEAN :
       fOk' = [fOk EXCEPT ![t] = @ /\ IF txdata THEN vChecks[t] \cap Bad = {} ELSE guess]
  /\ pc' = [pc EXCEPT ![t] = "ran"]
  /\ UNCHANGED <<pool, vChecks, block>>

\* a condition variable may wake a thread for no reason
SpuriousWakeup(t) ==
  /\ pc[t] = "waiting"
  /\ pc' = [pc EXCEPT ![t] = "woken"]
  /\ UNCHANGED <<pool, locals, block>>

-----------------------------------------------------------------------------
Loop(t) == Return(t) \/ Sleep(t) \/ TakeBatch(t) \/ Run(t)

Next ==
  \/ BeginBlock \/ WaitForVerdict \/ ReturnEarly
  \/ \E S \in SUBSET Checks : Add(S)
  \/ \E t \in Threads : Loop(t) \/ SpuriousWakeup(t)

Spec == Init /\ [][Next]_vars

\* a thread that is awake in Loop, and can get the mutex, goes on
FairSpec == Spec /\ \A t \in Threads : WF_vars(Loop(t))

-----------------------------------------------------------------------------
(* Properties.                                                             *)

\* checks that are queued or in a worker's batch
Outstanding == queue \cup UNION {vChecks[t] : t \in Threads}

\* The variables keep their types: the counters never go below zero.
TypeOK ==
  /\ queue \subseteq Checks /\ added \subseteq Checks
  /\ nIdle \in Nat /\ nTotal \in Nat /\ nTodo \in Nat /\ fAllOk \in BOOLEAN
  /\ pc \in [Threads -> {"out", "control", "enter", "waiting", "woken", "run", "ran"}]
  /\ vChecks \in [Threads -> SUBSET Checks] /\ fOk \in [Threads -> BOOLEAN]
  /\ txdata \in BOOLEAN /\ verdict \in BOOLEAN \cup {NONE}

\* control.Wait() says yes exactly when every check of the block passed, however
\* the batches were spread over the threads and whatever earlier blocks left.
VerdictExact ==
  verdict # NONE => (verdict <=> added \cap Bad = {})

\* CCheckQueueControl "guarantees the passed queue is finished before
\* continuing": no check of a block is queued or held by a worker once
\* ConnectBlock is past its control object.
FinishedBeforeContinuing ==
  pc[Master] = "out" => Outstanding = {}

\* nTodo counts the checks that are queued or in a batch, each in one place;
\* nIdle and nTotal the threads in cond.wait and in Loop.
CountersExact ==
  /\ nTodo = Cardinality(Outstanding)
  /\ nIdle = Cardinality({t \in Threads : pc[t] \in {"waiting", "woken"}})
  /\ nTotal = Cardinality({t \in Threads : pc[t] \in {"waiting", "woken", "run", "ran"}})

\* No notification is lost: a master in Wait gets its verdict.
WaitReturns == pc[Master] \notin {"out", "control"} ~> pc[Master] = "out"

\* ConnectBlock reserves txdata so "that pointers to individual
\* PrecomputedTransactionData don't get invalidated": a thread that is about to
\* run a check finds the data the check points to.
DataOutlivesChecks ==
  \A t \in Threads : pc[t] = "run" /\ fOk[t] => txdata

=============================================================================
