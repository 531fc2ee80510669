------------------------------- MODULE UtxoSet -------------------------------
(***************************************************************************)
(* What the layers of CCoinsView promise: one set of unspent coins, labelled *)
(* with the block it belongs to, that a block changes all at once or not at *)
(* all, and a copy on disk that is always some committed version of it.    *)
(***************************************************************************)
CONSTANTS
  Outpoints,
  Coins,
  SPENT,      \* no coin here
  Hashes      \* block hashes

VARIABLES
  utxo, best,          \* the committed coins and their block
  work, workBest,      \* the coins a block in progress sees, and its block
  open,                \* a block is in progress
  disk, diskBest       \* the durable copy

vars == <<utxo, best, work, workBest, open, disk, diskBest>>

Init ==
  /\ utxo \in [Outpoints -> Coins \cup {SPENT}] /\ best \in Hashes
  /\ work = utxo /\ workBest = best /\ open = FALSE
  /\ disk = utxo /\ diskBest = best

Begin ==
  /\ ~ open /\ open' = TRUE
  /\ UNCHANGED <<utxo, best, work, workBest, disk, diskBest>>

\* a block in progress creates or removes one coin
Put(o, c) ==
  /\ open
  /\ work' = [work EXCEPT ![o] = c]
  /\ UNCHANGED <<utxo, best, workBest, open, disk, diskBest>>

Label(h) ==
  /\ open /\ workBest' = h
  /\ UNCHANGED <<utxo, best, work, open, disk, diskBest>>

\* all of the block's changes take effect together with its label
Commit ==
  /\ open /\ open' = FALSE
  /\ utxo' = work /\ best' = workBest
  /\ UNCHANGED <<work, workBest, disk, diskBest>>

Abandon ==
  /\ open /\ open' = FALSE
  /\ work' = utxo /\ workBest' = best
  /\ UNCHANGED <<utxo, best, disk, diskBest>>

Save ==
  /\ ~ open
  /\ disk' = utxo /\ diskBest' = best
  /\ UNCHANGED <<utxo, best, work, workBest, open>>

Next ==
  \/ Begin \/ Commit \/ Abandon \/ Save
  \/ \E o \in Outpoints, c \in Coins \cup {SPENT} : Put(o, c)
  \/ \E h \in Hashes : Label(h)

Spec == Init /\ [][Next]_vars
=============================================================================
