------------------------------ MODULE MCMempool ------------------------------
(***************************************************************************)
(* Two branches for Mempool.  Both hold p, at different heights; r and x   *)
(* conflict; 2, 5 and 6 are staked with an output of p, and 6 names the    *)
(* wrong block for it.  g stands for an older transaction.                 *)
(*                                                                         *)
(*      0 (g) --- 1 (a, p) --- 2 (a2, s, d, r, y)                          *)
(*       \                                                                 *)
(*        `------ 3 (b) ------ 4 (b2, p, x) ----- 5 (b3, z)                *)
(*                                  `------------ 6 (b4, w)                *)
(***************************************************************************)
EXTENDS Mempool, TLC

MCBlocks == 0..6
MCParent == (0 :> NONE) @@ <<0, 1, 0, 3, 4, 4>>
MCHeight == (0 :> 0) @@ <<1, 2, 1, 2, 3, 3>>
MCPath[b \in MCBlocks] == IF b = 0 THEN {0} ELSE {b} \cup MCPath[MCParent[b]]
MCVtx == (0 :> <<"g">>) @@
  <<<<"a", "p">>, <<"a2", "s", "d", "r", "y">>, <<"b">>, <<"b2", "p", "x">>,
    <<"b3", "z">>, <<"b4", "w">>>>
MCFrom == (0 :> NONE) @@ <<NONE, 1, NONE, NONE, 4, 1>>

MCSpends ==
  [t \in {"a", "a2", "b", "b2", "b3", "b4"} |-> {}]
  @@ ("g" :> {<<"older", 1>>}) @@ ("p" :> {<<"g", 1>>})
  @@ ("s" :> {<<"p", 1>>}) @@ ("d" :> {<<"p", 2>>}) @@ ("r" :> {<<"g", 2>>})
  @@ ("y" :> {<<"g", 3>>})
  @@ ("x" :> {<<"g", 2>>}) @@ ("z" :> {<<"p", 1>>}) @@ ("w" :> {<<"p", 1>>})
  \* not in a block
  @@ ("c" :> {<<"d", 1>>, <<"r", 1>>})   \* a child of both
  @@ ("e" :> {<<"y", 1>>})
  @@ ("q" :> {<<"g", 2>>})               \* replaces r
  @@ ("m" :> {<<"a", 1>>})               \* spends a coinbase
  @@ ("l" :> {<<"p", 3>>})               \* waits after p
MCTx == DOMAIN MCSpends
MCOutputs == [t \in MCTx |-> {t} \X (IF t \in {"g", "p"} THEN 1..3 ELSE {1})]

MCLockTime == [t \in MCTx |-> IF t = "e" THEN 1 ELSE 0]
MCRelative == [t \in MCTx |-> IF t = "l" THEN 2 ELSE 0]
MCFee == [t \in MCTx |-> IF t = "q" THEN 3 ELSE 1]
MCRelayable == {"p", "s", "d", "r", "y", "x", "c", "e", "q", "m", "l"}

=============================================================================
