---------------------------- MODULE MCChainState ----------------------------
(***************************************************************************)
(* Small block trees for ChainState: blocks are numbers, 0 is genesis, and *)
(* every block adds one unit of work.                                      *)
(***************************************************************************)
EXTENDS ChainState, TLC

\* two branches off genesis: 1-2-3 and 4-5-6
MCBlocks == 0..6
MCParent == <<0, 1, 2, 0, 4, 5>> @@ (0 :> NONE)
MCHeight[b \in MCBlocks] == IF b = 0 THEN 0 ELSE 1 + MCHeight[MCParent[b]]
MCPath[b \in MCBlocks] == IF b = 0 THEN {0} ELSE {b} \cup MCPath[MCParent[b]]
MCAddr == [b \in MCBlocks |-> b]

\* two branches off genesis: 1-2 and 3-4
SmallBlocks == 0..4
SmallParent == <<0, 1, 0, 3>> @@ (0 :> NONE)
SmallHeight[b \in SmallBlocks] == IF b = 0 THEN 0 ELSE 1 + SmallHeight[SmallParent[b]]
SmallPath[b \in SmallBlocks] == IF b = 0 THEN {0} ELSE {b} \cup SmallPath[SmallParent[b]]
SmallAddr == [b \in SmallBlocks |-> b]

=============================================================================
