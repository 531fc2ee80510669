------------------------------ MODULE MCTxIndex ------------------------------
(***************************************************************************)
(* A fork for TxIndex: 1 is the child of genesis, 2 and 3 are children of  *)
(* 1.                                                                      *)
(***************************************************************************)
EXTENDS TxIndex, TLC

MCBlocks == 0..3
MCParent == <<0, 1, 1>> @@ (0 :> NONE)
MCPath[b \in MCBlocks] == IF b = 0 THEN {0} ELSE {b} \cup MCPath[MCParent[b]]

=============================================================================
