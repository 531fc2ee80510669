--------------------------- MODULE MCBlockDownload ---------------------------
(***************************************************************************)
(* The chain 0, 1, 2 and a bad block 3 on top of 1.                        *)
(***************************************************************************)
EXTENDS BlockDownload, TLC

MCBlocks == 0..3
MCBad == {3}
MCRecent == {1, 2, 3}
MCPath == <<{0, 1}, {0, 1, 2}, {0, 1, 3}>> @@ (0 :> {0})

=============================================================================
