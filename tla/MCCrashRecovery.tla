--------------------------- MODULE MCCrashRecovery ---------------------------
(***************************************************************************)
(* A fork for CrashRecovery.  Block 0 is genesis and 1 creates the         *)
(* outpoint "x".  Its children 2 and 3 both mine the transaction that      *)
(* spends x and creates y; 3 also creates and spends z.  Two blocks fit    *)
(* into a file.                                                            *)
(***************************************************************************)
EXTENDS CrashRecovery, FiniteSets, TLC

MCBlocks == 0..3
MCParent == <<0, 1, 1>> @@ (0 :> NONE)
MCPath[b \in MCBlocks] == IF b = 0 THEN {0} ELSE {b} \cup MCPath[MCParent[b]]
MCOutpoints == {"x", "y", "z"}
MCSpends == <<{}, {"x"}, {"x", "z"}>> @@ (0 :> {})
MCCreates == <<{"x"}, {"y"}, {"y", "z"}>> @@ (0 :> {})
MCFitting == {s \in SUBSET MCBlocks : Cardinality(s) <= 2}

=============================================================================
