------------------------- MODULE MCOperationConsole -------------------------
EXTENDS OperationConsole, TLC
CONSTANTS operator, administrator
MCRank == (operator :> 1) @@ (administrator :> 2)
=============================================================================
