--------------------------- MODULE MCConsoleLogs ---------------------------
EXTENDS ConsoleLogs, TLC
Symmetry == Permutations(Session)
=============================================================================
