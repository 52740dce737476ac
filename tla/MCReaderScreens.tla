--------------------------- MODULE MCReaderScreens ---------------------------
EXTENDS ReaderScreens, TLC

Symmetry == Permutations(Queries \ {Blank}) \cup Permutations(Dates)
=============================================================================
