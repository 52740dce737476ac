-------------------------- MODULE MCCredentialVault --------------------------
EXTENDS CredentialVault, TLC

Symmetry == Permutations(Owners) \cup Permutations(Screens)
=============================================================================
