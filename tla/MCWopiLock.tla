---------------------------- MODULE MCWopiLock ----------------------------
\* Instances of WopiLock for TLC: requests and tokens are model values.
EXTENDS WopiLock, TLC

ClientSymmetry == Permutations(Clients)
TokenSymmetry == Permutations(Tokens)
Symmetry == ClientSymmetry \cup TokenSymmetry
=============================================================================
