----------------------------- MODULE MCDriveShare ---------------------------
EXTENDS DriveShare, TLC

Symmetry == Permutations(Downloads)
=============================================================================
