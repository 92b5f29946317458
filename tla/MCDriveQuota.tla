----------------------------- MODULE MCDriveQuota ---------------------------
EXTENDS DriveQuota, TLC

Symmetry == Permutations(Files) \cup Permutations(Requests)

=============================================================================
