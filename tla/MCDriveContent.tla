--------------------------- MODULE MCDriveContent ---------------------------
EXTENDS DriveContent, TLC

Symmetry == Permutations(Files) \cup Permutations(Keys) \cup Permutations(Requests)

CONSTANTS n1, n2, n3

Load(ops, names, width, keys) == [ops |-> ops, names |-> names, width |-> width, keys |-> keys]

\* Two requests at once: writes and versions of one file; writes, copies and
\* removals of two.  One at a time: everything, with a folder n3.
WriteLoads == {Load(Writers \cup {"delete_version", "trash", "purge_trash"}, {n1}, 2, 2),
               Load({"upload", "put", "restore_version", "delete_version"}, {n1}, 2, 3)}
RemoveLoads == {Load({"upload", "put", "copy", "purge", "trash", "restore", "purge_trash"}, {n1, n2}, 2, 3)}
OneByOne == {Load(AllOps, {n1, n2, n3}, 1, 2), Load(AllOps \ {"expire"}, {n1, n3}, 1, 3)}
MCLoads == WriteLoads \cup RemoveLoads \cup OneByOne

OverwriteLoads == {Load({"upload", "put", "restore_version"}, {n1}, 2, 3)}
VersionLoads == {Load({"upload", "put", "restore_version", "delete_version"}, {n1}, 1, 2)}
=============================================================================
