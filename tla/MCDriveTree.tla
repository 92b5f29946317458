----------------------------- MODULE MCDriveTree ----------------------------
EXTENDS DriveTree, TLC

Symmetry == Permutations(Folders) \cup Permutations(Requests) \cup Permutations(Names)

Load(ops, width, size, renames) ==
  [ops |-> ops, width |-> width, size |-> size, renames |-> renames]

\* Two requests at once on two nodes: moves against trash and purge, requests on
\* several nodes against each other, renames of one node.  One request at a
\* time on a tree of three.
MCLoads ==
  {Load({"mkdir", "move", "trash", "restore", "purge", "auto_purge", "expire"}, 2, 2, 0),
   Load({"mkdir", "bulk_move", "bulk_trash", "bulk_restore"}, 2, 2, 0),
   Load({"mkdir", "rename", "undo", "trash", "restore", "expire"}, 2, 1, 2),
   Load({"mkdir", "move", "rename", "trash", "restore", "auto_purge"}, 1, 3, 1)}

MoveLoads == {Load({"mkdir", "move"}, 1, 2, 0)}
RenameLoads == {Load({"mkdir", "rename"}, 2, 1, 2)}
=============================================================================
