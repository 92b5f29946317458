----------------------------- MODULE MCMailStore ----------------------------
EXTENDS MailStore, TLC

MCLoads == {{"deliver", "move", "delete"}, {"deliver", "delete", "refile"},
            {"deliver", "move", "refile"}, {"deliver", "touch", "refile"},
            {"deliver", "move", "touch"}, {"deliver", "copy", "refile"}}
Symmetry == Permutations(Boxes) \cup Permutations(Txns)
=============================================================================
