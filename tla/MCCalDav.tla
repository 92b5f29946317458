------------------------------ MODULE MCCalDav ------------------------------
EXTENDS CalDav, TLC
CONSTANTS home, away

Within(h, a) == home :> h @@ away :> a

SyncLoads ==
  {[does |-> {"write", "purge", "sync"}, ctags |-> Within(4, 2), rows |-> 1],
   [does |-> {"write", "purge", "sync"}, ctags |-> Within(5, 1), rows |-> 2],
   [does |-> {"write", "collection", "sync"}, ctags |-> Within(3, 1), rows |-> 2],
   [does |-> {"write", "collection", "copy"}, ctags |-> Within(3, 2), rows |-> 1]}

MoveLoads == {[does |-> {"write", "copy"}, ctags |-> Within(5, 2), rows |-> 1]}
ClaimLoads == {[does |-> {"write", "sync"}, ctags |-> Within(5, 1), rows |-> 1]}
=============================================================================
