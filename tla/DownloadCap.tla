----------------------------- MODULE DownloadCap ----------------------------
(***************************************************************************)
(* What a share link promises its creator: the limit is fixed when the     *)
(* link is published, and no more downloads than that are ever granted.    *)
(***************************************************************************)
EXTENDS Naturals

CONSTANTS Limits, None, Unlimited

VARIABLES limit, granted

vars == <<limit, granted>>

Init == limit = None /\ granted = 0

Publish(l) == limit = None /\ limit' = l /\ UNCHANGED granted

Grant ==
  /\ limit # None
  /\ limit = Unlimited \/ granted < limit
  /\ granted' = granted + 1
  /\ UNCHANGED limit

Next == (\E l \in Limits : Publish(l)) \/ Grant

Spec == Init /\ [][Next]_vars
=============================================================================
