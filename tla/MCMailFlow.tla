----------------------------- MODULE MCMailFlow -----------------------------
(***************************************************************************)
(* Small instances of MailFlow.  Addresses 1 and 2 are local and 2       *)
(* rejects, 3 is an alias to 4, which is of another site and so unknown    *)
(* here, and 5 is an alias to 1.                                           *)
(***************************************************************************)
EXTENDS MailFlow, TLC

CONSTANTS s1, s2, w1, w2

MCAddrs == 1 .. 5
MCAlias == 3 :> 4 @@ 5 :> 1

\* Messages 1 and 3 have only Cc recipients, 2 and 4 also a To recipient.
MCTo == <<{}, {1}, {}, {1}>>
MCCc == <<{2}, {2}, {2}, {2}>>

Arrivals(vias, rcpts, classes) == [via : vias, rcpts : rcpts, class : classes]

Inbound(arrives, jobs, sessions) ==
  [schedules |-> {}, arrives |-> arrives, jobs |-> jobs, sessions |-> sessions,
   workers |-> {}, faults |-> 1, mishaps |-> 0]

MCLoads ==
  {[schedules |-> {1, 2}, arrives |-> {}, jobs |-> {}, sessions |-> {},
    workers |-> {w1, w2}, faults |-> 0, mishaps |-> 1],
   [schedules |-> {1, 2}, arrives |-> {}, jobs |-> {1}, sessions |-> {s1},
    workers |-> {w1}, faults |-> 1, mishaps |-> 0],
   [schedules |-> {1, 3, 4}, arrives |-> {}, jobs |-> {}, sessions |-> {},
    workers |-> {w1}, faults |-> 0, mishaps |-> 0],
   Inbound(Arrivals({"lmtp"}, {{1, 5}, {1, 2}, {2, 3}, {1, 3, 4}}, {"plain", "infected"}), {1}, {s1, s2}),
   Inbound(Arrivals({"smtp25"}, {{1, 4}, {4}}, {"plain", "spoofed"}), {1}, {s1, s2}),
   Inbound(Arrivals({"lmtp"}, {{5}}, {"late"}), {1, 2}, {s1}),
   Inbound(Arrivals({"submission"}, {{1, 3}, {1, 4}}, {"plain", "declared", "foreign"}), {1, 2}, {s1})}

=============================================================================
