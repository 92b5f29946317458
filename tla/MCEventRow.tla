------------------------------ MODULE MCEventRow ------------------------------
(***************************************************************************)
(* Small instances of EventRow.  The monthly rule generates a subset of    *)
(* the occurrences of the weekly one.                                      *)
(***************************************************************************)
EXTENDS EventRow, TLC

CONSTANTS p1, p2, i1, i2, ann

Plain(rule) ==
  [rrule |-> rule, text |-> "a", desc |-> "a", status |-> "CONFIRMED", exdates |-> {},
   over |-> [i \in Insts |-> None], zoned |-> [ex |-> {}, over |-> {}],
   att |-> [a \in People |-> None], seq |-> 0, stamp |-> 0]

MCInsts == {i1, i2}
MCRules == {"weekly", "monthly"}
MCOcc == [r \in MCRules |-> IF r = "weekly" THEN MCInsts ELSE {i1}]
MCWindow == MCInsts
MCTexts == {"a", "b"}

Single == [Plain(None) EXCEPT !.desc = "b", !.seq = 1, !.stamp = 1]
Zoned == [Plain("weekly") EXCEPT !.zoned = [ex |-> {i1}, over |-> {i2}]]
Contrary == [Plain("weekly") EXCEPT !.exdates = {i1}, !.over[i1] = "b"]

MCLoads ==
  {[does |-> {"cancel", "clear_exdates", "delete_exdate", "override", "delete_override",
              "patch_override", "to_cancel", "to_override"},
    bodies |-> {Plain("weekly"), Contrary, Zoned, Single}, seq |-> 1],
   [does |-> {"range", "cleanup", "override"}, bodies |-> {Plain("weekly")}, seq |-> 1],
   [does |-> {"fields", "range", "touch"}, bodies |-> {Plain("weekly"), Contrary}, seq |-> 2],
   [does |-> {"put", "fields", "rsvp", "attendee"}, bodies |-> {Plain("weekly"), Single}, seq |-> 2],
   [does |-> {"delete", "put", "reply", "itip_cancel"},
    bodies |-> {Plain("weekly"), Single}, seq |-> 2],
   [does |-> {"delete", "put", "counter", "fields"}, bodies |-> {Plain("weekly")}, seq |-> 2]}

\* Enough operations for each comment that does not hold.
ClaimLoads ==
  {[does |-> {"cancel", "delete_exdate"}, bodies |-> {Zoned}, seq |-> 1],
   [does |-> {"fields", "touch"}, bodies |-> {Plain("weekly")}, seq |-> 2],
   [does |-> {"attendee", "reply"}, bodies |-> {Plain("weekly")}, seq |-> 1],
   [does |-> {"counter"}, bodies |-> {Plain("weekly")}, seq |-> 1]}

ReqSymmetry == Permutations(Reqs)

=============================================================================
