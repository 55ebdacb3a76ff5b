------------------------------- MODULE MCSite -------------------------------
(* Postings that differ in what the pages tell apart: years that are stated *)
(* below zero, stated, unstated; a level and a role on and off the lists;   *)
(* a salary that is stated by the month, by the year, hidden or not at all. *)
EXTENDS Site

MCTypeOf == [c \in Company |-> "MNC"]

MCJobs == <<"full_reconcile", "enrich">>

MCFound == [l \in Layers |-> IF l = "rule" THEN {1} ELSE {1, 2}]

Plain ==
  [posted |-> 6, years |-> 2, role |-> "Backend", level |-> "Junior", hidden |-> FALSE, monthly |-> TRUE,
   pay |-> 10, swe |-> TRUE, employer |-> 1, expiry |-> 400, apps |-> 3, views |-> 9,
   reposts |-> 0, skills |-> {"sql"}, keySkills |-> {"sql"}]

MCShape ==
  {[Plain EXCEPT !.swe = FALSE, !.posted = 7],
   [Plain EXCEPT !.posted = 7, !.years = -1, !.pay = 14, !.role = "Quant", !.expiry = None, !.employer = None],
   [Plain EXCEPT !.years = None, !.posted = 7, !.level = "Senior", !.pay = 21, !.apps = None, !.reposts = 1],
   [Plain EXCEPT !.years = 6, !.level = None, !.monthly = FALSE, !.role = None]}

MCLegacy == {s \in MCShape : s.years = 6}

=============================================================================
