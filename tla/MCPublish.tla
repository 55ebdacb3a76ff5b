------------------------------ MODULE MCPublish ------------------------------
(* A posting of the Sunday and one of the Monday after, one of them past its *)
(* expiry when the second week is reported.                                  *)
EXTENDS Publish

MCTypeOf == [c \in Company |-> "MNC"]

Plain ==
  [posted |-> 6, years |-> 2, role |-> "Backend", level |-> "Junior", hidden |-> FALSE,
   monthly |-> TRUE, pay |-> 10, swe |-> TRUE, employer |-> 1, expiry |-> 13, apps |-> 3,
   views |-> 9, reposts |-> 0, skills |-> {}, keySkills |-> {}]

MCRow == [p \in Posting |-> IF p = 1 THEN Plain ELSE [Plain EXCEPT !.posted = 7, !.expiry = 40]]

=============================================================================
