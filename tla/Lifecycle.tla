------------------------------ MODULE Lifecycle ------------------------------
(***************************************************************************)
(* What the ingest promises about the lifecycle of a posting, with no word *)
(* of pages, archives, databases or retries.                               *)
(*                                                                         *)
(* A posting is unknown until it is sighted.  Sighting it puts it on the   *)
(* books as open with no absences, whatever it was before.  Only a sweep   *)
(* of the whole board may take it off again, in one step, and only when    *)
(* the sweep did not sight it: at once if its published end date has       *)
(* passed, and otherwise after AbsencesToClose sweeps that were trusted    *)
(* enough to count an absence.  A sweep that went wrong is aborted and     *)
(* leaves every posting alone.                                             *)
(***************************************************************************)
EXTENDS Naturals

CONSTANTS
  Uuid,             \* the postings
  AbsencesToClose   \* absences in a row that close a posting (two in the code)

VARIABLES
  today,            \* the Singapore calendar day
  status,           \* status[u]: "unknown", "open" or "closed"
  absences,         \* absences[u]: trusted sweeps in a row that did not sight u
  ends,             \* ends[u]: the published last day of u, 0 when unknown
  sweeping,         \* is a sweep under way?
  sighted           \* the postings the current sweep has sighted

vars == <<today, status, absences, ends, sweeping, sighted>>

Open == {u \in Uuid : status[u] = "open"}

Init ==
  /\ today \in Nat
  /\ status = [u \in Uuid |-> "unknown"]
  /\ absences = [u \in Uuid |-> 0]
  /\ ends = [u \in Uuid |-> 0]
  /\ sweeping = FALSE
  /\ sighted = {}

NextDay ==
  /\ ~sweeping
  /\ today' = today + 1
  /\ UNCHANGED <<status, absences, ends, sweeping, sighted>>

BeginSweep ==
  /\ ~sweeping
  /\ sweeping' = TRUE
  /\ sighted' = {}
  /\ UNCHANGED <<today, status, absences, ends>>

\* Any run may sight a posting; only a sweep remembers that it did.
Sight(u) ==
  /\ status' = [status EXCEPT ![u] = "open"]
  /\ absences' = [absences EXCEPT ![u] = 0]
  /\ ends'[u] \in Nat
  /\ ends' = [ends EXCEPT ![u] = ends'[u]]
  /\ sighted' = IF sweeping THEN sighted \cup {u} ELSE sighted
  /\ UNCHANGED <<today, sweeping>>

\* The close pass: every open posting the sweep did not sight, and no other,
\* is closed if it has expired or, in a trusted sweep, is one absence further.
EndSweep(trusted) ==
  LET absent  == Open \ sighted
      expired == {u \in absent : ends[u] < today}
      missed  == IF trusted THEN absent \ expired ELSE {}
      due     == {u \in missed : absences[u] + 1 >= AbsencesToClose}
  IN /\ sweeping
     /\ status' = [u \in Uuid |-> IF u \in expired \cup due THEN "closed" ELSE status[u]]
     /\ absences' = [u \in Uuid |-> IF u \in expired THEN 0
                                    ELSE IF u \in missed THEN absences[u] + 1
                                    ELSE absences[u]]
     /\ sweeping' = FALSE
     /\ sighted' = {}
     /\ UNCHANGED <<today, ends>>

AbortSweep ==
  /\ sweeping
  /\ sweeping' = FALSE
  /\ sighted' = {}
  /\ UNCHANGED <<today, status, absences, ends>>

Next ==
  \/ NextDay
  \/ BeginSweep
  \/ \E u \in Uuid : Sight(u)
  \/ \E trusted \in BOOLEAN : EndSweep(trusted)
  \/ AbortSweep

Spec == Init /\ [][Next]_vars
=============================================================================
