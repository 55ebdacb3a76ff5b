------------------------------ MODULE MCReplay ------------------------------
(***************************************************************************)
(* Instances of Replay for TLC: one employer, the first build knows        *)
(* neither markers nor replays, and the second build's rules differ from   *)
(* the first's in the code, in the SSOC map and in the aliases.            *)
(***************************************************************************)
EXTENDS Replay

\* Record "a" is software for the code of build 2, or once its line of the SSOC
\* map is there; "b" is software for build 1 only and for no map of build 2, and
\* is stored all the same; "c" is a candidate to build 2 only.
MCVerdict(b, s, t) ==
  CASE t = "a" -> IF 2 \in s THEN "swe" ELSE "other"
    [] t = "b" -> IF b = 1 THEN "swe" ELSE "out"
    [] OTHER   -> "swe"

MCTypeOf(b, t) == IF t = "a" THEN "agency" ELSE "company"

\* Build 1's alias "x" is retired by build 2, so that "b" is left without
\* technologies.
MCFound(b, a, t) ==
  CASE t = "a" -> IF a = 1 THEN {"x"} ELSE {"y"}
    [] OTHER   -> IF a = 1 THEN {"x"} ELSE {}

MCEmployer == [u \in Uuid |-> "acme"]
=============================================================================
