---------------------------- MODULE MCWorkUsage ----------------------------
(***************************************************************************)
(* Three jobs over two weeks of the same allowance: a Fast job that only   *)
(* fits Pro, and a Fast and a standard one that fit Plus and may come      *)
(* before or after the reset.  All three together never fit.               *)
(***************************************************************************)
EXTENDS WorkUsage

CONSTANTS j1, j2, j3

MCStandard == [j \in Job |-> CASE j = j1 -> 5 [] j = j2 -> 1 [] OTHER -> 2]
MCFast == [j \in Job |-> j \in {j1, j2}]
MCDeadline == [j \in Job |-> IF j = j1 THEN 2 ELSE 4]
MCWeeks == {[period |-> 1, starts |-> 0, ends |-> 2, plus |-> 2],
            [period |-> 2, starts |-> 2, ends |-> 4, plus |-> 2]}
=============================================================================
