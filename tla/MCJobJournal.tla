---------------------------- MODULE MCJobJournal ----------------------------
(***************************************************************************)
(* The Ultra plan in small (ultra/orchestrator.py): two specialists that   *)
(* may run side by side, the judge, the conditional debate and the public  *)
(* synthesis.                                                              *)
(***************************************************************************)
EXTENDS JobJournal

MCStage == {"specialist-1", "specialist-2", "judge", "debate-round-1", "synthesis"}
MCOrdinal == [s \in MCStage |->
    CASE s = "specialist-1" -> 0 [] s = "specialist-2" -> 1 [] s = "judge" -> 2
      [] s = "debate-round-1" -> 3 [] OTHER -> 4]
MCDeps == [s \in MCStage |->
    IF MCOrdinal[s] < 2 THEN {} ELSE {d \in MCStage : MCOrdinal[d] < MCOrdinal[s]}]
MCResource == {"tokens", "cost"}
MCNeed == [s \in MCStage |-> [r \in MCResource |-> IF r = "tokens" THEN 2 ELSE 1]]
MCLimit == [r \in MCResource |-> IF r = "tokens" THEN 10 ELSE 5]
=============================================================================
