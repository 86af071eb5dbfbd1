--------------------------- MODULE MCLocalRunner ----------------------------
(***************************************************************************)
(* Instances for the scheduler: an Ultra plan (two specialists in          *)
(* parallel, the judge, the debate it may call for, the synthesis), and a  *)
(* Core plan of two stages in a row.                                       *)
(***************************************************************************)
EXTENDS LocalRunner

MCSpecialists == {"specialist-1", "specialist-2"}
MCUltra == MCSpecialists \union {"judge", "debate-round-1", "synthesis"}
MCUltraOrdinal == [s \in MCUltra |->
    CASE s = "specialist-1" -> 0 [] s = "specialist-2" -> 1 [] s = "judge" -> 2
      [] s = "debate-round-1" -> 3 [] s = "synthesis" -> 4]
MCUltraDeps == [s \in MCUltra |->
    IF s \in MCSpecialists THEN {}
    ELSE {d \in MCUltra : MCUltraOrdinal[d] < MCUltraOrdinal[s]}]

MCCore == {"planning", "answer"}
MCCoreOrdinal == [s \in MCCore |-> IF s = "planning" THEN 0 ELSE 1]
MCCoreDeps == [s \in MCCore |-> IF s = "planning" THEN {} ELSE {"planning"}]

\* Budgets are checked on the journal itself; here every stage costs one.
MCResource == {"tokens"}
MCNeed == [s \in Stage |-> [r \in MCResource |-> 1]]
MCLimit == [r \in MCResource |-> Cardinality(Stage)]
=============================================================================
