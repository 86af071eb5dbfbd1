------------------------------ MODULE OnceDag ------------------------------
(***************************************************************************)
(* What the execution journal promises to the rest of the system, without  *)
(* epochs, clocks, cancellation or storage: the stages of one admitted     *)
(* request form an acyclic plan, each stage starts at most once in the     *)
(* life of the request, a started stage never returns to the pool of work, *)
(* and the request is answered only by a plan that ran to its end.         *)
(*                                                                         *)
(* JobJournal implements this module (refinement mapping at its end).      *)
(***************************************************************************)
CONSTANTS
    Stage,      \* the stages of the admitted plan
    Deps,       \* Deps[s]: the stages whose artifacts s consumes
    Final,      \* the last stage, the only public one
    Debate      \* the conditional stage, if the plan has one

VARIABLES
    phase,      \* phase[s]: idle, busy, done, skipped or dead
    outcome     \* open, answered, closed, or gone once deleted

vars == <<phase, outcome>>

Phases == {"idle", "busy", "done", "skipped", "dead"}
Outcomes == {"open", "answered", "closed", "gone"}

TypeOK ==
    /\ phase \in [Stage -> Phases]
    /\ outcome \in Outcomes

Init ==
    /\ phase = [s \in Stage |-> "idle"]
    /\ outcome = "open"

\* Only the final synthesis may go ahead without the debate it lists.
Settled(s, d) ==
    \/ phase[d] = "done"
    \/ phase[d] = "skipped" /\ s = Final /\ d = Debate

Start(s) ==
    /\ outcome = "open"
    /\ phase[s] = "idle"
    /\ \A d \in Deps[s] : Settled(s, d)
    /\ phase' = [phase EXCEPT ![s] = "busy"]
    /\ UNCHANGED outcome

Skip(s) ==
    /\ outcome = "open"
    /\ phase[s] = "idle"
    /\ s = Debate
    /\ \A d \in Deps[s] : Settled(s, d)
    /\ phase' = [phase EXCEPT ![s] = "skipped"]
    /\ UNCHANGED outcome

End(s) ==
    /\ outcome = "open"
    /\ phase[s] = "busy"
    /\ \E p \in {"done", "dead"} : phase' = [phase EXCEPT ![s] = p]
    /\ UNCHANGED outcome

Answer ==
    /\ outcome = "open"
    /\ \A s \in Stage : phase[s] \in {"done", "skipped"}
    /\ phase[Final] = "done"
    /\ outcome' = "answered"
    /\ UNCHANGED phase

\* Closing without an answer kills whatever was still busy.
Close ==
    /\ outcome = "open"
    /\ outcome' = "closed"
    /\ phase' = [s \in Stage |-> IF phase[s] = "busy" THEN "dead" ELSE phase[s]]

\* The record of a closed request may be erased; nothing follows.
Forget ==
    /\ outcome \in {"answered", "closed"}
    /\ outcome' = "gone"
    /\ phase' = [s \in Stage |-> "idle"]

Next ==
    \/ \E s \in Stage : Start(s) \/ Skip(s) \/ End(s)
    \/ Answer
    \/ Close
    \/ Forget

Spec == Init /\ [][Next]_vars
=============================================================================
