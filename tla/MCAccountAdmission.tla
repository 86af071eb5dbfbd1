------------------------- MODULE MCAccountAdmission -------------------------
(***************************************************************************)
(* Two jobs, two periods, and a policy that can be tightened or disabled.  *)
(***************************************************************************)
EXTENDS AccountAdmission

CONSTANTS j1, j2

MCResource == {"tokens", "cost"}
MCQuota == [j \in Job |-> [r \in MCResource |-> IF r = "tokens" THEN 2 ELSE 1]]
MCDeadline == [j \in Job |-> IF j = j1 THEN 1 ELSE 2]
MCCap(tokens, cost) == [r \in MCResource |-> IF r = "tokens" THEN tokens ELSE cost]
MCLimit(p, from, to, cap, jobs, enabled) ==
    [period |-> p, starts |-> from, ends |-> to, cap |-> cap, jobs |-> jobs, enabled |-> enabled]
MCPolicies == {
    MCLimit(1, 0, 2, MCCap(4, 2), 2, TRUE),
    MCLimit(1, 0, 2, MCCap(2, 2), 2, TRUE),
    MCLimit(1, 0, 2, MCCap(4, 2), 1, FALSE),
    MCLimit(2, 2, 3, MCCap(2, 1), 2, TRUE)}
=============================================================================
