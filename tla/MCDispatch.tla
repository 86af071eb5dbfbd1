----------------------------- MODULE MCDispatch -----------------------------
(***************************************************************************)
(* Two workers competing for the queue of one owner.                       *)
(***************************************************************************)
EXTENDS Dispatch

MCResource == {"tokens"}
MCQuota == [j \in Job |-> [r \in MCResource |-> 1]]
MCDeadline == [j \in Job |-> 1]
MCPolicies == {[period |-> 1, starts |-> 0, ends |-> 2, cap |-> [r \in MCResource |-> 2],
                jobs |-> 2, enabled |-> TRUE]}
=============================================================================
