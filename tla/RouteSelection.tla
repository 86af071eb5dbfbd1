---------------------------- MODULE RouteSelection ----------------------------
(***************************************************************************)
(* How a selection becomes a route: router/application.py resolves an      *)
(* explicit family and effort or asks router/auto.py, under the grant of   *)
(* execution/contracts.py and the plan limits of router/entitlements.py.   *)
(*                                                                         *)
(* Auto reads of a prompt only its length in words, how many terms of each *)
(* of its vocabularies occur and whether it has the form of a simple       *)
(* question.                                                               *)
(***************************************************************************)
EXTENDS CoreRoute

Route(surface, family, effort) == [surface |-> surface, family |-> family, effort |-> effort]

RoutesOf(surface, efforts) ==
    {Route(surface, f, e) : f \in Families[surface], e \in efforts}

\* CHAT_ALLOWED_BY_TIER, WORK_ALLOWED_BY_TIER: the pinned product policy.
Allowed ==
    [chat |-> [free |-> {Route("chat", "cosmo", "light")},
               plus |-> RoutesOf("chat", {"light", "medium", "high"}),
               pro  |-> RoutesOf("chat", DOMAIN WorkEfforts)],
     work |-> [free |-> {},
               plus |-> RoutesOf("work", DOMAIN WorkEfforts),
               pro  |-> RoutesOf("work", DOMAIN WorkEfforts)]]

\* ExecutionGrant.authorize, for the owner of the grant
Permits(grant, q) ==
    /\ grant.authorized
    /\ q \in grant.routes
    /\ q \in Allowed[q.surface][grant.tier]

-----------------------------------------------------------------------------
\* classify_auto

Complexity(p) ==
    (IF p.nova < 2 THEN p.nova ELSE 2)
    + (IF p.words >= 60 THEN 1 ELSE 0) + (IF p.words >= 140 THEN 1 ELSE 0)

UltraCandidate(p) == p.ultra >= 2 \/ (p.ultra = 1 /\ Complexity(p) >= 3)

UltraAllowed(tier, budget) ==
    tier = "pro" /\ budget.authorized /\ budget.remaining >= budget.estimated

Suited(p, tier, budget) ==
    IF UltraCandidate(p) THEN IF UltraAllowed(tier, budget) THEN "ultra" ELSE "max"
    ELSE IF Complexity(p) >= 1 THEN <<"high", "high", "extra", "max">>[Complexity(p)]
    ELSE IF ~p.tools /\ p.orion = 0 /\ p.words <= 30 /\ p.simple THEN "instant"
    ELSE "medium"

\* The plan's limit is applied after every other branch.
ClassifyAuto(p, tier, budget) ==
    LET suited == Suited(p, tier, budget)
    IN  IF tier = "free" THEN "instant"
        ELSE IF tier = "plus" /\ suited \notin {"instant", "medium", "high"} THEN "high"
        ELSE suited

\* The family and effort that stand for the answer of Auto.
AutoRoute(alias) ==
    Route("chat", Slot(Route("chat", "alias", alias)), IF alias = "instant" THEN "light" ELSE alias)

\* resolve_application_selection: the route of a selection, none if refused.
Selections(v, grant, p, budget, autoEnabled) ==
    {q \in IF v.auto
           THEN {AutoRoute(ClassifyAuto(p, grant.tier, budget))}
           ELSE {v.route} :
        /\ grant.authorized
        /\ v.auto => autoEnabled
        /\ Known(q) /\ q.family # "alias"
        /\ Permits(grant, q)}
=============================================================================
