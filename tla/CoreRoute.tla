------------------------------ MODULE CoreRoute ------------------------------
(***************************************************************************)
(* From a request to the stages of its answer: router/policy.py resolves   *)
(* the route, core/adapter.py plans one operation per stage and binds the  *)
(* outputs of the earlier stages into it, worker/handler.py checks the     *)
(* input and the context of one stage against that plan.                   *)
(*                                                                         *)
(* A text is its size in tokens and in characters and whether it contains  *)
(* the prefix reserved for placeholders; a message has a role besides, and *)
(* may be blank; an output may be skipped, and has no characters when the  *)
(* stage wrote none.  Token counts are additive: a message bound to an     *)
(* output loses the tokens of the placeholder and gains those of the       *)
(* output.                                                                 *)
(***************************************************************************)
EXTENDS Integers, Sequences, SequencesExt

CONSTANTS
    Prompt,         \* tokens of the system messages and the conversation
    Wrapper,        \* tokens of one artifact message with its placeholder
    Placeholder,    \* tokens of the placeholder alone
    MaxArtifact,    \* MAX_ARTIFACT_TEXT_CHARS
    MaxArtifacts    \* MAX_TOTAL_ARTIFACT_TEXT_CHARS

ASSUME RouteAssumption ==
    /\ Prompt \in Nat \ {0}
    /\ Placeholder \in Nat /\ Wrapper \in Nat /\ Placeholder <= Wrapper
    /\ MaxArtifact \in Nat /\ MaxArtifacts \in Nat

Kinds == <<"planning", "answer", "critic", "verification">>
ContextTokens == 32768
PrivateOutput == 512
Families == [chat |-> {"cosmo", "orion"}, work |-> {"cosmo", "orion", "nova"}]

Compute(engine, effort, passes, output) ==
    [engine |-> engine, effort |-> effort, passes |-> passes, output |-> output]

\* WORK_EFFORTS; dynamic agents have no passes.
WorkEfforts ==
    [light  |-> Compute("kova-core", "low",    <<0, 1, 0, 0>>, 2048),
     medium |-> Compute("kova-core", "medium", <<1, 1, 0, 1>>, 4096),
     high   |-> Compute("kova-core", "xhigh",  <<1, 2, 1, 1>>, 8192),
     extra  |-> Compute("kova-core", "xhigh",  <<2, 3, 2, 2>>, 16384),
     max    |-> Compute("kova-core", "xhigh",  <<2, 4, 2, 3>>, 24576),
     ultra  |-> Compute("kova-ultra", "xhigh", <<0, 0, 0, 0>>, 32768)]

\* RUNTIME_PROFILES: what no route of an effort may exceed.
Profiles ==
    [light  |-> [output |-> 2048,  passes |-> 1],
     medium |-> [output |-> 4096,  passes |-> 3],
     high   |-> [output |-> 8192,  passes |-> 5],
     extra  |-> [output |-> 16384, passes |-> 9],
     max    |-> [output |-> 24576, passes |-> 11],
     ultra  |-> [output |-> 32768, passes |-> 10]]

\* CHAT_POLICIES, the routes without a family; their output bound is the
\* profile's.
ChatPolicies ==
    [instant |-> Compute("kova-core", "low",    <<0, 1, 0, 0>>, Profiles.light.output),
     medium  |-> Compute("kova-core", "medium", <<1, 1, 0, 1>>, Profiles.medium.output),
     high    |-> Compute("kova-core", "xhigh",  <<1, 1, 1, 1>>, Profiles.high.output),
     extra   |-> Compute("kova-core", "xhigh",  <<2, 2, 2, 2>>, Profiles.extra.output),
     max     |-> Compute("kova-core", "xhigh",  <<2, 3, 2, 3>>, Profiles.max.output),
     ultra   |-> Compute("kova-ultra", "xhigh", <<0, 0, 0, 0>>, Profiles.ultra.output)]

-----------------------------------------------------------------------------
\* The level whose profile bounds a route.
Level(q) == IF q.family # "alias" THEN q.effort
            ELSE IF q.effort = "instant" THEN "light" ELSE q.effort

Sum4(p) == p[1] + p[2] + p[3] + p[4]

\* _bound_runtime
Bounded(policy, level) ==
    /\ policy.output <= Profiles[level].output
    /\ Sum4(policy.passes) <= Profiles[level].passes

\* resolve_route: a compatibility alias of Chat, or a family and an effort.
Known(q) ==
    \/ q.surface = "chat" /\ q.family = "alias" /\ q.effort \in DOMAIN ChatPolicies
    \/ /\ q.surface \in DOMAIN Families
       /\ q.family \in Families[q.surface]
       /\ q.effort \in DOMAIN WorkEfforts

Policy(q) == IF q.family = "alias" THEN ChatPolicies[q.effort] ELSE WorkEfforts[q.effort]

\* ROUTE_MODEL_SLOTS: the family whose model answers a route.
Slot(q) ==
    IF q.family # "alias" THEN q.family
    ELSE IF q.effort = "instant" THEN "cosmo" ELSE "orion"

\* _resolved_policy
Resolved(q) == Known(q) /\ Bounded(Policy(q), Level(q)) /\ Policy(q).engine = "kova-core"

\* _stages
Stages(q) ==
    FoldLeft(LAMBDA done, k : done \o [i \in 1..Policy(q).passes[k] |-> <<Kinds[k], i>>],
             <<>>, <<1, 2, 3, 4>>)

FinalStage(q) == Sum4(Policy(q).passes)

\* _stage_output_limit
OutputLimit(q, k) ==
    IF k = FinalStage(q) \/ Policy(q).output < PrivateOutput THEN Policy(q).output ELSE PrivateOutput

\* Fault: room for the previous stage only, though every earlier one is bound.
ReserveOne(q, k) == IF k = 1 THEN 0 ELSE OutputLimit(q, k - 1)

Reserved(q, k) == SumFunction([i \in 1..(k - 1) |-> OutputLimit(q, i)])

\* build_core_plan: the operation of the k-th stage.
Operation(q, k) ==
    [stage |-> Stages(q)[k], public |-> k = FinalStage(q), needs |-> 1..(k - 1),
     input |-> Prompt + (k - 1) * Wrapper + Reserved(q, k), output |-> OutputLimit(q, k)]

\* selected_candidate_provenance: the candidate is the route's own family.
Provenance(q, model) == model = Slot(q)

Planned(q, model) ==
    /\ Resolved(q)
    /\ Provenance(q, model)
    /\ \A k \in 1..FinalStage(q) : Operation(q, k).input + Operation(q, k).output <= ContextTokens

\* The limits on the characters of one artifact and of all of a stage.
Small(texts) ==
    /\ \A i \in DOMAIN texts : texts[i].chars <= MaxArtifact
    /\ SumFunction([i \in DOMAIN texts |-> texts[i].chars]) <= MaxArtifacts

\* Nothing in the texts reads like a placeholder that was left unbound.
Unmarked(texts) == \A i \in DOMAIN texts : ~texts[i].marked

\* bind_core_operation: exactly the outputs the stage depends on, none of them
\* empty or too long, in messages without the reserved prefix, recounted within
\* what was reserved and within the context.
Bound(q, k, messages, prior) ==
    LET tokens == Prompt + (k - 1) * (Wrapper - Placeholder)
                  + SumFunction([i \in DOMAIN prior |-> prior[i].tokens])
    IN  /\ DOMAIN prior = Operation(q, k).needs
        /\ \A i \in DOMAIN prior : prior[i].chars > 0
        /\ Small(prior) /\ Unmarked(prior) /\ Unmarked(messages)
        /\ tokens <= Operation(q, k).input
        /\ tokens + Operation(q, k).output <= ContextTokens

-----------------------------------------------------------------------------
(* worker/handler.py                                                       *)

\* _validated_message
ValidMessages(messages) ==
    /\ messages # <<>> /\ Len(messages) <= 256
    /\ \A i \in DOMAIN messages :
          messages[i].role \in {"user", "assistant"} /\ messages[i].chars <= 250000
    /\ SumFunction([i \in DOMAIN messages |-> messages[i].chars]) <= 750000

\* validate_input
ValidInput(v) ==
    /\ ValidMessages(v.messages)
    /\ v.effort \in {"low", "medium", "xhigh"}
    /\ v.output >= 1 /\ v.output <= 32768

\* validate_execution_context: the stage is one of the route and the answer is
\* public exactly in the last one.
ValidContext(q, stage, public) ==
    /\ Resolved(q)
    /\ \E k \in 1..FinalStage(q) : stage = Stages(q)[k] /\ public = (k = FinalStage(q))

\* build_engine_request: what is sent is the planned operation, bound.
Requested(q, k, v, model, prior) ==
    /\ ValidInput(v) /\ ValidContext(q, Stages(q)[k], k = FinalStage(q))
    /\ v.effort = Policy(q).effort
    /\ Planned(q, model)
    /\ v.output = Operation(q, k).output
    /\ Bound(q, k, v.messages, prior)
=============================================================================
