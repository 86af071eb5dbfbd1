--------------------------- MODULE MCWorkerAttempt ---------------------------
(***************************************************************************)
(* A direct answer that Auto chose, one of three stages and an Ultra plan  *)
(* with two specialists, a marker of two symbols and one of three that     *)
(* share their first, and fragments that cut them.                         *)
(***************************************************************************)
EXTENDS WorkerAttempt

\* What the application may ask for, and the grant it asks under.
MCGrant(tier) ==
    [tier |-> tier, authorized |-> TRUE, routes |-> Allowed.chat[tier] \union Allowed.work[tier]]
MCBudget == [authorized |-> TRUE, remaining |-> 2, estimated |-> 1]
MCPrompt(words, nova, ultra, orion, tools, simple) ==
    [words |-> words, nova |-> nova, ultra |-> ultra, orion |-> orion, tools |-> tools, simple |-> simple]
MCAsks(auto, route, tier) ==
    Selections([auto |-> auto, route |-> route], MCGrant(tier),
               MCPrompt(20, 0, 0, 0, FALSE, TRUE), MCBudget, TRUE)
MCMedium == Route("work", "cosmo", "medium")
MCUltra == Route("work", "cosmo", "ultra")
MCRequests == MCAsks(TRUE, MCMedium, "free") \union MCAsks(FALSE, MCMedium, "plus")
              \union MCAsks(FALSE, MCUltra, "plus") \union MCAsks(FALSE, MCUltra, "free")

MCScore(hits) == [d \in ToSet(Alphabet) |-> IF d \in hits THEN 1 ELSE 0]
MCAdmission(agents, cap) ==
    [tier |-> "plus", authorized |-> TRUE, remaining |-> 2, estimated |-> 1,
     agents |-> agents, cap |-> cap]
MCInput(agents, cap, tokens) ==
    [messages |-> <<[role |-> "user", chars |-> 10, marked |-> FALSE, blank |-> FALSE]>>,
     score |-> MCScore({"coding"}),
     admission |-> MCAdmission(agents, cap),
     limits |-> [tokens |-> tokens, stageCost |-> 1, cost |-> 10]]
\* Limits under which every plan is admitted, and none.
MCInputs == {MCInput(2, 32768, 60000), MCInput(2, 131072, 3000)}

\* Detections: nothing, a conflict, and a citation of the check itself.
MCEntry(stages) == [id |-> "d1", stages |-> stages]
MCDetections == {<<>>, <<MCEntry(<<1, 2>>)>>, <<MCEntry(<<2, 3>>)>>}
MCJudgements ==
    {[material |-> m, refs |-> refs] : m \in BOOLEAN, refs \in {<<>>, <<"d1">>, <<"d2">>}}

MCPrefix == <<"{">>
MCMarker == {<<"<", "t">>, <<"<", "/", "t">>}
MCChunk(text, finish, usage, tools) ==
    [text |-> text, finish |-> finish, usage |-> usage, tools |-> tools,
     choice |-> text # <<>> \/ finish # "none" \/ tools # "none", private |-> FALSE]
MCChunks ==
    {MCChunk(text, "none", FALSE, "none") : text \in {<<"<">>, <<"t">>, <<"/">>, <<" ">>, <<"x", "<">>}}
    \union {MCChunk(text, "stop", TRUE, "none") : text \in {<<"x">>, <<"x", "x">>, <<"x", "x", "x">>, <<"{", "x">>}}
    \union {MCChunk(<<>>, "stop", FALSE, "none"),
            MCChunk(<<>>, "none", TRUE, "none"), MCChunk(<<>>, "length", TRUE, "none"),
            MCChunk(<<>>, "stop", TRUE, "partial"), MCChunk(<<>>, "tool_calls", TRUE, "whole"),
            [MCChunk(<<"x">>, "none", FALSE, "none") EXCEPT !.private = TRUE]}

MCConfig == [timeout |-> 2, paid |-> TRUE, private |-> TRUE, live |-> TRUE, network |-> TRUE,
             resource |-> "api", client |-> "worker"]
MCRuntime == [n \in 0..1 |->
    [lifecycle |-> n, model |-> "cosmo", source |-> "server_provider_runtime",
     adapter |-> "a1", rate |-> 1, gpus |-> 1, cold |-> n = 0, startup |-> 1 - n]]
MCPinned == [cosmo |-> "a1", orion |-> "none", nova |-> "none"]

MCReceiver == [version |-> "2.0", issuer |-> "login", audience |-> "api",
               services |-> {"worker"}, roles |-> {"infer"}, keysDigest |-> "k", keysUntil |-> 5,
               lifetime |-> 10, skew |-> 1, enabled |-> TRUE]
MCKeySet == [digest |-> "k", issuer |-> "login", keys |-> {"k1"}]
MCToken(expires, key) ==
    [algorithm |-> "RS256", key |-> key, signedBy |-> key, issuer |-> "login", audience |-> "api",
     version |-> "2.0", kind |-> "app", roles |-> {"infer", "read"}, service |-> "worker",
     issued |-> -1, notBefore |-> 0, expires |-> expires]
MCTokens == {MCToken(3, "k1"), MCToken(4, "k1"), MCToken(9, "k2")}

-----------------------------------------------------------------------------
(* The algorithms on bounded inputs.                                       *)

\* Auto never picks what the tier may not use, and Ultra only within budget.
ASSUME AutoStaysInPlan ==
    \A tier \in {"free", "plus", "pro"}, words \in {29, 31, 60, 140},
       nova, ultra \in 0..2, flags \in BOOLEAN \X BOOLEAN, left \in 0..2 :
        LET prompt == MCPrompt(words, nova, ultra, 0, flags[1], flags[2])
            budget == [MCBudget EXCEPT !.remaining = left]
            q == AutoRoute(ClassifyAuto(prompt, tier, budget))
        IN  /\ Permits(MCGrant(tier), q)
            /\ q.effort = "ultra" => tier = "pro" /\ left >= budget.estimated

\* Every detected domain has a specialist, none is appointed twice, and the
\* plan a restarted job rebuilds from its saved plan is the same.
ASSUME EveryDomainIsCovered ==
    \A hits \in SUBSET ToSet(Alphabet), agents \in 2..5 :
        LET score == MCScore(hits)
            team == Team(score, agents)
        IN  Len(Domains(score)) <= agents =>
                /\ {team[i][1] : i \in DOMAIN team} = ToSet(Domains(score))
                /\ IsInjective(team) /\ Len(team) >= 2
                /\ Team(score, Len(team)) = team

\* A plan that is built is one that ExecutionSpec admits under the same cap.
ASSUME BuiltIsAdmitted ==
    \A n \in 2..5, cap \in {4096, 4097, 32768, 65536, 131071, 131072} :
        PerOperation(n, cap) >= 512 =>
            Snapshot([k \in 1..(n + 4) |-> UltraOperation(n, k, cap)],
                     [tokens |-> cap, stageCost |-> 1, cost |-> n + 4])
=============================================================================
