------------------------------- MODULE UltraPlan -------------------------------
(***************************************************************************)
(* The plan of an Ultra answer (ultra/orchestrator.py), its binding to the *)
(* artifacts of earlier stages (ultra/binding.py) and the execution        *)
(* snapshot that admits it (execution/contracts.py).                       *)
(*                                                                         *)
(* With n specialists a plan has n + 4 stages, numbered in plan order: the *)
(* specialists, the disagreement check, the judge, the debate and the      *)
(* synthesis.  A specialist reads no artifact, every later stage reads     *)
(* those of all stages before it.  A task is its score per domain.  Sizes  *)
(* are as in CoreRoute; the prompt of a stage includes its instruction.    *)
(***************************************************************************)
EXTENDS RouteSelection, FiniteSetsExt

\* DOMAIN_SPECIALISTS
Roles ==
    [coding   |-> <<"planner", "implementation", "security", "test", "performance">>,
     research |-> <<"source_finder", "evidence_analyst", "counterargument",
                    "fact_checker", "domain_reviewer">>,
     math     |-> <<"solver_a", "solver_b", "verification">>,
     business |-> <<"market", "cost", "risk", "strategy", "operations">>,
     work     |-> <<"researcher", "planner", "browser", "document", "data_analyst">>,
     general  |-> <<"planner", "domain_specialist", "critic">>]

Alphabet == <<"business", "coding", "math", "research", "work">>

\* The elements of a set sorted by a key: the k-th has k - 1 before it.
Ranked(S, key) ==
    [k \in 1..Cardinality(S) |->
        CHOOSE x \in S : Cardinality({y \in S : key[y] < key[x]}) = k - 1]

\* _domains: those the task scores in, the highest first, else "general".
Hits(score) == {i \in 1..5 : score[Alphabet[i]] > 0}

Domains(score) ==
    LET ranked == Ranked(Hits(score), [i \in 1..5 |-> i - 6 * score[Alphabet[i]]])
    IN  IF Hits(score) = {} THEN <<"general">> ELSE [k \in DOMAIN ranked |-> Alphabet[ranked[k]]]

\* A post is the place of a role in its domain and of the domain in the list.
Posts(domains) == {p \in (1..5) \X DOMAIN domains : p[1] <= Len(Roles[domains[p[2]]])}

\* _select_specialists: a role of every domain in turn, then general ones.
Rounds(domains) ==
    LET ranked == Ranked(Posts(domains), [p \in Posts(domains) |-> 6 * p[1] + p[2]])
    IN  [k \in DOMAIN ranked |->
            LET d == domains[ranked[k][2]] IN <<d, Roles[d][ranked[k][1]]>>]

Spare(domains) == {i \in 1..3 : <<"general", Roles.general[i]>> \notin ToSet(Rounds(domains))}

Extras(domains) ==
    LET ranked == Ranked(Spare(domains), [i \in 1..3 |-> i])
    IN  [k \in DOMAIN ranked |-> <<"general", Roles.general[ranked[k]]>>]

SelectSpecialists(domains, maximum) ==
    LET team == Rounds(domains) \o Extras(domains)
    IN  SubSeq(team, 1, Min({maximum, Len(team)}))

\* The specialists of a task when at most agents are admitted.
Slots(domains, agents) == Min({agents, Max({2, Len(domains) + 2})})
Team(score, agents) == SelectSpecialists(Domains(score), Slots(Domains(score), agents))

-----------------------------------------------------------------------------
\* build_ultra_plan: the budget, for n specialists and a cap on all tokens.

Least(a, b) == IF a <= b THEN a ELSE b

\* Artifacts the k-th stage reads, and those of all stages together.
Artifacts(n, k) == IF k <= n THEN 0 ELSE k - 1
AllArtifacts(n) == 4 * n + 6

Template(n, k) == Prompt + Artifacts(n, k) * Wrapper
AllTemplates(n) == (n + 4) * Prompt + AllArtifacts(n) * Wrapper

\* Every output is paid once, and once more by every stage that reads it.
Units(n) == n + 4 + AllArtifacts(n)

\* What a stage may write so that it fits the context with all it reads.
InContext(n, k) ==
    LET room == (ContextTokens - Template(n, k)) \div (1 + Artifacts(n, k))
    IN  IF room > 0 THEN room ELSE 0

PerOperation(n, cap) ==
    Least(Least((cap - AllTemplates(n)) \div Units(n), Profiles.ultra.output),
    Least(InContext(n, 1),
    Least(Least(InContext(n, n + 1), InContext(n, n + 2)),
          Least(InContext(n, n + 3), InContext(n, n + 4)))))

StageInput(n, k, cap) == Template(n, k) + Artifacts(n, k) * PerOperation(n, cap)

ReservedTotal(n, cap) ==
    AllTemplates(n) + AllArtifacts(n) * PerOperation(n, cap) + (n + 4) * PerOperation(n, cap)

UltraOperation(n, k, cap) ==
    [public |-> k = n + 4, needs |-> 1..Artifacts(n, k),
     input |-> StageInput(n, k, cap), output |-> PerOperation(n, cap)]

\* _validate_admission
Admissible(a, surface) ==
    /\ a.tier \in IF surface = "chat" THEN {"pro"} ELSE {"plus", "pro"}
    /\ a.authorized
    /\ a.estimated > 0 /\ a.remaining >= a.estimated
    /\ a.agents >= 2 /\ a.agents <= 5
    /\ a.cap >= 4096 /\ a.cap <= 131072

\* _resolve_request
ResolvedUltra(q) == Known(q) /\ Bounded(Policy(q), Level(q)) /\ Policy(q).engine = "kova-ultra"

UltraPlanned(q, a, score) ==
    LET n == Len(Team(score, a.agents))
    IN  /\ ResolvedUltra(q)
        /\ Admissible(a, q.surface)
        /\ Len(Domains(score)) <= a.agents
        /\ PerOperation(n, a.cap) >= 512
        /\ ReservedTotal(n, a.cap) <= a.cap

\* _verify_current_plan: rebuilt from the saved plan, which keeps how many
\* specialists it has and not how many were admitted.
Rebuilt(q, a, score) ==
    LET n == Len(Team(score, a.agents))
        again == [a EXCEPT !.tier = "pro", !.authorized = TRUE,
                           !.remaining = a.estimated, !.agents = n]
    IN  UltraPlanned(q, again, score) /\ Team(score, n) = Team(score, a.agents)

\* ExecutionSpec: every operation needs earlier ones only and fits the context,
\* and exactly the last one publishes.
Shaped(ops) ==
    /\ Len(ops) \in 1..16
    /\ \A k \in DOMAIN ops :
          /\ ops[k].needs \subseteq 1..(k - 1)
          /\ ops[k].input > 0 /\ ops[k].output > 0
          /\ ops[k].input + ops[k].output <= ContextTokens
          /\ ops[k].public <=> k = Len(ops)

\* ExecutionSpec: the operations of a plan are within the admitted limits.
Snapshot(ops, limits) ==
    /\ Shaped(ops)
    /\ SumFunction([k \in DOMAIN ops |-> ops[k].input + ops[k].output]) <= limits.tokens
    /\ Len(ops) * limits.stageCost <= limits.cost

-----------------------------------------------------------------------------
\* ultra/binding.py

\* The artifact of a stage the scheduler skipped.
Skipped == [tokens |-> 0, chars |-> 0, marked |-> FALSE, skipped |-> TRUE]

\* validated_conversation
ValidConversation(messages) ==
    /\ ValidMessages(messages) /\ Unmarked(messages)
    /\ Last(messages).role = "user" /\ ~Last(messages).blank

\* bind_ultra_operation: the saved conversation and exactly the declared
\* artifacts, of which only the debate may be missing and only for the
\* synthesis, none too long, none with the reserved prefix, recounted.
UltraBound(n, k, cap, messages, prior) ==
    LET tokens == Template(n, k) - Artifacts(n, k) * Placeholder
                  + SumFunction([i \in DOMAIN prior |-> prior[i].tokens])
    IN  /\ ValidConversation(messages)
        /\ DOMAIN prior = UltraOperation(n, k, cap).needs
        /\ \A i \in DOMAIN prior :
              prior[i].chars > 0 \/ (prior[i].skipped /\ i = n + 3 /\ k = n + 4)
        /\ Small(prior) /\ Unmarked(prior)
        /\ tokens <= StageInput(n, k, cap)
        /\ tokens + PerOperation(n, cap) <= ContextTokens

\* Fault: any stage may be cited.
CitesAnything(entries, n) ==
    /\ Len(entries) <= 32
    /\ \A i, j \in DOMAIN entries : entries[i].id = entries[j].id => i = j
    /\ \A i \in DOMAIN entries : Len(entries[i].stages) \in 2..5

\* validate_disagreements
ValidDisagreements(entries, n) ==
    /\ Len(entries) <= 32
    /\ \A i, j \in DOMAIN entries : entries[i].id = entries[j].id => i = j
    /\ \A i \in DOMAIN entries :
          /\ Len(entries[i].stages) \in 2..5
          /\ IsInjective(entries[i].stages)
          /\ ToSet(entries[i].stages) \subseteq 1..n

\* judge_requires_debate, once the disagreements are valid
ValidJudgement(judgement, entries) ==
    /\ IsInjective(judgement.refs)
    /\ ToSet(judgement.refs) \subseteq {entries[i].id : i \in DOMAIN entries}
    /\ judgement.material <=> judgement.refs # <<>>
=============================================================================
