----------------------------- MODULE UltraProofs ------------------------------
(***************************************************************************)
(* The token budget of an Ultra plan, for every size of prompt and wrapper *)
(* and every cap, and the attempts of a worker, for every server, runtime  *)
(* and schedule.  Four invariants: WInv on one attempt, JobInv on the      *)
(* stages of a request and the room they leave each other, DebateInv on    *)
(* what a debate rests on, and TextInv on what is shown and held back.     *)
(***************************************************************************)
EXTENDS WorkerAttempt, SumTheorems

\* A quotient times its divisor is no more than the dividend.
LEMMA QuotientBound ==
    ASSUME NEW x \in Int, NEW d \in Nat \ {0}
    PROVE  /\ x \div d \in Int
           /\ d * (x \div d) <= x
  OBVIOUS

\* The least of two bounds is within both.
LEMMA LeastBound ==
    ASSUME NEW a \in Int, NEW b \in Int
    PROVE  Least(a, b) \in Int /\ Least(a, b) <= a /\ Least(a, b) <= b
  BY DEF Least

\* What a stage may write fits the context with what it reads.
LEMMA InContextBound ==
    ASSUME NEW n \in 0..5, NEW k \in 1..(n + 4)
    PROVE  /\ InContext(n, k) \in Int
           /\ InContext(n, k) > 0 =>
                 Template(n, k) + (1 + Artifacts(n, k)) * InContext(n, k) <= ContextTokens
<1>1. Artifacts(n, k) \in Nat
  BY DEF Artifacts
<1>2. Template(n, k) \in Int
  <2>1. Artifacts(n, k) * Wrapper \in Int
    BY <1>1, RouteAssumption
  <2> QED
    BY <2>1, RouteAssumption DEF Template
<1> DEFINE x == ContextTokens - Template(n, k)
           d == 1 + Artifacts(n, k)
<1>3. x \in Int /\ d \in Nat \ {0}
  BY <1>1, <1>2 DEF ContextTokens
<1>4. x \div d \in Int /\ d * (x \div d) <= x
  <2> HIDE DEF x, d
  <2> QED
    BY <1>3, QuotientBound
<1>5. InContext(n, k) = IF x \div d > 0 THEN x \div d ELSE 0
  BY DEF InContext
<1>6. InContext(n, k) \in Int /\ (InContext(n, k) > 0 => d * InContext(n, k) <= x)
  <2> HIDE DEF x, d
  <2> QED
    BY <1>4, <1>5
<1>7. InContext(n, k) > 0 => Template(n, k) + d * InContext(n, k) <= ContextTokens
  <2>1. d * InContext(n, k) \in Int
    <3> HIDE DEF d
    <3> QED
      BY <1>3, <1>6
  <2> QED
    BY <1>2, <1>6, <2>1 DEF ContextTokens
<1> QED
  BY <1>6, <1>7

\* The budget of one operation is below every bound it was taken from.
LEMMA PerOperationBound ==
    ASSUME NEW n \in 0..5, NEW cap \in Nat
    PROVE  /\ PerOperation(n, cap) \in Int
           /\ PerOperation(n, cap) <= (cap - AllTemplates(n)) \div Units(n)
           /\ \A k \in {1} \union (n + 1)..(n + 4) : PerOperation(n, cap) <= InContext(n, k)
<1> DEFINE fair == (cap - AllTemplates(n)) \div Units(n)
<1>1. AllTemplates(n) \in Int /\ Units(n) \in Nat \ {0}
  <2>1. (n + 4) * Prompt \in Int /\ AllArtifacts(n) * Wrapper \in Int
    BY RouteAssumption DEF AllArtifacts
  <2> QED
    BY <2>1 DEF AllTemplates, Units, AllArtifacts
<1>2. fair \in Int
  <2>1. cap - AllTemplates(n) \in Int
    BY <1>1
  <2> QED
    BY <1>1, <2>1, QuotientBound
<1>3. /\ InContext(n, 1) \in Int /\ InContext(n, n + 1) \in Int /\ InContext(n, n + 2) \in Int
      /\ InContext(n, n + 3) \in Int /\ InContext(n, n + 4) \in Int
  BY InContextBound
<1>4. Profiles.ultra.output \in Int
  BY DEF Profiles
<1> DEFINE p1 == Least(fair, Profiles.ultra.output)
           p2 == Least(InContext(n, n + 1), InContext(n, n + 2))
           p3 == Least(InContext(n, n + 3), InContext(n, n + 4))
           p4 == Least(p2, p3)
           p5 == Least(InContext(n, 1), p4)
<1>5. p1 \in Int /\ p1 <= fair
  <2> HIDE DEF fair
  <2> QED
    BY <1>2, <1>4, LeastBound
<1>6. p2 \in Int /\ p2 <= InContext(n, n + 1) /\ p2 <= InContext(n, n + 2)
  BY <1>3, LeastBound
<1>7. p3 \in Int /\ p3 <= InContext(n, n + 3) /\ p3 <= InContext(n, n + 4)
  BY <1>3, LeastBound
<1>8. p4 \in Int /\ p4 <= p2 /\ p4 <= p3
  <2> HIDE DEF p2, p3
  <2> QED
    BY <1>6, <1>7, LeastBound
<1>9. p5 \in Int /\ p5 <= InContext(n, 1) /\ p5 <= p4
  <2> HIDE DEF p4
  <2> QED
    BY <1>3, <1>8, LeastBound
<1>10. Least(p1, p5) \in Int /\ Least(p1, p5) <= p1 /\ Least(p1, p5) <= p5
  <2> HIDE DEF p1, p5
  <2> QED
    BY <1>5, <1>9, LeastBound
<1>11. PerOperation(n, cap) = Least(p1, p5)
  BY DEF PerOperation
<1>12. \A k \in {1} \union (n + 1)..(n + 4) : k \in {1, n + 1, n + 2, n + 3, n + 4}
  OBVIOUS
<1> HIDE DEF fair, p1, p2, p3, p4, p5
<1>13. /\ PerOperation(n, cap) <= InContext(n, 1)
       /\ PerOperation(n, cap) <= InContext(n, n + 1) /\ PerOperation(n, cap) <= InContext(n, n + 2)
       /\ PerOperation(n, cap) <= InContext(n, n + 3) /\ PerOperation(n, cap) <= InContext(n, n + 4)
  BY <1>3, <1>6, <1>7, <1>8, <1>9, <1>10, <1>11
<1>14. PerOperation(n, cap) \in Int /\ PerOperation(n, cap) <= fair
  BY <1>2, <1>5, <1>10, <1>11
<1> QED
  BY <1>12, <1>13, <1>14 DEF fair

\* A plan whose operations may write at all reserves no more than was admitted,
\* every output and every copy of it counted: the last check of build_ultra_plan
\* cannot fail after the one before it.
THEOREM ReservationFits ==
    ASSUME NEW n \in 0..5, NEW cap \in Nat
    PROVE  ReservedTotal(n, cap) <= cap
<1> DEFINE p == PerOperation(n, cap)
<1>1. AllTemplates(n) \in Int /\ Units(n) \in Nat \ {0}
  <2>1. (n + 4) * Prompt \in Int /\ AllArtifacts(n) * Wrapper \in Int
    BY RouteAssumption DEF AllArtifacts
  <2> QED
    BY <2>1 DEF AllTemplates, Units, AllArtifacts
<1> DEFINE x == cap - AllTemplates(n)
           q == x \div Units(n)
<1>2. x \in Int
  BY <1>1
<1>3. q \in Int /\ Units(n) * q <= x
  <2> HIDE DEF x
  <2> QED
    BY <1>1, <1>2, QuotientBound
<1>4. p \in Int /\ p <= q
  BY PerOperationBound
<1> HIDE DEF p, q
<1>5. Units(n) * p <= Units(n) * q
  <2>1. Units(n) \in {10, 15, 20, 25, 30, 35}
    BY DEF Units, AllArtifacts
  <2> QED
    BY <1>3, <1>4, <2>1
<1>6. AllArtifacts(n) * p + (n + 4) * p = Units(n) * p
  <2>5. CASE n = 0
    BY <1>4, <2>5 DEF Units, AllArtifacts
  <2>6. CASE n = 1
    BY <1>4, <2>6 DEF Units, AllArtifacts
  <2>1. CASE n = 2
    BY <1>4, <2>1 DEF Units, AllArtifacts
  <2>2. CASE n = 3
    BY <1>4, <2>2 DEF Units, AllArtifacts
  <2>3. CASE n = 4
    BY <1>4, <2>3 DEF Units, AllArtifacts
  <2>4. CASE n = 5
    BY <1>4, <2>4 DEF Units, AllArtifacts
  <2> QED
    BY <2>1, <2>2, <2>3, <2>4, <2>5, <2>6
<1>7. /\ AllArtifacts(n) * p \in Int /\ (n + 4) * p \in Int
      /\ Units(n) * p \in Int /\ Units(n) * q \in Int
  BY <1>1, <1>3, <1>4 DEF AllArtifacts
<1>8. ReservedTotal(n, cap) = AllTemplates(n) + AllArtifacts(n) * p + (n + 4) * p
  BY DEF ReservedTotal, p
<1> QED
  BY <1>1, <1>3, <1>5, <1>6, <1>7, <1>8

\* Every operation of such a plan fits the context with all it may read: the
\* ExecutionSpec of an Ultra plan never exceeds the served context.
THEOREM StagesFitContext ==
    ASSUME NEW n \in 0..5, NEW cap \in Nat, PerOperation(n, cap) >= 512,
           NEW k \in 1..(n + 4)
    PROVE  UltraOperation(n, k, cap).input + UltraOperation(n, k, cap).output <= ContextTokens
<1> DEFINE p == PerOperation(n, cap)
           a == Artifacts(n, k)
           c == InContext(n, k)
<1>1. a \in 0..8
  BY DEF Artifacts
<1>2. p \in Int /\ p >= 512 /\ p <= c
  <2>1. CASE k <= n
    <3>1. Artifacts(n, k) = Artifacts(n, 1)
      BY <2>1 DEF Artifacts
    <3>2. InContext(n, k) = InContext(n, 1)
      BY <3>1 DEF InContext, Template
    <3> QED
      BY <3>2, PerOperationBound
  <2>2. CASE k > n
    BY <2>2, PerOperationBound
  <2> QED
    BY <2>1, <2>2
<1>3. c \in Int /\ Template(n, k) + (1 + a) * c <= ContextTokens
  BY <1>2, InContextBound
<1>4. Template(n, k) \in Int
  <2>1. Artifacts(n, k) * Wrapper \in Int
    BY <1>1, RouteAssumption
  <2> QED
    BY <2>1, RouteAssumption DEF Template
<1>5. UltraOperation(n, k, cap).input + UltraOperation(n, k, cap).output = Template(n, k) + a * p + p
  BY DEF UltraOperation, StageInput
<1> HIDE DEF p, a, c
<1>6. a * p + p <= (1 + a) * c /\ a * p \in Int /\ (1 + a) * c \in Int
  <2>1. a \in {0, 1, 2, 3, 4, 5, 6, 7, 8}
    BY <1>1
  <2> QED
    BY <1>2, <1>3, <2>1
<1> QED
  BY <1>2, <1>3, <1>4, <1>5, <1>6 DEF ContextTokens
-----------------------------------------------------------------------------
(* An attempt of the stage worker, for every configuration, runtime, token *)
(* and reply.                                                              *)

\* An open inference connection has a token that outlives every moment at which
\* the process may still be in the call.
TokenFits ==
    /\ conn = "inference" => pc \in {"wire", "head", "read"}
    /\ pc \in {"connect", "wire", "head", "read"} =>
            bearer.expires \in Int /\ bearer.expires > Timeout + Skew

\* What was read came from a runtime that was loaded, a stage that does not
\* stream has no first token, and the record agrees with how the call ended.
ReplyFits ==
    /\ parser \in [event : BOOLEAN, done : BOOLEAN]
    /\ served \subseteq 0..loaded
    /\ parser.event => served # {}
    /\ parser.done => parser.event
    /\ pc \in Running => ~failed
    /\ pc \in Running \union {"after"} => record = "none"
    /\ pc = "after" /\ ~failed => served # {}
    /\ pc \in Active => ValidProbe(Runtime[0]) /\ (~Public => ~reply.first)
    /\ record = "success" => served = {0} /\ ~failed
    /\ record = "failed" => served \subseteq {0}

\* The inductive invariant.
WInv ==
    /\ AttemptTypeOK /\ begun \in Nat /\ recorded \in Nat
    /\ RecordedOnce /\ TokenFits /\ ReplyFits

\* The numbers of an attempt.
LEMMA AttemptNumbers ==
    /\ Timeout \in Nat /\ Skew \in Nat /\ MaxStall \in Nat /\ MaxStall <= Skew /\ MaxReplaced \in Nat
    /\ DOMAIN Runtime = 0..MaxReplaced
    /\ \A n \in 1..MaxReplaced : Runtime[n] # Runtime[0]
<1>1. Config.timeout \in 1..239
  BY AttemptAssumption DEF ConfigIsValid
<1>2. Timeout \in Nat
  BY <1>1 DEF Timeout
<1> QED
  BY <1>2, AttemptAssumption DEF AttemptAssumption

\* An attempt starts in time, and time that passed its bound does not pass.
LEMMA ElapsedIsBounded ==
    /\ 0 \in 0..(Timeout + MaxStall)
    /\ \A n \in 0..(Timeout + MaxStall) : n < Timeout + MaxStall => n + 1 \in 0..(Timeout + MaxStall)
BY AttemptNumbers

\* Before the first attempt nothing is open, read or recorded.
LEMMA AttemptInitHolds == AttemptInit => WInv
BY AttemptNumbers
   DEF AttemptInit, WInv, AttemptTypeOK, RecordedOnce, TokenFits, ReplyFits, NewParser, NoReply,
       Active, Running

\* A call that raises closes its connection and leaves the attempt to be recorded.
LEMMA RaiseHolds ==
    ASSUME WInv, pc \in Running, Raise, Quiet, served' = served
    PROVE  WInv'
<1>1. UNCHANGED <<Public, begun, recorded, loaded, record, elapsed, cancelled, served>>
  BY DEF Quiet, jobVars, Public, Stage, Plan
<1>2. /\ pc' = "after" /\ conn' = "none" /\ failed' = TRUE
      /\ parser' = NewParser /\ reply' = [NoReply EXCEPT !.first = reply.first]
      /\ reply'.finish = "none" /\ reply'.tools = "none" /\ reply'.first = reply.first
  BY DEF Raise, NoReply
<1>3. ValidProbe(Runtime[0])'
  BY <1>1 DEF WInv, ReplyFits, Active, Quiet, jobVars, ValidProbe
<1> QED
  BY <1>1, <1>2, <1>3
  DEF WInv, AttemptTypeOK, RecordedOnce, TokenFits, ReplyFits, NewParser, Active, Running

\* No step of the attempt, the server or the environment breaks the invariant.
LEMMA AttemptStepHolds == WInv /\ [AttemptNext]_attemptVars => WInv'
<1> SUFFICES ASSUME WInv, [AttemptNext]_attemptVars PROVE WInv'
  OBVIOUS
<1> USE DEF WInv, AttemptTypeOK, RecordedOnce, TokenFits, ReplyFits, Active, Running
<1>1. ASSUME NEW model \in Model, Begin(model) PROVE WInv'
  <2>1. UNCHANGED Public /\ ValidProbe(Runtime[0])'
    BY <1>1 DEF Begin, jobVars, Public, Stage, Plan, ValidProbe
  <2>2. reply'.finish = "none" /\ reply'.tools = "none" /\ ~reply'.first
    BY <1>1 DEF Begin, NoReply
  <2>3. /\ pc = "idle" /\ pc' = "call" /\ begun' = begun + 1 /\ elapsed' = 0 /\ cancelled' = FALSE
        /\ loaded' = 0 /\ served' = {} /\ parser' = NewParser /\ failed' = FALSE /\ record' = "none"
        /\ UNCHANGED <<conn, recorded>>
    BY <1>1 DEF Begin
  <2>4. AttemptTypeOK'
    <3> HIDE DEF RecordedOnce, TokenFits, ReplyFits
    <3>1. 0 \in 0..(Timeout + MaxStall) /\ 0 \in 0..MaxReplaced
      BY AttemptNumbers
    <3> QED
      BY <2>2, <2>3, <3>1
  <2>5. ReplyFits'
    BY <2>1, <2>2, <2>3 DEF NewParser
  <2> QED
    BY <2>3, <2>4, <2>5
<1>2. ASSUME NEW model \in Model, Refuse(model) PROVE WInv'
  BY <1>2, AttemptNumbers DEF Refuse, replyVars, netVars
<1>25. ASSUME NEW model \in Model, Unprobed(model) PROVE WInv'
  BY <1>25, AttemptNumbers DEF Unprobed, replyVars, netVars
<1>3. CASE SkipDebate
  BY <1>3, AttemptNumbers DEF SkipDebate, replyVars, netVars
<1>4. ASSUME Quiet PROVE UNCHANGED <<Public, ValidProbe(Runtime[0]), begun, recorded, loaded, record, elapsed, cancelled>>
  BY <1>4 DEF Quiet, jobVars, Public, Stage, Plan, ValidProbe
<1>5. CASE Call
  <2>1. CASE Raise
    BY <1>5, <2>1, RaiseHolds DEF Call
  <2>2. CASE ~Raise
    BY <1>5, <2>2, <1>4 DEF Call, netVars
  <2> QED
    BY <2>1, <2>2
<1>6. CASE AskIdentity
  BY <1>6, <1>4 DEF AskIdentity, replyVars
<1>7. ASSUME NEW t \in Tokens, IdentityAnswers(t) PROVE WInv'
  <2>1. CASE Raise
    BY <1>7, <2>1, RaiseHolds DEF IdentityAnswers
  <2>2. CASE ~Raise
    <3>1. t.expires \in Int /\ t.expires > Timeout + Skew
      BY <1>7, <2>2, AttemptNumbers, AttemptAssumption DEF IdentityAnswers, Outlives, AttemptAssumption
    <3> QED
      BY <1>7, <2>2, <3>1, <1>4 DEF IdentityAnswers
  <2> QED
    BY <2>1, <2>2
<1>8. CASE Connect
  BY <1>8, <1>4 DEF Connect, replyVars
<1>9. CASE Send
  BY <1>9, <1>4 DEF Send, replyVars, netVars
<1>10. CASE Respond
  BY <1>10, <1>4 DEF Respond, replyVars, netVars
<1>11. CASE Breaks
  BY <1>11, RaiseHolds DEF Breaks
<1>12. CASE Expire
  BY <1>12, RaiseHolds DEF Expire
<1>13. ASSUME NEW c \in Chunks, ReadChunk(c) PROVE WInv'
  <2>1. pc = "read" /\ Public /\ Quiet /\ served' = served \union {loaded}
    BY <1>13 DEF ReadChunk, Reads
  <2>2. served' \subseteq 0..loaded /\ served' \subseteq 0..MaxReplaced /\ served' # {}
    BY <2>1, AttemptNumbers
  <2>3. CASE Raise
    <3>1. /\ pc' = "after" /\ conn' = "none" /\ failed' = TRUE
          /\ parser' = NewParser /\ reply' = [NoReply EXCEPT !.first = reply.first]
          /\ reply'.finish = "none" /\ reply'.tools = "none"
      BY <2>3 DEF Raise, NoReply
    <3> QED
      BY <2>1, <2>2, <3>1, <1>4 DEF NewParser
  <2>4. CASE ~Raise
    <3>1. /\ reply' = Accumulated(c) /\ parser' = [parser EXCEPT !.event = TRUE]
          /\ UNCHANGED <<pc, conn, bearer, failed>>
      BY <1>13, <2>4 DEF ReadChunk, netVars
    <3>2. /\ reply'.finish = IF c.finish = "none" THEN reply.finish ELSE c.finish
          /\ reply'.tools = IF c.tools = "none" THEN reply.tools ELSE c.tools
      BY <3>1 DEF Accumulated, Joined
    <3>3. /\ reply'.finish \in {"none", "stop", "length", "tool_calls"}
          /\ reply'.tools \in {"none", "partial", "whole"}
      BY <3>2, AttemptAssumption DEF AttemptAssumption
    <3> HIDE DEF Accumulated
    <3> QED
      BY <2>1, <2>2, <3>1, <3>3, <1>4
  <2> QED
    BY <2>3, <2>4
<1>14. ASSUME NEW c \in Chunks, ReadObject(c) PROVE WInv'
  <2>1. /\ pc = "read" /\ ~Public /\ Quiet /\ served' = {loaded} /\ conn' = "none" /\ pc' = "after"
        /\ reply' = [Accumulated(c) EXCEPT !.first = FALSE] /\ failed' \in BOOLEAN
        /\ UNCHANGED <<bearer, parser>>
    BY <1>14 DEF ReadObject, Reads
  <2>2. /\ reply'.finish = IF c.finish = "none" THEN reply.finish ELSE c.finish
        /\ reply'.tools = IF c.tools = "none" THEN reply.tools ELSE c.tools
        /\ ~reply'.first
    BY <2>1 DEF Accumulated, Joined
  <2>3. /\ reply'.finish \in {"none", "stop", "length", "tool_calls"}
        /\ reply'.tools \in {"none", "partial", "whole"}
    BY <2>2, AttemptAssumption DEF AttemptAssumption
  <2>4. served' \subseteq 0..loaded
    BY <2>1, AttemptNumbers
  <2> QED
    BY <2>1, <2>2, <2>3, <2>4, <1>4
<1>15. CASE ReadDone
  <2>1. CASE Raise
    BY <1>15, <2>1, RaiseHolds DEF ReadDone, Reads
  <2>2. CASE ~Raise
    BY <1>15, <2>2, <1>4 DEF ReadDone, Reads, netVars
  <2> QED
    BY <2>1, <2>2
<1>16. CASE EndStream
  <2>1. CASE Raise
    BY <1>16, <2>1, RaiseHolds DEF EndStream, Reads
  <2>2. CASE ~Raise
    BY <1>16, <2>2, <1>4 DEF EndStream, Reads
  <2> QED
    BY <2>1, <2>2
<1>17. ASSUME NEW probed \in BOOLEAN, Record(probed) PROVE WInv'
  <2>1. /\ pc = "after" /\ pc' = "returned" /\ record' = Outcome(probed)
        /\ UNCHANGED <<Public, conn, bearer, elapsed, cancelled, loaded, served, parser, reply, failed, begun, recorded>>
        /\ ValidProbe(Runtime[0])' = ValidProbe(Runtime[0])
    BY <1>17 DEF Record, jobVars, netVars, replyVars, Public, Stage, Plan, ValidProbe
  <2>2. record' \in {"success", "failed", "quarantined"}
    BY <2>1 DEF Outcome
  <2>3. ASSUME record' \in {"success", "failed"} PROVE served \subseteq {0}
    <3>1. Runtime[loaded] = Runtime[0]
      BY <2>1, <2>3 DEF Outcome, Intact
    <3>2. loaded = 0
      BY <3>1, AttemptNumbers
    <3> QED
      BY <2>1, <3>2
  <2>4. ASSUME record' = "success" PROVE served = {0} /\ ~failed
    <3>1. ~failed
      BY <2>1, <2>4 DEF Outcome
    <3>2. served # {} /\ \A n \in served : n = 0
      BY <2>1, <2>3, <2>4, <3>1
    <3> HIDE DEF WInv, AttemptTypeOK, RecordedOnce, TokenFits, ReplyFits, Active, Running
    <3>3. served = {0}
      BY <3>2, Zenon
    <3> QED
      BY <3>1, <3>3
  <2> QED
    BY <2>1, <2>2, <2>3, <2>4
<1>18. ASSUME pc = "returned", pc' \in {"idle", "done", "raised"}, recorded' = recorded + 1,
             elapsed' = 0, cancelled' = FALSE,
             record' \in {record, "quarantined"}, record' # record => record = "success",
             UNCHANGED <<conn, bearer, loaded, served, parser, reply, failed, begun>>
      PROVE  WInv'
  <2>1. TokenFits' /\ (pc \in Active \union {"idle", "refused", "unprobed", "raised", "done", "closed"})'
    BY <1>18
  <2>4. elapsed' \in 0..(Timeout + MaxStall) /\ cancelled' \in BOOLEAN
    BY <1>18, ElapsedIsBounded
  <2>5. AttemptTypeOK'
    BY <1>18, <2>1, <2>4
  <2>2. RecordedOnce' /\ recorded' \in Nat /\ begun' \in Nat
    BY <1>18
  <2>3. ReplyFits'
    BY <1>18
  <2> QED
    BY <2>1, <2>2, <2>3, <2>5
<1>19. CASE Accept
  <2>1. /\ pc = "returned" /\ record = "success" /\ pc' \in {"idle", "done"}
        /\ recorded' = recorded + 1 /\ elapsed' = 0 /\ cancelled' = FALSE
        /\ UNCHANGED <<conn, bearer, loaded, served, parser, reply, failed, begun, record>>
    BY <1>19 DEF Accept, Settle, netVars, replyVars
  <2> QED
    BY <2>1, <1>18
<1>23. CASE Withdraw
  BY <1>18, <1>23 DEF Withdraw, Settle, replyVars, netVars
<1>20. ASSUME NEW idle \in {1, 2}, NEW billed \in {1, 2}, CloseLifecycle(idle, billed) PROVE WInv'
  BY <1>20 DEF CloseLifecycle, replyVars, netVars
<1>21. ASSUME UNCHANGED <<jobVars, pc, netVars, replyVars, failed, record, begun, recorded>>,
             elapsed' \in 0..(Timeout + MaxStall), cancelled' \in BOOLEAN,
             loaded' \in 0..MaxReplaced, loaded <= loaded'
      PROVE  WInv'
  <2>1. UNCHANGED <<Public, ValidProbe(Runtime[0])>>
    BY <1>21 DEF jobVars, Public, Stage, Plan, ValidProbe
  <2>2. served' \subseteq 0..loaded'
    BY <1>21, AttemptNumbers DEF replyVars
  <2> QED
    BY <1>21, <2>1, <2>2, AttemptNumbers DEF replyVars, netVars
<1>22. CASE Tick \/ Cancel \/ Replace
  <2>1. UNCHANGED <<jobVars, pc, netVars, replyVars, failed, record, begun, recorded>>
    BY <1>22 DEF Tick, Cancel, Replace
  <2>2. /\ elapsed' \in 0..(Timeout + MaxStall) /\ cancelled' \in BOOLEAN
        /\ loaded' \in 0..MaxReplaced /\ loaded <= loaded'
    <3>1. CASE Tick
      <4>1. elapsed' = elapsed + 1 /\ elapsed < Timeout + MaxStall /\ UNCHANGED <<cancelled, loaded>>
        BY <3>1 DEF Tick
      <4>2. elapsed' \in 0..(Timeout + MaxStall)
        <5>1. elapsed \in 0..(Timeout + MaxStall)
          OBVIOUS
        <5> QED
          BY <4>1, <5>1, ElapsedIsBounded
      <4> QED
        BY <4>1, <4>2, AttemptNumbers
    <3>2. CASE Cancel
      <4>1. cancelled' = TRUE /\ UNCHANGED <<elapsed, loaded>>
        BY <3>2 DEF Cancel
      <4> QED
        BY <4>1, AttemptNumbers
    <3>3. CASE Replace
      <4>1. loaded' = loaded + 1 /\ loaded < MaxReplaced /\ UNCHANGED <<elapsed, cancelled>>
        BY <3>3 DEF Replace
      <4> QED
        BY <4>1, AttemptNumbers
    <3> QED
      BY <1>22, <3>1, <3>2, <3>3
  <2> QED
    BY <2>1, <2>2, <1>21
<1>24. CASE UNCHANGED attemptVars
  <2>1. UNCHANGED <<Public, ValidProbe(Runtime[0])>>
    BY <1>24 DEF attemptVars, jobVars, Public, Stage, Plan, ValidProbe
  <2> QED
    BY <1>24, <2>1 DEF attemptVars, replyVars, netVars
<1> QED
  BY <1>1, <1>2, <1>3, <1>5, <1>6, <1>7, <1>8, <1>9, <1>10, <1>11, <1>12, <1>13, <1>14, <1>15, <1>16,
     <1>17, <1>18, <1>19, <1>20, <1>21, <1>22, <1>23, <1>24, <1>25 DEF AttemptNext

\* The worker keeps the invariant, for every server, runtime and schedule.
THEOREM AttemptInvariance == AttemptSpec => []WInv
BY AttemptInitHolds, AttemptStepHolds, PTL DEF AttemptSpec

\* Every attempt that reached the runtime is recorded once, however it ends,
\* and leaves no connection open.
THEOREM AttemptsAreRecorded == AttemptSpec => []RecordedOnce
<1>1. WInv => RecordedOnce
  BY DEF WInv
<1> QED
  BY <1>1, AttemptInvariance, PTL

\* No token expires while the connection it opened is open, for every deadline
\* and skew, if the process is not stalled for longer than the skew.
THEOREM TokensOutliveCalls == AttemptSpec => []TokenOutlivesCall
<1>1. WInv => TokenOutlivesCall
  BY AttemptNumbers DEF WInv, AttemptTypeOK, TokenFits, TokenOutlivesCall
<1> QED
  BY <1>1, AttemptInvariance, PTL

\* A record that is not quarantined accounts for the work of the one runtime that
\* was probed, be it a success or a failure, however often the runtime behind the
\* endpoint is replaced and whether or not the probes answer.
THEOREM SuccessesAreOneRuntimes == AttemptSpec => []SuccessIsOneRuntime
<1>1. WInv => SuccessIsOneRuntime
  BY DEF WInv, ReplyFits, SuccessIsOneRuntime
<1> QED
  BY <1>1, AttemptInvariance, PTL

-----------------------------------------------------------------------------
(* The policies and the team of a request.                                 *)

\* The smaller of two numbers is one of them, and within both.
LEMMA LeastOfTwo ==
    ASSUME NEW a \in Int, NEW b \in Int
    PROVE  Min({a, b}) \in {a, b} /\ Min({a, b}) <= a /\ Min({a, b}) <= b
<1>1. \E x \in {a, b} : \A y \in {a, b} : x <= y
  <2>1. CASE a <= b
    BY <2>1
  <2>2. CASE ~(a <= b)
    BY <2>2
  <2> QED
    BY <2>1, <2>2
<1>2. Min({a, b}) \in {a, b} /\ \A y \in {a, b} : Min({a, b}) <= y
  BY <1>1 DEF Min
<1> QED
  BY <1>2

\* The larger of two numbers is one of them, and within neither.
LEMMA GreatestOfTwo ==
    ASSUME NEW a \in Int, NEW b \in Int
    PROVE  Max({a, b}) \in {a, b} /\ Max({a, b}) >= a /\ Max({a, b}) >= b
<1>1. \E x \in {a, b} : \A y \in {a, b} : x >= y
  <2>1. CASE a <= b
    BY <2>1
  <2>2. CASE ~(a <= b)
    BY <2>2
  <2> QED
    BY <2>1, <2>2
<1>2. Max({a, b}) \in {a, b} /\ \A y \in {a, b} : Max({a, b}) >= y
  BY <1>1 DEF Max
<1> QED
  BY <1>2

\* Intervals are finite.
LEMMA Intervals == \A n \in Nat : IsFiniteSet(1..n)
BY FS_Interval

\* The two the team is chosen from.
LEMMA SmallIntervals == IsFiniteSet(1..3) /\ IsFiniteSet(1..5)
<1>1. 3 \in Nat /\ 5 \in Nat
  OBVIOUS
<1> QED
  BY <1>1, Intervals, Zenon

\* A ranking is a sequence of as many elements as the set has.
LEMMA RankedIsSequence ==
    ASSUME NEW S, IsFiniteSet(S), NEW key
    PROVE  /\ Len(Ranked(S, key)) \in Nat
           /\ DOMAIN Ranked(S, key) = 1..Len(Ranked(S, key))
<1>1. Cardinality(S) \in Nat
  BY FS_CardinalityType
<1> QED
  BY <1>1 DEF Ranked

\* The domains of a task are a sequence.
LEMMA DomainsAreSequence ==
    ASSUME NEW score
    PROVE  /\ IsFiniteSet(Hits(score))
           /\ Len(Domains(score)) \in Nat /\ DOMAIN Domains(score) = 1..Len(Domains(score))
<1> DEFINE ranked == Ranked(Hits(score), [i \in 1..5 |-> i - 6 * score[Alphabet[i]]])
<1>1. IsFiniteSet(Hits(score))
  <2>1. IsFiniteSet(1..5)
    BY SmallIntervals
  <2>2. Hits(score) \in SUBSET (1..5)
    BY DEF Hits
  <2> QED
    BY <2>1, <2>2, FS_Subset
<1>2. Len(ranked) \in Nat /\ DOMAIN ranked = 1..Len(ranked)
  BY <1>1, RankedIsSequence
<1>3. Domains(score) = IF Hits(score) = {} THEN <<"general">> ELSE [k \in DOMAIN ranked |-> Alphabet[ranked[k]]]
  BY DEF Domains
<1> HIDE DEF ranked
<1>4. CASE Hits(score) = {}
  BY <1>1, <1>3, <1>4
<1>5. CASE Hits(score) # {}
  <2>1. Domains(score) = [k \in 1..Len(ranked) |-> Alphabet[ranked[k]]]
    BY <1>2, <1>3, <1>5
  <2> QED
    BY <1>1, <1>2, <2>1
<1> QED
  BY <1>4, <1>5

\* So are the posts in turn, and the general roles after them.
LEMMA CandidatesAreSequences ==
    ASSUME NEW domains, Len(domains) \in Nat, DOMAIN domains = 1..Len(domains)
    PROVE  /\ IsFiniteSet(Posts(domains)) /\ IsFiniteSet(Spare(domains))
           /\ \E A : Rounds(domains) \in Seq(A) /\ Extras(domains) \in Seq(A)
<1>1. IsFiniteSet(Posts(domains))
  <2>1. IsFiniteSet(1..5) /\ IsFiniteSet(DOMAIN domains)
    BY Intervals, SmallIntervals, Zenon
  <2>2. IsFiniteSet((1..5) \X DOMAIN domains)
    <3> DEFINE five == 1..5
    <3> HIDE DEF five
    <3> QED
      BY <2>1, FS_Product DEF five
  <2>3. Posts(domains) \in SUBSET ((1..5) \X DOMAIN domains)
    BY DEF Posts
  <2> QED
    BY <2>2, <2>3, FS_Subset
<1>2. IsFiniteSet(Spare(domains))
  <2>1. IsFiniteSet(1..3)
    BY SmallIntervals
  <2>2. Spare(domains) \in SUBSET (1..3)
    BY DEF Spare
  <2> QED
    BY <2>1, <2>2, FS_Subset
<1> DEFINE turns == Ranked(Posts(domains), [p \in Posts(domains) |-> 6 * p[1] + p[2]])
           left == Ranked(Spare(domains), [i \in 1..3 |-> i])
<1>3. Len(turns) \in Nat /\ DOMAIN turns = 1..Len(turns)
  BY <1>1, RankedIsSequence
<1>4. Len(left) \in Nat /\ DOMAIN left = 1..Len(left)
  BY <1>2, RankedIsSequence
<1>5. /\ Rounds(domains) = [k \in DOMAIN turns |->
                              LET d == domains[turns[k][2]] IN <<d, Roles[d][turns[k][1]]>>]
      /\ Extras(domains) = [k \in DOMAIN left |-> <<"general", Roles.general[left[k]]>>]
  BY DEF Rounds, Extras
<1> HIDE DEF turns, left
<1> DEFINE r == Rounds(domains)
           e == Extras(domains)
           A == {r[k] : k \in DOMAIN r} \union {e[k] : k \in DOMAIN e}
<1>6. DOMAIN r = 1..Len(turns) /\ DOMAIN e = 1..Len(left)
  BY <1>3, <1>4, <1>5
<1> HIDE DEF r, e
<1>7. r \in [1..Len(turns) -> A] /\ e \in [1..Len(left) -> A]
  <2>1. r = [k \in 1..Len(turns) |-> r[k]] /\ e = [k \in 1..Len(left) |-> e[k]]
    BY <1>3, <1>4, <1>5 DEF r, e
  <2> QED
    BY <1>6, <2>1
<1>8. r \in Seq(A) /\ e \in Seq(A)
  BY <1>3, <1>4, <1>7
<1> QED
  BY <1>1, <1>2, <1>8 DEF r, e

\* The slots of a team: as many as the agents, at most two more than domains.
LEMMA SlotsAre ==
    ASSUME NEW domains, Len(domains) \in Nat, NEW agents \in Int
    PROVE  /\ Slots(domains, agents) \in Int /\ Slots(domains, agents) <= agents
           /\ Slots(domains, agents) <= Len(domains) + 2
           /\ agents >= 2 => Slots(domains, agents) >= 2
           /\ agents >= Len(domains) => Slots(domains, agents) >= Len(domains)
           /\ agents <= Len(domains) + 2 => Slots(domains, agents) = agents
<1> DEFINE most == Max({2, Len(domains) + 2})
<1>1. most = Len(domains) + 2
  <2>1. most \in {2, Len(domains) + 2} /\ most >= 2 /\ most >= Len(domains) + 2
    BY GreatestOfTwo
  <2> QED
    BY <2>1
<1> HIDE DEF most
<1>2. most \in Int /\ most >= 2
  BY <1>1
<1>3. /\ Slots(domains, agents) \in {agents, most}
      /\ Slots(domains, agents) <= agents /\ Slots(domains, agents) <= most
  BY <1>2, LeastOfTwo DEF Slots, most
<1> QED
  BY <1>1, <1>2, <1>3

\* A team is the beginning of the candidates, as long as its slots allow.
LEMMA TeamIs ==
    ASSUME NEW score, NEW agents \in Int
    PROVE  LET d == Domains(score)
               all == Rounds(d) \o Extras(d)
               n == Min({Slots(d, agents), Len(all)})
           IN  /\ Len(all) \in Nat /\ n \in {Slots(d, agents), Len(all)}
               /\ n \in Int /\ n <= Slots(d, agents) /\ n <= Len(all)
               /\ Team(score, agents) = SubSeq(all, 1, n)
               /\ Len(Team(score, agents)) = IF n >= 0 THEN n ELSE 0
<1> DEFINE d == Domains(score)
           all == Rounds(d) \o Extras(d)
           n == Min({Slots(d, agents), Len(all)})
<1>1. Len(d) \in Nat /\ DOMAIN d = 1..Len(d)
  BY DomainsAreSequence
<1> HIDE DEF d
<1>2. PICK A : Rounds(d) \in Seq(A) /\ Extras(d) \in Seq(A)
  BY <1>1, CandidatesAreSequences
<1>3. all \in Seq(A) /\ Len(all) \in Nat
  BY <1>2
<1> HIDE DEF all
<1>4. Slots(d, agents) \in Int
  BY <1>1, SlotsAre
<1>5. n \in {Slots(d, agents), Len(all)} /\ n <= Slots(d, agents) /\ n <= Len(all)
  <2> DEFINE x == Slots(d, agents)
             y == Len(all)
  <2>1. x \in Int /\ y \in Int
    BY <1>3, <1>4
  <2> HIDE DEF x, y
  <2>2. Min({x, y}) \in {x, y} /\ Min({x, y}) <= x /\ Min({x, y}) <= y
    BY <2>1, LeastOfTwo
  <2> QED
    BY <2>2 DEF x, y
<1>6. Team(score, agents) = SubSeq(all, 1, n)
  BY DEF Team, SelectSpecialists, d, all
<1> HIDE DEF n
<1>7. n \in Int
  BY <1>3, <1>4, <1>5
<1>8. Len(SubSeq(all, 1, n)) = IF n >= 0 THEN n ELSE 0
  <2>1. CASE n >= 1
    BY <1>3, <1>5, <1>7, <2>1
  <2>2. CASE n < 1
    BY <1>3, <1>7, <2>2
  <2> QED
    BY <1>7, <2>1, <2>2
<1> QED
  BY <1>3, <1>5, <1>6, <1>7, <1>8 DEF d, all, n

\* A team has no more members than the request has agents.
LEMMA TeamFits ==
    ASSUME NEW score, NEW agents \in Int
    PROVE  /\ Len(Team(score, agents)) \in Nat
           /\ agents <= 5 => Len(Team(score, agents)) \in 0..5
<1> DEFINE n == Min({Slots(Domains(score), agents),
                     Len(Rounds(Domains(score)) \o Extras(Domains(score)))})
<1>1. n \in Int /\ n <= Slots(Domains(score), agents) /\ Len(Team(score, agents)) = IF n >= 0 THEN n ELSE 0
  BY TeamIs
<1>2. Slots(Domains(score), agents) \in Int /\ Slots(Domains(score), agents) <= agents
  BY DomainsAreSequence, SlotsAre
<1> HIDE DEF n
<1> QED
  BY <1>1, <1>2

\* What a policy may say: as many tokens as a stage can use, an effort, and for
\* Core one stage at least and eleven at most.
Sound(p) ==
    /\ p.output \in Nat /\ 2048 <= p.output /\ p.output <= 32768
    /\ p.effort \in {"low", "medium", "xhigh"}
    /\ Sum4(p.passes) \in Nat /\ Sum4(p.passes) <= 11
    /\ p.engine = "kova-core" => Sum4(p.passes) >= 1

\* Every entry of the table for work is such a policy.
LEMMA WorkIsSound ==
    \A e \in {"light", "medium", "high", "extra", "max", "ultra"} : Sound(WorkEfforts[e])
<1>1. Sound(WorkEfforts.light)
  <2>1. WorkEfforts.light = Compute("kova-core", "low", <<0, 1, 0, 0>>, 2048)
    BY DEF WorkEfforts
  <2> QED
    BY <2>1 DEF Sound, Compute, Sum4
<1>2. Sound(WorkEfforts.medium)
  <2>1. WorkEfforts.medium = Compute("kova-core", "medium", <<1, 1, 0, 1>>, 4096)
    BY DEF WorkEfforts
  <2> QED
    BY <2>1 DEF Sound, Compute, Sum4
<1>3. Sound(WorkEfforts.high)
  <2>1. WorkEfforts.high = Compute("kova-core", "xhigh", <<1, 2, 1, 1>>, 8192)
    BY DEF WorkEfforts
  <2> QED
    BY <2>1 DEF Sound, Compute, Sum4
<1>4. Sound(WorkEfforts.extra)
  <2>1. WorkEfforts.extra = Compute("kova-core", "xhigh", <<2, 3, 2, 2>>, 16384)
    BY DEF WorkEfforts
  <2> QED
    BY <2>1 DEF Sound, Compute, Sum4
<1>5. Sound(WorkEfforts.max)
  <2>1. WorkEfforts.max = Compute("kova-core", "xhigh", <<2, 4, 2, 3>>, 24576)
    BY DEF WorkEfforts
  <2> QED
    BY <2>1 DEF Sound, Compute, Sum4
<1>6. Sound(WorkEfforts.ultra)
  <2>1. WorkEfforts.ultra = Compute("kova-ultra", "xhigh", <<0, 0, 0, 0>>, 32768)
    BY DEF WorkEfforts
  <2> QED
    BY <2>1 DEF Sound, Compute, Sum4
<1> QED
  BY <1>1, <1>2, <1>3, <1>4, <1>5, <1>6

\* The same of the table for chat.
LEMMA ChatIsSound ==
    \A e \in {"instant", "medium", "high", "extra", "max", "ultra"} : Sound(ChatPolicies[e])
<1>1. Sound(ChatPolicies.instant)
  <2>1. ChatPolicies.instant = Compute("kova-core", "low", <<0, 1, 0, 0>>, 2048)
    BY DEF ChatPolicies, Profiles
  <2> QED
    BY <2>1 DEF Sound, Compute, Sum4
<1>2. Sound(ChatPolicies.medium)
  <2>1. ChatPolicies.medium = Compute("kova-core", "medium", <<1, 1, 0, 1>>, 4096)
    BY DEF ChatPolicies, Profiles
  <2> QED
    BY <2>1 DEF Sound, Compute, Sum4
<1>3. Sound(ChatPolicies.high)
  <2>1. ChatPolicies.high = Compute("kova-core", "xhigh", <<1, 1, 1, 1>>, 8192)
    BY DEF ChatPolicies, Profiles
  <2> QED
    BY <2>1 DEF Sound, Compute, Sum4
<1>4. Sound(ChatPolicies.extra)
  <2>1. ChatPolicies.extra = Compute("kova-core", "xhigh", <<2, 2, 2, 2>>, 16384)
    BY DEF ChatPolicies, Profiles
  <2> QED
    BY <2>1 DEF Sound, Compute, Sum4
<1>5. Sound(ChatPolicies.max)
  <2>1. ChatPolicies.max = Compute("kova-core", "xhigh", <<2, 3, 2, 3>>, 24576)
    BY DEF ChatPolicies, Profiles
  <2> QED
    BY <2>1 DEF Sound, Compute, Sum4
<1>6. Sound(ChatPolicies.ultra)
  <2>1. ChatPolicies.ultra = Compute("kova-ultra", "xhigh", <<0, 0, 0, 0>>, 32768)
    BY DEF ChatPolicies, Profiles
  <2> QED
    BY <2>1 DEF Sound, Compute, Sum4
<1> QED
  BY <1>1, <1>2, <1>3, <1>4, <1>5, <1>6

\* So is the policy of every known route.
LEMMA PolicyFits ==
    ASSUME NEW q, Known(q)
    PROVE  /\ Policy(q).output \in Nat /\ 2048 <= Policy(q).output /\ Policy(q).output <= 32768
           /\ FinalStage(q) \in Nat /\ FinalStage(q) <= 11
           /\ Policy(q).engine = "kova-core" => FinalStage(q) >= 1
           /\ Policy(q).effort \in {"low", "medium", "xhigh"}
<1>1. CASE q.family = "alias"
  <2>1. q.effort \in DOMAIN ChatPolicies
    <3>1. CASE q.surface \in DOMAIN Families /\ q.family \in Families[q.surface]
      <4>1. q.family \in {"cosmo", "orion", "nova"}
        BY <3>1 DEF Families
      <4> QED
        BY <1>1, <4>1
    <3> QED
      BY <3>1 DEF Known
  <2>2. q.effort \in {"instant", "medium", "high", "extra", "max", "ultra"}
    BY <2>1 DEF ChatPolicies
  <2> QED
    BY <1>1, <2>2, ChatIsSound DEF Policy, Sound, FinalStage
<1>2. CASE q.family # "alias"
  <2>1. q.effort \in DOMAIN WorkEfforts
    BY <1>2 DEF Known
  <2>2. q.effort \in {"light", "medium", "high", "extra", "max", "ultra"}
    BY <2>1 DEF WorkEfforts
  <2> QED
    BY <1>2, <2>2, WorkIsSound DEF Policy, Sound, FinalStage
<1> QED
  BY <1>1, <1>2

\* So is the bound on the text of a stage.
LEMMA OutputFits ==
    ASSUME NEW q, Known(q), NEW k
    PROVE  OutputLimit(q, k) \in Nat /\ 1 <= OutputLimit(q, k) /\ OutputLimit(q, k) <= 32768
<1>1. Policy(q).output \in Nat /\ 2048 <= Policy(q).output /\ Policy(q).output <= 32768
  BY PolicyFits
<1>2. OutputLimit(q, k) \in {Policy(q).output, 512}
  BY DEF OutputLimit, PrivateOutput
<1> QED
  BY <1>1, <1>2

-----------------------------------------------------------------------------
(* What the planners build is what ExecutionSpec admits.                   *)

\* What the stages of an Ultra plan may read and write, together.
LEMMA TotalIsReserved ==
    ASSUME NEW n \in 0..5, NEW cap \in Nat, PerOperation(n, cap) >= 512, NEW f,
           \A k \in 1..(n + 4) :
              f[k] = UltraOperation(n, k, cap).input + UltraOperation(n, k, cap).output
    PROVE  SumFunctionOnSet(f, 1..(n + 4)) = ReservedTotal(n, cap)
<1> DEFINE p == PerOperation(n, cap)
           c == Prompt + p
           r == Wrapper + p
<1>1. n \in Nat /\ p \in Nat /\ c \in Nat /\ r \in Nat
  <2>1. p \in Int /\ p >= 512
    BY PerOperationBound
  <2> HIDE DEF p
  <2> QED
    BY <2>1, RouteAssumption
<1>2. ASSUME NEW k \in 1..(n + 4) PROVE f[k] = c + Artifacts(n, k) * r
  <2> DEFINE a == Artifacts(n, k)
  <2>1. f[k] = (Prompt + a * Wrapper) + a * p + p
    BY DEF UltraOperation, StageInput, Template
  <2>2. a \in {0, 1, 2, 3, 4, 5, 6, 7, 8}
    BY DEF Artifacts
  <2> HIDE DEF p, a
  <2>3. a * Wrapper + a * p = a * (Wrapper + p)
    BY <1>1, <2>2, RouteAssumption
  <2>4. a * Wrapper \in Int /\ a * p \in Int /\ a * (Wrapper + p) \in Int
    BY <1>1, <2>2, RouteAssumption
  <2> QED
    BY <1>1, <2>1, <2>3, <2>4, RouteAssumption DEF a
<1> HIDE DEF p, c, r
<1>3. /\ \A k \in 1..n : f[k] = c
      /\ f[n + 1] = c + n * r /\ f[n + 2] = c + (n + 1) * r
      /\ f[n + 3] = c + (n + 2) * r /\ f[n + 4] = c + (n + 3) * r
  <2>1. ASSUME NEW k \in 1..n PROVE f[k] = c
    <3>1. k \in 1..(n + 4) /\ Artifacts(n, k) = 0
      BY <1>1 DEF Artifacts
    <3> QED
      BY <1>1, <1>2, <3>1
  <2>2. \A k \in (n + 1)..(n + 4) : k \in 1..(n + 4) /\ Artifacts(n, k) = k - 1
    BY <1>1 DEF Artifacts
  <2>3. \A k \in (n + 1)..(n + 4) : f[k] = c + (k - 1) * r
    BY <1>2, <2>2
  <2>4. /\ (n + 1) - 1 = n /\ (n + 2) - 1 = n + 1 /\ (n + 3) - 1 = n + 2 /\ (n + 4) - 1 = n + 3
        /\ n + 1 \in (n + 1)..(n + 4) /\ n + 2 \in (n + 1)..(n + 4)
        /\ n + 3 \in (n + 1)..(n + 4) /\ n + 4 \in (n + 1)..(n + 4)
    BY <1>1
  <2> QED
    BY <2>1, <2>3, <2>4, Zenon
<1>4. /\ n * r \in Nat /\ (n + 1) * r \in Nat /\ (n + 2) * r \in Nat /\ (n + 3) * r \in Nat
      /\ n * c \in Nat
  <2>1. n \in {0, 1, 2, 3, 4, 5}
    OBVIOUS
  <2> QED
    BY <1>1, <2>1
<1>5. Naturals(f, 1..(n + 4))
  <2>1. \A k \in 1..(n + 4) : k \in 1..n \/ k = n + 1 \/ k = n + 2 \/ k = n + 3 \/ k = n + 4
    BY <1>1
  <2>2. /\ c + n * r \in Nat /\ c + (n + 1) * r \in Nat
        /\ c + (n + 2) * r \in Nat /\ c + (n + 3) * r \in Nat
    BY <1>1, <1>4
  <2> QED
    BY <1>1, <1>3, <2>1, <2>2, Zenon DEF Naturals
<1> DEFINE s(m) == SumFunctionOnSet(f, 1..m)
<1>6. s(n) = n * c
  BY <1>1, <1>3, SumConstant
<1>7. \A m \in n..(n + 3) : s(m + 1) = s(m) + f[m + 1]
  <2> SUFFICES ASSUME NEW m \in n..(n + 3) PROVE s(m + 1) = s(m) + f[m + 1]
    OBVIOUS
  <2>1. m \in Nat /\ 1..(m + 1) \subseteq 1..(n + 4)
    BY <1>1
  <2>2. Naturals(f, 1..(m + 1))
    BY <1>5, <2>1 DEF Naturals
  <2> QED
    BY <2>1, <2>2, SumToNext
<1> HIDE DEF s
<1>8. /\ s(n + 1) = s(n) + f[n + 1] /\ s(n + 2) = s(n + 1) + f[n + 2]
      /\ s(n + 3) = s(n + 2) + f[n + 3] /\ s(n + 4) = s(n + 3) + f[n + 4]
  <2>1. /\ n \in n..(n + 3) /\ n + 1 \in n..(n + 3) /\ n + 2 \in n..(n + 3) /\ n + 3 \in n..(n + 3)
        /\ (n + 1) + 1 = n + 2 /\ (n + 2) + 1 = n + 3 /\ (n + 3) + 1 = n + 4
    BY <1>1
  <2> QED
    BY <1>7, <2>1, Zenon
<1>9. s(n + 4) = n * c + (c + n * r) + (c + (n + 1) * r) + (c + (n + 2) * r) + (c + (n + 3) * r)
  BY <1>1, <1>3, <1>4, <1>6, <1>8
<1>10. ReservedTotal(n, cap) =
          (n + 4) * Prompt + (4 * n + 6) * Wrapper + (4 * n + 6) * p + (n + 4) * p
  BY DEF ReservedTotal, AllTemplates, AllArtifacts, p
<1>11. n * c + (c + n * r) + (c + (n + 1) * r) + (c + (n + 2) * r) + (c + (n + 3) * r) =
          (n + 4) * Prompt + (4 * n + 6) * Wrapper + (4 * n + 6) * p + (n + 4) * p
  <2>1. Prompt \in Int /\ Wrapper \in Int /\ p \in Int
    BY <1>1, RouteAssumption
  <2>2. CASE n = 0
    BY <2>1, <2>2 DEF c, r
  <2>3. CASE n = 1
    BY <2>1, <2>3 DEF c, r
  <2>4. CASE n = 2
    BY <2>1, <2>4 DEF c, r
  <2>5. CASE n = 3
    BY <2>1, <2>5 DEF c, r
  <2>6. CASE n = 4
    BY <2>1, <2>6 DEF c, r
  <2>7. CASE n = 5
    BY <2>1, <2>7 DEF c, r
  <2> QED
    BY <2>2, <2>3, <2>4, <2>5, <2>6, <2>7
<1> QED
  BY <1>9, <1>10, <1>11 DEF s

\* An Ultra plan that build_ultra_plan builds is one that ExecutionSpec admits
\* under the same cap, for every task, admission, prompt and wrapper, whenever
\* the operator's cost limit covers its stages: planning and admission agree.
THEOREM UltraPlansAreAdmitted ==
    ASSUME NEW q, NEW a, a.agents \in Int, a.cap \in Int, NEW score, UltraPlanned(q, a, score),
           NEW limits, limits.tokens = a.cap,
           (Len(Team(score, a.agents)) + 4) * limits.stageCost <= limits.cost
    PROVE  Snapshot([k \in 1..(Len(Team(score, a.agents)) + 4) |->
                        UltraOperation(Len(Team(score, a.agents)), k, a.cap)], limits)
<1> DEFINE n == Len(Team(score, a.agents))
           cap == a.cap
           p == PerOperation(n, cap)
           ops == [k \in 1..(n + 4) |-> UltraOperation(n, k, cap)]
<1>1. n \in 0..5 /\ cap \in Nat /\ p >= 512
  <2>1. a.agents <= 5 /\ cap \in Nat /\ p >= 512
    BY DEF UltraPlanned, Admissible
  <2> QED
    BY <2>1, TeamFits
<1> HIDE DEF n, cap
<1>2. p \in Int
  BY <1>1, PerOperationBound
<1>3. DOMAIN ops = 1..(n + 4) /\ Len(ops) = n + 4 /\ n + 4 \in 1..16
  BY <1>1
<1>4. ASSUME NEW k \in 1..(n + 4)
      PROVE  /\ ops[k].needs \subseteq 1..(k - 1)
             /\ ops[k].input > 0 /\ ops[k].output > 0
             /\ ops[k].input + ops[k].output <= ContextTokens
             /\ ops[k].public <=> k = Len(ops)
  <2>1. ops[k] = UltraOperation(n, k, cap)
    OBVIOUS
  <2>2. Artifacts(n, k) \in {0, 1, 2, 3, 4, 5, 6, 7, 8} /\ 1..Artifacts(n, k) \subseteq 1..(k - 1)
    BY <1>1 DEF Artifacts
  <2>3. StageInput(n, k, cap) > 0
    <3> HIDE DEF p
    <3>1. StageInput(n, k, cap) = (Prompt + Artifacts(n, k) * Wrapper) + Artifacts(n, k) * p
      BY DEF StageInput, Template, p
    <3>2. Artifacts(n, k) * Wrapper >= 0 /\ Artifacts(n, k) * p >= 0
          /\ Artifacts(n, k) * Wrapper \in Int /\ Artifacts(n, k) * p \in Int
      <4>1. Wrapper \in Nat /\ p \in Nat
        BY <1>1, <1>2, RouteAssumption DEF p
      <4> QED
        BY <2>2, <4>1
    <3> QED
      BY <3>1, <3>2, RouteAssumption
  <2>4. ops[k].output > 0
    BY <1>1, <1>2, <2>1 DEF UltraOperation
  <2>5. ops[k].input + ops[k].output <= ContextTokens
    BY <1>1, <2>1, StagesFitContext
  <2> HIDE DEF ops
  <2>6. ops[k].needs \subseteq 1..(k - 1) /\ ops[k].input > 0
    BY <2>1, <2>2, <2>3 DEF UltraOperation
  <2>7. ops[k].public <=> k = Len(ops)
    <3>1. UltraOperation(n, k, cap).public <=> k = n + 4
      BY DEF UltraOperation
    <3> QED
      BY <1>3, <2>1, <3>1, Zenon
  <2> QED
    BY <2>4, <2>5, <2>6, <2>7
<1> DEFINE f == [k \in DOMAIN ops |-> ops[k].input + ops[k].output]
<1>5. SumFunction(f) <= cap
  <2>1. DOMAIN f = 1..(n + 4) /\ \A k \in 1..(n + 4) :
           f[k] = UltraOperation(n, k, cap).input + UltraOperation(n, k, cap).output
    BY <1>3
  <2> HIDE DEF f
  <2>2. SumFunction(f) = SumFunctionOnSet(f, 1..(n + 4))
    BY <2>1 DEF SumFunction, SumFunctionOnSet, FoldFunction
  <2>3. SumFunctionOnSet(f, 1..(n + 4)) = ReservedTotal(n, cap)
    BY <1>1, <2>1, TotalIsReserved
  <2> QED
    BY <1>1, <2>2, <2>3, ReservationFits
<1>6. Shaped(ops)
  <2> HIDE DEF ops
  <2> QED
    BY <1>3, <1>4 DEF Shaped
<1>7. Snapshot(ops, limits)
  <2> HIDE DEF ops
  <2> QED
    BY <1>3, <1>5, <1>6 DEF Snapshot, n, cap
<1> QED
  BY <1>7 DEF n, cap

\* A Core plan that build_core_plan builds has the shape ExecutionSpec demands,
\* for every known route, prompt and wrapper: only its limits can refuse it.
THEOREM CorePlansAreShaped ==
    ASSUME NEW q, NEW model, Planned(q, model)
    PROVE  Shaped([k \in 1..FinalStage(q) |-> Operation(q, k)])
<1> DEFINE last == FinalStage(q)
           ops == [k \in 1..last |-> Operation(q, k)]
<1>1. Known(q) /\ last \in Nat /\ last >= 1 /\ last <= 11
  BY PolicyFits DEF Planned, Resolved
<1> HIDE DEF last
<1>2. DOMAIN ops = 1..last /\ Len(ops) = last /\ last \in 1..16
  BY <1>1
<1>3. ASSUME NEW k \in 1..last
      PROVE  /\ ops[k].needs \subseteq 1..(k - 1)
             /\ ops[k].input > 0 /\ ops[k].output > 0
             /\ ops[k].input + ops[k].output <= ContextTokens
             /\ ops[k].public <=> k = Len(ops)
  <2>1. ops[k] = Operation(q, k)
    OBVIOUS
  <2> HIDE DEF ops
  <2>2. ops[k].input + ops[k].output <= ContextTokens
    BY <2>1 DEF Planned, last
  <2>3. ops[k].output > 0
    BY <1>1, <2>1, OutputFits DEF Operation
  <2>4. Reserved(q, k) \in Nat
    <3> DEFINE f == [i \in 1..(k - 1) |-> OutputLimit(q, i)]
    <3>1. IsFiniteSet(1..(k - 1))
      <4>1. k - 1 \in Nat
        BY <1>1
      <4> QED
        BY <4>1, Intervals
    <3>2. Naturals(f, 1..(k - 1)) /\ DOMAIN f = 1..(k - 1)
      BY <1>1, OutputFits DEF Naturals
    <3> HIDE DEF f
    <3>3. SumFunction(f) = SumFunctionOnSet(f, 1..(k - 1))
      BY <3>2 DEF SumFunction, SumFunctionOnSet, FoldFunction
    <3>4. SumFunctionOnSet(f, 1..(k - 1)) \in Nat
      BY <3>1, <3>2, SumType
    <3> QED
      BY <3>3, <3>4 DEF Reserved, f
  <2>5. ops[k].input > 0
    <3>1. ops[k].input = Prompt + (k - 1) * Wrapper + Reserved(q, k)
      BY <2>1 DEF Operation
    <3>2. (k - 1) * Wrapper \in Nat
      <4>1. k - 1 \in Nat /\ Wrapper \in Nat
        BY <1>1, RouteAssumption
      <4> QED
        BY <4>1
    <3> QED
      BY <2>4, <3>1, <3>2, RouteAssumption
  <2>6. ops[k].needs = 1..(k - 1)
    BY <2>1 DEF Operation
  <2>7. ops[k].public <=> k = Len(ops)
    <3>1. Operation(q, k).public <=> k = FinalStage(q)
      BY DEF Operation
    <3> QED
      BY <1>2, <2>1, <3>1, Zenon DEF last
  <2> QED
    BY <2>2, <2>3, <2>5, <2>6, <2>7
<1>4. Shaped(ops)
  <2> HIDE DEF ops
  <2> QED
    BY <1>2, <1>3 DEF Shaped
<1> QED
  BY <1>4 DEF last

-----------------------------------------------------------------------------
(* The team of a request: every domain served, nobody twice, the same when *)
(* the saved plan is rebuilt.                                               *)

\* Integers, and different ones, on a set.
Keyed(S, key) ==
    /\ IsFiniteSet(S)
    /\ \A x \in S : key[x] \in Int
    /\ \A x, y \in S : key[x] = key[y] => x = y

Below(S, key, x) == {y \in S : key[y] < key[x]}

\* A finite set has a last element.
LEMMA LastOfKeyed ==
    ASSUME NEW S, NEW key, Keyed(S, key), S # {}
    PROVE  \E m \in S : \A x \in S : key[x] <= key[m]
<1> USE DEF Keyed
<1> DEFINE HasLast(T) == \E m \in T : \A x \in T : key[x] <= key[m]
           B == {T \in SUBSET S : T # {} /\ ~HasLast(T)}
<1> SUFFICES ASSUME ~HasLast(S) PROVE FALSE
  OBVIOUS
<1>1. B # {} /\ B \in SUBSET (SUBSET S)
  OBVIOUS
<1>2. PICK T \in B : \A x \in T : T \ {x} \notin B
  <2> HIDE DEF B
  <2> QED
    BY <1>1, LeastSet
<1>3. T \in SUBSET S /\ T # {} /\ ~HasLast(T)
  BY <1>2
<1>4. PICK x \in T : TRUE
  BY <1>3
<1>5. CASE T \ {x} = {}
  <2>1. \A y \in T : y = x
    BY <1>5
  <2> QED
    BY <1>3, <1>4, <2>1
<1>6. CASE T \ {x} # {}
  <2>1. PICK m \in T \ {x} : \A y \in T \ {x} : key[y] <= key[m]
    BY <1>2, <1>3, <1>6
  <2>2. key[x] \in Int /\ key[m] \in Int /\ \A y \in T : key[y] \in Int
    BY <1>3
  <2>3. CASE key[x] <= key[m]
    BY <1>3, <2>1, <2>2, <2>3
  <2>4. CASE key[m] <= key[x]
    <3>1. \A y \in T : key[y] <= key[x]
      BY <2>1, <2>2, <2>4
    <3> QED
      BY <1>3, <3>1
  <2> QED
    BY <2>2, <2>3, <2>4
<1> QED
  BY <1>5, <1>6

\* Every place of a ranking is taken.
LEMMA PlacesAreTaken ==
    ASSUME NEW S, NEW key, Keyed(S, key)
    PROVE  \A k \in 1..Cardinality(S) : \E x \in S : Cardinality(Below(S, key, x)) = k - 1
<1> DEFINE Taken(T) == \A k \in 1..Cardinality(T) : \E x \in T : Cardinality(Below(T, key, x)) = k - 1
           B == {T \in SUBSET S : ~Taken(T)}
<1> SUFFICES ASSUME ~Taken(S) PROVE FALSE
  OBVIOUS
<1>1. B # {} /\ B \in SUBSET (SUBSET S)
  OBVIOUS
<1>2. PICK T \in B : \A x \in T : T \ {x} \notin B
  <2>1. IsFiniteSet(S)
    BY DEF Keyed
  <2> HIDE DEF B
  <2> QED
    BY <1>1, <2>1, LeastSet
<1>3. T \in SUBSET S /\ ~Taken(T)
  BY <1>2
<1>4. Keyed(T, key) /\ IsFiniteSet(T) /\ Cardinality(T) \in Nat
  BY <1>3, FS_Subset, FS_CardinalityType DEF Keyed
<1>5. T # {}
  <2> SUFFICES ASSUME T = {} PROVE FALSE
    OBVIOUS
  <2>1. Cardinality(T) = 0
    BY FS_EmptySet
  <2> QED
    BY <1>3, <2>1
<1>6. PICK m \in T : \A x \in T : key[x] <= key[m]
  BY <1>4, <1>5, LastOfKeyed
<1> DEFINE U == T \ {m}
<1>7. Taken(U) /\ Cardinality(U) = Cardinality(T) - 1
  BY <1>2, <1>3, <1>4, FS_RemoveElement
<1>8. ASSUME NEW k \in 1..Cardinality(T) PROVE \E x \in T : Cardinality(Below(T, key, x)) = k - 1
  <2>1. CASE k \in 1..Cardinality(U)
    <3>1. PICK x \in U : Cardinality(Below(U, key, x)) = k - 1
      BY <1>7, <2>1
    <3>2. Below(U, key, x) = Below(T, key, x)
      <4>1. ~(key[m] < key[x])
        BY <1>4, <1>6 DEF Keyed
      <4> QED
        BY <4>1 DEF Below
    <3> QED
      BY <3>1, <3>2
  <2>2. CASE k \notin 1..Cardinality(U)
    <3>1. k - 1 = Cardinality(U)
      BY <1>4, <1>7, <2>2
    <3>2. Below(T, key, m) = U
      <4>1. ASSUME NEW y \in T PROVE key[y] < key[m] <=> y # m
        <5>1. key[y] \in Int /\ key[m] \in Int /\ (key[y] = key[m] => y = m) /\ key[y] <= key[m]
          BY <1>4, <1>6 DEF Keyed
        <5> QED
          BY <5>1
      <4> QED
        BY <4>1 DEF Below
    <3> QED
      BY <3>1, <3>2
  <2> QED
    BY <2>1, <2>2
<1> QED
  BY <1>3, <1>8

\* No two elements share a place.
LEMMA PlacesDiffer ==
    ASSUME NEW S, NEW key, Keyed(S, key), NEW x \in S, NEW y \in S,
           Cardinality(Below(S, key, x)) = Cardinality(Below(S, key, y))
    PROVE  x = y
<1>1. ASSUME NEW u \in S, NEW v \in S, key[u] < key[v]
      PROVE  Cardinality(Below(S, key, u)) # Cardinality(Below(S, key, v))
  <2>1. Below(S, key, u) \subseteq Below(S, key, v)
    BY <1>1 DEF Below, Keyed
  <2>2. u \in Below(S, key, v) /\ u \notin Below(S, key, u)
    BY <1>1 DEF Below, Keyed
  <2>3. IsFiniteSet(Below(S, key, v))
    <3>1. Below(S, key, v) \subseteq S /\ IsFiniteSet(S)
      BY DEF Below, Keyed
    <3> QED
      BY <3>1, FS_Subset
  <2> QED
    BY <2>1, <2>2, <2>3, FS_Subset
<1>2. key[x] \in Int /\ key[y] \in Int /\ (key[x] = key[y] => x = y)
  BY DEF Keyed
<1>3. key[x] = key[y] \/ key[x] < key[y] \/ key[y] < key[x]
  BY <1>2
<1> QED
  BY <1>1, <1>2, <1>3

\* A ranking lists every element of the set once, each at its place.
LEMMA RankedIs ==
    ASSUME NEW S, NEW key, Keyed(S, key)
    PROVE  /\ Cardinality(S) \in Nat /\ Len(Ranked(S, key)) = Cardinality(S)
           /\ DOMAIN Ranked(S, key) = 1..Cardinality(S)
           /\ \A k \in 1..Cardinality(S) : Ranked(S, key)[k] \in S
           /\ \A j, k \in 1..Cardinality(S) : Ranked(S, key)[j] = Ranked(S, key)[k] => j = k
           /\ \A x \in S : LET k == Cardinality(Below(S, key, x)) + 1
                           IN  k \in 1..Cardinality(S) /\ Ranked(S, key)[k] = x
<1> DEFINE c == Cardinality(S)
           r == Ranked(S, key)
<1>1. IsFiniteSet(S) /\ c \in Nat
  BY FS_CardinalityType DEF Keyed
<1>2. r = [k \in 1..c |-> CHOOSE x \in S : Cardinality(Below(S, key, x)) = k - 1]
  BY DEF Ranked, Below
<1> HIDE DEF r
<1>3. Len(r) = c /\ DOMAIN r = 1..c
  BY <1>1, <1>2
<1>4. ASSUME NEW k \in 1..c PROVE r[k] \in S /\ Cardinality(Below(S, key, r[k])) = k - 1
  <2>1. \E x \in S : Cardinality(Below(S, key, x)) = k - 1
    BY PlacesAreTaken
  <2>2. r[k] = CHOOSE x \in S : Cardinality(Below(S, key, x)) = k - 1
    BY <1>2
  <2> QED
    BY <2>1, <2>2
<1>5. ASSUME NEW j \in 1..c, NEW k \in 1..c, r[j] = r[k] PROVE j = k
  <2>1. j - 1 = k - 1
    BY <1>4, <1>5
  <2> QED
    BY <1>1, <2>1
<1>6. ASSUME NEW x \in S
      PROVE  Cardinality(Below(S, key, x)) + 1 \in 1..c /\ r[Cardinality(Below(S, key, x)) + 1] = x
  <2> DEFINE b == Cardinality(Below(S, key, x))
  <2>1. Below(S, key, x) \subseteq S /\ x \notin Below(S, key, x)
    BY DEF Below, Keyed
  <2>2. b \in Nat /\ b < c
    <3>1. IsFiniteSet(Below(S, key, x)) /\ Cardinality(Below(S, key, x)) <= c
          /\ (Cardinality(Below(S, key, x)) = c => Below(S, key, x) = S)
      BY <1>1, <2>1, FS_Subset
    <3>2. b # c
      BY <2>1, <3>1
    <3> QED
      BY <1>1, <3>1, <3>2, FS_CardinalityType
  <2>3. b + 1 \in 1..c /\ (b + 1) - 1 = b
    BY <1>1, <2>2
  <2>4. r[b + 1] \in S /\ Cardinality(Below(S, key, r[b + 1])) = b
    <3>1. r[b + 1] \in S /\ Cardinality(Below(S, key, r[b + 1])) = (b + 1) - 1
      <4> HIDE DEF b
      <4> QED
        BY <1>4, <2>3
    <3> QED
      BY <2>3, <3>1
  <2>5. r[b + 1] = x
    BY <2>4, PlacesDiffer
  <2> QED
    BY <2>3, <2>5
<1> QED
  BY <1>1, <1>3, <1>4, <1>5, <1>6 DEF r

\* A score is a natural number for every domain of the alphabet.
Scores == [ToSet(Alphabet) -> Nat]

\* Intervals have as many elements as they should.
LEMMA IntervalSize == \A n \in Nat : Cardinality(1..n) = n
BY FS_Interval

\* Two digits make one number.
LEMMA Digits ==
    ASSUME NEW a \in Int, NEW b \in Int, NEW c \in Int, NEW d \in Int,
           b >= 1, b <= 5, d >= 1, d <= 5, 6 * a + b = 6 * c + d
    PROVE  a = c /\ b = d
OBVIOUS

\* Two different elements are two.
LEMMA TwoElements ==
    ASSUME NEW S, IsFiniteSet(S), NEW x \in S, NEW y \in S, x # y
    PROVE  Cardinality(S) >= 2
<1>1. IsFiniteSet({x}) /\ Cardinality({x}) = 1 /\ y \notin {x}
  BY FS_Singleton
<1>2. Cardinality({x} \union {y}) = Cardinality({x}) + 1
  BY <1>1, FS_AddElement
<1>3. Cardinality({x} \union {y}) <= Cardinality(S)
  BY FS_Subset
<1> QED
  BY <1>1, <1>2, <1>3, FS_CardinalityType

\* Every domain a task may have.
DomainNames == {"business", "coding", "math", "research", "work", "general"}

\* Every domain has three roles at least and five at most.
LEMMA RolesAre ==
    \A d \in DomainNames : Len(Roles[d]) \in {3, 5}
<1>1. /\ Len(Roles.business) = 5 /\ Len(Roles.coding) = 5 /\ Len(Roles.math) = 3
      /\ Len(Roles.research) = 5 /\ Len(Roles.work) = 5 /\ Len(Roles.general) = 3
  BY DEF Roles
<1> QED
  BY <1>1 DEF DomainNames

\* The alphabet names five different domains.
LEMMA AlphabetIs ==
    /\ DOMAIN Alphabet = 1..5
    /\ \A i \in 1..5 : Alphabet[i] \in {"business", "coding", "math", "research", "work"}
    /\ \A i, j \in 1..5 : Alphabet[i] = Alphabet[j] => i = j
    /\ \A i \in 1..5 : Alphabet[i] \in ToSet(Alphabet)
<1>1. DOMAIN Alphabet = 1..5
  BY DEF Alphabet
<1>2. \A i \in 1..5 : i = 1 \/ i = 2 \/ i = 3 \/ i = 4 \/ i = 5
  OBVIOUS
<1>3. /\ Alphabet[1] = "business" /\ Alphabet[2] = "coding" /\ Alphabet[3] = "math"
      /\ Alphabet[4] = "research" /\ Alphabet[5] = "work"
  BY DEF Alphabet
<1> QED
  BY <1>1, <1>2, <1>3 DEF ToSet

\* The domains of a task are those it scores in, each once, or "general" alone.
LEMMA DomainsAre ==
    ASSUME NEW score \in Scores
    PROVE  LET d == Domains(score)
           IN  /\ Len(d) \in {1, 2, 3, 4, 5} /\ DOMAIN d = 1..Len(d)
               /\ \A j \in 1..Len(d) : d[j] \in DomainNames /\ Len(Roles[d[j]]) \in {3, 5}
               /\ \A i, j \in 1..Len(d) : d[i] = d[j] => i = j
               /\ \A i \in Hits(score) : \E j \in 1..Len(d) : d[j] = Alphabet[i]
<1> DEFINE key == [i \in 1..5 |-> i - 6 * score[Alphabet[i]]]
           ranked == Ranked(Hits(score), key)
           c == Cardinality(Hits(score))
           d == Domains(score)
<1>1. Hits(score) \subseteq 1..5 /\ IsFiniteSet(Hits(score))
  BY DomainsAreSequence DEF Hits
<1>2. Keyed(Hits(score), key)
  <2>1. \A i \in 1..5 : score[Alphabet[i]] \in Nat
    BY AlphabetIs DEF Scores
  <2>2. \A i \in Hits(score) : key[i] = i - 6 * score[Alphabet[i]] /\ key[i] \in Int
    BY <1>1, <2>1
  <2>3. ASSUME NEW i \in Hits(score), NEW j \in Hits(score), key[i] = key[j] PROVE i = j
    <3>1. i \in 1..5 /\ j \in 1..5 /\ score[Alphabet[i]] \in Nat /\ score[Alphabet[j]] \in Nat
      BY <1>1, <2>1
    <3>2. i - 6 * score[Alphabet[i]] = j - 6 * score[Alphabet[j]]
      BY <2>2, <2>3
    <3> HIDE DEF key
    <3> QED
      BY <3>1, <3>2
  <2> HIDE DEF key
  <2> QED
    BY <1>1, <2>2, <2>3 DEF Keyed
<1> HIDE DEF key
<1>3. /\ c \in Nat /\ Len(ranked) = c /\ DOMAIN ranked = 1..c
      /\ \A k \in 1..c : ranked[k] \in Hits(score)
      /\ \A j, k \in 1..c : ranked[j] = ranked[k] => j = k
      /\ \A i \in Hits(score) : \E k \in 1..c : ranked[k] = i
  BY <1>2, RankedIs
<1>4. c <= 5 /\ (Hits(score) = {} <=> c = 0)
  <2>1. IsFiniteSet(1..5) /\ Cardinality(1..5) = 5
    <3>1. 5 \in Nat
      OBVIOUS
    <3> QED
      BY <3>1, Intervals, IntervalSize, Zenon
  <2> QED
    BY <1>1, <2>1, FS_Subset, FS_EmptySet
<1>5. d = IF Hits(score) = {} THEN <<"general">> ELSE [k \in DOMAIN ranked |-> Alphabet[ranked[k]]]
  BY DEF Domains, key
<1> HIDE DEF ranked, c, d
<1>6. CASE Hits(score) = {}
  <2>1. Len(d) = 1 /\ DOMAIN d = 1..1 /\ d[1] = "general"
    BY <1>5, <1>6
  <2>2. \A j \in 1..1 : j = 1
    OBVIOUS
  <2>3. \A j \in 1..1 : d[j] \in DomainNames
    BY <2>1, <2>2 DEF DomainNames
  <2> QED
    BY <1>6, <2>1, <2>2, <2>3, RolesAre DEF d
<1>7. CASE Hits(score) # {}
  <2>1. Len(d) = c /\ DOMAIN d = 1..c /\ \A k \in 1..c : d[k] = Alphabet[ranked[k]]
    BY <1>3, <1>5, <1>7
  <2>2. c \in {1, 2, 3, 4, 5}
    BY <1>3, <1>4, <1>7
  <2>3. \A j \in 1..c : d[j] \in DomainNames /\ Len(Roles[d[j]]) \in {3, 5}
    <3>1. \A j \in 1..c : d[j] \in {"business", "coding", "math", "research", "work"}
      BY <1>1, <1>3, <2>1, AlphabetIs
    <3>2. \A j \in 1..c : d[j] \in DomainNames
      BY <3>1 DEF DomainNames
    <3> QED
      BY <3>2, RolesAre
  <2>4. ASSUME NEW i \in 1..c, NEW j \in 1..c, d[i] = d[j] PROVE i = j
    <3>1. ranked[i] = ranked[j]
      BY <1>1, <1>3, <2>1, <2>4, AlphabetIs
    <3> QED
      BY <1>3, <3>1
  <2>5. \A i \in Hits(score) : \E j \in 1..c : d[j] = Alphabet[i]
    BY <1>3, <2>1
  <2> QED
    BY <2>1, <2>2, <2>3, <2>4, <2>5 DEF d
<1> QED
  BY <1>6, <1>7

\* What SelectSpecialists takes its domains for.
Selectable(domains) ==
    /\ Len(domains) \in {1, 2, 3, 4, 5} /\ DOMAIN domains = 1..Len(domains)
    /\ \A j \in 1..Len(domains) : Len(Roles[domains[j]]) \in {3, 5}

\* The posts are ranked by role and then by domain.
LEMMA PostsAreKeyed ==
    ASSUME NEW domains, Selectable(domains)
    PROVE  Keyed(Posts(domains), [p \in Posts(domains) |-> 6 * p[1] + p[2]])
<1> USE DEF Selectable
<1> DEFINE posts == Posts(domains)
           key == [p \in posts |-> 6 * p[1] + p[2]]
           m == Len(domains)
<1>1. IsFiniteSet(posts) /\ m \in Nat /\ m >= 1 /\ m <= 5
  <2>1. m \in Nat /\ m >= 1 /\ m <= 5
    OBVIOUS
  <2>2. Len(domains) \in Nat /\ DOMAIN domains = 1..Len(domains)
    BY <2>1
  <2>3. IsFiniteSet(Posts(domains))
    BY <2>2, CandidatesAreSequences
  <2> QED
    BY <2>1, <2>3
<1>2. \A p \in posts : /\ p = <<p[1], p[2]>> /\ p[1] \in 1..5 /\ p[2] \in 1..m
                       /\ p[1] <= Len(Roles[domains[p[2]]])
  BY DEF Posts
<1> HIDE DEF posts, m
<1>3. Keyed(posts, key)
  <2>1. \A p \in posts : key[p] = 6 * p[1] + p[2] /\ key[p] \in Int
    BY <1>1, <1>2
  <2>2. ASSUME NEW p \in posts, NEW q \in posts, key[p] = key[q] PROVE p = q
    <3>1. 6 * p[1] + p[2] = 6 * q[1] + q[2]
      BY <2>1, <2>2
    <3>2. p[1] = q[1] /\ p[2] = q[2]
      <4>1. /\ p[1] \in Int /\ p[2] \in Int /\ p[2] >= 1 /\ p[2] <= 5
            /\ q[1] \in Int /\ q[2] \in Int /\ q[2] >= 1 /\ q[2] <= 5
        BY <1>1, <1>2
      <4> DEFINE a == p[1]
                 b == p[2]
                 e == q[1]
                 f == q[2]
      <4>2. /\ a \in Int /\ b \in Int /\ b >= 1 /\ b <= 5
            /\ e \in Int /\ f \in Int /\ f >= 1 /\ f <= 5
            /\ 6 * a + b = 6 * e + f
        BY <3>1, <4>1
      <4> HIDE DEF a, b, e, f
      <4>3. a = e /\ b = f
        BY <4>2, Digits
      <4> QED
        BY <4>3 DEF a, b, e, f
    <3> QED
      BY <1>2, <3>2
  <2> HIDE DEF key
  <2> QED
    BY <1>1, <2>1, <2>2 DEF Keyed
<1> QED
  BY <1>3 DEF posts

\* The posts are taken in turn, and the first role of every domain comes first.
LEMMA RoundsAre ==
    ASSUME NEW domains, Selectable(domains)
    PROVE  /\ Len(Rounds(domains)) \in Nat /\ DOMAIN Rounds(domains) = 1..Len(Rounds(domains))
           /\ Len(Rounds(domains)) >= Len(domains) /\ Len(Rounds(domains)) >= 2
           /\ \A j \in 1..Len(domains) : Rounds(domains)[j][1] = domains[j]
<1> USE DEF Selectable
<1> DEFINE posts == Posts(domains)
           key == [p \in posts |-> 6 * p[1] + p[2]]
           turns == Ranked(posts, key)
           c == Cardinality(posts)
           m == Len(domains)
<1>1. IsFiniteSet(posts) /\ m \in Nat /\ m >= 1 /\ m <= 5
  <2>1. m \in Nat /\ m >= 1 /\ m <= 5
    OBVIOUS
  <2>2. Len(domains) \in Nat /\ DOMAIN domains = 1..Len(domains)
    BY <2>1
  <2>3. IsFiniteSet(Posts(domains))
    BY <2>2, CandidatesAreSequences
  <2> QED
    BY <2>1, <2>3
<1>2. \A p \in posts : /\ p = <<p[1], p[2]>> /\ p[1] \in 1..5 /\ p[2] \in 1..m
                       /\ p[1] <= Len(Roles[domains[p[2]]])
  BY DEF Posts
<1>3. \A j \in 1..m : \A i \in 1..3 : <<i, j>> \in posts
  <2> SUFFICES ASSUME NEW j \in 1..m, NEW i \in 1..3 PROVE <<i, j>> \in posts
    OBVIOUS
  <2>1. Len(Roles[domains[j]]) = 3 \/ Len(Roles[domains[j]]) = 5
    OBVIOUS
  <2>2. i \in 1..5 /\ i <= 3 /\ i <= 5 /\ j \in DOMAIN domains
    OBVIOUS
  <2>3. i <= Len(Roles[domains[j]])
    <3> DEFINE l == Len(Roles[domains[j]])
    <3> HIDE DEF l
    <3> SUFFICES i <= l
      BY DEF l
    <3>1. l = 3 \/ l = 5
      BY <2>1 DEF l
    <3> QED
      BY <2>2, <3>1
  <2> QED
    BY <2>2, <2>3 DEF Posts
<1>4. Keyed(posts, key)
  BY PostsAreKeyed
<1> HIDE DEF posts, m
<1>5. \A p \in posts : key[p] = 6 * p[1] + p[2]
  OBVIOUS
<1> HIDE DEF key
<1>6. /\ c \in Nat /\ Len(turns) = c /\ DOMAIN turns = 1..c
      /\ \A k \in 1..c : turns[k] \in posts
      /\ \A p \in posts : LET k == Cardinality(Below(posts, key, p)) + 1
                          IN  k \in 1..c /\ turns[k] = p
  BY <1>4, RankedIs
<1>7. Rounds(domains) = [k \in DOMAIN turns |->
                           LET d == domains[turns[k][2]] IN <<d, Roles[d][turns[k][1]]>>]
  BY DEF Rounds, posts, key
<1> HIDE DEF turns, c
<1>8. Len(Rounds(domains)) = c /\ DOMAIN Rounds(domains) = 1..c
  BY <1>6, <1>7
<1>9. ASSUME NEW j \in 1..m PROVE j \in 1..c /\ turns[j] = <<1, j>>
  <2> DEFINE low == Below(posts, key, <<1, j>>)
  <2>1. \A i \in 1..m : <<1, i>> \in posts
    <3>1. 1 \in 1..3
      OBVIOUS
    <3> QED
      BY <1>3, <3>1, Zenon
  <2>2. <<1, j>> \in posts /\ key[<<1, j>>] = 6 + j
    BY <1>1, <1>5, <2>1
  <2>3. ASSUME NEW p \in posts PROVE key[p] < 6 + j <=> p[1] = 1 /\ p[2] < j
    BY <1>1, <1>2, <1>5
  <2>4. low = {<<1, i>> : i \in 1..(j - 1)}
    <3>1. \A p \in posts : p \in low <=> p[1] = 1 /\ p[2] < j
      BY <2>2, <2>3 DEF Below
    <3>2. low \subseteq posts
      BY DEF Below
    <3>3. ASSUME NEW p \in low PROVE p \in {<<1, i>> : i \in 1..(j - 1)}
      <4>1. p = <<1, p[2]>> /\ p[2] \in 1..(j - 1)
        BY <1>1, <1>2, <3>1, <3>2
      <4> QED
        BY <4>1
    <3>4. ASSUME NEW i \in 1..(j - 1) PROVE <<1, i>> \in low
      <4>1. i \in 1..m /\ i < j
        BY <1>1
      <4> QED
        BY <2>1, <3>1, <4>1
    <3> HIDE DEF low
    <3> QED
      BY <3>3, <3>4
  <2>5. Cardinality(low) = j - 1
    <3> DEFINE g == [i \in 1..(j - 1) |-> <<1, i>>]
    <3>1. IsFiniteSet(1..(j - 1)) /\ Cardinality(1..(j - 1)) = j - 1
      <4>1. j - 1 \in Nat
        BY <1>1
      <4> QED
        BY <4>1, Intervals, IntervalSize
    <3>2. g \in [1..(j - 1) -> low]
      BY <2>4
    <3>3. \A a, b \in 1..(j - 1) : g[a] = g[b] => a = b
      OBVIOUS
    <3>4. \A p \in low : \E i \in 1..(j - 1) : g[i] = p
      BY <2>4
    <3> HIDE DEF g, low
    <3>5. g \in Bijection(1..(j - 1), low)
      <4>1. DOMAIN g = 1..(j - 1)
        BY <3>2
      <4>2. g \in Injection(1..(j - 1), low)
        BY <3>2, <3>3, <4>1, Zenon DEF Injection, IsInjective
      <4>3. g \in Surjection(1..(j - 1), low)
        BY <3>2, <3>4, Zenon DEF Surjection
      <4> QED
        BY <4>2, <4>3, Zenon DEF Bijection
    <3>6. ExistsBijection(1..(j - 1), low)
      BY <3>5 DEF ExistsBijection
    <3> QED
      BY <3>1, <3>6, FS_Bijection
  <2> HIDE DEF low
  <2>6. Cardinality(low) + 1 \in 1..c /\ turns[Cardinality(low) + 1] = <<1, j>>
    BY <1>6, <2>2 DEF low
  <2>7. Cardinality(low) + 1 = j
    BY <1>1, <2>5
  <2> QED
    BY <2>6, <2>7
<1>10. \A j \in 1..m : Rounds(domains)[j][1] = domains[j]
  <2> SUFFICES ASSUME NEW j \in 1..m PROVE Rounds(domains)[j][1] = domains[j]
    OBVIOUS
  <2>1. j \in DOMAIN turns /\ turns[j][2] = j
    BY <1>6, <1>9
  <2> QED
    BY <1>7, <2>1
<1>11. c >= m
  <2>1. m \in 1..c
    BY <1>1, <1>9
  <2> QED
    BY <1>6, <2>1
<1>12. c >= 2
  <2>1. 1 \in 1..3 /\ 2 \in 1..3 /\ 1 \in 1..m
    BY <1>1
  <2>2. <<1, 1>> \in posts /\ <<2, 1>> \in posts
    BY <1>3, <2>1, Zenon
  <2>3. <<1, 1>> # <<2, 1>>
    OBVIOUS
  <2>4. Cardinality(posts) >= 2
    BY <1>1, <2>2, <2>3, TwoElements
  <2> QED
    BY <2>4 DEF c
<1> QED
  BY <1>6, <1>8, <1>10, <1>11, <1>12 DEF m

\* A rebuilt plan has the team of the first one: the number of specialists a
\* saved plan keeps selects the same specialists as the number once admitted.
LEMMA TeamAgain ==
    ASSUME NEW score \in Scores, NEW agents \in Int, agents >= 2,
           Len(Domains(score)) <= agents
    PROVE  LET n == Len(Team(score, agents))
               d == Domains(score)
           IN  /\ n \in Int /\ n >= 2 /\ n >= Len(d) /\ n <= agents
               /\ Team(score, n) = Team(score, agents)
               /\ Team(score, agents) = SubSeq(Rounds(d) \o Extras(d), 1, n)
               /\ n <= Len(Rounds(d) \o Extras(d))
<1> DEFINE d == Domains(score)
           all == Rounds(d) \o Extras(d)
           n == Len(Team(score, agents))
           m == Min({Slots(d, agents), Len(all)})
<1>1. Len(d) \in Nat /\ DOMAIN d = 1..Len(d) /\ Selectable(d)
  BY DomainsAre DEF Selectable
<1>2. PICK A : Rounds(d) \in Seq(A) /\ Extras(d) \in Seq(A)
  <2> HIDE DEF d
  <2> QED
    BY <1>1, CandidatesAreSequences
<1>3. Len(Rounds(d)) >= Len(d) /\ Len(Rounds(d)) >= 2
  <2> HIDE DEF d
  <2> QED
    BY <1>1, RoundsAre
<1>4. Len(all) \in Nat /\ Len(all) >= Len(d) /\ Len(all) >= 2
  <2> HIDE DEF d
  <2>1. Len(all) = Len(Rounds(d)) + Len(Extras(d)) /\ Len(Extras(d)) \in Nat /\ Len(Rounds(d)) \in Nat
    BY <1>2
  <2> HIDE DEF all
  <2> QED
    BY <1>1, <1>3, <2>1
<1>5. /\ Slots(d, agents) \in Int /\ Slots(d, agents) <= agents
      /\ Slots(d, agents) >= 2 /\ Slots(d, agents) >= Len(d)
      /\ Slots(d, agents) <= Len(d) + 2
  <2>0. Len(d) <= agents
    OBVIOUS
  <2> HIDE DEF d
  <2> QED
    BY <1>1, <2>0, SlotsAre
<1>6. /\ m \in {Slots(d, agents), Len(all)} /\ m \in Int /\ m <= Slots(d, agents) /\ m <= Len(all)
      /\ Team(score, agents) = SubSeq(all, 1, m) /\ n = IF m >= 0 THEN m ELSE 0
  BY TeamIs
<1> HIDE DEF d, all, n, m
<1>7. n = m /\ n >= 2 /\ n >= Len(d) /\ n <= agents /\ n <= Len(d) + 2 /\ n <= Len(all)
  BY <1>1, <1>4, <1>5, <1>6
<1>8. Slots(d, n) = n
  BY <1>1, <1>6, <1>7, SlotsAre
<1>9. Team(score, n) = SubSeq(all, 1, n)
  <2> DEFINE k == Min({Slots(d, n), Len(all)})
  <2>1. k \in {Slots(d, n), Len(all)} /\ k <= Slots(d, n) /\ k <= Len(all) /\ Team(score, n) = SubSeq(all, 1, k)
    BY <1>6, <1>7, TeamIs DEF d, all
  <2> HIDE DEF k
  <2>2. k = n
    BY <1>4, <1>6, <1>7, <1>8, <2>1
  <2> QED
    BY <2>1, <2>2
<1> QED
  BY <1>6, <1>7, <1>9 DEF n, d, all

\* What an admission is.
Admissions == [tier: {"free", "plus", "pro"}, authorized: BOOLEAN, remaining: Int,
               estimated: Int, agents: Int, cap: Int]

\* A plan that was built is built again, the same, by the verifier, which no
\* longer knows how many agents were admitted (ultra/orchestrator.py,
\* _verify_current_plan): verification never refuses an unchanged plan.
THEOREM UltraPlansAreRebuilt ==
    ASSUME NEW q, NEW a \in Admissions, NEW score \in Scores, UltraPlanned(q, a, score)
    PROVE  Rebuilt(q, a, score)
<1> DEFINE n == Len(Team(score, a.agents))
           again == [a EXCEPT !.tier = "pro", !.authorized = TRUE,
                              !.remaining = a.estimated, !.agents = n]
<1>1. /\ ResolvedUltra(q) /\ Admissible(a, q.surface) /\ Len(Domains(score)) <= a.agents
      /\ PerOperation(n, a.cap) >= 512 /\ ReservedTotal(n, a.cap) <= a.cap
  BY DEF UltraPlanned
<1>2. a.agents \in Int /\ a.agents >= 2 /\ a.agents <= 5
  BY <1>1 DEF Admissions, Admissible
<1>3. /\ n \in Int /\ n >= 2 /\ n >= Len(Domains(score)) /\ n <= a.agents
      /\ Team(score, n) = Team(score, a.agents)
  BY <1>1, <1>2, TeamAgain
<1>4. /\ again.tier = "pro" /\ again.authorized = TRUE /\ again.remaining = a.estimated
      /\ again.agents = n /\ again.estimated = a.estimated /\ again.cap = a.cap
  BY DEF Admissions
<1>5. Rebuilt(q, a, score) <=> UltraPlanned(q, again, score) /\ Team(score, n) = Team(score, a.agents)
  BY DEF Rebuilt
<1>6. a.estimated \in Int /\ a.cap \in Int
  BY DEF Admissions
<1> HIDE DEF again, n
<1>7. Admissible(again, q.surface)
  <2>1. a.estimated > 0 /\ a.cap >= 4096 /\ a.cap <= 131072
    BY <1>1 DEF Admissible
  <2>2. again.tier \in IF q.surface = "chat" THEN {"pro"} ELSE {"plus", "pro"}
    BY <1>4
  <2>3. n <= 5 /\ again.remaining >= again.estimated
    BY <1>2, <1>3, <1>4, <1>6
  <2> QED
    BY <1>3, <1>4, <2>1, <2>2, <2>3 DEF Admissible
<1>8. Len(Team(score, again.agents)) = n
  BY <1>3, <1>4 DEF n
<1>9. UltraPlanned(q, again, score)
  BY <1>1, <1>3, <1>4, <1>7, <1>8 DEF UltraPlanned
<1> QED
  BY <1>3, <1>5, <1>9

\* Every domain a task scores in has a specialist of its own, whenever the
\* request admits as many agents as the task has domains.
THEOREM EveryDomainHasASpecialist ==
    ASSUME NEW score \in Scores, NEW agents \in Int, agents >= 2,
           Len(Domains(score)) <= agents
    PROVE  /\ Len(Team(score, agents)) >= 2 /\ Len(Team(score, agents)) <= agents
           /\ \A i \in Hits(score) : \E k \in 1..Len(Team(score, agents)) :
                 Team(score, agents)[k][1] = Alphabet[i]
<1> DEFINE d == Domains(score)
           all == Rounds(d) \o Extras(d)
           n == Len(Team(score, agents))
<1>1. /\ n \in Int /\ n >= 2 /\ n >= Len(d) /\ n <= agents /\ n <= Len(all)
      /\ Team(score, agents) = SubSeq(all, 1, n)
  BY TeamAgain
<1>2. /\ Len(d) \in Nat /\ DOMAIN d = 1..Len(d) /\ Selectable(d)
      /\ \A i \in Hits(score) : \E j \in 1..Len(d) : d[j] = Alphabet[i]
  BY DomainsAre DEF Selectable
<1> HIDE DEF d, n
<1>3. PICK A : Rounds(d) \in Seq(A) /\ Extras(d) \in Seq(A)
  BY <1>2, CandidatesAreSequences
<1>4. Len(Rounds(d)) >= Len(d) /\ \A j \in 1..Len(d) : Rounds(d)[j][1] = d[j]
  BY <1>2, RoundsAre
<1>5. ASSUME NEW j \in 1..Len(d) PROVE j \in 1..n /\ Team(score, agents)[j][1] = d[j]
  <2>1. j \in 1..n /\ j \in 1..Len(Rounds(d))
    BY <1>1, <1>2, <1>3, <1>4
  <2>2. all[j] = Rounds(d)[j] /\ all \in Seq(A)
    BY <1>3, <2>1
  <2> HIDE DEF all
  <2>3. SubSeq(all, 1, n)[j] = all[j]
    BY <1>1, <2>1, <2>2
  <2> QED
    BY <1>1, <1>4, <2>1, <2>2, <2>3
<1> QED
  BY <1>1, <1>2, <1>5 DEF n

\* No domain has a role twice.
LEMMA RolesDiffer ==
    \A d \in DomainNames : \A i, j \in 1..Len(Roles[d]) : Roles[d][i] = Roles[d][j] => i = j
<1>1. \A i \in 1..5 : i = 1 \/ i = 2 \/ i = 3 \/ i = 4 \/ i = 5
  OBVIOUS
<1>2. \A i \in 1..3 : i = 1 \/ i = 2 \/ i = 3
  OBVIOUS
<1>3. \A i, j \in 1..Len(Roles.business) : Roles.business[i] = Roles.business[j] => i = j
  BY <1>1 DEF Roles
<1>4. \A i, j \in 1..Len(Roles.coding) : Roles.coding[i] = Roles.coding[j] => i = j
  BY <1>1 DEF Roles
<1>5. \A i, j \in 1..Len(Roles.math) : Roles.math[i] = Roles.math[j] => i = j
  BY <1>2 DEF Roles
<1>6. \A i, j \in 1..Len(Roles.research) : Roles.research[i] = Roles.research[j] => i = j
  BY <1>1 DEF Roles
<1>7. \A i, j \in 1..Len(Roles.work) : Roles.work[i] = Roles.work[j] => i = j
  BY <1>1 DEF Roles
<1>8. \A i, j \in 1..Len(Roles.general) : Roles.general[i] = Roles.general[j] => i = j
  BY <1>2 DEF Roles
<1> QED
  BY <1>3, <1>4, <1>5, <1>6, <1>7, <1>8 DEF DomainNames

\* The posts taken in turn are different ones.
LEMMA RoundsDiffer ==
    ASSUME NEW domains, Selectable(domains),
           \A j \in 1..Len(domains) : domains[j] \in DomainNames,
           \A i, j \in 1..Len(domains) : domains[i] = domains[j] => i = j
    PROVE  \A j, k \in 1..Len(Rounds(domains)) :
              Rounds(domains)[j] = Rounds(domains)[k] => j = k
<1> DEFINE posts == Posts(domains)
           key == [p \in posts |-> 6 * p[1] + p[2]]
           turns == Ranked(posts, key)
<1>1. Keyed(posts, key)
  BY PostsAreKeyed
<1>2. /\ Len(turns) = Cardinality(posts) /\ DOMAIN turns = 1..Len(turns)
      /\ \A k \in 1..Len(turns) : turns[k] \in posts
      /\ \A j, k \in 1..Len(turns) : turns[j] = turns[k] => j = k
  <2> HIDE DEF posts, key
  <2> QED
    BY <1>1, RankedIs
<1>3. Rounds(domains) = [k \in DOMAIN turns |->
                           LET d == domains[turns[k][2]] IN <<d, Roles[d][turns[k][1]]>>]
  BY DEF Rounds
<1>4. \A p \in posts : /\ p = <<p[1], p[2]>> /\ p[1] \in 1..Len(Roles[domains[p[2]]])
                       /\ p[2] \in 1..Len(domains)
  BY RolesAre DEF Posts, Selectable
<1>5. Len(Rounds(domains)) = Len(turns)
  <2>1. Len(turns) \in Nat
    BY <1>1, <1>2, FS_CardinalityType DEF Keyed
  <2> HIDE DEF turns
  <2> QED
    BY <1>2, <1>3, <2>1
<1> HIDE DEF posts, key, turns
<1>6. ASSUME NEW j \in 1..Len(turns), NEW k \in 1..Len(turns),
             Rounds(domains)[j] = Rounds(domains)[k]
      PROVE  j = k
  <2> DEFINE p == turns[j]
             r == turns[k]
  <2>1. p \in posts /\ r \in posts
    BY <1>2
  <2>2. /\ domains[p[2]] = domains[r[2]]
        /\ Roles[domains[p[2]]][p[1]] = Roles[domains[r[2]]][r[1]]
    BY <1>2, <1>3, <1>6
  <2> HIDE DEF p, r
  <2>3. p[2] = r[2]
    BY <1>4, <2>1, <2>2
  <2>4. p[1] = r[1]
    BY <1>4, <2>1, <2>2, <2>3, RolesDiffer
  <2>5. p = r
    BY <1>4, <2>1, <2>3, <2>4
  <2> QED
    BY <1>2, <2>5 DEF p, r
<1> QED
  BY <1>5, <1>6

\* The general roles added are different ones, and none was taken before.
LEMMA ExtrasDiffer ==
    ASSUME NEW domains, Selectable(domains)
    PROVE  /\ \A j, k \in 1..Len(Extras(domains)) :
                 Extras(domains)[j] = Extras(domains)[k] => j = k
           /\ \A j \in 1..Len(Extras(domains)) : Extras(domains)[j] \notin ToSet(Rounds(domains))
<1> DEFINE spare == Spare(domains)
           key == [i \in 1..3 |-> i]
           left == Ranked(spare, key)
<1>1. IsFiniteSet(spare) /\ spare \subseteq 1..3
  BY CandidatesAreSequences DEF Selectable, Spare
<1>2. Keyed(spare, key)
  <2>1. \A i \in spare : key[i] = i /\ i \in Int
    BY <1>1
  <2> HIDE DEF spare, key
  <2> QED
    BY <1>1, <2>1 DEF Keyed
<1>3. /\ Cardinality(spare) \in Nat
      /\ Len(left) = Cardinality(spare) /\ DOMAIN left = 1..Len(left)
      /\ \A k \in 1..Len(left) : left[k] \in spare
      /\ \A j, k \in 1..Len(left) : left[j] = left[k] => j = k
  <2> HIDE DEF spare, key
  <2> QED
    BY <1>2, RankedIs
<1>4. Extras(domains) = [k \in DOMAIN left |-> <<"general", Roles.general[left[k]]>>]
  BY DEF Extras
<1>5. \A i \in spare : <<"general", Roles.general[i]>> \notin ToSet(Rounds(domains))
  BY DEF Spare
<1> HIDE DEF spare, key, left
<1>6. Len(Extras(domains)) = Len(left)
  BY <1>3, <1>4
<1>7. \A i, j \in 1..3 : Roles.general[i] = Roles.general[j] => i = j
  <2>1. Len(Roles["general"]) = 3 /\ Roles["general"] = Roles.general /\ "general" \in DomainNames
    BY DEF Roles, DomainNames
  <2> QED
    BY <2>1, RolesDiffer
<1>8. ASSUME NEW j \in 1..Len(left), NEW k \in 1..Len(left),
             Extras(domains)[j] = Extras(domains)[k]
      PROVE  j = k
  <2>1. Roles.general[left[j]] = Roles.general[left[k]]
    BY <1>3, <1>4, <1>8
  <2> QED
    BY <1>1, <1>3, <1>7, <2>1
<1>9. \A j \in 1..Len(left) : Extras(domains)[j] \notin ToSet(Rounds(domains))
  BY <1>3, <1>4, <1>5
<1> QED
  BY <1>6, <1>8, <1>9

\* No specialist is appointed twice: two members of a team differ in their
\* domain or in their role (ultra/orchestrator.py, _select_specialists), so the
\* identifiers of their stages differ.
THEOREM NoSpecialistTwice ==
    ASSUME NEW score \in Scores, NEW agents \in Int, agents >= 2,
           Len(Domains(score)) <= agents
    PROVE  \A i, j \in 1..Len(Team(score, agents)) :
              Team(score, agents)[i] = Team(score, agents)[j] => i = j
<1> DEFINE d == Domains(score)
           r == Rounds(d)
           e == Extras(d)
           n == Len(Team(score, agents))
<1>1. /\ n \in Int /\ n >= 2 /\ n <= Len(r \o e) /\ Team(score, agents) = SubSeq(r \o e, 1, n)
  BY TeamAgain
<1>2. /\ Selectable(d) /\ Len(d) \in Nat /\ DOMAIN d = 1..Len(d)
      /\ \A j \in 1..Len(d) : d[j] \in DomainNames
      /\ \A i, j \in 1..Len(d) : d[i] = d[j] => i = j
  BY DomainsAre DEF Selectable
<1> HIDE DEF d
<1>3. /\ \A j, k \in 1..Len(r) : r[j] = r[k] => j = k
      /\ \A j, k \in 1..Len(e) : e[j] = e[k] => j = k
      /\ \A j \in 1..Len(e) : e[j] \notin ToSet(r)
  BY <1>2, RoundsDiffer, ExtrasDiffer
<1>4. PICK A : r \in Seq(A) /\ e \in Seq(A)
  BY <1>2, CandidatesAreSequences
<1> HIDE DEF r, e, n
<1>5. \A j \in 1..Len(e) : \A i \in 1..Len(r) : e[j] # r[i]
  BY <1>3, <1>4 DEF ToSet
<1> DEFINE all == r \o e
<1>6. /\ all \in Seq(A) /\ Len(all) = Len(r) + Len(e)
      /\ \A i \in 1..Len(all) : all[i] = IF i <= Len(r) THEN r[i] ELSE e[i - Len(r)]
  BY <1>4
<1> HIDE DEF all
<1>7. ASSUME NEW i \in 1..Len(all), NEW j \in 1..Len(all), all[i] = all[j] PROVE i = j
  <2>1. Len(r) \in Nat /\ Len(e) \in Nat
    BY <1>4
  <2>2. i <= Len(r) => i \in 1..Len(r) /\ all[i] = r[i]
    BY <1>6, <2>1
  <2>3. ~(i <= Len(r)) => i - Len(r) \in 1..Len(e) /\ all[i] = e[i - Len(r)]
    BY <1>6, <2>1
  <2>4. j <= Len(r) => j \in 1..Len(r) /\ all[j] = r[j]
    BY <1>6, <2>1
  <2>5. ~(j <= Len(r)) => j - Len(r) \in 1..Len(e) /\ all[j] = e[j - Len(r)]
    BY <1>6, <2>1
  <2>6. CASE i <= Len(r) /\ j <= Len(r)
    BY <1>3, <1>7, <2>2, <2>4, <2>6
  <2>7. CASE ~(i <= Len(r)) /\ ~(j <= Len(r))
    <3>1. i - Len(r) = j - Len(r)
      BY <1>3, <1>7, <2>3, <2>5, <2>7
    <3> QED
      BY <2>1, <3>1
  <2>8. ~(i <= Len(r) /\ ~(j <= Len(r))) /\ ~(~(i <= Len(r)) /\ j <= Len(r))
    BY <1>5, <1>7, <2>2, <2>3, <2>4, <2>5
  <2> QED
    BY <2>6, <2>7, <2>8
<1>8. \A i \in 1..n : i \in 1..Len(all) /\ Team(score, agents)[i] = all[i]
  <2>1. n <= Len(all) /\ Team(score, agents) = SubSeq(all, 1, n)
    BY <1>1 DEF all
  <2> QED
    BY <1>1, <1>6, <2>1
<1>9. \A i, j \in 1..n : Team(score, agents)[i] = Team(score, agents)[j] => i = j
  BY <1>7, <1>8
<1> QED
  BY <1>9 DEF n

-----------------------------------------------------------------------------
(* What Auto picks.                                                         *)

\* What Auto reads of a prompt.
Prompts == [words: Nat, nova: Nat, ultra: Nat, orion: Nat, tools: BOOLEAN, simple: BOOLEAN]

Aliases == {"instant", "medium", "high", "extra", "max", "ultra"}

\* The complexity of a prompt is one of five.
LEMMA ComplexityIs ==
    ASSUME NEW p \in Prompts
    PROVE  Complexity(p) \in {0, 1, 2, 3, 4}
<1>1. p.nova \in Nat /\ p.words \in Nat
  BY DEF Prompts
<1> QED
  BY <1>1 DEF Complexity

\* Auto answers one of the six aliases.
LEMMA SuitedIs ==
    ASSUME NEW p \in Prompts, NEW tier, NEW budget
    PROVE  /\ Suited(p, tier, budget) \in Aliases
           /\ Suited(p, tier, budget) = "ultra" => UltraAllowed(tier, budget)
<1> DEFINE c == Complexity(p)
           s == Suited(p, tier, budget)
<1>1. c \in {0, 1, 2, 3, 4}
  BY ComplexityIs
<1>2. s = IF UltraCandidate(p) THEN IF UltraAllowed(tier, budget) THEN "ultra" ELSE "max"
          ELSE IF c >= 1 THEN <<"high", "high", "extra", "max">>[c]
          ELSE IF ~p.tools /\ p.orion = 0 /\ p.words <= 30 /\ p.simple THEN "instant"
          ELSE "medium"
  BY DEF Suited
<1> HIDE DEF c, s
<1>3. CASE UltraCandidate(p)
  BY <1>2, <1>3 DEF s, Aliases
<1>4. CASE ~UltraCandidate(p) /\ c >= 1
  <2>1. s = <<"high", "high", "extra", "max">>[c]
    BY <1>2, <1>4
  <2>2. c = 1 \/ c = 2 \/ c = 3 \/ c = 4
    BY <1>1, <1>4
  <2>3. s = "high" \/ s = "extra" \/ s = "max"
    BY <2>1, <2>2
  <2> QED
    BY <2>3 DEF s, Aliases
<1>5. CASE ~UltraCandidate(p) /\ ~(c >= 1)
  <2>1. s = "instant" \/ s = "medium"
    BY <1>2, <1>5
  <2> QED
    BY <2>1 DEF s, Aliases
<1> QED
  BY <1>3, <1>4, <1>5

\* Auto never picks what the plan of the tier may not use, whatever the prompt
\* (router/auto.py, classify_auto), and Ultra only for Pro, authorised and within
\* the budget.  The route it stands for is one the product knows.
THEOREM AutoStaysInTheTier ==
    ASSUME NEW p \in Prompts, NEW tier \in {"free", "plus", "pro"}, NEW budget
    PROVE  LET q == AutoRoute(ClassifyAuto(p, tier, budget))
           IN  /\ q \in Allowed.chat[tier] /\ Known(q)
               /\ q.effort = "ultra" => UltraAllowed(tier, budget)
<1> DEFINE s == Suited(p, tier, budget)
           a == ClassifyAuto(p, tier, budget)
           q == AutoRoute(a)
<1>1. s \in Aliases /\ (s = "ultra" => UltraAllowed(tier, budget))
  BY SuitedIs
<1>2. a = IF tier = "free" THEN "instant"
          ELSE IF tier = "plus" /\ s \notin {"instant", "medium", "high"} THEN "high"
          ELSE s
  BY DEF ClassifyAuto
<1> HIDE DEF s, a
<1>3. /\ a \in Aliases /\ (a = "ultra" => UltraAllowed(tier, budget))
      /\ tier = "free" => a = "instant"
      /\ tier = "plus" => a \in {"instant", "medium", "high"}
  BY <1>1, <1>2 DEF Aliases
<1>4. q = [surface |-> "chat", family |-> IF a = "instant" THEN "cosmo" ELSE "orion",
           effort |-> IF a = "instant" THEN "light" ELSE a]
  BY DEF AutoRoute, Route, Slot
<1> HIDE DEF q
<1>5. /\ q.surface = "chat" /\ q.family \in {"cosmo", "orion"}
      /\ q.effort = IF a = "instant" THEN "light" ELSE a
      /\ q = Route("chat", q.family, q.effort)
  BY <1>4 DEF Route
<1>6. "cosmo" \in Families["chat"] /\ "orion" \in Families["chat"] /\ "chat" \in DOMAIN Families
  BY DEF Families
<1>7. DOMAIN WorkEfforts = {"light", "medium", "high", "extra", "max", "ultra"}
  BY DEF WorkEfforts
<1>8. q.effort \in DOMAIN WorkEfforts
  BY <1>3, <1>5, <1>7 DEF Aliases
<1>9. Known(q)
  BY <1>5, <1>6, <1>8 DEF Known
<1>10. q.effort = "ultra" => UltraAllowed(tier, budget)
  BY <1>3, <1>5
<1>11. q \in Allowed.chat[tier]
  <2>1. CASE tier = "free"
    <3>1. q = Route("chat", "cosmo", "light")
      BY <1>3, <1>4, <2>1 DEF Route
    <3> QED
      BY <2>1, <3>1 DEF Allowed
  <2>2. CASE tier = "plus"
    <3>1. q.effort \in {"light", "medium", "high"}
      BY <1>3, <1>5, <2>2
    <3>2. q \in RoutesOf("chat", {"light", "medium", "high"})
      BY <1>5, <1>6, <3>1 DEF RoutesOf
    <3> QED
      BY <2>2, <3>2 DEF Allowed
  <2>3. CASE tier = "pro"
    <3>1. q \in RoutesOf("chat", DOMAIN WorkEfforts)
      BY <1>5, <1>6, <1>8 DEF RoutesOf
    <3> QED
      BY <2>3, <3>1 DEF Allowed
  <2> QED
    BY <2>1, <2>2, <2>3
<1> QED
  BY <1>9, <1>10, <1>11 DEF q, a

-----------------------------------------------------------------------------
(* The room of a stage: what the stages before it wrote fits with it.      *)

\* Texts that can be bound at all: none missing, but the debate of an Ultra plan,
\* none too long or with the prefix of a placeholder.
Bindable(texts) ==
    /\ \A i \in DOMAIN texts : texts[i].chars > 0 \/ texts[i].skipped
    /\ Small(texts) /\ Unmarked(texts)

\* What the earlier Core stages wrote is within what was reserved for them.
LEMMA CoreRoom ==
    ASSUME NEW q, NEW model, Planned(q, model), NEW k \in 1..FinalStage(q), NEW messages, NEW prior,
           DOMAIN prior = 1..(k - 1), Unmarked(messages), Bindable(prior),
           \A i \in DOMAIN prior : prior[i].tokens \in 0..OutputLimit(q, i) /\ ~prior[i].skipped
    PROVE  Bound(q, k, messages, prior)
<1>1. Known(q) /\ FinalStage(q) \in Nat /\ k \in Nat
  BY PolicyFits DEF Planned, Resolved
<1> DEFINE f == [i \in 1..(k - 1) |-> OutputLimit(q, i)]
           g == [i \in DOMAIN prior |-> prior[i].tokens]
           m == k - 1
<1>2. m \in Nat /\ IsFiniteSet(1..m)
  <2>1. m \in Nat
    BY <1>1
  <2> HIDE DEF m
  <2> QED
    BY <2>1, Intervals
<1>3. Naturals(f, 1..m) /\ Naturals(g, 1..m) /\ \A i \in 1..m : g[i] <= f[i]
  <2>1. \A i \in 1..m : OutputLimit(q, i) \in Nat
    BY <1>1, OutputFits
  <2> QED
    BY <2>1 DEF Naturals
<1>4. SumFunctionOnSet(g, 1..m) <= SumFunctionOnSet(f, 1..m) /\ SumFunctionOnSet(g, 1..m) \in Nat
  <2> HIDE DEF f, g, m
  <2> QED
    BY <1>2, <1>3, SumMonotone, SumType
<1> DEFINE text == SumFunction(g)
<1>5. text <= Reserved(q, k) /\ text \in Nat
  <2>1. SumFunction(g) = SumFunctionOnSet(g, 1..m) /\ Reserved(q, k) = SumFunctionOnSet(f, 1..m)
    BY DEF SumFunction, Reserved
  <2> HIDE DEF f, g, m
  <2> QED
    BY <1>4, <2>1
<1>6. Reserved(q, k) \in Nat
  <2>1. SumFunctionOnSet(f, 1..m) \in Nat
    <3> HIDE DEF f, m
    <3> QED
      BY <1>2, <1>3, SumType
  <2> QED
    BY <2>1 DEF SumFunction, Reserved
<1>7. Operation(q, k).input = Prompt + m * Wrapper + Reserved(q, k)
  BY DEF Operation
<1>8. m * (Wrapper - Placeholder) <= m * Wrapper /\ m * (Wrapper - Placeholder) \in Int /\ m * Wrapper \in Int
  <2>1. \A w, p, n \in Nat : n * (w - p) <= n * w /\ n * (w - p) \in Int /\ n * w \in Int
    <3>1. \A w, p, n \in Nat : n * (w - p) = n * w - n * p /\ n * p >= 0 /\ n * p \in Int /\ n * w \in Int
      OBVIOUS
    <3> QED
      BY <3>1
  <2> HIDE DEF m
  <2> QED
    BY <1>2, <2>1, RouteAssumption
<1>9. Operation(q, k).input + Operation(q, k).output <= ContextTokens
  BY DEF Planned
<1>10. Operation(q, k).output = OutputLimit(q, k) /\ OutputLimit(q, k) \in Nat /\ Operation(q, k).needs = 1..m
  BY <1>1, OutputFits DEF Operation
<1> DEFINE tokens == Prompt + m * (Wrapper - Placeholder) + text
<1>11. tokens <= Operation(q, k).input /\ tokens + Operation(q, k).output <= ContextTokens
  <2> HIDE DEF m, text
  <2> QED
    BY <1>5, <1>6, <1>7, <1>8, <1>9, <1>10, RouteAssumption DEF ContextTokens
<1>12. (\A i \in DOMAIN prior : prior[i].chars > 0) /\ Small(prior) /\ Unmarked(prior)
  BY DEF Bindable
<1> QED
  BY <1>10, <1>11, <1>12 DEF Bound

\* What the earlier Ultra stages wrote fits, with or without a debate.
LEMMA UltraRoom ==
    ASSUME NEW n \in 0..5, NEW cap \in Nat, PerOperation(n, cap) >= 512, NEW k \in 1..(n + 4),
           NEW messages, ValidConversation(messages),
           NEW prior, DOMAIN prior = 1..Artifacts(n, k), Bindable(prior),
           \A i \in DOMAIN prior : /\ prior[i].tokens \in 0..PerOperation(n, cap)
                                   /\ prior[i].skipped => i = n + 3
    PROVE  UltraBound(n, k, cap, messages, prior)
<1> DEFINE p == PerOperation(n, cap)
           a == Artifacts(n, k)
           f == [i \in DOMAIN prior |-> prior[i].tokens]
           g == [i \in 1..a |-> p]
<1>1. a \in Nat /\ (a = 0 \/ a = k - 1)
  BY DEF Artifacts
<1>2. p \in Nat /\ p > 0
  <2>1. p \in Int
    BY PerOperationBound
  <2> QED
    BY <2>1
<1>3. IsFiniteSet(1..a) /\ Naturals(f, 1..a) /\ Naturals(g, 1..a)
  <2>1. IsFiniteSet(1..a)
    BY <1>1, Intervals
  <2> QED
    BY <1>2, <2>1 DEF Naturals
<1>4. \A i \in 1..a : f[i] <= g[i]
  BY <1>2
<1>5. SumFunctionOnSet(f, 1..a) <= SumFunctionOnSet(g, 1..a) /\ SumFunctionOnSet(f, 1..a) \in Nat
  <2> HIDE DEF f, g, a
  <2> QED
    BY <1>3, <1>4, SumMonotone, SumType
<1>6. SumFunctionOnSet(g, 1..a) = a * p
  <2>1. \A i \in 1..a : g[i] = p
    OBVIOUS
  <2> HIDE DEF g, a, p
  <2> QED
    BY <1>1, <1>2, <2>1, SumConstant
<1>7. SumFunction(f) = SumFunctionOnSet(f, 1..a)
  BY DEF SumFunction
<1> DEFINE text == SumFunction(f)
           tokens == Template(n, k) - a * Placeholder + text
<1>8. text \in Nat /\ text <= a * p
  <2> HIDE DEF f, g, a, p
  <2> QED
    BY <1>5, <1>6, <1>7
<1>9. Template(n, k) \in Int /\ a * Placeholder \in Int /\ a * Placeholder >= 0 /\ a * p \in Int
  <2>1. \A x, y \in Nat : x * y \in Int /\ x * y >= 0
    OBVIOUS
  <2>2. a * Wrapper \in Int /\ a * Placeholder \in Int /\ a * Placeholder >= 0 /\ a * p \in Int
    <3> HIDE DEF a, p
    <3> QED
      BY <1>1, <1>2, <2>1, RouteAssumption
  <2> QED
    BY <2>2, RouteAssumption DEF Template
<1>10. UltraOperation(n, k, cap).input + UltraOperation(n, k, cap).output <= ContextTokens
  BY StagesFitContext
<1>11. /\ UltraOperation(n, k, cap).input = StageInput(n, k, cap)
       /\ UltraOperation(n, k, cap).output = p
       /\ UltraOperation(n, k, cap).needs = 1..a
       /\ StageInput(n, k, cap) = Template(n, k) + a * p
  BY DEF UltraOperation, StageInput
<1>12. tokens <= StageInput(n, k, cap) /\ tokens + p <= ContextTokens
  <2> HIDE DEF text, a, p
  <2> QED
    BY <1>2, <1>8, <1>9, <1>10, <1>11 DEF ContextTokens
<1>13. \A i \in DOMAIN prior : prior[i].chars > 0 \/ (prior[i].skipped /\ i = n + 3 /\ k = n + 4)
  <2>1. ASSUME NEW i \in DOMAIN prior, prior[i].skipped PROVE i = n + 3 /\ k = n + 4
    BY <1>1, <2>1
  <2> QED
    BY <2>1 DEF Bindable
<1> QED
  BY <1>11, <1>12, <1>13 DEF UltraBound, Bindable

\* What every stage of a request is asked under: the checks that do not depend on the stage.
Granted ==
    /\ Snapshot(Plan, input.limits) /\ ValidProbe(Runtime[0])
    /\ IsUltra(request) => /\ UltraPlanned(request, input.admission, input.score)
                           /\ Rebuilt(request, input.admission, input.score)
                           /\ Provenance(request, Slot(request))
                           /\ ValidConversation(input.messages)
    /\ ~IsUltra(request) => /\ Planned(request, Slot(request))
                            /\ ValidMessages(input.messages) /\ Unmarked(input.messages)

\* Under way, or one stage done.
Started == outputs # <<>> \/ pc \in Active

\* The texts of finished stages.
Texts == [tokens : Nat, chars : Nat, marked : BOOLEAN, skipped : BOOLEAN]

\* A finished stage wrote no more than was reserved for it, and only the debate
\* was skipped; a started request has stages left.
JobInv ==
    /\ request \in Requests /\ input \in Inputs
    /\ outputs \in Seq(Texts) /\ reply.text \in Seq(Symbols)
    /\ Started => Granted
    /\ Started /\ pc \notin {"done", "closed"} => Stage <= Len(Plan)
    /\ \A i \in DOMAIN outputs :
          /\ outputs[i].tokens <= Plan[i].output
          /\ outputs[i].skipped => IsUltra(request) /\ i = TeamSize[input] + 3
    /\ RoomWasReserved

\* The size of the team of a request.
LEMMA TeamNumbers ==
    ASSUME input \in Inputs
    PROVE  /\ TeamSize[input] = Len(Team(input.score, input.admission.agents))
           /\ TeamSize[input] \in Nat
           /\ input.admission.agents <= 5 => TeamSize[input] \in 0..5
BY TeamFits, AttemptAssumption DEF TeamSize, AttemptAssumption

\* The plan of a granted request.
LEMMA UltraPlanIs ==
    ASSUME request \in Requests, input \in Inputs, IsUltra(request), Granted
    PROVE  /\ TeamSize[input] \in 0..5 /\ input.admission.cap \in Nat
           /\ Len(Plan) = TeamSize[input] + 4
           /\ PerOperation(TeamSize[input], input.admission.cap) >= 512
           /\ \A k \in 1..Len(Plan) :
                Plan[k] = UltraOperation(TeamSize[input], k, input.admission.cap)
<1>1. UltraPlanned(request, input.admission, input.score)
  BY DEF Granted
<1>2. Admissible(input.admission, request.surface)
  BY <1>1, Zenon DEF UltraPlanned
<1>3. input.admission.agents <= 5 /\ input.admission.cap \in Nat
  <2>1. input.admission.agents <= 5 /\ input.admission.cap >= 4096
    BY <1>2 DEF Admissible
  <2> QED
    BY <2>1, AttemptAssumption DEF AttemptAssumption
<1>4. TeamSize[input] \in 0..5 /\ TeamSize[input] = Len(Team(input.score, input.admission.agents))
  BY <1>3, TeamNumbers
<1>5. PerOperation(TeamSize[input], input.admission.cap) >= 512
  BY <1>1, <1>4, Zenon DEF UltraPlanned
<1>6. Plan = [k \in 1..(TeamSize[input] + 4) |-> UltraOperation(TeamSize[input], k, input.admission.cap)]
  BY Zenon DEF Plan, Operations
<1>7. TeamSize[input] + 4 \in Nat
  BY <1>4
<1>8. Len(Plan) = TeamSize[input] + 4
  BY <1>6, <1>7
<1> QED
  BY <1>3, <1>4, <1>5, <1>6, <1>8

\* The same for a Core request.
LEMMA CorePlanIs ==
    ASSUME request \in Requests, input \in Inputs, ~IsUltra(request), Granted
    PROVE  /\ Known(request) /\ Resolved(request)
           /\ FinalStage(request) \in Nat /\ Len(Plan) = FinalStage(request)
           /\ \A k \in 1..Len(Plan) : Plan[k] = Operation(request, k)
<1>1. Known(request) /\ Resolved(request)
  BY DEF Granted, Planned, Resolved
<1>2. FinalStage(request) \in Nat
  BY <1>1, PolicyFits
<1>3. Plan = [k \in 1..FinalStage(request) |-> Operation(request, k)]
  BY Zenon DEF Plan, Operations
<1> QED
  BY <1>1, <1>2, <1>3

\* What an operation may write.
LEMMA RoomIs ==
    ASSUME request \in Requests, input \in Inputs, Granted, NEW k \in 1..Len(Plan)
    PROVE  Plan[k].output \in Nat /\ Plan[k].output > 0
<1>1. CASE IsUltra(request)
  <2> DEFINE n == TeamSize[input]
             cap == input.admission.cap
  <2>1. n \in 0..5 /\ cap \in Nat /\ PerOperation(n, cap) >= 512 /\ Plan[k] = UltraOperation(n, k, cap)
    BY <1>1, UltraPlanIs
  <2>2. PerOperation(n, cap) \in Int
    <3> HIDE DEF n, cap
    <3> QED
      BY <2>1, PerOperationBound
  <2>3. Plan[k].output = PerOperation(n, cap)
    <3> HIDE DEF n, cap
    <3> QED
      BY <2>1 DEF UltraOperation
  <2> HIDE DEF n, cap
  <2>4. PerOperation(n, cap) > 0
    BY <2>1, <2>2
  <2> QED
    BY <2>2, <2>3, <2>4
<1>2. CASE ~IsUltra(request)
  <2>1. Plan[k].output = OutputLimit(request, k) /\ Known(request)
    <3>1. Plan[k] = Operation(request, k) /\ Known(request)
      BY <1>2, CorePlanIs
    <3>2. Operation(request, k).output = OutputLimit(request, k)
      BY DEF Operation
    <3> QED
      BY <3>1, <3>2
  <2>2. OutputLimit(request, k) \in Nat /\ 1 <= OutputLimit(request, k)
    BY <2>1, OutputFits
  <2> QED
    BY <2>1, <2>2
<1> QED
  BY <1>1, <1>2

\* A stage that was reached is asked for if it can be bound to what it reads.
LEMMA LaterStagesAreAsked ==
    ASSUME JobInv, Granted, Stage <= Len(Plan), Bindable(Prior)
    PROVE  Asked(Slot(request))
<1> USE DEF JobInv
<1>1. Len(outputs) \in Nat /\ DOMAIN outputs = 1..Len(outputs) /\ Stage = Len(outputs) + 1 /\ Stage \in Nat
  BY DEF Stage
<1>2. Snapshot(Plan, input.limits)
  BY DEF Granted
<1>3. CASE IsUltra(request)
  <2> DEFINE n == TeamSize[input]
             cap == input.admission.cap
             a == Artifacts(n, Stage)
             prior == SubSeq(outputs, 1, a)
  <2>1. /\ n \in 0..5 /\ cap \in Nat /\ Len(Plan) = n + 4 /\ PerOperation(n, cap) >= 512
        /\ \A k \in 1..Len(Plan) : Plan[k] = UltraOperation(n, k, cap)
    BY <1>3, UltraPlanIs
  <2>2. Stage \in 1..(n + 4)
    BY <1>1, <2>1
  <2>3. a \in Nat /\ a <= Len(outputs)
    BY <1>1, <2>1 DEF Artifacts
  <2>4. DOMAIN prior = 1..a /\ \A i \in 1..a : prior[i] = outputs[i]
    <3> HIDE DEF a
    <3> QED
      BY <2>3
  <2>5. \A i \in 1..a : /\ prior[i].tokens \in 0..PerOperation(n, cap)
                        /\ prior[i].skipped => i = n + 3
    <3> SUFFICES ASSUME NEW i \in 1..a
                 PROVE  /\ outputs[i].tokens \in 0..PerOperation(n, cap)
                        /\ outputs[i].skipped => i = n + 3
      BY <2>4
    <3>1. i \in DOMAIN outputs /\ i \in 1..Len(Plan)
      BY <1>1, <2>1, <2>2, <2>3
    <3>2. Plan[i].output = PerOperation(n, cap)
      <4>1. Plan[i] = UltraOperation(n, i, cap)
        BY <2>1, <3>1
      <4> HIDE DEF n, cap, prior, a
      <4> QED
        BY <4>1 DEF UltraOperation
    <3>3. outputs[i].tokens \in Nat /\ PerOperation(n, cap) \in Int
      <4>1. outputs[i] \in Texts
        BY <3>1
      <4>2. PerOperation(n, cap) \in Int
        <5> HIDE DEF n, cap
        <5> QED
          BY <2>1, PerOperationBound
      <4> QED
        BY <4>1, <4>2 DEF Texts
    <3> QED
      BY <3>1, <3>2, <3>3
  <2>6. Bindable(prior) /\ prior = Prior
    BY <1>3 DEF Prior
  <2>7. ValidConversation(input.messages)
    BY <1>3 DEF Granted
  <2>8. UltraBound(n, Stage, cap, input.messages, Prior)
    <3> HIDE DEF n, cap, prior
    <3> QED
      BY <2>1, <2>2, <2>4, <2>5, <2>6, <2>7, UltraRoom
  <2> QED
    BY <1>2, <1>3, <2>8, Zenon DEF Asked, Granted
<1>4. CASE ~IsUltra(request)
  <2>1. /\ Known(request) /\ Resolved(request) /\ FinalStage(request) \in Nat
        /\ Len(Plan) = FinalStage(request)
        /\ \A k \in 1..Len(Plan) : Plan[k] = Operation(request, k)
    BY <1>4, CorePlanIs
  <2>2. Stage \in 1..FinalStage(request)
    BY <1>1, <2>1
  <2>3. DOMAIN outputs = 1..(Stage - 1)
    BY <1>1
  <2>4. \A i \in DOMAIN outputs : outputs[i].tokens \in 0..OutputLimit(request, i) /\ ~outputs[i].skipped
    <3> SUFFICES ASSUME NEW i \in DOMAIN outputs
                 PROVE  outputs[i].tokens \in 0..OutputLimit(request, i) /\ ~outputs[i].skipped
      OBVIOUS
    <3>1. i \in 1..Len(Plan)
      BY <2>1, <2>2, <2>3
    <3>2. Plan[i].output = OutputLimit(request, i)
      BY <2>1, <3>1 DEF Operation
    <3>3. outputs[i].tokens \in Nat /\ OutputLimit(request, i) \in Nat
      <4>1. outputs[i] \in Texts
        OBVIOUS
      <4>2. OutputLimit(request, i) \in Nat
        BY <2>1, OutputFits
      <4> QED
        BY <4>1, <4>2 DEF Texts
    <3> QED
      BY <1>4, <3>2, <3>3
  <2>5. PICK k \in 1..FinalStage(request) : k = Stage
    BY <2>2
  <2>6. Bound(request, k, input.messages, outputs)
    <3>1. Planned(request, Slot(request)) /\ Unmarked(input.messages) /\ Bindable(outputs)
      BY <1>4 DEF Granted, Prior
    <3> QED
      BY <2>3, <2>4, <2>5, <3>1, CoreRoom
  <2>7. Room = Operation(request, k).output
    BY <2>1, <2>2, <2>5 DEF Room
  <2>8. ValidInput(JobInput)
    <3>1. Room \in Nat /\ 1 <= Room /\ Room <= 32768
      BY <2>1, <2>7, OutputFits DEF Operation
    <3>5. Policy(request).effort \in {"low", "medium", "xhigh"}
      BY <2>1, PolicyFits
    <3>6. JobInput.messages = input.messages /\ JobInput.effort = Policy(request).effort /\ JobInput.output = Room
      BY DEF JobInput
    <3>7. ValidMessages(input.messages)
      BY <1>4 DEF Granted
    <3> QED
      BY <3>1, <3>5, <3>6, <3>7 DEF ValidInput
  <2>9. ValidContext(request, Stages(request)[k], k = FinalStage(request))
    BY <2>1 DEF ValidContext
  <2>10. Requested(request, k, JobInput, Slot(request), Prior)
    <3>1. /\ JobInput.effort = Policy(request).effort /\ JobInput.output = Operation(request, k).output
          /\ JobInput.messages = input.messages /\ Prior = outputs
      BY <1>4, <2>7 DEF JobInput, Prior
    <3> QED
      BY <1>4, <2>6, <2>8, <2>9, <3>1, Zenon DEF Requested, Granted
  <2> QED
    BY <1>2, <1>4, <2>5, <2>10, Zenon DEF Asked
<1> QED
  BY <1>3, <1>4

\* A step that touches neither the request nor what its stages wrote, and that
\* neither starts an attempt nor refuses one.
JobIsLeft ==
    /\ UNCHANGED <<request, input, outputs, evidence>>
    /\ pc' \in Active => pc \in Active
    /\ pc' = "refused" => pc = "refused"
    /\ pc' \notin {"done", "closed"} => pc \notin {"done", "closed"}

\* Every other step is one of four.
LEMMA StepsOfAJob ==
    ASSUME [AttemptNext]_attemptVars
    PROVE  \/ \E model \in Model : Begin(model) \/ Refuse(model)
           \/ Accept \/ SkipDebate \/ JobIsLeft
<1> USE DEF JobIsLeft, Active, Running
<1>1. ASSUME Raise, Quiet, pc \in Running PROVE JobIsLeft
  BY <1>1 DEF Raise, Quiet, jobVars
<1>2. CASE Call
  BY <1>1, <1>2 DEF Call, Quiet, jobVars
<1>3. CASE AskIdentity \/ Connect \/ Send \/ Respond
  BY <1>3 DEF AskIdentity, Connect, Send, Respond, Quiet, jobVars
<1>4. CASE Breaks \/ Expire
  BY <1>1, <1>4 DEF Breaks, Expire
<1>5. ASSUME NEW t \in Tokens, IdentityAnswers(t) PROVE JobIsLeft
  BY <1>1, <1>5 DEF IdentityAnswers, Quiet, jobVars
<1>6. ASSUME NEW c \in Chunks, ReadChunk(c) PROVE JobIsLeft
  <2>1. pc = "read" /\ Quiet /\ (pc' = pc \/ Raise)
    BY <1>6 DEF ReadChunk, Reads
  <2> QED
    BY <1>1, <2>1 DEF Quiet, jobVars
<1>7. ASSUME NEW c \in Chunks, ReadObject(c) PROVE JobIsLeft
  BY <1>7 DEF ReadObject, Reads, Quiet, jobVars
<1>8. CASE ReadDone \/ EndStream
  <2>1. pc = "read" /\ Quiet /\ (pc' \in {pc, "after"} \/ Raise)
    BY <1>8 DEF ReadDone, EndStream, Reads
  <2> QED
    BY <1>1, <2>1 DEF Quiet, jobVars
<1>9. CASE (\E probed \in BOOLEAN : Record(probed)) \/ Tick \/ Cancel \/ Replace
  BY <1>9 DEF Record, Tick, Cancel, Replace, jobVars
<1>10. CASE Withdraw
  BY <1>10 DEF Withdraw, Settle
<1>13. ASSUME NEW model \in Model, Unprobed(model) PROVE JobIsLeft
  BY <1>13 DEF Unprobed, jobVars
<1>11. ASSUME NEW idle \in {1, 2}, NEW billed \in {1, 2}, CloseLifecycle(idle, billed) PROVE JobIsLeft
  BY <1>11 DEF CloseLifecycle, jobVars
<1>12. CASE UNCHANGED attemptVars
  BY <1>12 DEF attemptVars, jobVars
<1> QED
  BY <1>2, <1>3, <1>4, <1>5, <1>6, <1>7, <1>8, <1>9, <1>10, <1>11, <1>12, <1>13 DEF AttemptNext

\* The values the job variables determine.
LEMMA JobValues ==
    ASSUME UNCHANGED <<request, input>>
    PROVE  UNCHANGED <<Plan, Granted, IsUltra(request), TeamSize[input]>>
<1>1. UNCHANGED Plan
  BY DEF Plan
<1> QED
  BY <1>1 DEF Granted, ValidProbe, IsUltra

\* What the later stages read does not change with it.
LEMMA PriorIsLeft ==
    ASSUME UNCHANGED <<request, input, outputs>>
    PROVE  UNCHANGED <<Prior, Stage>>
BY JobValues DEF Prior, Stage

\* They are texts.
LEMMA PriorIsText ==
    ASSUME JobInv, Stage <= Len(Plan), Granted
    PROVE  Prior \in Seq(Texts)
<1>1. outputs \in Seq(Texts) /\ Len(outputs) \in Nat /\ Stage = Len(outputs) + 1
  BY DEF JobInv, Stage
<1>2. CASE IsUltra(request)
  <2>1. TeamSize[input] \in 0..5
    BY <1>2, UltraPlanIs DEF JobInv
  <2>2. Artifacts(TeamSize[input], Stage) \in 0..Len(outputs)
    BY <1>1, <2>1 DEF Artifacts
  <2>3. ASSUME NEW a \in 0..Len(outputs) PROVE SubSeq(outputs, 1, a) \in Seq(Texts)
    BY <1>1
  <2> QED
    BY <1>2, <2>2, <2>3 DEF Prior
<1>3. CASE ~IsUltra(request)
  BY <1>1, <1>3 DEF Prior
<1> QED
  BY <1>2, <1>3

\* The reply is a text whatever is read.
LEMMA RepliesAreTexts ==
    ASSUME reply.text \in Seq(Symbols), [AttemptNext]_attemptVars
    PROVE  reply'.text \in Seq(Symbols)
<1>1. CASE Raise
  BY <1>1 DEF Raise, NoReply
<1>2. CASE UNCHANGED reply
  BY <1>2
<1>3. ASSUME NEW c \in Chunks,
             reply' = Accumulated(c) \/ reply' = [Accumulated(c) EXCEPT !.first = FALSE]
      PROVE  reply'.text \in Seq(Symbols)
  <2>1. reply'.text = reply.text \o c.text
    <3>1. CASE reply' = Accumulated(c)
      BY <3>1 DEF Accumulated
    <3>2. CASE reply' = [Accumulated(c) EXCEPT !.first = FALSE]
      BY <3>2 DEF Accumulated
    <3> QED
      BY <1>3, <3>1, <3>2
  <2>2. c.text \in Seq(Symbols)
    BY AttemptAssumption DEF AttemptAssumption
  <2> QED
    BY <2>1, <2>2
<1>4. ASSUME NEW model \in Model, Begin(model) \/ Refuse(model) \/ Unprobed(model)
      PROVE  reply'.text \in Seq(Symbols)
  <2>1. CASE Begin(model)
    <3>1. reply'.text = <<>>
      BY <2>1 DEF Begin, NoReply
    <3> QED
      BY <3>1
  <2>2. CASE Refuse(model) \/ Unprobed(model)
    BY <1>2, <2>2 DEF Refuse, Unprobed, replyVars
  <2> QED
    BY <1>4, <2>1, <2>2
<1>5. CASE Call \/ AskIdentity \/ Connect \/ Send \/ Respond \/ Breaks \/ Expire
  BY <1>1, <1>2, <1>5 DEF Call, AskIdentity, Connect, Send, Respond, Breaks, Expire, replyVars
<1>6. ASSUME NEW t \in Tokens, IdentityAnswers(t) PROVE reply'.text \in Seq(Symbols)
  BY <1>1, <1>2, <1>6 DEF IdentityAnswers
<1>7. ASSUME NEW c \in Chunks, ReadChunk(c) \/ ReadObject(c) PROVE reply'.text \in Seq(Symbols)
  <2>1. CASE ReadChunk(c)
    BY <1>1, <1>3, <2>1 DEF ReadChunk
  <2>2. CASE ReadObject(c)
    BY <1>3, <2>2 DEF ReadObject
  <2> QED
    BY <1>7, <2>1, <2>2
<1>8. CASE ReadDone \/ EndStream
  BY <1>1, <1>2, <1>8 DEF ReadDone, EndStream
<1>9. CASE (\E probed \in BOOLEAN : Record(probed)) \/ Accept \/ Withdraw \/ SkipDebate
  BY <1>2, <1>9 DEF Record, Accept, Withdraw, SkipDebate, Settle, replyVars
<1>10. ASSUME NEW idle \in {1, 2}, NEW billed \in {1, 2}, CloseLifecycle(idle, billed)
       PROVE  reply'.text \in Seq(Symbols)
  BY <1>2, <1>10 DEF CloseLifecycle, replyVars
<1>11. CASE Tick \/ Cancel \/ Replace \/ UNCHANGED attemptVars
  BY <1>2, <1>11 DEF Tick, Cancel, Replace, replyVars, attemptVars
<1> QED
  BY <1>4, <1>5, <1>6, <1>7, <1>8, <1>9, <1>10, <1>11 DEF AttemptNext

\* A stage leaves a text within its room, and never the artifact of one skipped.
LEMMA ContentIs ==
    ASSUME reply.text \in Seq(Symbols), Room \in Nat
    PROVE  Content(reply) \in Texts /\ Content(reply).tokens <= Room /\ ~Content(reply).skipped
<1>1. Len(reply.text) \in Nat /\ Occurs(Prefix, reply.text) \in BOOLEAN
  BY DEF Occurs
<1>2. CASE Visible(reply.text)
  <2> DEFINE l == Len(reply.text)
             o == Occurs(Prefix, reply.text)
  <2>1. Content(reply) = [tokens |-> Room, chars |-> l, marked |-> o, skipped |-> FALSE]
    BY <1>2 DEF Content
  <2>2. l \in Nat /\ o \in BOOLEAN
    BY <1>1
  <2> HIDE DEF l, o
  <2> QED
    BY <2>1, <2>2 DEF Texts
<1>3. CASE ~Visible(reply.text)
  <2>1. Content(reply) = [tokens |-> 0, chars |-> 0, marked |-> FALSE, skipped |-> FALSE]
    BY <1>3 DEF Content, Skipped
  <2> QED
    BY <2>1 DEF Texts
<1> QED
  BY <1>2, <1>3

\* A skipped stage leaves a text of its own.
LEMMA SkippedIs == Skipped \in Texts /\ Skipped.tokens = 0 /\ Skipped.skipped
BY DEF Skipped, Texts

\* The invariant holds when the request arrives.
LEMMA JobInit == AttemptInit => JobInv
BY DEF AttemptInit, JobInv, Started, RoomWasReserved, NoReply, Active, Running

\* Every step keeps it: a stage that is reached is asked for, unless a text it
\* reads cannot be bound.
LEMMA JobNext ==
    ASSUME JobInv, [AttemptNext]_attemptVars
    PROVE  JobInv'
<1> USE DEF JobInv
<1>0. /\ Len(outputs) \in Nat /\ DOMAIN outputs = 1..Len(outputs) /\ Stage = Len(outputs) + 1
      /\ reply'.text \in Seq(Symbols)
  BY RepliesAreTexts DEF Stage
<1>1. CASE JobIsLeft
  <2>1. UNCHANGED <<Plan, Granted, IsUltra(request), TeamSize[input], Prior>>
    BY <1>1, JobValues, PriorIsLeft DEF JobIsLeft
  <2> QED
    BY <1>0, <1>1, <2>1 DEF JobIsLeft, Started, Stage, RoomWasReserved
<1>2. ASSUME NEW model \in Model, Begin(model) PROVE JobInv'
  <2>1. UNCHANGED <<request, input, outputs>> /\ Asked(Slot(request)) /\ ValidProbe(Runtime[0])
        /\ pc = "idle" /\ pc' = "call"
    BY <1>2 DEF Begin, jobVars, Model
  <2>2. UNCHANGED <<Plan, Granted, IsUltra(request), TeamSize[input]>>
    BY <2>1, JobValues
  <2>3. Granted
    BY <2>1 DEF Granted, Asked, Requested, ValidInput, JobInput, Bound, UltraBound
  <2>4. Stage <= Len(Plan)
    <3>1. CASE outputs = <<>>
      <4>1. Len(Plan) \in 1..16
        BY <2>3, Zenon DEF Granted, Snapshot, Shaped
      <4>2. Stage = 1
        BY <3>1 DEF Stage
      <4>3. \A x \in 1..16 : 1 <= x
        OBVIOUS
      <4> QED
        BY <4>1, <4>2, <4>3, Zenon
    <3>2. CASE outputs # <<>>
      BY <2>1, <3>2 DEF Started
    <3> QED
      BY <3>1, <3>2
  <2> QED
    BY <1>0, <2>1, <2>2, <2>3, <2>4 DEF Stage, RoomWasReserved
<1>3. ASSUME NEW model \in Model, Refuse(model) PROVE JobInv'
  <2>1. UNCHANGED <<request, input, outputs>> /\ pc = "idle" /\ pc' = "refused" /\ ~Asked(Slot(request))
    BY <1>3 DEF Refuse, jobVars, Model
  <2>2. UNCHANGED <<Plan, Granted, IsUltra(request), TeamSize[input], Prior>>
    BY <2>1, JobValues, PriorIsLeft
  <2>3. ASSUME outputs # <<>> PROVE ~Bindable(Prior)
    <3>1. Granted /\ Stage <= Len(Plan)
      BY <2>1, <2>3 DEF Started
    <3> QED
      BY <2>1, <3>1, LaterStagesAreAsked
  <2>4. outputs # <<>> => \A i \in DOMAIN Prior : Prior[i].chars \in Nat
    <3> SUFFICES ASSUME outputs # <<>> PROVE \A i \in DOMAIN Prior : Prior[i].chars \in Nat
      OBVIOUS
    <3>1. Granted /\ Stage <= Len(Plan)
      BY <2>1 DEF Started
    <3>2. Prior \in Seq(Texts)
      BY <3>1, PriorIsText
    <3>3. ASSUME NEW i \in DOMAIN Prior PROVE Prior[i].chars \in Nat
      <4> HIDE DEF JobInv
      <4>1. PICK p \in Seq(Texts) : p = Prior
        BY <3>2
      <4>2. p[i] \in Texts
        BY <3>3, <4>1
      <4> QED
        BY <4>1, <4>2 DEF Texts
    <3> QED
      BY <3>3
  <2>5. RoomWasReserved'
    BY <2>1, <2>2, <2>3, <2>4 DEF RoomWasReserved, Bindable
  <2> QED
    BY <1>0, <2>1, <2>2, <2>5 DEF Stage, Started, Active, Running
<1>4. CASE Accept
  <2>1. /\ UNCHANGED <<request, input>> /\ pc = "returned"
        /\ outputs' = Append(outputs, Content(reply))
        /\ pc' = IF Public THEN "done" ELSE "idle"
    BY <1>4 DEF Accept, Settle
  <2>2. UNCHANGED <<Plan, Granted, IsUltra(request), TeamSize[input]>>
    BY <2>1, JobValues
  <2>3. Granted /\ Stage <= Len(Plan)
    BY <2>1 DEF Started, Active
  <2>4. Len(Plan) \in Nat
    <3>1. Len(Plan) \in 1..16
      BY <2>3, Zenon DEF Granted, Snapshot, Shaped
    <3> QED
      BY <3>1
  <2>5. Room \in Nat
    <3>1. Stage \in 1..Len(Plan)
      BY <1>0, <2>3, <2>4
    <3> QED
      BY <2>3, <3>1, RoomIs DEF Room
  <2>6. outputs' \in Seq(Texts) /\ Len(outputs') = Len(outputs) + 1
        /\ \A i \in DOMAIN outputs' :
              IF i = Stage THEN outputs'[i] = Content(reply) ELSE i \in DOMAIN outputs /\ outputs'[i] = outputs[i]
    <3>1. Content(reply) \in Texts
      BY <2>5, ContentIs
    <3> HIDE DEF JobInv
    <3>2. outputs \in Seq(Texts)
      BY DEF JobInv
    <3> QED
      BY <1>0, <2>1, <3>1, <3>2
  <2>7. Stage' = Stage + 1
    BY <1>0, <2>6 DEF Stage
  <2>8. pc' \notin {"done", "closed"} => Stage' <= Len(Plan')
    <3>1. ASSUME ~Public PROVE Stage + 1 <= Len(Plan)
      BY <1>0, <2>3, <2>4, <3>1 DEF Public
    <3> QED
      BY <2>1, <2>2, <2>7, <3>1
  <2>9. \A i \in DOMAIN outputs' :
          /\ outputs'[i].tokens <= Plan'[i].output
          /\ outputs'[i].skipped => IsUltra(request)' /\ i = (TeamSize[input])' + 3
    BY <2>2, <2>5, <2>6, ContentIs DEF Room
  <2>10. pc' # "refused"
    BY <2>1
  <2> QED
    BY <1>0, <2>1, <2>2, <2>3, <2>6, <2>8, <2>9, <2>10 DEF RoomWasReserved
<1>5. CASE SkipDebate
  <2>1. /\ UNCHANGED <<request, input, pc>> /\ pc = "idle" /\ Debating
        /\ outputs' = Append(outputs, Skipped)
    BY <1>5 DEF SkipDebate
  <2>2. UNCHANGED <<Plan, Granted, IsUltra(request), TeamSize[input]>>
    BY <2>1, JobValues
  <2>3. IsUltra(request) /\ TeamSize[input] \in Nat /\ Stage = TeamSize[input] + 3
    BY <2>1, TeamNumbers DEF Debating
  <2>4. outputs # <<>>
    BY <1>0, <2>3
  <2>5. Granted /\ Len(Plan) = TeamSize[input] + 4
    BY <2>3, <2>4, UltraPlanIs DEF Started
  <2>6. outputs' \in Seq(Texts) /\ Len(outputs') = Len(outputs) + 1
        /\ \A i \in DOMAIN outputs' :
              IF i = Stage THEN outputs'[i] = Skipped ELSE i \in DOMAIN outputs /\ outputs'[i] = outputs[i]
    <3> HIDE DEF JobInv
    <3>1. outputs \in Seq(Texts)
      BY DEF JobInv
    <3> QED
      BY <1>0, <2>1, <3>1, SkippedIs
  <2>7. Stage' <= Len(Plan')
    BY <1>0, <2>2, <2>3, <2>5, <2>6 DEF Stage
  <2>9. Plan[Stage].output \in Nat
    <3>1. Stage \in 1..Len(Plan)
      BY <1>0, <2>3, <2>5
    <3> QED
      BY <2>5, <3>1, RoomIs
  <2>8. \A i \in DOMAIN outputs' :
          /\ outputs'[i].tokens <= Plan'[i].output
          /\ outputs'[i].skipped => IsUltra(request)' /\ i = (TeamSize[input])' + 3
    BY <2>2, <2>3, <2>6, <2>9, SkippedIs
  <2> QED
    BY <1>0, <2>1, <2>2, <2>5, <2>6, <2>7, <2>8 DEF RoomWasReserved
<1> QED
  BY <1>1, <1>2, <1>3, <1>4, <1>5, StepsOfAJob

\* So it always holds.
LEMMA JobHolds == AttemptSpec => []JobInv
BY JobInit, JobNext, PTL DEF AttemptSpec

\* A later stage is refused only for a text it reads that is missing, too long or
\* has the prefix of a placeholder in it, whatever the plan, the prompt, the
\* character limits and the stages before it: never for tokens or context.
THEOREM LaterStagesFit == AttemptSpec => []RoomWasReserved
<1>1. JobInv => RoomWasReserved
  BY DEF JobInv
<1> QED
  BY <1>1, JobHolds, PTL

-----------------------------------------------------------------------------
(* The evidence of a debate.                                               *)

\* Two stages of the specialists, at least, are behind every recorded conflict.
LEMMA ConflictsAreBetweenTwo ==
    ASSUME NEW d \in Detections, NEW n \in Nat, ValidDisagreements(d, n), NEW i \in DOMAIN d
    PROVE  Cardinality(ToSet(d[i].stages)) >= 2 /\ ToSet(d[i].stages) \subseteq 1..n
<1> DEFINE s == d[i].stages
<1>1. s \in Seq(ToSet(s)) /\ Len(s) \in 2..5 /\ IsInjective(s) /\ ToSet(s) \subseteq 1..n
  BY AttemptAssumption DEF AttemptAssumption, ValidDisagreements
<1> HIDE DEF s
<1>2. 1 \in DOMAIN s /\ 2 \in DOMAIN s
  <2>1. DOMAIN s = 1..Len(s)
    BY <1>1
  <2> QED
    BY <1>1, <2>1
<1>3. s[1] # s[2] /\ {s[1]} \union {s[2]} \subseteq ToSet(s)
  BY <1>1, <1>2 DEF IsInjective, ToSet
<1>4. IsFiniteSet(ToSet(s))
  <2>1. IsFiniteSet(1..n)
    BY Intervals
  <2> QED
    BY <1>1, <2>1, FS_Subset
<1>5. IsFiniteSet({s[1]}) /\ Cardinality({s[1]}) = 1 /\ s[2] \notin {s[1]}
  BY <1>3, FS_Singleton
<1>6. Cardinality({s[1]} \union {s[2]}) = Cardinality({s[1]}) + 1
  BY <1>5, FS_AddElement
<1>7. Cardinality({s[1]} \union {s[2]}) <= Cardinality(ToSet(s))
  BY <1>3, <1>4, FS_Subset
<1>8. Cardinality(ToSet(s)) \in Nat
  BY <1>4, FS_CardinalityType
<1> QED
  BY <1>1, <1>5, <1>6, <1>7, <1>8 DEF s

\* What a valid judgement cites.
LEMMA CitedIsRecorded ==
    ASSUME NEW j \in Judgements, NEW d \in Detections, ValidJudgement(j, d), j.material
    PROVE  \E i \in DOMAIN d : d[i].id \in ToSet(j.refs)
<1>1. j.refs # <<>> /\ ToSet(j.refs) \subseteq {d[i].id : i \in DOMAIN d}
  BY DEF ValidJudgement
<1>2. j.refs \in Seq(ToSet(j.refs))
  BY AttemptAssumption DEF AttemptAssumption
<1>3. 1 \in DOMAIN j.refs
  BY <1>1, <1>2
<1>4. j.refs[1] \in ToSet(j.refs)
  BY <1>3 DEF ToSet
<1> QED
  BY <1>1, <1>4

\* A recorded conflict is cited.
Cites == \E cited \in evidence.cited : Cardinality(cited) >= 2 /\ cited \subseteq 1..TeamSize[input]

\* What the judge decided rests on what the check found, and stands until the
\* debate is over; a debate that runs was asked for after every specialist wrote.
DebateInv ==
    /\ evidence = [found |-> evidence.found, debate |-> evidence.debate, cited |-> evidence.cited]
    /\ Judging => /\ evidence.found \in Detections
                  /\ ValidDisagreements(evidence.found, TeamSize[input])
    /\ Debating /\ evidence.debate => Cites
    /\ Debating /\ pc \in Active => /\ evidence.debate
                                    /\ \A i \in 1..TeamSize[input] : outputs[i].chars > 0

\* Every step keeps it.
LEMMA DebateNext ==
    ASSUME JobInv, DebateInv, [AttemptNext]_attemptVars
    PROVE  DebateInv'
<1> USE DEF DebateInv
<1> DEFINE n == TeamSize[input]
<1>0. /\ request \in Requests /\ input \in Inputs /\ outputs \in Seq(Texts) /\ n \in Nat
      /\ Len(outputs) \in Nat /\ DOMAIN outputs = 1..Len(outputs) /\ Stage = Len(outputs) + 1
  BY TeamNumbers DEF Stage, JobInv
<1> HIDE DEF n
<1>1. CASE JobIsLeft
  <2>1. UNCHANGED <<Plan, Granted, IsUltra(request), TeamSize[input]>>
    BY <1>1, JobValues DEF JobIsLeft
  <2> QED
    BY <1>1, <2>1 DEF JobIsLeft, Stage, Judging, Debating, Cites
<1>2. ASSUME NEW model \in Model, Begin(model) PROVE DebateInv'
  <2>1. /\ UNCHANGED <<request, input, outputs, evidence>> /\ Asked(model)
        /\ Debating => evidence.debate
    BY <1>2 DEF Begin, jobVars
  <2>2. UNCHANGED <<Plan, Granted, IsUltra(request), TeamSize[input]>>
    BY <2>1, JobValues
  <2>3. ASSUME Debating, NEW i \in 1..n PROVE outputs[i].chars > 0
    <3> DEFINE prior == SubSeq(outputs, 1, Artifacts(n, Stage))
    <3>1. IsUltra(request) /\ Stage = n + 3
      BY <2>3 DEF Debating, n
    <3>2. UltraBound(n, Stage, input.admission.cap, input.messages, prior)
      BY <2>1, <3>1 DEF Asked, Prior, n
    <3>3. Artifacts(n, Stage) = n + 2 /\ Len(outputs) = n + 2
      BY <1>0, <3>1 DEF Artifacts
    <3>4. i \in DOMAIN prior /\ prior[i] = outputs[i] /\ i # n + 3
      BY <1>0, <2>3, <3>3
    <3> HIDE DEF prior
    <3> QED
      BY <3>2, <3>4 DEF UltraBound
  <2> QED
    BY <2>1, <2>2, <2>3 DEF Stage, Judging, Debating, Cites, n
<1>3. ASSUME NEW model \in Model, Refuse(model) PROVE DebateInv'
  <2>1. UNCHANGED <<request, input, outputs, evidence>> /\ pc' = "refused"
    BY <1>3 DEF Refuse, jobVars
  <2>2. UNCHANGED <<Plan, Granted, IsUltra(request), TeamSize[input]>>
    BY <2>1, JobValues
  <2> QED
    BY <2>1, <2>2 DEF Stage, Judging, Debating, Cites, Active, Running
<1>4. CASE Accept
  <2>1. /\ UNCHANGED <<request, input>> /\ pc' \notin Active
        /\ outputs' = Append(outputs, Content(reply))
    BY <1>4 DEF Accept, Settle, Active, Running
  <2>2. UNCHANGED <<Plan, Granted, IsUltra(request), TeamSize[input], n>>
    BY <2>1, JobValues DEF n
  <2>3. Stage' = Stage + 1
    BY <1>0, <2>1 DEF Stage
  <2>4. /\ Judging' <=> IsUltra(request) /\ Stage = n + 1
        /\ Debating' <=> IsUltra(request) /\ Stage = n + 2
    BY <1>0, <2>2, <2>3 DEF Judging, Debating, n
  <2>5. CASE Checking
    <3>1. PICK d \in Detections : ValidDisagreements(d, n) /\ evidence' = [evidence EXCEPT !.found = d]
      BY <1>0, <1>4, <2>5 DEF Accept, Checking, Judging, Debating, n
    <3>2. evidence'.found = d /\ evidence' = [found |-> evidence'.found, debate |-> evidence'.debate, cited |-> evidence'.cited]
      BY <3>1
    <3>3. ~Debating'
      BY <1>0, <2>4, <2>5 DEF Checking, n
    <3> QED
      BY <2>2, <3>1, <3>2, <3>3 DEF n
  <2>6. CASE Judging
    <3>1. PICK j \in Judgements : ValidJudgement(j, evidence.found) /\ evidence' = Judged(j)
      BY <1>0, <1>4, <2>6 DEF Accept, Checking, Judging, Debating, n
    <3> DEFINE C == {ToSet(evidence.found[i].stages) :
                      i \in {i \in DOMAIN evidence.found : evidence.found[i].id \in ToSet(j.refs)}}
    <3>2. evidence' = [found |-> evidence.found, debate |-> j.material, cited |-> C]
      BY <3>1 DEF Judged
    <3>3. ASSUME j.material PROVE \E cited \in C : Cardinality(cited) >= 2 /\ cited \subseteq 1..n
      <4>1. evidence.found \in Detections /\ ValidDisagreements(evidence.found, n)
        BY <2>6 DEF n
      <4>2. PICK d \in Detections : d = evidence.found
        BY <4>1
      <4>3. PICK i \in DOMAIN d : d[i].id \in ToSet(j.refs)
        BY <3>1, <3>3, <4>2, CitedIsRecorded
      <4>4. PICK m \in Nat : m = n
        BY <1>0
      <4>5. Cardinality(ToSet(d[i].stages)) >= 2 /\ ToSet(d[i].stages) \subseteq 1..m
        BY <4>1, <4>2, <4>4, ConflictsAreBetweenTwo
      <4> QED
        BY <4>2, <4>3, <4>4, <4>5
    <3> HIDE DEF C
    <3>4. ~Judging'
      BY <1>0, <2>4, <2>6 DEF Judging, n
    <3> QED
      BY <2>1, <2>2, <3>2, <3>3, <3>4 DEF Cites, n
  <2>7. CASE ~Checking /\ ~Judging
    <3>1. ~Judging' /\ ~Debating'
      BY <2>4, <2>7 DEF Checking, Judging, n
    <3>2. evidence' \in {NoEvidence, evidence}
      BY <1>4, <2>7 DEF Accept
    <3>3. evidence' = [found |-> evidence'.found, debate |-> evidence'.debate, cited |-> evidence'.cited]
      BY <3>2 DEF NoEvidence
    <3> QED
      BY <3>1, <3>3
  <2> QED
    BY <2>5, <2>6, <2>7
<1>5. CASE SkipDebate
  <2>1. /\ UNCHANGED <<request, input>> /\ Debating /\ evidence' = NoEvidence
        /\ outputs' = Append(outputs, Skipped)
    BY <1>5 DEF SkipDebate
  <2>2. UNCHANGED <<Plan, Granted, IsUltra(request), TeamSize[input]>>
    BY <2>1, JobValues
  <2>3. Stage' = Stage + 1
    BY <1>0, <2>1 DEF Stage
  <2>4. ~Judging' /\ ~Debating'
    BY <1>0, <2>1, <2>2, <2>3 DEF Judging, Debating, n
  <2> QED
    BY <2>1, <2>4 DEF NoEvidence
<1> QED
  BY <1>1, <1>2, <1>3, <1>4, <1>5, StepsOfAJob

\* It holds when the request arrives, so it always holds.
LEMMA DebateInit == AttemptInit => DebateInv
<1> SUFFICES ASSUME AttemptInit PROVE DebateInv
  OBVIOUS
<1>1. TeamSize[input] \in Nat
  BY TeamNumbers DEF AttemptInit
<1>2. ~Judging /\ ~Debating
  BY <1>1 DEF AttemptInit, Judging, Debating, Stage
<1> QED
  BY <1>2 DEF AttemptInit, DebateInv, NoEvidence

\* Together with JobInv.
LEMMA DebateHolds == AttemptSpec => []DebateInv
BY DebateInit, DebateNext, JobHolds, PTL DEF AttemptSpec

\* A debate that runs is about a conflict of two specialists at least, who wrote.
THEOREM DebatesAreGrounded == AttemptSpec => []DebateIsGrounded
<1>1. JobInv /\ DebateInv => DebateIsGrounded
  <2> SUFFICES ASSUME JobInv, DebateInv, Debating, pc \in Active
               PROVE  \E cited \in evidence.cited :
                        /\ Cardinality(cited) >= 2
                        /\ \A i \in cited : i <= TeamSize[input] /\ outputs[i].chars > 0
    BY DEF DebateIsGrounded
  <2>1. TeamSize[input] \in Nat
    BY TeamNumbers DEF JobInv
  <2>2. PICK cited \in evidence.cited : Cardinality(cited) >= 2 /\ cited \subseteq 1..TeamSize[input]
    BY DEF DebateInv, Cites
  <2>3. ASSUME NEW i \in cited PROVE i <= TeamSize[input] /\ outputs[i].chars > 0
    <3>1. i \in 1..TeamSize[input]
      BY <2>2, <2>3
    <3> QED
      BY <2>1, <3>1 DEF DebateInv
  <2> QED
    BY <2>2, <2>3
<1> QED
  BY <1>1, JobHolds, DebateHolds, PTL

-----------------------------------------------------------------------------
(* The text that is shown.                                                 *)

\* A bounded set of numbers has a largest element.
LEMMA LargestOfBounded ==
    ASSUME NEW n \in Nat, NEW S \in SUBSET (0..n), S # {}
    PROVE  Max(S) \in S /\ \A x \in S : x <= Max(S)
<1> DEFINE R == OpToRel(<, Nat)
           B == {n - x : x \in S}
<1>1. IsWellFoundedOn(R, Nat)
  BY NatLessThanWellFounded
<1>2. B \in SUBSET Nat /\ B # {}
  <2>1. \A x \in S : x \in 0..n /\ n - x \in Nat
    OBVIOUS
  <2>2. PICK x \in S : TRUE
    OBVIOUS
  <2> QED
    BY <2>1, <2>2
<1>3. \E b \in B : \A c \in B : <<c, b>> \notin R
  <2> HIDE DEF B, R
  <2> QED
    BY <1>1, <1>2, WFMin
<1>4. PICK b \in B : \A c \in B : ~(c < b)
  <2>1. \A b, c \in Nat : c < b => <<c, b>> \in R
    BY DEF OpToRel
  <2> HIDE DEF B, R
  <2> QED
    BY <1>2, <1>3, <2>1
<1>5. PICK x \in S : b = n - x
  OBVIOUS
<1>6. \A y \in S : y <= x
  <2> SUFFICES ASSUME NEW y \in S PROVE y <= x
    OBVIOUS
  <2>1. n - y \in B
    OBVIOUS
  <2>2. ~(n - y < n - x)
    BY <1>4, <1>5, <2>1
  <2>3. x \in Int /\ y \in Int
    OBVIOUS
  <2> HIDE DEF B
  <2> QED
    BY <2>2, <2>3
<1>7. \E z \in S : \A y \in S : z >= y
  BY <1>6
<1> QED
  BY <1>7 DEF Max

\* Two texts that agree at the end.
LEMMA SuffixIs ==
    ASSUME NEW A, NEW s \in Seq(A), NEW t \in Seq(A), Len(s) <= Len(t),
           \A i \in 1..Len(s) : s[i] = t[Len(t) - Len(s) + i]
    PROVE  IsSuffix(s, t)
<1> DEFINE x == Reverse(s)
           y == Reverse(t)
<1>1. x = [i \in 1..Len(s) |-> s[(Len(s) - i) + 1]] /\ y = [i \in 1..Len(t) |-> t[(Len(t) - i) + 1]]
  BY DEF Reverse
<1>2. x \in Seq(A) /\ y \in Seq(A) /\ Len(x) = Len(s) /\ Len(y) = Len(t)
  BY <1>1
<1>3. \A i \in 1..Len(x) : x[i] = y[i]
  <2> SUFFICES ASSUME NEW i \in 1..Len(s) PROVE x[i] = y[i]
    BY <1>2
  <2>1. Len(s) \in Nat /\ Len(t) \in Nat /\ (Len(s) - i) + 1 \in 1..Len(s) /\ i \in 1..Len(t)
    OBVIOUS
  <2>2. Len(t) - Len(s) + ((Len(s) - i) + 1) = (Len(t) - i) + 1
    BY <2>1
  <2> QED
    BY <1>1, <2>1, <2>2
<1> HIDE DEF x, y
<1>4. SubSeq(x, 1, Len(x)) = SubSeq(y, 1, Len(x))
  BY <1>2, <1>3
<1> QED
  BY <1>2, <1>4 DEF IsSuffix, IsPrefix, x, y

\* What is held back is at least every beginning of a marker at the end.
LEMMA HoldIs ==
    ASSUME NEW text \in Seq(Symbols)
    PROVE  /\ Hold(text) \in 0..Len(text)
           /\ \A n \in 1..Len(text), m \in Marker :
                 n < Len(m) /\ IsSuffix(SubSeq(m, 1, n), text) => n <= Hold(text)
<1> DEFINE S == {0} \union {n \in 1..Len(text) : \E m \in Marker :
                                n < Len(m) /\ IsSuffix(SubSeq(m, 1, n), text)}
<1>1. Len(text) \in Nat /\ S \in SUBSET (0..Len(text)) /\ S # {}
  OBVIOUS
<1>2. Max(S) \in S /\ \A x \in S : x <= Max(S)
  <2> HIDE DEF S
  <2> QED
    BY <1>1, LargestOfBounded
<1>3. Hold(text) = Max(S)
  BY DEF Hold
<1>4. \A n \in 1..Len(text), m \in Marker : n < Len(m) /\ IsSuffix(SubSeq(m, 1, n), text) => n \in S
  OBVIOUS
<1> HIDE DEF S
<1> QED
  BY <1>1, <1>2, <1>3, <1>4

\* The marker does not start at the place, whatever text follows.
Diverges(m, text, place) ==
    \E t \in 1..Len(m) : place + t - 1 <= Len(text) /\ text[place + t - 1] # m[t]

\* No marker can start in what is not held back.
LEMMA NothingStartsBeforeHold ==
    ASSUME NEW text \in Seq(Symbols), ~Hidden(text), NEW r \in 1..(Len(text) - Hold(text)), NEW m \in Marker
    PROVE  Diverges(m, text, r)
<1> SUFFICES ASSUME \A t \in 1..Len(m) : r + t - 1 <= Len(text) => text[r + t - 1] = m[t]
             PROVE  FALSE
  BY DEF Diverges
<1>1. /\ m \in Seq(Symbols) /\ Len(m) \in Nat /\ Len(m) > 1 /\ Len(text) \in Nat
      /\ Hold(text) \in 0..Len(text) /\ r \in Nat /\ r >= 1 /\ r <= Len(text) - Hold(text)
  BY HoldIs, AttemptAssumption DEF AttemptAssumption
<1> DEFINE n == Len(text) - r + 1
<1>2. n \in 1..Len(text) /\ n > Hold(text)
  BY <1>1
<1>3. CASE n >= Len(m)
  <2>1. r \in 1..(Len(text) - Len(m) + 1) /\ r + Len(m) - 1 <= Len(text)
    BY <1>1, <1>3
  <2>2. SubSeq(text, r, r + Len(m) - 1) = m
    <3> DEFINE u == SubSeq(text, r, r + Len(m) - 1)
    <3>1. u \in Seq(Symbols) /\ Len(u) = Len(m)
      BY <1>1, <2>1
    <3>2. \A t \in 1..Len(m) : u[t] = m[t]
      BY <1>1, <2>1
    <3> HIDE DEF u
    <3>3. DOMAIN u = 1..Len(m) /\ DOMAIN m = 1..Len(m)
      BY <1>1, <3>1
    <3>4. u = m
      BY <1>1, <3>1, <3>2, <3>3
    <3> QED
      BY <3>4 DEF u
  <2>3. Occurs(m, text)
    BY <2>1, <2>2 DEF Occurs
  <2> QED
    BY <2>3 DEF Hidden
<1>4. CASE n < Len(m)
  <2> DEFINE s == SubSeq(m, 1, n)
  <2>1. s \in Seq(Symbols) /\ Len(s) = n /\ \A i \in 1..n : s[i] = m[i]
    BY <1>1, <1>2, <1>4
  <2>2. \A i \in 1..n : i \in 1..Len(m) /\ r + i - 1 <= Len(text) /\ r + i - 1 = Len(text) - n + i
    BY <1>1, <1>2, <1>4
  <2>3. \A i \in 1..Len(s) : s[i] = text[Len(text) - Len(s) + i]
    <3> HIDE DEF s, n
    <3> QED
      BY <2>1, <2>2
  <2>4. Len(s) <= Len(text)
    BY <1>2, <2>1
  <2>5. IsSuffix(s, text)
    <3> HIDE DEF s
    <3> QED
      BY <2>1, <2>3, <2>4, SuffixIs
  <2> HIDE DEF n
  <2>6. n <= Hold(text)
    BY <1>2, <1>4, <2>5, HoldIs
  <2> QED
    BY <1>1, <1>2, <2>6
<1> QED
  BY <1>1, <1>2, <1>3, <1>4

\* A divergence is not undone by what comes after it or before it.
LEMMA DivergenceStays ==
    ASSUME NEW m \in Marker, NEW u \in Seq(Symbols), NEW v \in Seq(Symbols)
    PROVE  /\ \A s \in Nat \ {0} : Diverges(m, u, s) => Diverges(m, u \o v, s)
           /\ \A r \in Nat \ {0} : Diverges(m, v, r) => Diverges(m, u \o v, Len(u) + r)
<1>1. Len(m) \in Nat /\ Len(u) \in Nat /\ Len(v) \in Nat /\ Len(u \o v) = Len(u) + Len(v)
  BY AttemptAssumption DEF AttemptAssumption
<1>2. ASSUME NEW s \in Nat \ {0}, Diverges(m, u, s) PROVE Diverges(m, u \o v, s)
  <2>1. PICK t \in 1..Len(m) : s + t - 1 <= Len(u) /\ u[s + t - 1] # m[t]
    BY <1>2 DEF Diverges
  <2>2. s + t - 1 <= Len(u \o v) /\ s + t - 1 \in 1..Len(u)
    BY <1>1, <2>1
  <2>3. (u \o v)[s + t - 1] = u[s + t - 1]
    BY <1>1, <2>2
  <2> QED
    BY <2>1, <2>2, <2>3 DEF Diverges
<1>3. ASSUME NEW r \in Nat \ {0}, Diverges(m, v, r) PROVE Diverges(m, u \o v, Len(u) + r)
  <2>1. PICK t \in 1..Len(m) : r + t - 1 <= Len(v) /\ v[r + t - 1] # m[t]
    BY <1>3 DEF Diverges
  <2> DEFINE p == r + t - 1
  <2>2. p \in 1..Len(v) /\ Len(u) + r + t - 1 = Len(u) + p
    BY <1>1, <2>1
  <2>3. (u \o v)[Len(u) + p] = v[p] /\ Len(u) + p <= Len(u \o v)
    <3> HIDE DEF p
    <3> QED
      BY <1>1, <2>2
  <2> QED
    BY <2>1, <2>2, <2>3 DEF Diverges
<1> QED
  BY <1>2, <1>3

\* Text in which no marker can start shows none.
LEMMA DivergentIsNotHidden ==
    ASSUME NEW u \in Seq(Symbols), NEW v \in Seq(Symbols),
           \A s \in 1..Len(u), m \in Marker : Diverges(m, u \o v, s)
    PROVE  ~Hidden(u)
<1> SUFFICES ASSUME NEW m \in Marker, NEW i \in 1..(Len(u) - Len(m) + 1),
                    SubSeq(u, i, i + Len(m) - 1) = m
             PROVE  FALSE
  BY DEF Hidden, Occurs
<1>1. Len(m) \in Nat /\ Len(m) > 1 /\ Len(u) \in Nat /\ i \in Nat /\ i >= 1 /\ i + Len(m) - 1 <= Len(u)
  BY AttemptAssumption DEF AttemptAssumption
<1>2. PICK t \in 1..Len(m) : (u \o v)[i + t - 1] # m[t]
  <2>1. i \in 1..Len(u)
    BY <1>1
  <2>2. Diverges(m, u \o v, i)
    BY <2>1
  <2> QED
    BY <2>2 DEF Diverges
<1>3. i + t - 1 \in 1..Len(u)
  BY <1>1
<1>4. (u \o v)[i + t - 1] = u[i + t - 1]
  BY <1>3
<1>5. SubSeq(u, i, i + Len(m) - 1)[t] = u[i + t - 1]
  BY <1>1, <1>3
<1> QED
  BY <1>2, <1>4, <1>5

\* Texts can be put together in any order.
LEMMA Together ==
    ASSUME NEW A, NEW u \in Seq(A), NEW v \in Seq(A), NEW w \in Seq(A)
    PROVE  /\ (u \o v) \o w = u \o (v \o w)
           /\ u \o v \in Seq(A) /\ Len(u \o v) = Len(u) + Len(v)
<1>1. Len(u) \in Nat /\ Len(v) \in Nat /\ Len(w) \in Nat
  OBVIOUS
<1>2. /\ u \o v \in Seq(A) /\ Len(u \o v) = Len(u) + Len(v)
      /\ v \o w \in Seq(A) /\ Len(v \o w) = Len(v) + Len(w)
  OBVIOUS
<1> DEFINE l == (u \o v) \o w
           r == u \o (v \o w)
<1>3. /\ l \in Seq(A) /\ Len(l) = Len(u) + Len(v) + Len(w)
      /\ r \in Seq(A) /\ Len(r) = Len(u) + Len(v) + Len(w)
  BY <1>1, <1>2
<1>4. ASSUME NEW i \in 1..(Len(u) + Len(v) + Len(w)) PROVE l[i] = r[i]
  <2>1. CASE i <= Len(u)
    <3>1. l[i] = (u \o v)[i] /\ r[i] = u[i]
      BY <1>1, <1>2, <2>1
    <3> QED
      BY <1>1, <2>1, <3>1
  <2>2. CASE i > Len(u) /\ i <= Len(u) + Len(v)
    <3>1. l[i] = (u \o v)[i] /\ r[i] = (v \o w)[i - Len(u)]
      BY <1>1, <1>2, <2>2
    <3>2. (u \o v)[i] = v[i - Len(u)] /\ (v \o w)[i - Len(u)] = v[i - Len(u)]
      BY <1>1, <2>2
    <3> QED
      BY <3>1, <3>2
  <2>3. CASE i > Len(u) + Len(v)
    <3>1. l[i] = w[i - (Len(u) + Len(v))] /\ r[i] = (v \o w)[i - Len(u)]
      BY <1>1, <1>2, <2>3
    <3>2. (v \o w)[i - Len(u)] = w[(i - Len(u)) - Len(v)]
      BY <1>1, <2>3
    <3> QED
      BY <1>1, <3>1, <3>2
  <2> QED
    BY <1>1, <2>1, <2>2, <2>3
<1> HIDE DEF l, r
<1>5. l = r
  BY <1>1, <1>3, <1>4
<1> QED
  BY <1>2, <1>5 DEF l, r

\* A text is its front and its back.
LEMMA FrontAndBack ==
    ASSUME NEW A, NEW t \in Seq(A), NEW k \in 0..Len(t)
    PROVE  /\ SubSeq(t, 1, k) \in Seq(A) /\ Len(SubSeq(t, 1, k)) = k
           /\ SubSeq(t, k + 1, Len(t)) \in Seq(A)
           /\ SubSeq(t, 1, k) \o SubSeq(t, k + 1, Len(t)) = t
<1> DEFINE front == SubSeq(t, 1, k)
           back == SubSeq(t, k + 1, Len(t))
<1>1. Len(t) \in Nat /\ k \in Nat /\ k <= Len(t)
  OBVIOUS
<1>2. front \in Seq(A) /\ Len(front) = k
  BY <1>1
<1>3. back \in Seq(A) /\ Len(back) = Len(t) - k
  BY <1>1
<1>4. \A i \in 1..k : front[i] = t[i]
  BY <1>1
<1>5. \A i \in 1..(Len(t) - k) : back[i] = t[i + k]
  BY <1>1
<1> HIDE DEF front, back
<1> DEFINE both == front \o back
<1>6. both \in Seq(A) /\ Len(both) = Len(t)
  BY <1>1, <1>2, <1>3
<1>7. ASSUME NEW i \in 1..Len(t) PROVE both[i] = t[i]
  <2>1. CASE i <= k
    BY <1>1, <1>2, <1>3, <1>4, <2>1
  <2>2. CASE i > k
    <3>1. both[i] = back[i - k]
      BY <1>1, <1>2, <1>3, <2>2
    <3>2. i - k \in 1..(Len(t) - k) /\ (i - k) + k = i
      BY <1>1, <2>2
    <3> HIDE DEF both
    <3> QED
      BY <1>5, <3>1, <3>2
  <2> HIDE DEF both
  <2> QED
    BY <1>1, <2>1, <2>2
<1> HIDE DEF both
<1>8. both = t
  BY <1>1, <1>6, <1>7
<1> QED
  BY <1>2, <1>3, <1>8 DEF front, back, both

\* While a public reply is read, what was shown and what is held back make up
\* what was read, and no marker starts anywhere in what was shown, whatever is
\* read next.
TextInv ==
    /\ shown \in Seq(Symbols) /\ pending \in Seq(Symbols) /\ reply.text \in Seq(Symbols)
    /\ ~Hidden(shown)
    /\ pc \in Running /\ Public =>
          /\ reply.text = shown \o pending
          /\ \A s \in 1..Len(shown), m \in Marker : Diverges(m, shown \o pending, s)
    /\ pc \in {"after", "returned"} /\ ~failed /\ Public => shown = reply.text
    /\ record = "success" /\ Stage > Len(Plan) => shown = reply.text
    /\ pc \in Active /\ ~Public => shown = <<>>

\* An empty text hides nothing.
LEMMA EmptyIsNotHidden == ~Hidden(<<>>)
<1>1. \A m \in Marker : Len(m) \in Nat /\ Len(m) > 1
  BY AttemptAssumption DEF AttemptAssumption
<1> QED
  BY <1>1 DEF Hidden, Occurs

\* The invariant holds when the request arrives.
LEMMA TextInit == AttemptInit => TextInv
<1> SUFFICES ASSUME AttemptInit PROVE TextInv
  OBVIOUS
<1>1. shown = <<>> /\ pending = <<>> /\ reply.text = <<>>
  BY DEF AttemptInit, NoReply
<1>2. ~Hidden(shown)
  BY <1>1, EmptyIsNotHidden
<1> QED
  BY <1>1, <1>2 DEF AttemptInit, TextInv, Active, Running

\* A step that reads nothing.
TextIsLeft ==
    /\ UNCHANGED <<request, input, outputs, shown, pending, reply, failed>>
    /\ pc' \in Active => pc \in Active
    /\ pc' \in Running => pc \in Running
    /\ pc' \in {"after", "returned"} => pc \in {"after", "returned"}
    /\ record' = "success" => record = "success" \/ pc \in Active

\* A step in which the call raises.
TextIsDropped ==
    /\ UNCHANGED <<request, input, outputs, shown, record>>
    /\ pc \in Running /\ Raise

\* Every other step is one of these.
LEMMA StepsOfText ==
    ASSUME [AttemptNext]_attemptVars
    PROVE  \/ \E model \in Model : Begin(model)
           \/ Accept \/ SkipDebate \/ TextIsLeft \/ TextIsDropped
           \/ \E c \in Chunks : (ReadChunk(c) /\ ~Raise) \/ ReadObject(c)
           \/ EndStream /\ ~Raise
<1> USE DEF Active, Running
<1>1. ASSUME Raise, Quiet, UNCHANGED shown, pc \in Running PROVE TextIsDropped
  BY <1>1 DEF TextIsDropped, Quiet, jobVars
<1>2. CASE Call
  BY <1>1, <1>2 DEF Call, Quiet, jobVars, TextIsLeft
<1>3. CASE AskIdentity \/ Connect \/ Send \/ Respond
  BY <1>3 DEF AskIdentity, Connect, Send, Respond, Quiet, jobVars, replyVars, TextIsLeft
<1>4. CASE Breaks \/ Expire
  BY <1>1, <1>4 DEF Breaks, Expire
<1>5. ASSUME NEW t \in Tokens, IdentityAnswers(t) PROVE TextIsLeft \/ TextIsDropped
  BY <1>1, <1>5 DEF IdentityAnswers, Quiet, jobVars, TextIsLeft
<1>6. ASSUME NEW c \in Chunks, ReadChunk(c), Raise PROVE TextIsDropped
  <2>1. pc = "read" /\ Quiet
    BY <1>6 DEF ReadChunk, Reads
  <2>2. pc' = "after"
    BY <1>6 DEF Raise
  <2>3. UNCHANGED shown
    BY <1>6, <2>1, <2>2 DEF ReadChunk
  <2> QED
    BY <1>1, <1>6, <2>1, <2>3
<1>7. CASE ReadDone
  BY <1>1, <1>7 DEF ReadDone, Reads, Quiet, jobVars, TextIsLeft
<1>8. CASE EndStream /\ Raise
  <2>1. pc = "read" /\ Quiet
    BY <1>8 DEF EndStream, Reads
  <2>2. UNCHANGED shown
    <3>1. ASSUME parser.done, UNCHANGED parser PROVE FALSE
      <4>1. parser' = NewParser
        BY <1>8 DEF Raise
      <4> QED
        BY <3>1, <4>1 DEF NewParser
    <3> QED
      BY <1>8, <3>1 DEF EndStream
  <2> QED
    BY <1>1, <1>8, <2>1, <2>2
<1>9. CASE (\E probed \in BOOLEAN : Record(probed)) \/ Tick \/ Cancel \/ Replace
  BY <1>9 DEF Record, Tick, Cancel, Replace, jobVars, replyVars, TextIsLeft
<1>10. CASE Withdraw
  BY <1>10 DEF Withdraw, Settle, replyVars, TextIsLeft
<1>11. ASSUME NEW idle \in {1, 2}, NEW billed \in {1, 2}, CloseLifecycle(idle, billed) PROVE TextIsLeft
  BY <1>11 DEF CloseLifecycle, jobVars, replyVars, TextIsLeft
<1>12. ASSUME NEW model \in Model, Refuse(model) PROVE TextIsLeft
  BY <1>12 DEF Refuse, jobVars, replyVars, TextIsLeft
<1>14. ASSUME NEW model \in Model, Unprobed(model) PROVE TextIsLeft
  BY <1>14 DEF Unprobed, jobVars, replyVars, TextIsLeft
<1>13. CASE UNCHANGED attemptVars
  BY <1>13 DEF attemptVars, jobVars, replyVars, TextIsLeft
<1> QED
  BY <1>2, <1>3, <1>4, <1>5, <1>6, <1>7, <1>8, <1>9, <1>10, <1>11, <1>12, <1>13,
     <1>14 DEF AttemptNext

\* Every step keeps the invariant.
LEMMA TextNext ==
    ASSUME WInv, JobInv, JobInv', TextInv, [AttemptNext]_attemptVars
    PROVE  TextInv'
<1> USE DEF TextInv
<1>0. /\ outputs \in Seq(Texts) /\ Len(outputs) \in Nat /\ Stage = Len(outputs) + 1
      /\ pc \in Active => Stage <= Len(Plan) /\ Len(Plan) \in Nat
  <2>1. outputs \in Seq(Texts) /\ Len(outputs) \in Nat /\ Stage = Len(outputs) + 1
    BY DEF JobInv, Stage
  <2>2. ASSUME pc \in Active PROVE Stage <= Len(Plan) /\ Len(Plan) \in Nat
    <3>1. Granted /\ Stage <= Len(Plan)
      BY <2>2 DEF JobInv, Started, Active, Running
    <3>2. Len(Plan) \in 1..16
      BY <3>1, Zenon DEF Granted, Snapshot, Shaped
    <3> QED
      BY <3>1, <3>2
  <2> QED
    BY <2>1, <2>2
<1>1. ASSUME UNCHANGED <<request, input, outputs>> PROVE UNCHANGED <<Plan, Stage, Public>>
  BY <1>1, JobValues DEF Stage, Public
<1>2. CASE TextIsLeft
  <2>1. UNCHANGED <<Plan, Stage, Public, shown, pending, reply, failed>>
    BY <1>1, <1>2 DEF TextIsLeft
  <2>2. record' = "success" /\ Stage > Len(Plan) => record = "success"
    BY <1>0, <1>2 DEF TextIsLeft
  <2> HIDE DEF WInv, JobInv
  <2> QED
    BY <1>2, <2>1, <2>2 DEF TextIsLeft
<1>3. CASE TextIsDropped
  <2>1. UNCHANGED <<Plan, Stage, Public, shown, record>> /\ pc \in Running
    BY <1>1, <1>3 DEF TextIsDropped
  <2>2. pc' = "after" /\ failed' = TRUE /\ pending' = <<>> /\ reply'.text = <<>>
    BY <1>3 DEF TextIsDropped, Raise, NoReply
  <2>3. pending' \in Seq(Symbols) /\ reply'.text \in Seq(Symbols)
    BY <2>2
  <2>4. ~(Stage > Len(Plan))
    BY <1>0, <2>1 DEF Active
  <2> QED
    BY <2>1, <2>2, <2>3, <2>4 DEF Active, Running
<1>4. ASSUME NEW model \in Model, Begin(model) PROVE TextInv'
  <2>1. /\ shown' = <<>> /\ pending' = <<>> /\ reply'.text = <<>> /\ pc' = "call"
        /\ record' = "none" /\ failed' = FALSE
    BY <1>4 DEF Begin, NoReply
  <2>2. ~Hidden(shown')
    BY <2>1, EmptyIsNotHidden
  <2>3. reply'.text = shown' \o pending' /\ 1..Len(shown') = {}
    BY <2>1
  <2> QED
    BY <2>1, <2>2, <2>3 DEF Active, Running
<1>5. CASE Accept
  <2>1. /\ pc = "returned" /\ record = "success" /\ UNCHANGED <<record, shown, pending, reply, failed>>
        /\ pc' = IF Public THEN "done" ELSE "idle"
    BY <1>5 DEF Accept, Settle, replyVars
  <2>2. Public => shown = reply.text
    BY <2>1 DEF WInv, ReplyFits
  <2>3. ~Public => ~(Stage' > Len(Plan'))
    <3> SUFFICES ASSUME ~Public PROVE ~(Stage' > Len(Plan'))
      OBVIOUS
    <3>1. pc' = "idle" /\ outputs' # <<>>
      <4>1. outputs' = Append(outputs, Content(reply))
        BY <1>5 DEF Accept
      <4> QED
        BY <1>0, <2>1, <4>1
    <3>2. Started' /\ Granted' /\ Stage' <= Len(Plan')
      BY <3>1 DEF Started, JobInv
    <3>3. Len(Plan') \in 1..16
      BY <3>2, Zenon DEF Granted, Snapshot, Shaped
    <3>4. Stage' \in Int
      BY DEF Stage, JobInv
    <3> QED
      BY <3>2, <3>3, <3>4
  <2> QED
    BY <2>1, <2>2, <2>3 DEF Active, Running
<1>6. CASE SkipDebate
  <2>1. UNCHANGED <<pc, shown, pending, reply, failed, record>> /\ pc = "idle" /\ outputs' = Append(outputs, Skipped)
    BY <1>6 DEF SkipDebate, replyVars
  <2>2. ~(Stage' > Len(Plan'))
    <3>1. pc' = "idle" /\ outputs' # <<>>
      BY <1>0, <2>1
    <3>2. Started' /\ Granted' /\ Stage' <= Len(Plan')
      BY <3>1 DEF Started, JobInv
    <3>3. Len(Plan') \in 1..16
      BY <3>2, Zenon DEF Granted, Snapshot, Shaped
    <3>4. Stage' \in Int
      BY DEF Stage, JobInv
    <3> QED
      BY <3>2, <3>3, <3>4
  <2> QED
    BY <2>1, <2>2 DEF Active, Running
<1>7. ASSUME NEW c \in Chunks, ReadChunk(c), ~Raise PROVE TextInv'
  <2> DEFINE text == pending \o c.text
             shows == Len(text) - Hold(text)
  <2>1. /\ pc = "read" /\ pc' = "read" /\ Public /\ UNCHANGED <<request, input, outputs, failed, record>>
        /\ ~Hidden(text)
        /\ shown' = shown \o SubSeq(text, 1, shows)
        /\ pending' = SubSeq(text, shows + 1, Len(text))
        /\ reply'.text = reply.text \o c.text
    <3> HIDE DEF TextInv
    <3>1. Reads /\ Public /\ Quiet
      BY <1>7 DEF ReadChunk
    <3>2. /\ ~Hidden(text) /\ reply' = Accumulated(c) /\ UNCHANGED <<pc, failed>>
          /\ shown' = shown \o SubSeq(text, 1, shows)
          /\ pending' = SubSeq(text, shows + 1, Len(text))
      <4> HIDE DEF shows, text
      <4> QED
        BY <1>7 DEF ReadChunk, shows, text
    <3>3. reply'.text = reply.text \o c.text
      BY <3>2 DEF Accumulated
    <3> QED
      BY <3>1, <3>2, <3>3 DEF Reads, Quiet, jobVars
  <2>2. UNCHANGED <<Plan, Stage, Public>>
    BY <1>1, <2>1
  <2>3. c.text \in Seq(Symbols) /\ text \in Seq(Symbols)
    BY AttemptAssumption DEF AttemptAssumption
  <2>4. Hold(text) \in 0..Len(text)
    <3> HIDE DEF text
    <3> QED
      BY <2>3, HoldIs
  <2> DEFINE front == SubSeq(text, 1, shows)
             back == SubSeq(text, shows + 1, Len(text))
  <2>5. shows \in 0..Len(text) /\ Len(text) \in Nat
    BY <2>3, <2>4
  <2>6. front \in Seq(Symbols) /\ back \in Seq(Symbols) /\ front \o back = text /\ Len(front) = shows
    <3> HIDE DEF text, shows, TextInv
    <3> QED
      BY <2>3, <2>5, FrontAndBack
  <2>7. /\ shown' \in Seq(Symbols) /\ pending' \in Seq(Symbols)
        /\ shown' \o pending' = shown \o text /\ Len(shown') = Len(shown) + shows
    <3> HIDE DEF text, shows, front, back
    <3>1. shown' = shown \o front /\ pending' = back
      BY <2>1 DEF front, back
    <3>2. shown \in Seq(Symbols)
      OBVIOUS
    <3> HIDE DEF TextInv
    <3>3. (shown \o front) \o back = shown \o (front \o back)
      <4>1. PICK u \in Seq(Symbols), v \in Seq(Symbols), w \in Seq(Symbols) :
                u = shown /\ v = front /\ w = back
        BY <2>6, <3>2
      <4>2. (u \o v) \o w = u \o (v \o w)
        BY Together
      <4> QED
        BY <4>1, <4>2
    <3>4. shown \o front \in Seq(Symbols) /\ Len(shown \o front) = Len(shown) + Len(front)
      BY <2>6, <3>2, Together
    <3> QED
      BY <2>6, <3>1, <3>3, <3>4
  <2>8. reply.text = shown \o pending /\ \A s \in 1..Len(shown), m \in Marker : Diverges(m, shown \o pending, s)
    BY <2>1 DEF Running
  <2>9. shown \o text = (shown \o pending) \o c.text /\ shown \o pending \in Seq(Symbols)
    <3>1. shown \in Seq(Symbols) /\ pending \in Seq(Symbols)
      OBVIOUS
    <3> HIDE DEF TextInv
    <3>2. shown \o pending \in Seq(Symbols)
      BY <3>1, Together
    <3>3. (shown \o pending) \o c.text = shown \o (pending \o c.text)
      <4>1. PICK u \in Seq(Symbols), v \in Seq(Symbols), w \in Seq(Symbols) :
                u = shown /\ v = pending /\ w = c.text
        BY <2>3, <3>1
      <4>2. (u \o v) \o w = u \o (v \o w)
        BY Together
      <4> QED
        BY <4>1, <4>2
    <3> QED
      BY <3>2, <3>3, Zenon DEF text
  <2>10. ASSUME NEW s \in 1..Len(shown'), NEW m \in Marker PROVE Diverges(m, shown' \o pending', s)
    <3>1. CASE s <= Len(shown)
      <4>1. s \in 1..Len(shown) /\ s \in Nat \ {0}
        BY <3>1
      <4>2. Diverges(m, shown \o pending, s)
        BY <2>8, <4>1
      <4> HIDE DEF text, TextInv
      <4> QED
        BY <2>3, <2>7, <2>9, <4>1, <4>2, DivergenceStays
    <3>2. CASE ~(s <= Len(shown))
      <4>1. PICK r \in Nat \ {0} : s = Len(shown) + r /\ r <= shows
        <5>1. s \in Nat /\ Len(shown) \in Nat /\ s <= Len(shown) + shows /\ s - Len(shown) \in Nat \ {0}
          BY <2>5, <2>7, <3>2
        <5>2. s = Len(shown) + (s - Len(shown)) /\ s - Len(shown) <= shows
          <6> HIDE DEF text, shows, TextInv
          <6> QED
            BY <2>5, <5>1
        <5> HIDE DEF text, shows, TextInv
        <5> QED
          BY <5>1, <5>2
      <4>2. r \in 1..(Len(text) - Hold(text))
        BY <2>5, <4>1
      <4> HIDE DEF text, shows, TextInv
      <4>3. Diverges(m, text, r)
        BY <2>1, <2>3, <4>2, NothingStartsBeforeHold
      <4>4. shown \in Seq(Symbols)
        BY DEF TextInv
      <4> QED
        BY <2>3, <2>7, <4>1, <4>3, <4>4, DivergenceStays
    <3> QED
      BY <3>1, <3>2
  <2>11. ~Hidden(shown')
    <3> HIDE DEF text, shows, front, back, TextInv
    <3>1. PICK u \in Seq(Symbols), v \in Seq(Symbols) : u = shown' /\ v = pending'
      BY <2>7
    <3> QED
      BY <2>10, <3>1, DivergentIsNotHidden
  <2>12. reply'.text = shown' \o pending' /\ reply'.text \in Seq(Symbols)
    <3>1. reply.text \in Seq(Symbols)
      OBVIOUS
    <3> HIDE DEF text, TextInv, WInv, JobInv
    <3>2. reply'.text = (shown \o pending) \o c.text
      BY <2>1, <2>8
    <3>3. reply'.text \in Seq(Symbols)
      BY <2>1, <2>3, <3>1, Together
    <3> QED
      BY <2>7, <2>9, <3>2, <3>3
  <2>13. ~(Stage > Len(Plan))
    BY <1>0, <2>1 DEF Active, Running
  <2> HIDE DEF text, shows, front, back
  <2> QED
    BY <2>1, <2>2, <2>7, <2>10, <2>11, <2>12, <2>13 DEF Active, Running
<1>8. ASSUME NEW c \in Chunks, ReadObject(c) PROVE TextInv'
  <2>1. /\ pc = "read" /\ pc' = "after" /\ ~Public
        /\ UNCHANGED <<request, input, outputs, record, shown, pending>>
        /\ reply'.text = reply.text \o c.text
    BY <1>8 DEF ReadObject, Reads, Quiet, jobVars, Accumulated
  <2>2. UNCHANGED <<Plan, Stage, Public>>
    BY <1>1, <2>1
  <2>3. reply'.text \in Seq(Symbols)
    BY <2>1, AttemptAssumption DEF AttemptAssumption
  <2>4. ~(Stage > Len(Plan))
    BY <1>0, <2>1 DEF Active, Running
  <2> QED
    BY <2>1, <2>2, <2>3, <2>4 DEF Active, Running
<1>9. CASE EndStream /\ ~Raise
  <2>1. /\ pc = "read" /\ pc' = "after" /\ Public /\ Complete(reply)
        /\ UNCHANGED <<request, input, outputs, record, failed, reply>>
        /\ shown' = shown \o pending /\ pending' = <<>>
    BY <1>9 DEF EndStream, Reads, Quiet, jobVars
  <2>2. UNCHANGED <<Plan, Stage, Public>>
    BY <1>1, <2>1
  <2>3. shown' = reply.text
    BY <2>1 DEF Running
  <2>4. ~Hidden(shown') /\ pending' \in Seq(Symbols)
    BY <2>1, <2>3 DEF Complete
  <2>5. ~(Stage > Len(Plan))
    BY <1>0, <2>1 DEF Active, Running
  <2> QED
    BY <2>1, <2>2, <2>3, <2>4, <2>5 DEF Active, Running
<1> QED
  BY <1>2, <1>3, <1>4, <1>5, <1>6, <1>7, <1>8, <1>9, StepsOfText

\* So it always holds.
LEMMA TextHolds == AttemptSpec => []TextInv
BY TextInit, TextNext, JobHolds, AttemptInvariance, PTL DEF AttemptSpec

\* A recorded success showed exactly the answer, an attempt under way a
\* beginning of it, and nothing shown hides reasoning, whatever the fragments.
THEOREM TextsAreShown == AttemptSpec => []ShownIsTheAnswer
<1>1. TextInv => ShownIsTheAnswer
  <2> SUFFICES ASSUME TextInv PROVE ShownIsTheAnswer
    OBVIOUS
  <2>1. ASSUME pc = "read" PROVE IsPrefix(shown, reply.text)
    <3>1. CASE Public
      BY <2>1, <3>1 DEF TextInv, Running, IsPrefix
    <3>2. CASE ~Public
      BY <2>1, <3>2 DEF TextInv, Active, Running, IsPrefix
    <3> QED
      BY <3>1, <3>2
  <2> QED
    BY <2>1 DEF TextInv, ShownIsTheAnswer
<1> QED
  BY <1>1, TextHolds, PTL
=============================================================================
