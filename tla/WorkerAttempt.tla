---------------------------- MODULE WorkerAttempt ----------------------------
(***************************************************************************)
(* One worker answering one request, stage after stage: ModelStageWorker   *)
(* of execution/workers.py, for Core through handle_job of                 *)
(* worker/handler.py and for Ultra through _ultra, which takes the same    *)
(* steps, over the Azure client (worker/azure_container_apps.py,           *)
(* azure_http_runtime.py), its deadline-bounded HTTP exchange              *)
(* (bounded_http.py) and the strict SSE protocol (openai_protocol.py).     *)
(*                                                                         *)
(* A stage is one attempt.  The runtime is probed before and after the     *)
(* call; in between the client asks the local identity endpoint for a      *)
(* token, opens the inference connection and reads the reply, checking the *)
(* deadline and the cancellation around every read.  Stages but the last   *)
(* are private and read one JSON object; the last is public and streams,   *)
(* its text shown fragment by fragment while it is still provisional.      *)
(*                                                                         *)
(* The server answers, stays silent or breaks off as it likes; the runtime *)
(* behind it may be replaced at any time.  Time is counted from the start  *)
(* of the attempt.  Text is a sequence of symbols, of which Marker names   *)
(* those that open or close hidden reasoning, and Prefix the beginning of  *)
(* a placeholder.                                                          *)
(***************************************************************************)
EXTENDS UltraPlan, ReceiverAuth

CONSTANTS
    Requests,       \* the routes asked for
    Inputs,         \* what a plan is built from: messages, scores, admission, limits
    Detections,     \* what a disagreement check may answer
    Judgements,     \* what a judge may answer
    Marker,         \* texts that must not be shown
    Prefix,         \* ARTIFACT_PLACEHOLDER_PREFIX
    Chunks,         \* chunks and objects the server may send
    Tokens,         \* tokens the identity endpoint may answer
    Config,         \* AzureRuntimeConfig with its AzureSettings
    Runtime,        \* Runtime[n]: what a probe of the n-th runtime returns
    Pinned,         \* Pinned[f]: the adapter pinned for a family, or "none"
    Skew,           \* TOKEN_CLOCK_SKEW_SECONDS
    MaxStall,       \* bound: the process runs again this long after a deadline
    MaxText,        \* MAX_TOTAL_TEXT_CHARS
    MaxReplaced     \* bound: replacements of the runtime during an attempt

Timeout == Config.timeout

\* AzureSettings.__post_init__, AzureRuntimeConfig.__post_init__
ConfigIsValid(c) ==
    /\ c.timeout \in 1..239
    /\ {c.paid, c.private, c.live, c.network} \subseteq BOOLEAN

\* The symbols of the text of a reply and of the markers.
Symbols == UNION {ToSet(c.text) : c \in Chunks} \union UNION {ToSet(m) : m \in Marker}

ASSUME AttemptAssumption ==
    /\ ConfigIsValid(Config) /\ Skew \in Nat /\ MaxStall \in 0..Skew
    /\ DOMAIN Runtime = 0..MaxReplaced
    /\ \A n \in 1..MaxReplaced : Runtime[n] # Runtime[0]
    /\ \A t \in Tokens : t.expires \in Int
    /\ \A c \in Chunks : /\ c.finish \in {"none", "stop", "length", "tool_calls"}
                          /\ c.tools \in {"none", "partial", "whole"}
                          /\ c.text \in Seq(Symbols)
    /\ \A m \in Marker : m \in Seq(Symbols) /\ Len(m) > 1
    /\ \A d \in Detections : /\ d \in Seq(ToSet(d))
                              /\ \A i \in DOMAIN d : d[i].stages \in Seq(ToSet(d[i].stages))
    /\ \A j \in Judgements : j.refs \in Seq(ToSet(j.refs))
    /\ \A v \in Inputs : v.admission.agents \in Int /\ v.admission.cap \in Int
    /\ MaxText \in Nat /\ MaxReplaced \in Nat

VARIABLES
    request,    \* the route of the request
    input,      \* the job input
    outputs,    \* the texts of the finished stages, or Skipped
    evidence,   \* what the debate depends on, until it is over
    pc,         \* where the attempt is
    elapsed,    \* time since the attempt started
    cancelled,  \* the control asks to stop
    conn,       \* the open connection: none, identity or inference
    bearer,     \* the token the attempt holds, or NoBearer
    loaded,     \* replacements of the runtime since the first probe
    served,     \* ghost: the runtimes that wrote the reply
    parser,     \* parse_raw_sse: an event was seen, [DONE] was seen
    reply,      \* what consume_engine_response accumulated
    pending,    \* pending_public_text
    shown,      \* ghost: the public deltas, concatenated
    failed,     \* operation_error is set
    record,     \* the telemetry record of the attempt
    begun,      \* ghost: attempts that passed the first probe
    recorded    \* ghost: records the sink received

jobVars == <<request, input, outputs, evidence>>
netVars == <<conn, bearer>>
replyVars == <<served, parser, reply, pending, shown>>
attemptVars ==
    <<jobVars, pc, elapsed, cancelled, netVars, loaded, replyVars, failed, record, begun, recorded>>

NoBearer == [expires |-> 0]
NoReply == [text |-> <<>>, finish |-> "none", usage |-> FALSE, tools |-> "none", first |-> FALSE]
NewParser == [event |-> FALSE, done |-> FALSE]
NoEvidence == [found |-> <<>>, debate |-> FALSE, cited |-> {}]

Running == {"call", "token", "asking", "connect", "wire", "head", "read"}
Active == Running \union {"after", "returned"}

AttemptTypeOK ==
    /\ pc \in Active \union {"idle", "refused", "unprobed", "raised", "done", "closed"}
    /\ elapsed \in 0..(Timeout + MaxStall) /\ cancelled \in BOOLEAN
    /\ conn \in {"none", "identity", "inference"}
    /\ loaded \in 0..MaxReplaced /\ served \subseteq 0..MaxReplaced
    /\ reply.finish \in {"none", "stop", "length", "tool_calls"}
    /\ reply.tools \in {"none", "partial", "whole"}
    /\ record \in {"none", "success", "failed", "quarantined"}
    /\ failed \in BOOLEAN

AttemptInit ==
    /\ request \in Requests /\ input \in Inputs
    /\ outputs = <<>> /\ evidence = NoEvidence
    /\ pc = "idle" /\ elapsed = 0 /\ cancelled = FALSE
    /\ conn = "none" /\ bearer = NoBearer
    /\ loaded = 0 /\ served = {}
    /\ parser = NewParser /\ reply = NoReply /\ pending = <<>> /\ shown = <<>>
    /\ failed = FALSE /\ record = "none" /\ begun = 0 /\ recorded = 0

IsUltra(q) == Policy(q).engine = "kova-ultra"
TeamSize == [v \in Inputs |-> Len(Team(v.score, v.admission.agents))]

\* The operations of the saved plan.
Operations ==
    [q \in Requests |-> [v \in Inputs |->
        IF IsUltra(q)
        THEN [k \in 1..(TeamSize[v] + 4) |-> UltraOperation(TeamSize[v], k, v.admission.cap)]
        ELSE [k \in 1..FinalStage(q) |-> Operation(q, k)]]]

Plan == Operations[request][input]
Stage == Len(outputs) + 1
Public == Stage = Len(Plan)
Room == Plan[Stage].output

\* The stages of an Ultra plan after its specialists.
Checking == IsUltra(request) /\ Stage = TeamSize[input] + 1
Judging == IsUltra(request) /\ Stage = TeamSize[input] + 2
Debating == IsUltra(request) /\ Stage = TeamSize[input] + 3

\* The job input of the stage: the conversation of the plan, and the effort and
\* the bound of the stage's own operation.
JobInput == [messages |-> input.messages, effort |-> Policy(request).effort, output |-> Room]

-----------------------------------------------------------------------------
(* Text.                                                                   *)

Occurs(m, text) ==
    \E i \in 1..(Len(text) - Len(m) + 1) : SubSeq(text, i, i + Len(m) - 1) = m

Hidden(text) == \E m \in Marker : Occurs(m, text)

Visible(text) == \E i \in DOMAIN text : text[i] # " "

\* Fault: only a whole marker is looked for, fragment by fragment.
HoldNothing(text) == 0

\* _public_text_without_marker_prefix: the longest end of the text that may
\* turn out to begin a marker.
Hold(text) ==
    Max({0} \union {n \in 1..Len(text) : \E m \in Marker :
                        n < Len(m) /\ IsSuffix(SubSeq(m, 1, n), text)})

-----------------------------------------------------------------------------
(* The outcome of a step of the call: it goes on, or it raises and every   *)
(* generator and connection under it is closed on the way out.             *)

\* Fault: only the cancellation is looked at, the transport has its own limit.
InTimeCooperative == ~cancelled

\* _Budget.remaining, check() of the client
InTime == ~cancelled /\ elapsed < Timeout

\* Fault: the response is left to the garbage collector.
RaiseOpen ==
    /\ failed' = TRUE /\ pc' = "after" /\ conn' = conn
    /\ bearer' = NoBearer /\ parser' = NewParser /\ pending' = <<>>
    /\ reply' = [NoReply EXCEPT !.first = reply.first]

\* What was read is dropped, the time of the first token is not.
Raise ==
    /\ failed' = TRUE /\ pc' = "after" /\ conn' = "none"
    /\ bearer' = NoBearer /\ parser' = NewParser /\ pending' = <<>>
    /\ reply' = [NoReply EXCEPT !.first = reply.first]

Quiet == UNCHANGED <<jobVars, elapsed, cancelled, loaded, record, begun, recorded>>

\* _validate_runtime_value, for the family the stage was planned for.
ValidProbe(v) ==
    /\ v.model = Slot(request) /\ v.source = "server_provider_runtime"
    /\ v.adapter = Pinned[v.model] /\ v.adapter # "none"
    /\ v.rate > 0 /\ v.gpus \in 1..8
    /\ v.cold <=> v.startup > 0

\* The texts of the earlier stages that this one reads.
Prior ==
    IF IsUltra(request) THEN SubSeq(outputs, 1, Artifacts(TeamSize[input], Stage)) ELSE outputs

\* The request of the stage is the planned operation, bound: by handle_job for
\* Core, by bind_ultra_operation for Ultra.
Asked(model) ==
    /\ Snapshot(Plan, input.limits)
    /\ \/ ~IsUltra(request) /\ Requested(request, Stage, JobInput, model, Prior)
       \/ /\ IsUltra(request)
          /\ UltraPlanned(request, input.admission, input.score)
          /\ Rebuilt(request, input.admission, input.score)
          /\ Provenance(request, model)
          /\ UltraBound(TeamSize[input], Stage, input.admission.cap, input.messages, Prior)

\* Up to the call: the checks of the plan, the input and the context, and the
\* first probe.  A refusal leaves no record.
Begin(model) ==
    /\ pc = "idle" /\ (Debating => evidence.debate)
    /\ Asked(model)
    /\ ValidProbe(Runtime[0])
    /\ pc' = "call" /\ begun' = begun + 1
    /\ elapsed' = 0 /\ cancelled' = FALSE /\ loaded' = 0 /\ served' = {}
    /\ parser' = NewParser /\ reply' = NoReply /\ pending' = <<>> /\ shown' = <<>>
    /\ bearer' = NoBearer /\ failed' = FALSE /\ record' = "none"
    /\ UNCHANGED <<jobVars, conn, recorded>>

Refuse(model) ==
    /\ pc = "idle" /\ (Debating => evidence.debate)
    /\ ~Asked(model)
    /\ pc' = "refused"
    /\ UNCHANGED <<jobVars, elapsed, cancelled, netVars, loaded, replyVars, failed, record, begun, recorded>>

\* The first probe raises, or what it returns is not the pinned runtime.  Core
\* probes once the request is bound, Ultra before it binds.
Unprobed(model) ==
    /\ pc = "idle" /\ (Debating => evidence.debate)
    /\ IsUltra(request) \/ Asked(model)
    /\ pc' = "unprobed"
    /\ UNCHANGED <<jobVars, elapsed, cancelled, netVars, loaded, replyVars, failed, record, begun, recorded>>

\* The scheduler does not call the worker for a debate the judge did not ask for.
SkipDebate ==
    /\ pc = "idle" /\ Debating /\ ~evidence.debate
    /\ outputs' = Append(outputs, Skipped)
    /\ evidence' = NoEvidence
    /\ UNCHANGED <<request, input, pc, elapsed, cancelled, netVars, loaded, replyVars, failed,
                   record, begun, recorded>>

\* require_authorized
Authorized == Config.paid /\ Config.private /\ Config.live /\ Config.network

\* prepare_request, after the execution guard of the settings
Call ==
    /\ pc = "call"
    /\ \/ /\ Authorized
          /\ pc' = "token" /\ UNCHANGED <<netVars, parser, reply, pending, failed>>
       \/ ~Authorized /\ Raise
    /\ Quiet /\ UNCHANGED <<served, shown>>

\* exchange() up to the request of the credential
AskIdentity ==
    /\ pc = "token" /\ InTime
    /\ pc' = "asking" /\ conn' = "identity"
    /\ Quiet /\ UNCHANGED <<bearer, replyVars, failed>>

\* Fault: the token only has to be valid now.
OutlivesNow(t) == t.expires > elapsed + Skew

\* The expiry the client demands of a token.
Outlives(t) == t.expires > elapsed + Timeout + Skew

\* The token is for the API and the identity that were asked for.
IsOurs(t) == t.audience = Config.resource /\ Config.client \in {"system", t.service}

\* ManagedIdentityCredential.__call__; its connection is always closed.
IdentityAnswers(t) ==
    /\ pc = "asking" /\ InTime
    /\ \/ /\ IsOurs(t) /\ Outlives(t)
          /\ bearer' = t /\ pc' = "connect" /\ conn' = "none"
          /\ UNCHANGED <<failed, parser, reply, pending>>
       \/ ~(IsOurs(t) /\ Outlives(t)) /\ Raise
    /\ Quiet /\ UNCHANGED <<served, shown>>

\* AzureHTTPTransport.__call__, open_http_response: the socket is opened.
Connect ==
    /\ pc = "connect" /\ InTime
    /\ pc' = "wire" /\ conn' = "inference"
    /\ Quiet /\ UNCHANGED <<bearer, replyVars, failed>>

\* _Wire: connected, the handshake done and the request written.
Send ==
    /\ pc = "wire" /\ InTime
    /\ pc' = "head"
    /\ Quiet /\ UNCHANGED <<netVars, replyVars, failed>>

\* The response line and headers: 200 of the expected type, from an API that
\* accepted the one bearer token.
Respond ==
    /\ pc = "head" /\ InTime
    /\ FromHeaders({bearer}, elapsed, elapsed)
    /\ pc' = "read"
    /\ Quiet /\ UNCHANGED <<netVars, replyVars, failed>>

\* A refused connection, a status, a broken body, a worker error.
Breaks ==
    /\ pc \in Running
    /\ Raise
    /\ Quiet /\ UNCHANGED <<served, shown>>

\* A check finds the deadline passed or the control cancelled.
Expire ==
    /\ pc \in Running \ {"call"} /\ ~InTime
    /\ Raise
    /\ Quiet /\ UNCHANGED <<served, shown>>

-----------------------------------------------------------------------------
(* The reply.                                                              *)

\* require_private_reasoning_absent and the shape of one chunk after others
Acceptable(c) ==
    /\ ~c.private
    /\ ~(c.usage /\ reply.usage)
    /\ c.choice => reply.finish = "none"
    /\ Len(reply.text) + Len(c.text) <= MaxText

Joined(old, part) == IF part = "none" THEN old ELSE part

\* consume_engine_response, _append_stream_tool_calls: add one chunk
Accumulated(c) ==
    [text   |-> reply.text \o c.text,
     finish |-> IF c.finish = "none" THEN reply.finish ELSE c.finish,
     usage  |-> reply.usage \/ c.usage,
     tools  |-> Joined(reply.tools, c.tools),
     first  |-> reply.first \/ Visible(c.text) \/ c.tools # "none"]

\* _raw_fragments: one more read between two checks.
Reads == pc = "read" /\ InTime

\* _parse_sse_event, parse_raw_sse: nothing may follow [DONE].
EventAllowed == ~parser.done

\* One event of the stream; its visible text is shown at once.
ReadChunk(c) ==
    /\ Reads /\ Public
    /\ LET text == pending \o c.text
           shows == Len(text) - Hold(text)
       IN  \/ /\ EventAllowed /\ Acceptable(c) /\ ~Hidden(text)
              /\ shown' = shown \o SubSeq(text, 1, shows)
              /\ pending' = SubSeq(text, shows + 1, Len(text))
              /\ reply' = Accumulated(c)
              /\ parser' = [parser EXCEPT !.event = TRUE]
              /\ UNCHANGED <<pc, netVars, failed>>
           \/ /\ ~EventAllowed \/ ~Acceptable(c) \/ Hidden(text)
              /\ Raise
              /\ UNCHANGED shown
    /\ served' = served \union {loaded}
    /\ Quiet

ReadDone ==
    /\ Reads /\ Public
    /\ \/ /\ parser.event /\ ~parser.done
          /\ parser' = [parser EXCEPT !.done = TRUE]
          /\ UNCHANGED <<pc, netVars, failed, reply, pending>>
       \/ (~parser.event \/ parser.done) /\ Raise
    /\ Quiet /\ UNCHANGED <<served, shown>>

\* _sanitized_tool_calls: every call has its identity and whole arguments.
ToolsAreWhole(r) == r.tools # "partial"

\* sanitize_engine_response
Complete(r) ==
    /\ r.finish \in {"stop", "tool_calls"}
    /\ ToolsAreWhole(r)
    /\ Visible(r.text) \/ r.tools = "whole"
    /\ r.finish = "tool_calls" <=> r.tools = "whole"
    /\ ~Hidden(r.text)
    /\ r.usage

\* The stream ends: the tail held back is shown only if the whole is complete.
EndStream ==
    /\ Reads /\ Public
    /\ \/ /\ parser.done /\ Complete(reply)
          /\ shown' = shown \o pending /\ pending' = <<>>
          /\ conn' = "none" /\ pc' = "after"
          /\ UNCHANGED <<failed, bearer, parser, reply>>
       \/ ~(parser.done /\ Complete(reply)) /\ Raise /\ UNCHANGED shown
    /\ Quiet /\ UNCHANGED served

\* A private stage reads one object, accumulated like a single chunk.
ReadObject(c) ==
    /\ Reads /\ ~Public
    /\ conn' = "none" /\ pc' = "after"
    /\ served' = {loaded}
    /\ reply' = [Accumulated(c) EXCEPT !.first = FALSE]
    /\ failed' = ~(Acceptable(c) /\ Complete(reply'))
    /\ Quiet /\ UNCHANGED <<bearer, parser, pending, shown>>

-----------------------------------------------------------------------------
(* After the call.                                                         *)

\* Fault: the second probe is validated but not compared with the first.
IntactIfPinned(probed) ==
    /\ probed /\ ValidProbe(Runtime[loaded])
    /\ ~Public => ~reply.first
    /\ failed \/ ~Public \/ reply.first

\* The second probe answers, with the same runtime as the first, and there is a
\* first token exactly when the stage is public.
Intact(probed) ==
    /\ probed /\ ValidProbe(Runtime[loaded]) /\ Runtime[loaded] = Runtime[0]
    /\ ~Public => ~reply.first
    /\ failed \/ ~Public \/ reply.first

\* _attempt_record
Outcome(probed) ==
    IF ~Intact(probed) THEN "quarantined" ELSE IF failed THEN "failed" ELSE "success"

\* handle_job, _ultra after the call: the second probe answers or raises, the
\* record is made, and the error of the call, if any, is the one that is raised.
Record(probed) ==
    /\ pc = "after"
    /\ record' = Outcome(probed)
    /\ pc' = "returned"
    /\ UNCHANGED <<jobVars, elapsed, cancelled, netVars, loaded, replyVars, failed, begun, recorded>>

\* ModelStageWorker.__call__ sends the one record to the sink, whatever happened.
Settle(next) ==
    /\ recorded' = recorded + 1
    /\ pc' = next
    /\ elapsed' = 0 /\ cancelled' = FALSE
    /\ UNCHANGED <<request, input, netVars, loaded, replyVars, failed, begun>>

\* What the judge's answer makes of the recorded disagreements.
Judged(judgement) ==
    [evidence EXCEPT
        !.debate = judgement.material,
        !.cited = {ToSet(evidence.found[i].stages) :
                      i \in {i \in DOMAIN evidence.found : evidence.found[i].id \in ToSet(judgement.refs)}}]

\* What later stages read of the reply, "" if nothing in it is visible.
Content(r) ==
    IF Visible(r.text)
    THEN [tokens |-> Room, chars |-> Len(r.text), marked |-> Occurs(Prefix, r.text), skipped |-> FALSE]
    ELSE [Skipped EXCEPT !.skipped = FALSE]

\* The answer is taken: the control agrees and the structured answers of the
\* check and the judge are valid.  A stage writes all tokens it may: less leaves more
\* room to the stages that read it.
Accept ==
    /\ pc = "returned" /\ record = "success" /\ ~cancelled
    /\ \/ /\ Checking /\ reply.tools = "none"
          /\ \E d \in Detections :
                /\ ValidDisagreements(d, TeamSize[input])
                /\ evidence' = [evidence EXCEPT !.found = d]
       \/ /\ Judging /\ reply.tools = "none"
          /\ \E j \in Judgements :
                ValidJudgement(j, evidence.found) /\ evidence' = Judged(j)
       \/ Debating /\ evidence' = NoEvidence
       \/ ~Checking /\ ~Judging /\ ~Debating /\ UNCHANGED evidence
    /\ outputs' = Append(outputs, Content(reply))
    /\ Settle(IF Public THEN "done" ELSE "idle")
    /\ UNCHANGED record

\* It raised, or the control, the reported usage or the structure of the answer
\* is refused: then what was a success is quarantined.
Withdraw ==
    /\ pc = "returned"
    /\ record' = IF record = "success" THEN "quarantined" ELSE record
    /\ Settle("raised")
    /\ UNCHANGED <<outputs, evidence>>

\* emit_lifecycle_close: the worker is shut down, and its idle time is part of
\* the time that was billed.
CloseLifecycle(idle, billed) ==
    /\ pc \in {"done", "raised", "refused", "unprobed"}
    /\ ValidProbe(Runtime[loaded])
    /\ idle > 0 /\ idle <= billed
    /\ pc' = "closed"
    /\ UNCHANGED <<jobVars, elapsed, cancelled, netVars, loaded, replyVars, failed, record, begun, recorded>>

\* Environment: the clock, the control, and the runtime behind the endpoint.
Tick ==
    /\ pc \in Running /\ elapsed < Timeout + MaxStall
    /\ elapsed' = elapsed + 1
    /\ UNCHANGED <<jobVars, pc, cancelled, netVars, loaded, replyVars, failed, record, begun, recorded>>

Cancel ==
    /\ pc \in Active /\ ~cancelled
    /\ cancelled' = TRUE
    /\ UNCHANGED <<jobVars, pc, elapsed, netVars, loaded, replyVars, failed, record, begun, recorded>>

Replace ==
    /\ pc \in Active /\ loaded < MaxReplaced
    /\ loaded' = loaded + 1
    /\ UNCHANGED <<jobVars, pc, elapsed, cancelled, netVars, replyVars, failed, record, begun, recorded>>

Model == {Slot(request)}

AttemptNext ==
    \/ \E model \in Model : Begin(model) \/ Refuse(model) \/ Unprobed(model)
    \/ Call \/ AskIdentity \/ Connect \/ Send \/ Respond \/ Breaks \/ Expire
    \/ \E t \in Tokens : IdentityAnswers(t)
    \/ \E c \in Chunks : ReadChunk(c) \/ ReadObject(c)
    \/ \E probed \in BOOLEAN : Record(probed)
    \/ ReadDone \/ EndStream \/ Accept \/ Withdraw \/ SkipDebate
    \/ \E idle, billed \in {1, 2} : CloseLifecycle(idle, billed)
    \/ Tick \/ Cancel \/ Replace

\* The process runs and its clock goes on, and the second probe returns or raises;
\* nothing is asked of the server.
AttemptSpec ==
    /\ AttemptInit /\ [][AttemptNext]_attemptVars
    /\ WF_attemptVars(Call) /\ WF_attemptVars(AskIdentity) /\ WF_attemptVars(Connect)
    /\ WF_attemptVars(Expire) /\ WF_attemptVars(\E probed \in BOOLEAN : Record(probed))
    /\ WF_attemptVars(Accept \/ Withdraw)
    /\ WF_attemptVars(Tick)
-----------------------------------------------------------------------------
(* Properties.                                                             *)

\* What the user was shown is the beginning of the answer and never part of
\* hidden reasoning, however the stream was cut into fragments; an answer that
\* was accepted was shown whole; a private stage shows nothing.
ShownIsTheAnswer ==
    /\ ~Hidden(shown)
    /\ pc = "read" => IsPrefix(shown, reply.text)
    /\ record = "success" /\ Stage > Len(Plan) => shown = reply.text
    /\ ~Public /\ pc \in Active => shown = <<>>

\* Every attempt that reached the runtime is recorded once, and no connection
\* outlives its attempt.
RecordedOnce ==
    /\ begun - recorded = IF pc \in Active THEN 1 ELSE 0
    /\ conn # "none" => pc \in Running

\* The token of an attempt does not expire while its connection is open, with
\* the process stalled past the deadline for less than the allowed skew.
TokenOutlivesCall == conn = "inference" => elapsed < bearer.expires

\* A record that is not quarantined names the runtime of both probes, and no
\* other runtime wrote any of the reply it accounts for, be the call a success
\* or a failure after part of the reply; a success was written by that runtime.
\* A probe that raises quarantines either, as the tests of handle_job expect.
SuccessIsOneRuntime ==
    /\ record \in {"success", "failed"} => served \subseteq {0}
    /\ record = "success" => served = {0}

\* Once a stage of a request was admitted, a later one is refused only for a text
\* it reads: one that is missing, too long or has the prefix of a placeholder in
\* it, or all of them too long together (ultra/test_binding.py:85-92).  It is
\* never refused for its tokens, its context or its plan, however much the
\* earlier stages wrote, whether or not there was a debate.
RoomWasReserved ==
    pc = "refused" /\ outputs # <<>> =>
        \/ \E i \in DOMAIN Prior : Prior[i].chars = 0 /\ ~Prior[i].skipped
        \/ ~Small(Prior) \/ ~Unmarked(Prior)

\* A debate is called only on a conflict that the check recorded and the judge
\* cites, between two specialists of the plan that both gave an answer.
DebateIsGrounded ==
    Debating /\ pc \in Active =>
        \E cited \in evidence.cited :
            /\ Cardinality(cited) >= 2
            /\ \A i \in cited : i <= TeamSize[input] /\ outputs[i].chars > 0

\* A silent server does not hold an attempt: it ends, and is recorded.
AttemptEnds == pc \in Active ~> pc \notin Active
=============================================================================
