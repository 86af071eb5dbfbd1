--------------------------- MODULE ServingRuntime ---------------------------
(***************************************************************************)
(* The lifecycle owner of a native inference engine on one event loop      *)
(* (worker/serving_runtime.py ServingRuntime).                             *)
(*                                                                         *)
(* start(), identity() and engine_for_server() each await the health of    *)
(* the engine once; up to that await and after it they run without         *)
(* interruption, so each is two steps.  stop() and the start of other      *)
(* tasks run in between.  An engine is named after the instance, a fresh   *)
(* uuid per start(), that built it; 0 is None.                             *)
(***************************************************************************)
EXTENDS Integers

CONSTANTS
    Task,           \* tasks that call the runtime
    MaxInstance     \* bound: start() is not called beyond this instance

ASSUME ServingAssumption == MaxInstance \in Nat

VARIABLES
    state,      \* _state
    instance,   \* _instance
    backend,    \* _backend
    identity,   \* _identity: the lifecycle it names
    live,       \* engines built and not shut down
    allowed,    \* what _permission() finds: authority, image, no cancellation
    pc,         \* pc[t]: idle, starting or checking
    own,        \* own[t]: the instance and backend it captured
    handoff,    \* handoff[t]: it is in engine_for_server
    given       \* given[t]: the engine last handed to the server by t

runtimeVars == <<state, instance, backend, identity, live>>
taskVars == <<pc, own, handoff, given>>
servingVars == <<runtimeVars, allowed, taskVars>>

\* "verifying" and "draining" are overwritten before anything else can run.
States == {"stopped", "loading", "ready", "failed"}

ServingTypeOK ==
    /\ state \in States
    /\ instance \in Nat
    /\ backend \in 0..instance
    /\ identity \in 0..instance
    /\ live \subseteq 1..instance
    /\ allowed \in BOOLEAN
    /\ pc \in [Task -> {"idle", "starting", "checking"}]
    /\ own \in [Task -> 0..instance]
    /\ handoff \in [Task -> BOOLEAN]
    /\ given \in [Task -> 0..instance]

ServingInit ==
    /\ state = "stopped"
    /\ instance = 0
    /\ backend = 0
    /\ identity = 0
    /\ live = {}
    /\ allowed = TRUE
    /\ pc = [t \in Task |-> "idle"]
    /\ own = [t \in Task |-> 0]
    /\ handoff = [t \in Task |-> FALSE]
    /\ given = [t \in Task |-> 0]

-----------------------------------------------------------------------------
\* Fault: only the state is looked at again after an await.
OwnsState(t, states) == state \in states

\* _owns: the lifecycle and the engine the task captured are still current.
Owns(t, states) == instance = own[t] /\ backend = own[t] /\ state \in states

\* Fault: a failed shutdown also forgets the engine.
CloseForgets(next) ==
    /\ state' \in {next, "failed"}
    /\ backend' = 0
    /\ live' = IF state' = next THEN live \ {backend} ELSE live

\* Shut the engine down; when that raises, the reference is kept.
Close(next) ==
    \/ /\ state' = next
       /\ backend' = 0
       /\ live' = live \ {backend}
    \/ /\ backend # 0
       /\ state' = "failed"
       /\ UNCHANGED <<backend, live>>

\* _close_failed
CloseFailed == Close("failed") /\ UNCHANGED <<instance, identity>>

Suspend(t, at, captured, hands) ==
    /\ pc[t] = "idle"
    /\ pc' = [pc EXCEPT ![t] = at]
    /\ own' = [own EXCEPT ![t] = captured]
    /\ handoff' = [handoff EXCEPT ![t] = hands]
    /\ UNCHANGED <<given, allowed>>

Resume(t, at) ==
    /\ pc[t] = at
    /\ pc' = [pc EXCEPT ![t] = "idle"]
    /\ own' = [own EXCEPT ![t] = 0]
    /\ handoff' = [handoff EXCEPT ![t] = FALSE]
    /\ UNCHANGED allowed

-----------------------------------------------------------------------------
(* start()                                                                 *)

MayStart == state = "stopped" /\ allowed /\ instance < MaxInstance

\* Everything up to the await succeeds.
StartLoads(t) ==
    /\ MayStart
    /\ instance' = instance + 1
    /\ identity' = instance + 1
    /\ backend' = instance + 1
    /\ live' = live \union {instance + 1}
    /\ state' = "loading"
    /\ Suspend(t, "starting", instance + 1, FALSE)

\* Verification or construction fails before there is an engine.
StartFailsEarly ==
    /\ MayStart
    /\ instance' = instance + 1
    /\ identity' \in {identity, instance + 1}
    /\ state' = "failed"
    /\ UNCHANGED <<backend, live, allowed, taskVars>>

\* The new engine is not the verified one, or was built too late.
StartFailsLoaded ==
    /\ MayStart
    /\ instance' = instance + 1
    /\ identity' = instance + 1
    /\ state' = "failed"
    /\ \/ UNCHANGED <<backend, live>>
       \/ backend' = instance + 1 /\ live' = live \union {instance + 1}
    /\ UNCHANGED <<allowed, taskVars>>

\* Fault: approval and ownership are not looked at again after the await.
StartReadyBlind(t) ==
    /\ Resume(t, "starting")
    /\ state' = "ready"
    /\ UNCHANGED <<instance, backend, identity, live, given>>

StartReady(t) ==
    /\ Resume(t, "starting")
    /\ Owns(t, {"loading"})
    /\ allowed
    /\ state' = "ready"
    /\ UNCHANGED <<instance, backend, identity, live, given>>

\* Unhealthy, timed out, cancelled, refused, or no longer the owner.
StartRaises(t) ==
    /\ Resume(t, "starting")
    /\ \/ Owns(t, {"loading"}) /\ CloseFailed
       \/ ~Owns(t, {"loading"}) /\ UNCHANGED runtimeVars
    /\ UNCHANGED given

-----------------------------------------------------------------------------
(* identity() and engine_for_server(expected_lifecycle_id), which refuses  *)
(* a lifecycle that is not the current one.                                *)

CheckAwaits(t) ==
    /\ state = "ready"
    /\ allowed
    /\ \E hands \in BOOLEAN : Suspend(t, "checking", instance, hands)
    /\ UNCHANGED runtimeVars

\* Approval is gone or the engine drifted: the runtime fails at once.
CheckRefused ==
    /\ state = "ready"
    /\ CloseFailed
    /\ UNCHANGED <<allowed, taskVars>>

CheckReturns(t) ==
    /\ Resume(t, "checking")
    /\ Owns(t, {"ready"})
    /\ allowed
    /\ given' = IF handoff[t] THEN [given EXCEPT ![t] = own[t]] ELSE given
    /\ UNCHANGED runtimeVars

CheckRaises(t) ==
    /\ Resume(t, "checking")
    /\ \/ Owns(t, {"ready"}) /\ CloseFailed
       \/ ~Owns(t, {"ready"}) /\ UNCHANGED runtimeVars
    /\ UNCHANGED given

-----------------------------------------------------------------------------
Stop ==
    /\ Close("stopped")
    /\ identity' = IF state' = "stopped" THEN 0 ELSE identity
    /\ UNCHANGED <<instance, allowed, taskVars>>

ChangePermission == allowed' = ~allowed /\ UNCHANGED <<runtimeVars, taskVars>>

ServingNext ==
    \/ \E t \in Task :
          \/ StartLoads(t) \/ StartReady(t) \/ StartRaises(t)
          \/ CheckAwaits(t) \/ CheckReturns(t) \/ CheckRaises(t)
    \/ StartFailsEarly
    \/ StartFailsLoaded
    \/ CheckRefused
    \/ Stop
    \/ ChangePermission

ServingSpec == ServingInit /\ [][ServingNext]_servingVars
-----------------------------------------------------------------------------
(* Properties.                                                             *)

\* No engine is ever lost or doubled: whatever was built and not shut down is
\* the one the runtime refers to, stopped means none, and ready means that
\* very engine under the identity that was verified for it.
EngineIsOwned ==
    /\ live = IF backend = 0 THEN {} ELSE {backend}
    /\ state = "stopped" => backend = 0
    /\ state \in {"loading", "ready"} =>
           backend = instance /\ identity = instance /\ backend # 0

\* The server only ever receives the engine of the lifecycle it asked for,
\* while that engine runs, is ready and is still approved.
HandoffIsCurrent ==
    [][\A t \in Task : given'[t] # given[t] =>
          given'[t] = instance /\ given'[t] \in live /\ state = "ready" /\ allowed]_servingVars

\* A task whose lifecycle was replaced changes nothing when its await ends: it
\* neither closes the new engine nor declares it ready.
OldTaskIsHarmless ==
    [][\A t \in Task : pc[t] # "idle" /\ pc'[t] = "idle" /\ own[t] # instance =>
          UNCHANGED <<runtimeVars, given>>]_servingVars
=============================================================================
