--------------------------- MODULE ArtifactStartup ---------------------------
(***************************************************************************)
(* How start() of ServingRuntime gets from files to an engine, and the     *)
(* offline gate that verifies the same files without loading them:         *)
(* worker/model_startup.py and worker/model_artifact.py.                   *)
(*                                                                         *)
(* Reading a policy, listing a directory, looking at a file and reading it *)
(* piece by piece are separate system calls; other processes may write     *)
(* between any two of them until the directory is mounted read-only.  The  *)
(* identity of a file (inode, size, times) is a stamp that every write     *)
(* changes.  A content is one flag per piece, TRUE where it is the bytes   *)
(* the manifest names; a file that is not there is the empty sequence.     *)
(*                                                                         *)
(* start() runs on the event loop without an await until the engine is     *)
(* built, so no other task runs meanwhile.  A policy file is only ever     *)
(* replaced by a newer one.                                                *)
(***************************************************************************)
EXTENDS ServingRuntime, Sequences, FiniteSets, Functions

CONSTANTS
    Manifest,       \* the manifest the policies name
    Catalog,        \* CORE_SERVING: what is pinned for the candidate
    Policies,       \* the policy file's contents, oldest first
    Loader,         \* the LoaderPolicy of the runtime
    Stray,          \* names that no manifest lists
    Writable,       \* bound: the files that are ever written
    Gate,           \* the offline verifier, not a task
    Nobody,         \* no verification is running
    MaxWrites       \* bound: writes to the directory

\* The manifest is a list, and the gate is no task of the event loop.
ASSUME StartupAssumption ==
    /\ Len(Manifest.files) \in Nat /\ DOMAIN Manifest.files = 1..Len(Manifest.files)
    /\ Gate \notin Task /\ Nobody \notin Task /\ Gate # Nobody

VARIABLES
    disk,       \* disk[f]: the pieces of a file
    stamp,      \* stamp[f]: its identity
    writes,     \* ghost: writes so far
    readonly,   \* the directory is mounted read-only
    policy,     \* the version of the policy file
    who,        \* the task or gate that verifies
    step,       \* where it is
    source,     \* versions of the policy it read: start()'s own, run_startup's
    left,       \* files not yet hashed, or not yet looked at again
    current,    \* the file being hashed
    before,     \* its stamp when it was opened
    pieces,     \* the pieces read so far
    checked,    \* checked[f]: the stamp f was hashed under
    whole       \* ghost: at some moment of the scan every file was approved

diskVars == <<disk, stamp, writes, readonly, policy>>
scanVars == <<who, step, source, left, current, before, pieces, checked, whole>>
startupVars == <<servingVars, diskVars, scanVars>>

Names == {f.name : f \in Range(Manifest.files)}
Order == [i \in DOMAIN Manifest.files |-> Manifest.files[i].name]
File == Names \union Stray
Absent == <<>>
Good == <<TRUE, TRUE>>
Contents == {Absent, Good, <<TRUE, FALSE>>, <<FALSE, TRUE>>}
Approved == \A f \in File : disk[f] = IF f \in Names THEN Good ELSE Absent

-----------------------------------------------------------------------------
(* What is checked once and cannot change under the reader.                *)

\* validate_policy: a policy can enable verification and nothing else.
ValidPolicy(p) ==
    /\ p.status = "source_only_serving_blocked"
    /\ p.safety = {}
    /\ p.verification => p.manifest # p.root /\ p.timeout > 0

\* validate_manifest: the pinned candidate with its pinned trained adapter, the
\* required files, and weights in one piece or in shards by family.
ValidManifest ==
    /\ Manifest.digest = Catalog.bundle
    /\ Manifest.candidate = Catalog.candidate /\ Manifest.revision = Catalog.revision
    /\ Catalog.adapter # "none" /\ Manifest.adapter = Catalog.adapter
    /\ {"config.json", "tokenizer.json", "tokenizer_config.json", "adapter_config.json"} \subseteq Names
    /\ Cardinality(Names) = Len(Manifest.files)
    /\ \A f \in Range(Manifest.files) : f.name = "adapter_model.safetensors" => f.digest = Catalog.adapter
    /\ "adapter_model.safetensors" \in Names
    /\ IF Manifest.candidate = "kova-cosmo"
       THEN "model.safetensors" \in Names /\ "model.safetensors.index.json" \notin Names
       ELSE "model.safetensors.index.json" \in Names /\ "model.safetensors" \notin Names

\* _metadata_contract: a LoRA over the family's base, no remote code, and an
\* index that names exactly the shards.
ValidMetadata ==
    /\ ~Manifest.remoteCode
    /\ Manifest.base \in {Catalog.source, "local snapshot"}
    /\ Manifest.rank > 0
    /\ "model.safetensors.index.json" \in Names => Manifest.indexed = Manifest.shards

\* LoaderPolicy, NativeVllm.__init__: a loader that is switched on, and an
\* adapter of a rank it can take.
MayLoad ==
    /\ Loader.enabled /\ Loader.loading /\ Loader.gpu
    /\ Loader.candidate = Manifest.candidate
    /\ Loader.context <= Catalog.context
    /\ Manifest.rank \in 1..64

StartupInit ==
    /\ ServingInit
    /\ disk \in {d \in [File -> Contents] : \A f \in File \ Writable : d[f] = IF f \in Names THEN Good ELSE Absent}
    /\ stamp = [f \in File |-> 0] /\ writes = 0
    /\ readonly = FALSE /\ policy = 1
    /\ who = Nobody /\ step = "off" /\ source = <<0, 0>>
    /\ left = <<>> /\ current = "none" /\ before = 0 /\ pieces = <<>>
    /\ checked = [f \in File |-> 0] /\ whole = FALSE

-----------------------------------------------------------------------------
Quiet == UNCHANGED <<servingVars, diskVars>>

At(s) == step = s

Listed == \A f \in File : disk[f] # Absent <=> f \in Names

\* Nothing is left of a verification that returned or raised.
Clear ==
    /\ who' = Nobody /\ step' = "off" /\ source' = <<0, 0>>
    /\ left' = <<>> /\ current' = "none" /\ before' = 0 /\ pieces' = <<>>
    /\ checked' = [f \in File |-> 0] /\ whole' = FALSE

\* start() before its first file access: state, permission.
StartVerifies(t) ==
    /\ who = Nobody /\ MayStart /\ pc[t] = "idle"
    /\ who' = t /\ step' = "policy"
    /\ Quiet /\ UNCHANGED <<source, left, current, before, pieces, checked, whole>>

\* main() of the gate: run_startup alone.
GateVerifies ==
    /\ who = Nobody
    /\ who' = Gate /\ step' = "startup"
    /\ Quiet /\ UNCHANGED <<source, left, current, before, pieces, checked, whole>>

\* _control_bytes of start(): the policy it was configured for.
ReadPolicy ==
    /\ At("policy") /\ policy = 1
    /\ ValidPolicy(Policies[policy]) /\ Policies[policy].verification
    /\ source' = <<policy, 0>> /\ step' = "mount"
    /\ Quiet /\ UNCHANGED <<who, left, current, before, pieces, checked, whole>>

\* Fault: the mount is not looked at, the hashes are trusted to suffice.
AnyMount == TRUE

\* _environment_guard
ProtectedMount == readonly

CheckMount ==
    /\ At("mount") /\ ProtectedMount
    /\ step' = "startup"
    /\ Quiet /\ UNCHANGED <<who, source, left, current, before, pieces, checked, whole>>

\* run_startup reads the policy again, for its own use.
ReadAgain ==
    /\ At("startup")
    /\ ValidPolicy(Policies[policy]) /\ Policies[policy].verification
    /\ source' = <<source[1], policy>> /\ step' = "list"
    /\ Quiet /\ UNCHANGED <<who, left, current, before, pieces, checked, whole>>

\* verify_model_artifact up to the loop.  Another policy names another
\* directory, whose verification is left open.
ListFiles ==
    /\ At("list") /\ ValidManifest
    /\ \/ /\ source[2] = 1
          /\ Listed /\ left' = Order /\ step' = "next" /\ whole' = Approved
       \/ source[2] # 1 /\ step' = "verified" /\ UNCHANGED <<left, whole>>
    /\ Quiet /\ UNCHANGED <<who, source, current, before, pieces, checked>>

\* _regular: lstat and open the next file, under its identity.
OpenFile ==
    /\ At("next") /\ left # <<>> /\ disk[Head(left)] # Absent
    /\ current' = Head(left) /\ left' = Tail(left)
    /\ before' = stamp[current'] /\ pieces' = <<>> /\ step' = "hash"
    /\ Quiet /\ UNCHANGED <<who, source, checked, whole>>

ReadPiece ==
    /\ At("hash") /\ Len(pieces) < 2 /\ disk[current] # Absent
    /\ pieces' = Append(pieces, disk[current][Len(pieces) + 1])
    /\ Quiet /\ UNCHANGED <<who, step, source, left, current, before, checked, whole>>

\* The digest matches and the identity is still the one before.
CloseFile ==
    /\ At("hash") /\ pieces = Good
    /\ stamp[current] = before
    /\ checked' = [checked EXCEPT ![current] = before]
    /\ current' = "none" /\ before' = 0 /\ pieces' = <<>>
    /\ step' = "next"
    /\ Quiet /\ UNCHANGED <<who, source, left, whole>>

\* Every file is hashed: the metadata, and a second listing.
ListAgain ==
    /\ At("next") /\ left = <<>> /\ ValidMetadata /\ Listed
    /\ left' = Order /\ step' = "recheck"
    /\ Quiet /\ UNCHANGED <<who, source, current, before, pieces, checked, whole>>

\* Fault: a file need only still be there.
StillThere(f) == disk[f] # Absent

\* The identity taken before hashing still holds.
SameIdentity(f) == disk[f] # Absent /\ stamp[f] = checked[f]

LookAgain ==
    /\ At("recheck") /\ SameIdentity(Head(left))
    /\ left' = Tail(left) /\ step' = IF left' = <<>> THEN "verified" ELSE "recheck"
    /\ Quiet /\ UNCHANGED <<who, source, current, before, pieces, checked, whole>>

\* The gate reports its evidence; serving stays blocked.
GateReports ==
    /\ At("verified") /\ who = Gate
    /\ Clear /\ Quiet

Unchanged(version) == policy = version

\* start() with the evidence: the policy must still be the one it read, and the
\* loading be permitted; then the engine is built and its health awaited.
BuildEngine(t) ==
    /\ At("verified") /\ who = t /\ Unchanged(source[1]) /\ MayLoad
    /\ StartLoads(t)
    /\ Clear /\ UNCHANGED diskVars

\* The engine that was built is not the verified one, or was built too late.
BuildFails ==
    /\ At("verified") /\ who \in Task /\ Unchanged(source[1])
    /\ StartFailsLoaded
    /\ Clear /\ UNCHANGED diskVars

\* Any check of start() or below it raises, a deadline and a cancellation
\* included.
VerifyRaises ==
    /\ who # Nobody
    /\ IF who \in Task
       THEN /\ instance' = instance + 1 /\ state' = "failed"
            /\ UNCHANGED <<backend, identity, live, allowed, taskVars>>
       ELSE UNCHANGED servingVars
    /\ Clear /\ UNCHANGED diskVars

-----------------------------------------------------------------------------
(* Everyone else.                                                          *)

Write(f, content) ==
    /\ ~readonly /\ writes < MaxWrites /\ f \in Writable /\ content # disk[f]
    /\ disk' = [disk EXCEPT ![f] = content]
    /\ stamp' = [stamp EXCEPT ![f] = @ + 1] /\ writes' = writes + 1
    /\ whole' = (whole \/ (step \in {"next", "hash", "recheck"} /\ Approved'))
    /\ UNCHANGED <<servingVars, readonly, policy, who, step, source, left, current, before, pieces, checked>>

Protect ==
    /\ ~readonly /\ readonly' = TRUE
    /\ UNCHANGED <<servingVars, disk, stamp, writes, policy, scanVars>>

NewPolicy ==
    /\ policy < Len(Policies) /\ policy' = policy + 1
    /\ UNCHANGED <<servingVars, disk, stamp, writes, readonly, scanVars>>

\* The rest of the runtime, while start() does not hold the event loop.
RuntimeStep ==
    /\ who \notin Task
    /\ \/ \E t \in Task :
             \/ StartReady(t) \/ StartRaises(t)
             \/ CheckAwaits(t) \/ CheckReturns(t) \/ CheckRaises(t)
       \/ CheckRefused
       \/ Stop
    /\ UNCHANGED <<diskVars, scanVars>>

StartupNext ==
    \/ \E t \in Task : StartVerifies(t) \/ BuildEngine(t)
    \/ GateVerifies \/ ReadPolicy \/ CheckMount \/ ReadAgain \/ ListFiles
    \/ OpenFile \/ ReadPiece \/ CloseFile \/ ListAgain \/ LookAgain \/ GateReports \/ BuildFails \/ VerifyRaises
    \/ \E f \in File, content \in Contents : Write(f, content)
    \/ Protect \/ NewPolicy
    \/ RuntimeStep
    \/ ChangePermission /\ UNCHANGED <<diskVars, scanVars>>

StartupSpec == StartupInit /\ [][StartupNext]_startupVars
-----------------------------------------------------------------------------
(* Properties.                                                             *)

\* Evidence is about a state of the directory that existed: at some moment of
\* the scan every file was the approved one, however files were replaced while
\* others were being read.
EvidenceWasTrue == At("verified") /\ source[2] = 1 => whole

\* An engine is only ever built over a directory that holds, at that moment and
\* from then on, the approved bytes the policy names.
EngineLoadsApproved ==
    [][live' \ live # {} => Approved /\ readonly /\ source = <<1, 1>>]_startupVars
=============================================================================
