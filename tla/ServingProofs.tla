--------------------------- MODULE ServingProofs ---------------------------
(***************************************************************************)
(* Theorems about ServingRuntime for every set of tasks and every number   *)
(* of lifecycles, and about ArtifactStartup for every manifest and any     *)
(* number of writes, checked by TLAPS.                                     *)
(***************************************************************************)
EXTENDS ArtifactStartup, SequenceTheorems, TLAPS

\* The inductive invariant: types, and one owned engine.
SInv == ServingTypeOK /\ EngineIsOwned

\* The runtime starts without an engine.
LEMMA ServingInitHolds == ServingInit => SInv
BY ServingAssumption DEF ServingInit, SInv, ServingTypeOK, EngineIsOwned, States

\* A shutdown, successful or not, keeps track of the engine.
LEMMA CloseHolds ==
    ASSUME SInv, NEW next \in {"stopped", "failed"}, Close(next)
    PROVE  /\ state' \in {next, "failed"}
           /\ backend' \in 0..instance
           /\ live' = IF backend' = 0 THEN {} ELSE {backend'}
           /\ live' \subseteq 1..instance
           /\ state' = "stopped" => backend' = 0
BY DEF SInv, ServingTypeOK, EngineIsOwned, Close

\* What a task that resumes or suspends does to the variables of the tasks.
LEMMA TasksStayTyped ==
    ASSUME SInv, NEW t \in Task, instance' \in Nat, instance <= instance',
           \/ \E at \in {"starting", "checking"}, hands \in BOOLEAN :
                 Suspend(t, at, instance', hands)
           \/ (\E at \in {"starting", "checking"} : Resume(t, at)) /\ UNCHANGED given
    PROVE  /\ pc' \in [Task -> {"idle", "starting", "checking"}]
           /\ own' \in [Task -> 0..instance']
           /\ handoff' \in [Task -> BOOLEAN]
           /\ given' \in [Task -> 0..instance']
           /\ allowed' \in BOOLEAN
<1> USE DEF SInv, ServingTypeOK
<1>1. 0..instance \subseteq 0..instance' /\ instance' \in 0..instance'
  OBVIOUS
<1>2. own \in [Task -> 0..instance'] /\ given \in [Task -> 0..instance']
  BY <1>1
<1>3. ASSUME NEW at \in {"starting", "checking"}, NEW hands \in BOOLEAN,
             Suspend(t, at, instance', hands)
      PROVE  /\ pc' \in [Task -> {"idle", "starting", "checking"}]
             /\ own' \in [Task -> 0..instance']
             /\ handoff' \in [Task -> BOOLEAN]
             /\ given' = given
             /\ allowed' = allowed
  BY <1>1, <1>2, <1>3 DEF Suspend
<1>4. ASSUME NEW at \in {"starting", "checking"}, Resume(t, at), UNCHANGED given
      PROVE  /\ pc' \in [Task -> {"idle", "starting", "checking"}]
             /\ own' \in [Task -> 0..instance']
             /\ handoff' \in [Task -> BOOLEAN]
             /\ given' = given
             /\ allowed' = allowed
  BY <1>1, <1>2, <1>4 DEF Resume
<1>5. QED
  BY <1>2, <1>3, <1>4

\* No step of a task, of stop() or of the outside breaks the invariant.
LEMMA ServingStepHolds == SInv /\ [ServingNext]_servingVars => SInv'
<1> SUFFICES ASSUME SInv, [ServingNext]_servingVars PROVE SInv'
  OBVIOUS
<1> USE DEF SInv, ServingTypeOK, States
<1>1. ASSUME NEW t \in Task, StartLoads(t) PROVE SInv'
  <2>1. /\ instance' = instance + 1 /\ identity' = instance' /\ backend' = instance'
        /\ live' = live \union {instance'} /\ state' = "loading" /\ state = "stopped"
        /\ Suspend(t, "starting", instance', FALSE)
    BY <1>1 DEF StartLoads, MayStart
  <2>2. EngineIsOwned'
    BY <2>1 DEF EngineIsOwned
  <2>3. instance' \in Nat /\ instance <= instance' /\ live' \subseteq 1..instance'
    BY <2>1
  <2>4. /\ pc' \in [Task -> {"idle", "starting", "checking"}]
        /\ own' \in [Task -> 0..instance']
        /\ handoff' \in [Task -> BOOLEAN]
        /\ given' \in [Task -> 0..instance']
        /\ allowed' \in BOOLEAN
    <3>1. "starting" \in {"starting", "checking"} /\ FALSE \in BOOLEAN
      OBVIOUS
    <3>2. QED
      BY <2>1, <2>3, <3>1, TasksStayTyped
  <2>5. QED
    BY <2>1, <2>2, <2>3, <2>4
<1>2. ASSUME NEW t \in Task, StartReady(t) PROVE SInv'
  BY <1>2, TasksStayTyped DEF StartReady, Owns, EngineIsOwned
<1>3. ASSUME NEW t \in Task, StartRaises(t) PROVE SInv'
  <2>1. Resume(t, "starting") /\ UNCHANGED <<given, instance, identity>>
    BY <1>3 DEF StartRaises, CloseFailed, runtimeVars
  <2>2. CASE CloseFailed
    BY <2>1, <2>2, CloseHolds, TasksStayTyped DEF CloseFailed, EngineIsOwned
  <2>3. CASE UNCHANGED runtimeVars
    BY <2>1, <2>3, TasksStayTyped DEF runtimeVars, EngineIsOwned
  <2>4. QED
    BY <1>3, <2>2, <2>3 DEF StartRaises
<1>4. ASSUME NEW t \in Task, CheckAwaits(t) PROVE SInv'
  <2>1. UNCHANGED runtimeVars
    BY <1>4 DEF CheckAwaits
  <2>2. PICK hands \in BOOLEAN : Suspend(t, "checking", instance, hands)
    BY <1>4 DEF CheckAwaits
  <2>3. QED
    BY <2>1, <2>2, TasksStayTyped DEF runtimeVars, EngineIsOwned
<1>5. ASSUME NEW t \in Task, CheckReturns(t) PROVE SInv'
  <2>1. UNCHANGED runtimeVars
    BY <1>5 DEF CheckReturns
  <2>2. given' \in [Task -> 0..instance]
    BY <1>5 DEF CheckReturns
  <2>3. QED
    BY <1>5, <2>1, <2>2 DEF CheckReturns, Resume, runtimeVars, EngineIsOwned
<1>6. ASSUME NEW t \in Task, CheckRaises(t) PROVE SInv'
  <2>1. Resume(t, "checking") /\ UNCHANGED <<given, instance, identity>>
    BY <1>6 DEF CheckRaises, CloseFailed, runtimeVars
  <2>2. CASE CloseFailed
    BY <2>1, <2>2, CloseHolds, TasksStayTyped DEF CloseFailed, EngineIsOwned
  <2>3. CASE UNCHANGED runtimeVars
    BY <2>1, <2>3, TasksStayTyped DEF runtimeVars, EngineIsOwned
  <2>4. QED
    BY <1>6, <2>2, <2>3 DEF CheckRaises
<1>7. CASE StartFailsEarly \/ StartFailsLoaded
  <2>1. /\ instance' = instance + 1 /\ identity' \in {identity, instance'} /\ state' = "failed"
        /\ state = "stopped" /\ UNCHANGED <<allowed, taskVars>>
    BY <1>7 DEF StartFailsEarly, StartFailsLoaded, MayStart
  <2>2. \/ UNCHANGED <<backend, live>>
        \/ backend' = instance' /\ live' = live \union {instance'}
    BY <1>7, <2>1 DEF StartFailsEarly, StartFailsLoaded
  <2>3. EngineIsOwned'
    <3>1. backend = 0 /\ live = {} /\ instance' # 0
      BY <2>1 DEF EngineIsOwned
    <3>2. QED
      BY <2>1, <2>2, <3>1 DEF EngineIsOwned
  <2>4. 0..instance \subseteq 0..instance' /\ 1..instance \subseteq 1..instance'
    BY <2>1
  <2>5. instance' \in Nat /\ identity' \in 0..instance' /\ backend' \in 0..instance'
        /\ live' \subseteq 1..instance'
    <3>1. instance' \in Nat /\ instance' \in 1..instance' /\ instance' \in 0..instance'
      BY <2>1
    <3>2. identity \in 0..instance' /\ backend \in 0..instance' /\ live \subseteq 1..instance'
      BY <2>4
    <3>3. identity' \in 0..instance'
      BY <2>1, <3>1, <3>2
    <3>4. backend' \in 0..instance' /\ live' \subseteq 1..instance'
      BY <2>2, <3>1, <3>2
    <3>5. QED
      BY <3>1, <3>3, <3>4
  <2>6. own' \in [Task -> 0..instance'] /\ given' \in [Task -> 0..instance']
    BY <2>1, <2>4 DEF taskVars
  <2>7. QED
    BY <2>1, <2>3, <2>5, <2>6 DEF taskVars
<1>8. CASE CheckRefused
  BY <1>8, CloseHolds DEF CheckRefused, CloseFailed, taskVars, EngineIsOwned
<1>9. CASE Stop
  BY <1>9, CloseHolds DEF Stop, taskVars, EngineIsOwned
<1>10. CASE ChangePermission
  BY <1>10 DEF ChangePermission, runtimeVars, taskVars, EngineIsOwned
<1>11. CASE UNCHANGED servingVars
  BY <1>11 DEF servingVars, runtimeVars, taskVars, EngineIsOwned
<1>12. QED
  BY <1>1, <1>2, <1>3, <1>4, <1>5, <1>6, <1>7, <1>8, <1>9, <1>10, <1>11 DEF ServingNext

-----------------------------------------------------------------------------
\* Every variable of the runtime and its tasks keeps its type.
THEOREM ServingTypeCorrect == ServingSpec => []ServingTypeOK
<1>1. SInv => ServingTypeOK
  BY DEF SInv
<1>2. QED
  BY <1>1, ServingInitHolds, ServingStepHolds, PTL DEF ServingSpec

\* No engine is lost or doubled, whatever overlaps and whichever shutdowns fail.
THEOREM EnginesAreOwned == ServingSpec => []EngineIsOwned
<1>1. SInv => EngineIsOwned
  BY DEF SInv
<1>2. QED
  BY <1>1, ServingInitHolds, ServingStepHolds, PTL DEF ServingSpec

\* An engine that is handed out is the current one, live and approved.
Handed == \A t \in Task : given'[t] # given[t] =>
              given'[t] = instance /\ given'[t] \in live /\ state = "ready" /\ allowed

\* Every step of the runtime hands out such an engine or none.
LEMMA HandedSteps == SInv /\ [ServingNext]_servingVars => [Handed]_servingVars
<1> USE DEF Handed
<1>1. ASSUME SInv, ServingNext PROVE Handed
  <2>1. ASSUME NEW t \in Task, CheckReturns(t) PROVE Handed
    <3>1. own[t] = instance /\ live = {instance} /\ state = "ready" /\ allowed
      BY <1>1, <2>1 DEF CheckReturns, Owns, SInv, ServingTypeOK, EngineIsOwned
    <3>2. given' = [given EXCEPT ![t] = own[t]] \/ given' = given
      BY <2>1 DEF CheckReturns
    <3>3. QED
      BY <1>1, <3>1, <3>2 DEF SInv, ServingTypeOK
  <2>2. CASE UNCHANGED given
    BY <2>2
  <2>3. QED
    BY <1>1, <2>1, <2>2 DEF ServingNext, StartLoads, StartReady, StartRaises, CheckAwaits,
       CheckRaises, StartFailsEarly, StartFailsLoaded, CheckRefused, Stop, ChangePermission,
       Suspend, taskVars
<1> QED
  BY <1>1

\* An engine is handed out only while it is the running, ready and approved
\* engine of the lifecycle that was asked for.
THEOREM HandoffsAreCurrent == ServingSpec => HandoffIsCurrent
BY HandedSteps, ServingInitHolds, ServingStepHolds, PTL DEF ServingSpec, HandoffIsCurrent, Handed

\* A task whose lifecycle was replaced changes nothing.
Harmless == \A t \in Task : pc[t] # "idle" /\ pc'[t] = "idle" /\ own[t] # instance =>
                UNCHANGED <<runtimeVars, given>>

\* Every step of the runtime is harmless in this sense.
LEMMA HarmlessSteps == SInv /\ [ServingNext]_servingVars => [Harmless]_servingVars
<1> USE DEF Harmless
<1>1. ASSUME SInv, ServingNext PROVE Harmless
  <2> USE <1>1 DEF SInv, ServingTypeOK
  <2>1. ASSUME NEW u \in Task, CheckReturns(u) PROVE Harmless
    <3>1. \A t \in Task : pc'[t] # pc[t] => t = u
      BY <2>1 DEF CheckReturns, Resume
    <3>2. own[u] = instance
      BY <2>1 DEF CheckReturns, Owns
    <3>3. QED
      BY <3>1, <3>2
  <2>2. ASSUME NEW u \in Task, StartReady(u) PROVE Harmless
    <3>1. \A t \in Task : pc'[t] # pc[t] => t = u
      BY <2>2 DEF StartReady, Resume
    <3>2. own[u] = instance
      BY <2>2 DEF StartReady, Owns
    <3>3. QED
      BY <3>1, <3>2
  <2>3. ASSUME NEW u \in Task, StartRaises(u) PROVE Harmless
    <3>1. \A t \in Task : pc'[t] # pc[t] => t = u
      BY <2>3 DEF StartRaises, Resume
    <3>2. own[u] # instance => UNCHANGED <<runtimeVars, given>>
      BY <2>3 DEF StartRaises, Owns
    <3>3. QED
      BY <3>1, <3>2
  <2>4. ASSUME NEW u \in Task, CheckRaises(u) PROVE Harmless
    <3>1. \A t \in Task : pc'[t] # pc[t] => t = u
      BY <2>4 DEF CheckRaises, Resume
    <3>2. own[u] # instance => UNCHANGED <<runtimeVars, given>>
      BY <2>4 DEF CheckRaises, Owns
    <3>3. QED
      BY <3>1, <3>2
  <2>5. ASSUME NEW u \in Task, StartLoads(u) \/ CheckAwaits(u) PROVE Harmless
    <3>1. \A t \in Task : pc'[t] = "idle" => pc[t] = "idle"
      BY <2>5 DEF StartLoads, CheckAwaits, Suspend
    <3>2. QED
      BY <3>1
  <2>6. CASE UNCHANGED pc
    BY <2>6
  <2>7. QED
    BY <2>1, <2>2, <2>3, <2>4, <2>5, <2>6 DEF ServingNext, StartFailsEarly,
       StartFailsLoaded, CheckRefused, Stop, ChangePermission, taskVars
<1> QED
  BY <1>1

\* An await of an old lifecycle that ends changes nothing of the new one.
THEOREM OldTasksAreHarmless == ServingSpec => OldTaskIsHarmless
BY HarmlessSteps, ServingInitHolds, ServingStepHolds, PTL DEF ServingSpec, OldTaskIsHarmless, Harmless

-----------------------------------------------------------------------------
(* The way from files to an engine, for every manifest, every directory and *)
(* any number of writes.                                                    *)

Scanning == {"next", "hash", "recheck"}

\* Files of the manifest that are still to be hashed.
Unhashed == Range(left) \union (IF step = "hash" THEN {current} ELSE {})

\* What has been read is there for as long as the stamp it was read under, and
\* after the second listing the scan has seen the approved directory or will
\* find a file that was written since it was hashed.
ScanFits ==
    /\ disk \in [File -> Contents] /\ stamp \in [File -> Nat] /\ checked \in [File -> Nat]
    /\ left \in Seq(Names)
    /\ \A f \in File : checked[f] <= stamp[f]
    /\ step \in Scanning => Order # <<>>
    /\ step = "recheck" => left # <<>>
    /\ step = "hash" =>
          /\ current \in Names /\ before \in Nat /\ before <= stamp[current]
          /\ pieces \in Seq(BOOLEAN)
          /\ stamp[current] = before =>
                 disk[current] # Absent /\ \A i \in 1..Len(pieces) : pieces[i] = disk[current][i]
    /\ step \in {"next", "hash"} =>
          \A f \in Names \ Unhashed : stamp[f] = checked[f] => disk[f] = Good
    /\ step \in Scanning /\ Approved => whole
    /\ step = "recheck" /\ ~whole => \E f \in Range(left) : stamp[f] # checked[f]
    /\ step = "verified" /\ source[2] = 1 => whole

\* The order of the list and the names in it.
LEMMA OrderIsNames == Order \in Seq(Names) /\ Range(Order) = Names
<1>1. DOMAIN Order = 1..Len(Manifest.files) /\ Len(Manifest.files) \in Nat
  BY StartupAssumption DEF Order
<1>2. \A i \in DOMAIN Order : Order[i] \in Names
  BY StartupAssumption DEF Order, Names, Range
<1>3. Order \in Seq(Names)
  <2>1. Order = [i \in 1..Len(Manifest.files) |-> Order[i]]
    BY <1>1 DEF Order
  <2>2. Order \in [1..Len(Manifest.files) -> Names]
    BY <1>1, <1>2, <2>1
  <2> QED
    BY <1>1, <2>2, SeqDef
<1>4. Names \subseteq Range(Order)
  BY StartupAssumption DEF Order, Names, Range
<1> QED
  BY <1>2, <1>3, <1>4 DEF Range

\* The rest of a list holds every name of it but the first.
LEMMA TailRange ==
    ASSUME NEW s \in Seq(Names), s # <<>>
    PROVE  /\ Head(s) \in Names /\ Tail(s) \in Seq(Names)
           /\ Range(s) = {Head(s)} \union Range(Tail(s))
<1>1. /\ Len(s) \in Nat \ {0} /\ DOMAIN s = 1..Len(s) /\ Head(s) = s[1]
      /\ Len(Tail(s)) = Len(s) - 1 /\ DOMAIN Tail(s) = 1..(Len(s) - 1)
      /\ \A i \in 1..(Len(s) - 1) : Tail(s)[i] = s[i + 1]
  OBVIOUS
<1>2. \A i \in 1..Len(s) : i = 1 \/ (i - 1 \in 1..(Len(s) - 1) /\ s[i] = Tail(s)[i - 1])
  BY <1>1
<1>3. Range(s) \subseteq {Head(s)} \union Range(Tail(s))
  <2> SUFFICES ASSUME NEW i \in 1..Len(s), s[i] # Head(s) PROVE s[i] \in Range(Tail(s))
    BY <1>1 DEF Range
  <2>1. i - 1 \in DOMAIN Tail(s) /\ s[i] = Tail(s)[i - 1]
    BY <1>1, <1>2
  <2> QED
    BY <2>1 DEF Range
<1>4. Range(Tail(s)) \subseteq Range(s) /\ Head(s) \in Range(s)
  BY <1>1 DEF Range
<1> QED
  BY <1>3, <1>4

\* A verification that is over leaves nothing behind.
LEMMA ClearHolds ==
    ASSUME ScanFits, Clear, UNCHANGED diskVars
    PROVE  ScanFits'
BY DEF ScanFits, Clear, diskVars, Scanning

\* The scan starts with nothing hashed.
LEMMA ScanInitHolds == StartupInit => ScanFits
<1> SUFFICES ASSUME StartupInit PROVE ScanFits
  OBVIOUS
<1>1. disk \in [File -> Contents]
  BY DEF StartupInit
<1>2. /\ stamp = [f \in File |-> 0] /\ checked = [f \in File |-> 0]
      /\ left = <<>> /\ step = "off"
  BY DEF StartupInit
<1>3. left \in Seq(Names) /\ stamp \in [File -> Nat] /\ checked \in [File -> Nat]
  BY <1>2
<1> QED
  BY <1>1, <1>2, <1>3 DEF ScanFits, Scanning

\* A write leaves a stamp under which nothing was hashed.
LEMMA WriteHolds ==
    ASSUME ScanFits, NEW f \in File, NEW content \in Contents, Write(f, content)
    PROVE  ScanFits'
<1>1. /\ disk' = [disk EXCEPT ![f] = content] /\ stamp' = [stamp EXCEPT ![f] = @ + 1]
      /\ whole' = (whole \/ (step \in Scanning /\ Approved'))
      /\ UNCHANGED <<step, source, left, current, before, pieces, checked>>
  BY DEF Write, Scanning
<1>2. /\ disk' \in [File -> Contents] /\ stamp' \in [File -> Nat] /\ stamp'[f] = stamp[f] + 1
      /\ \A g \in File : g # f => disk'[g] = disk[g] /\ stamp'[g] = stamp[g]
  BY <1>1 DEF ScanFits
<1>3. /\ \A g \in File : checked'[g] <= stamp'[g] /\ (stamp'[g] = checked'[g] => g # f)
      /\ \A g \in File : stamp[g] # checked[g] => stamp'[g] # checked'[g]
  BY <1>1, <1>2 DEF ScanFits
<1>4. Names \subseteq File /\ (left' \in Seq(Names)) /\ checked' \in [File -> Nat]
  BY <1>1 DEF ScanFits, File
<1>5. step = "hash" =>
          /\ current \in Names /\ before \in Nat /\ before <= stamp'[current]
          /\ pieces \in Seq(BOOLEAN)
          /\ stamp'[current] = before =>
                 disk'[current] # Absent /\ \A i \in 1..Len(pieces) : pieces[i] = disk'[current][i]
  <2> SUFFICES ASSUME step = "hash"
               PROVE  /\ current \in Names /\ before \in Nat /\ before <= stamp'[current]
                      /\ pieces \in Seq(BOOLEAN)
                      /\ stamp'[current] = before =>
                             disk'[current] # Absent /\ \A i \in 1..Len(pieces) : pieces[i] = disk'[current][i]
    OBVIOUS
  <2>1. /\ current \in File /\ current \in Names /\ before \in Nat /\ before <= stamp[current]
        /\ pieces \in Seq(BOOLEAN) /\ stamp[current] \in Nat
        /\ stamp[current] = before =>
               disk[current] # Absent /\ \A i \in 1..Len(pieces) : pieces[i] = disk[current][i]
    BY <1>4 DEF ScanFits
  <2>2. CASE current = f
    BY <1>2, <2>1, <2>2
  <2>3. CASE current # f
    BY <1>2, <2>1, <2>3
  <2> QED
    BY <2>2, <2>3
<1>6. step \in {"next", "hash"} =>
          \A g \in Names \ Unhashed : stamp'[g] = checked'[g] => disk'[g] = Good
  BY <1>1, <1>2, <1>3, <1>4 DEF ScanFits
<1>7. Unhashed' = Unhashed
  BY <1>1 DEF Unhashed
<1>8. step = "recheck" /\ ~whole' => \E g \in Range(left) : stamp'[g] # checked'[g]
  <2> SUFFICES ASSUME step = "recheck", ~whole' PROVE \E g \in Range(left) : stamp'[g] # checked'[g]
    OBVIOUS
  <2>1. PICK g \in Range(left) : stamp[g] # checked[g]
    BY <1>1 DEF ScanFits
  <2>2. g \in File
    BY <1>4, <1>1 DEF ScanFits, Range
  <2> QED
    BY <1>3, <2>1, <2>2
<1>9. step' \in Scanning /\ Approved' => whole'
  BY <1>1
<1> QED
  BY <1>1, <1>2, <1>3, <1>4, <1>5, <1>6, <1>7, <1>8, <1>9 DEF ScanFits

\* What the scan's own steps leave alone.
LEMMA QuietSteps ==
    ASSUME ScanFits, UNCHANGED <<disk, stamp>>
    PROVE  /\ disk' \in [File -> Contents] /\ stamp' \in [File -> Nat]
           /\ Approved' = Approved
BY DEF ScanFits, Approved

\* A file that is there has two pieces, and is the approved one if both are.
LEMMA ContentPieces ==
    \A c \in Contents : c # Absent =>
        c[1] \in BOOLEAN /\ c[2] \in BOOLEAN /\ (c[1] = TRUE /\ c[2] = TRUE => c = Good)
<1> SUFFICES ASSUME NEW c \in Contents, c # Absent
             PROVE  c[1] \in BOOLEAN /\ c[2] \in BOOLEAN /\ (c[1] = TRUE /\ c[2] = TRUE => c = Good)
  OBVIOUS
<1>1. c = Good \/ c = <<TRUE, FALSE>> \/ c = <<FALSE, TRUE>>
  BY DEF Contents
<1>2. CASE c = Good
  <2>1. c[1] = TRUE /\ c[2] = TRUE
    BY <1>2 DEF Good
  <2> QED
    BY <1>2, <2>1
<1>3. CASE c = <<TRUE, FALSE>>
  <2>1. c[1] = TRUE /\ c[2] = FALSE
    BY <1>3
  <2> QED
    BY <2>1
<1>4. CASE c = <<FALSE, TRUE>>
  <2>1. c[1] = FALSE /\ c[2] = TRUE
    BY <1>4
  <2> QED
    BY <2>1
<1> QED
  BY <1>1, <1>2, <1>3, <1>4

\* Hashing a file through to its end vouches for it under its stamp.
LEMMA HashHolds ==
    ASSUME ScanFits, OpenFile \/ ReadPiece \/ CloseFile
    PROVE  ScanFits'
<1>0. UNCHANGED <<disk, stamp, source, whole>> /\ step \in Scanning
  BY DEF OpenFile, ReadPiece, CloseFile, Quiet, diskVars, At, Scanning
<1>1. disk' \in [File -> Contents] /\ stamp' \in [File -> Nat] /\ Approved' = Approved
  BY <1>0, QuietSteps
<1>2. Names \subseteq File /\ Order' = Order /\ Good \in Contents /\ Absent \in Contents
  BY DEF File, Order, Contents
<1>3. CASE OpenFile
  <2>1. /\ step = "next" /\ left # <<>> /\ disk[Head(left)] # Absent /\ current' = Head(left)
        /\ left' = Tail(left) /\ before' = stamp[current'] /\ pieces' = <<>> /\ step' = "hash"
        /\ checked' = checked
    BY <1>3 DEF OpenFile, At
  <2>2. Head(left) \in Names /\ Tail(left) \in Seq(Names) /\ Range(left) = {Head(left)} \union Range(Tail(left))
    BY <2>1, TailRange DEF ScanFits
  <2>3. Unhashed' = Unhashed
    BY <2>1, <2>2 DEF Unhashed
  <2>4. pieces' \in Seq(BOOLEAN) /\ Len(pieces') = 0
    BY <2>1
  <2>5. before' \in Nat /\ before' <= stamp'[current']
    BY <1>0, <1>2, <2>1, <2>2 DEF ScanFits
  <2> QED
    BY <1>0, <1>1, <1>2, <2>1, <2>2, <2>3, <2>4, <2>5 DEF ScanFits, Scanning
<1>4. CASE ReadPiece
  <2>1. /\ step = "hash" /\ step' = step /\ Len(pieces) < 2 /\ disk[current] # Absent
        /\ pieces' = Append(pieces, disk[current][Len(pieces) + 1])
        /\ UNCHANGED <<left, current, before, checked>>
    BY <1>4 DEF ReadPiece, At
  <2>2. pieces \in Seq(BOOLEAN) /\ current \in Names
    BY <2>1 DEF ScanFits
  <2>3. Len(pieces) = 0 \/ Len(pieces) = 1
    <3>1. Len(pieces) \in Nat
      BY <2>2
    <3>2. Len(pieces) < 2
      BY <2>1
    <3>3. \A n \in Nat : n < 2 => n = 0 \/ n = 1
      OBVIOUS
    <3> QED
      BY <3>1, <3>2, <3>3
  <2>4. disk[current][Len(pieces) + 1] \in BOOLEAN
    <3>1. disk[current] \in Contents
      BY <1>2, <2>2 DEF ScanFits
    <3>2. disk[current][1] \in BOOLEAN /\ disk[current][2] \in BOOLEAN
      BY <2>1, <3>1, ContentPieces
    <3>3. CASE Len(pieces) = 0
      BY <3>2, <3>3
    <3>4. CASE Len(pieces) = 1
      BY <3>2, <3>4
    <3> QED
      BY <2>3, <3>3, <3>4
  <2>5. /\ pieces' \in Seq(BOOLEAN) /\ Len(pieces') = Len(pieces) + 1
        /\ \A i \in 1..Len(pieces') : pieces'[i] = IF i <= Len(pieces) THEN pieces[i] ELSE disk[current][i]
    BY <2>1, <2>2, <2>4
  <2>6. stamp[current] = before => \A i \in 1..Len(pieces') : pieces'[i] = disk[current][i]
    BY <2>1, <2>2, <2>5 DEF ScanFits
  <2>7. Unhashed' = Unhashed
    BY <2>1 DEF Unhashed
  <2> QED
    BY <1>0, <1>1, <1>2, <2>1, <2>2, <2>5, <2>6, <2>7 DEF ScanFits, Scanning
<1>5. CASE CloseFile
  <2>1. /\ step = "hash" /\ step' = "next" /\ pieces = Good /\ stamp[current] = before
        /\ checked' = [checked EXCEPT ![current] = before] /\ left' = left
    BY <1>5 DEF CloseFile, At
  <2>2. /\ current \in Names /\ before \in Nat /\ disk[current] # Absent
        /\ \A i \in 1..Len(pieces) : pieces[i] = disk[current][i]
    BY <2>1 DEF ScanFits
  <2>3. disk[current] \in Contents
    BY <1>2, <2>2 DEF ScanFits
  <2>4. disk[current] = Good
    <3>1. Len(pieces) = 2 /\ pieces[1] = TRUE /\ pieces[2] = TRUE
      BY <2>1 DEF Good
    <3>2. disk[current][1] = TRUE /\ disk[current][2] = TRUE
      BY <2>2, <3>1
    <3> QED
      BY <2>2, <2>3, <3>2, ContentPieces
  <2>5. /\ checked' \in [File -> Nat] /\ checked'[current] = before
        /\ \A g \in File : g # current => checked'[g] = checked[g]
    BY <1>2, <2>1, <2>2 DEF ScanFits
  <2>6. \A g \in File : checked'[g] <= stamp'[g]
    BY <1>0, <2>1, <2>2, <2>5 DEF ScanFits
  <2>7. Unhashed = Unhashed' \union {current}
    BY <2>1 DEF Unhashed
  <2>8. \A g \in Names \ Unhashed' : stamp'[g] = checked'[g] => disk'[g] = Good
    BY <1>0, <1>2, <2>1, <2>4, <2>5, <2>7 DEF ScanFits
  <2> QED
    BY <1>0, <1>1, <1>2, <2>1, <2>5, <2>6, <2>8 DEF ScanFits, Scanning
<1> QED
  BY <1>3, <1>4, <1>5

\* The second listing: either the directory is the approved one now, or some
\* file was written since it was hashed.
LEMMA RelistHolds ==
    ASSUME ScanFits, ListAgain
    PROVE  ScanFits'
<1>1. /\ step = "next" /\ left = <<>> /\ Listed /\ left' = Order /\ step' = "recheck"
      /\ UNCHANGED <<disk, stamp, source, checked, whole>>
  BY DEF ListAgain, At, Quiet, diskVars
<1>2. disk' \in [File -> Contents] /\ stamp' \in [File -> Nat] /\ Approved' = Approved
  BY <1>1, QuietSteps
<1>3. Order \in Seq(Names) /\ Range(Order) = Names /\ Order # <<>>
  BY <1>1, OrderIsNames DEF ScanFits, Scanning
<1>4. Unhashed = {}
  BY <1>1 DEF Unhashed, Range
<1>5. \A g \in Names : stamp[g] = checked[g] => disk[g] = Good
  BY <1>1, <1>4 DEF ScanFits
<1>6. ~whole => \E g \in Names : stamp[g] # checked[g]
  BY <1>1, <1>5 DEF ScanFits, Scanning, Approved, Listed
<1> QED
  BY <1>1, <1>2, <1>3, <1>6 DEF ScanFits, Scanning

\* A file that was written since it was hashed cannot be passed.
LEMMA RecheckHolds ==
    ASSUME ScanFits, LookAgain
    PROVE  ScanFits'
<1>1. /\ step = "recheck" /\ stamp[Head(left)] = checked[Head(left)] /\ left' = Tail(left)
      /\ step' = IF left' = <<>> THEN "verified" ELSE "recheck"
      /\ UNCHANGED <<disk, stamp, source, checked, whole>>
  BY DEF LookAgain, At, SameIdentity, Quiet, diskVars
<1>2. disk' \in [File -> Contents] /\ stamp' \in [File -> Nat] /\ Approved' = Approved
  BY <1>1, QuietSteps
<1>3. left \in Seq(Names) /\ left # <<>>
  BY <1>1 DEF ScanFits
<1>4. left' \in Seq(Names) /\ Range(left) = {Head(left)} \union Range(left')
  BY <1>1, <1>3, TailRange
<1>5. ~whole => \E g \in Range(left') : stamp[g] # checked[g]
  BY <1>1, <1>4 DEF ScanFits
<1>6. left' = <<>> => whole
  BY <1>5 DEF Range
<1> QED
  BY <1>1, <1>2, <1>4, <1>5, <1>6 DEF ScanFits, Scanning

\* No step of a verification, and no other step, breaks the scan's invariant.
LEMMA ScanStepHolds == ScanFits /\ [StartupNext]_startupVars => ScanFits'
<1> SUFFICES ASSUME ScanFits, [StartupNext]_startupVars PROVE ScanFits'
  OBVIOUS
<1>1. ASSUME UNCHANGED <<disk, stamp, scanVars>> PROVE ScanFits'
  <2>1. disk' \in [File -> Contents] /\ stamp' \in [File -> Nat] /\ Approved' = Approved
    BY <1>1, QuietSteps
  <2>2. UNCHANGED <<step, source, left, current, before, pieces, checked, whole, disk, stamp>>
    BY <1>1 DEF scanVars
  <2>3. Unhashed' = Unhashed
    BY <2>2 DEF Unhashed
  <2> QED
    BY <2>1, <2>2, <2>3 DEF ScanFits, Scanning
<1>2. ASSUME step' \in {"policy", "mount", "startup", "list"},
             UNCHANGED <<disk, stamp, left, checked>>
      PROVE  ScanFits'
  <2>1. disk' \in [File -> Contents] /\ stamp' \in [File -> Nat]
    BY <1>2, QuietSteps
  <2> QED
    BY <1>2, <2>1 DEF ScanFits, Scanning
<1>3. CASE (\E t \in Task : StartVerifies(t)) \/ GateVerifies \/ ReadPolicy \/ CheckMount \/ ReadAgain
  BY <1>2, <1>3 DEF StartVerifies, GateVerifies, ReadPolicy, CheckMount, ReadAgain, Quiet, diskVars
<1>4. CASE ListFiles
  <2>1. UNCHANGED <<disk, stamp, source, checked>>
    BY <1>4 DEF ListFiles, Quiet, diskVars
  <2>2. disk' \in [File -> Contents] /\ stamp' \in [File -> Nat] /\ Approved' = Approved
    BY <2>1, QuietSteps
  <2>3. CASE left' = Order /\ step' = "next" /\ whole' = Approved
    <3>1. Order \in Seq(Names) /\ Range(Order) = Names
      BY OrderIsNames
    <3>2. Order # <<>>
      <4>1. Names # {}
        BY <1>4 DEF ListFiles, ValidManifest
      <4> QED
        BY <3>1, <4>1 DEF Range
    <3>3. Unhashed' = Names
      BY <2>3, <3>1 DEF Unhashed
    <3> QED
      BY <2>1, <2>2, <2>3, <3>1, <3>2, <3>3 DEF ScanFits, Scanning
  <2>4. CASE source[2] # 1 /\ step' = "verified" /\ UNCHANGED <<left, whole>>
    BY <2>1, <2>2, <2>4 DEF ScanFits, Scanning
  <2> QED
    BY <1>4, <2>3, <2>4 DEF ListFiles
<1>5. CASE OpenFile \/ ReadPiece \/ CloseFile
  BY <1>5, HashHolds
<1>6. CASE ListAgain
  BY <1>6, RelistHolds
<1>7. CASE LookAgain
  BY <1>7, RecheckHolds
<1>8. CASE GateReports \/ (\E t \in Task : BuildEngine(t)) \/ BuildFails \/ VerifyRaises
  BY <1>8, ClearHolds DEF GateReports, BuildEngine, BuildFails, VerifyRaises, Quiet
<1>9. CASE \E f \in File, content \in Contents : Write(f, content)
  BY <1>9, WriteHolds
<1>10. CASE Protect \/ NewPolicy \/ RuntimeStep \/ (ChangePermission /\ UNCHANGED <<diskVars, scanVars>>)
  BY <1>1, <1>10 DEF Protect, NewPolicy, RuntimeStep, diskVars
<1>11. CASE UNCHANGED startupVars
  BY <1>1, <1>11 DEF startupVars, diskVars
<1> QED
  BY <1>3, <1>4, <1>5, <1>6, <1>7, <1>8, <1>9, <1>10, <1>11 DEF StartupNext

\* Evidence is about a directory that existed, for every list of files and any
\* number of writes while they are read (EvidenceWasTrue).
THEOREM EvidenceIsTrue == StartupSpec => []EvidenceWasTrue
<1>1. ScanFits => EvidenceWasTrue
  BY DEF ScanFits, EvidenceWasTrue, At
<1> QED
  BY <1>1, ScanInitHolds, ScanStepHolds, PTL DEF StartupSpec

Found == Scanning \union {"verified"}

\* Beyond the check of the mount the directory of a start() is read only, so
\* what its scan has seen is what is there; the policies it read are old or
\* current ones.
GuardFits ==
    /\ policy \in Nat \ {0}
    /\ source \in Int \X Int
    /\ who = Nobody => step = "off"
    /\ whole => step \in Found
    /\ who \in Task /\ step \in Found \union {"mount", "startup", "list"} => source[1] = 1
    /\ who \in Task /\ step \in Found \union {"startup", "list"} => readonly
    /\ step \in Found \union {"list"} => source[2] \in 1..policy
    /\ who \in Task /\ whole => Approved

\* Nobody verifies at first.
LEMMA GuardInitHolds == StartupInit => GuardFits
<1> SUFFICES ASSUME StartupInit PROVE GuardFits
  OBVIOUS
<1>1. /\ policy = 1 /\ source = <<0, 0>> /\ who = Nobody /\ step = "off" /\ whole = FALSE
  BY DEF StartupInit
<1> QED
  BY <1>1, StartupAssumption DEF GuardFits, Found, Scanning

\* Nothing of a verification that is over is taken into the next one.
LEMMA GuardClearHolds ==
    ASSUME GuardFits, Clear, UNCHANGED diskVars
    PROVE  GuardFits'
<1>1. who' = Nobody /\ step' = "off" /\ source' = <<0, 0>> /\ whole' = FALSE /\ policy' = policy
  BY DEF Clear, diskVars
<1> QED
  BY <1>1, StartupAssumption DEF GuardFits, Found, Scanning

\* No step of a verification, and no other step, breaks the guard.
LEMMA GuardStepHolds == GuardFits /\ [StartupNext]_startupVars => GuardFits'
<1> SUFFICES ASSUME GuardFits, [StartupNext]_startupVars PROVE GuardFits'
  OBVIOUS
<1> USE DEF Found, Scanning
<1>1. ASSUME UNCHANGED disk PROVE Approved' = Approved
  BY <1>1 DEF Approved
<1>2. CASE \E t \in Task : StartVerifies(t)
  <2>1. who = Nobody /\ step' = "policy" /\ UNCHANGED <<source, whole, policy>>
    BY <1>2 DEF StartVerifies, Quiet, diskVars
  <2>2. who' \in Task
    BY <1>2 DEF StartVerifies
  <2> QED
    BY <2>1, <2>2, StartupAssumption DEF GuardFits
<1>3. CASE GateVerifies
  <2>1. who = Nobody /\ who' = Gate /\ step' = "startup" /\ UNCHANGED <<source, whole, policy>>
    BY <1>3 DEF GateVerifies, Quiet, diskVars
  <2> QED
    BY <2>1, StartupAssumption DEF GuardFits
<1>4. CASE ReadPolicy
  <2>1. /\ step = "policy" /\ policy = 1 /\ source' = <<policy, 0>> /\ step' = "mount"
        /\ UNCHANGED <<who, whole, policy>>
    BY <1>4 DEF ReadPolicy, At, Quiet, diskVars
  <2> QED
    BY <2>1 DEF GuardFits
<1>5. CASE CheckMount
  <2>1. step = "mount" /\ readonly /\ step' = "startup" /\ UNCHANGED <<who, source, whole, policy, readonly>>
    BY <1>5 DEF CheckMount, ProtectedMount, At, Quiet, diskVars
  <2> QED
    BY <2>1 DEF GuardFits
<1>6. CASE ReadAgain
  <2>1. /\ step = "startup" /\ source' = <<source[1], policy>> /\ step' = "list"
        /\ UNCHANGED <<who, whole, policy, readonly>>
    BY <1>6 DEF ReadAgain, At, Quiet, diskVars
  <2>2. source' \in Int \X Int /\ source'[1] = source[1] /\ source'[2] \in 1..policy
    BY <2>1 DEF GuardFits
  <2> QED
    BY <2>1, <2>2 DEF GuardFits
<1>7. CASE ListFiles
  <2>1. /\ step = "list" /\ step' \in {"next", "verified"} /\ (whole' = Approved \/ whole' = whole)
        /\ UNCHANGED <<disk, who, source, policy, readonly>>
    BY <1>7 DEF ListFiles, At, Quiet, diskVars
  <2> QED
    BY <1>1, <2>1 DEF GuardFits
<1>8. CASE OpenFile \/ ReadPiece \/ CloseFile \/ ListAgain \/ LookAgain
  <2>1. step \in Scanning /\ step' \in Found /\ UNCHANGED <<disk, who, source, whole, policy, readonly>>
    BY <1>8 DEF OpenFile, ReadPiece, CloseFile, ListAgain, LookAgain, At, Quiet, diskVars
  <2> QED
    BY <1>1, <2>1 DEF GuardFits
<1>9. CASE GateReports \/ (\E t \in Task : BuildEngine(t)) \/ BuildFails \/ VerifyRaises
  BY <1>9, GuardClearHolds DEF GateReports, BuildEngine, BuildFails, VerifyRaises, Quiet
<1>10. CASE \E f \in File, content \in Contents : Write(f, content)
  <2>1. /\ ~readonly /\ whole' = (whole \/ (step \in Scanning /\ Approved'))
        /\ UNCHANGED <<who, step, source, policy, readonly>>
    BY <1>10 DEF Write
  <2>2. ~(who \in Task /\ step \in Found)
    BY <2>1 DEF GuardFits
  <2> QED
    BY <2>1, <2>2 DEF GuardFits
<1>11. CASE Protect
  <2>1. readonly' = TRUE /\ UNCHANGED <<disk, policy, who, step, source, whole>>
    BY <1>11 DEF Protect, scanVars
  <2> QED
    BY <1>1, <2>1 DEF GuardFits
<1>12. CASE NewPolicy
  <2>1. policy' = policy + 1 /\ UNCHANGED <<disk, readonly, who, step, source, whole>>
    BY <1>12 DEF NewPolicy, scanVars
  <2> QED
    BY <1>1, <2>1 DEF GuardFits
<1>13. CASE RuntimeStep \/ (ChangePermission /\ UNCHANGED <<diskVars, scanVars>>) \/ UNCHANGED startupVars
  <2>1. UNCHANGED <<disk, policy, readonly, who, step, source, whole>>
    BY <1>13 DEF RuntimeStep, startupVars, diskVars, scanVars
  <2> QED
    BY <1>1, <2>1 DEF GuardFits
<1> QED
  BY <1>2, <1>3, <1>4, <1>5, <1>6, <1>7, <1>8, <1>9, <1>10, <1>11, <1>12, <1>13 DEF StartupNext

\* An engine is built over the approved bytes only (EngineLoadsApproved): the
\* mount protects what the scan saw, and the policy is still the first one.
THEOREM EnginesLoadApproved == StartupSpec => EngineLoadsApproved
<1> DEFINE Loads == live' \ live # {} => Approved /\ readonly /\ source = <<1, 1>>
<1>1. ASSUME ScanFits, GuardFits, [StartupNext]_startupVars PROVE [Loads]_startupVars
  <2>1. ASSUME step = "verified", who \in Task, Unchanged(source[1]) PROVE Loads
    <3>1. readonly /\ source[1] = 1 /\ source[2] \in 1..policy /\ policy = 1
      BY <1>1, <2>1 DEF GuardFits, Found, Unchanged
    <3>2. source = <<1, 1>>
      BY <1>1, <3>1 DEF GuardFits
    <3>3. whole
      BY <1>1, <2>1, <3>2 DEF ScanFits
    <3> QED
      BY <1>1, <2>1, <3>1, <3>2, <3>3 DEF GuardFits
  <2>2. CASE (\E t \in Task : BuildEngine(t)) \/ BuildFails
    BY <2>1, <2>2 DEF BuildEngine, BuildFails, At
  <2>3. CASE RuntimeStep
    BY <2>3 DEF RuntimeStep, StartReady, StartRaises, CheckAwaits, CheckReturns, CheckRaises,
       CheckRefused, Stop, CloseFailed, Close, runtimeVars
  <2>4. CASE UNCHANGED live
    BY <2>4
  <2> QED
    BY <1>1, <2>2, <2>3, <2>4 DEF StartupNext, StartVerifies, GateVerifies, ReadPolicy, CheckMount,
       ReadAgain, ListFiles, OpenFile, ReadPiece, CloseFile, ListAgain, LookAgain, GateReports,
       VerifyRaises, Write, Protect, NewPolicy, ChangePermission, Quiet, servingVars, runtimeVars, startupVars
<1>2. ScanFits /\ GuardFits /\ [StartupNext]_startupVars => [Loads]_startupVars
  BY <1>1
<1> QED
  BY <1>2, ScanInitHolds, ScanStepHolds, GuardInitHolds, GuardStepHolds, PTL
     DEF StartupSpec, EngineLoadsApproved

\* A start() that raises while it verifies leaves the engine with its owner.
LEMMA RaiseKeepsOwner == SInv /\ VerifyRaises => SInv'
<1> SUFFICES ASSUME SInv, VerifyRaises PROVE SInv'
  OBVIOUS
<1> USE DEF SInv, ServingTypeOK, States
<1>1. CASE instance' = instance + 1 /\ state' = "failed" /\ UNCHANGED <<backend, identity, live, allowed, taskVars>>
  <2>1. UNCHANGED <<pc, own, handoff, given>>
    BY <1>1 DEF taskVars
  <2>2. instance' \in Nat /\ 0..instance \subseteq 0..instance' /\ 1..instance \subseteq 1..instance'
    BY <1>1
  <2>3. own' \in [Task -> 0..instance'] /\ given' \in [Task -> 0..instance']
    BY <2>1, <2>2
  <2> QED
    BY <1>1, <2>1, <2>2, <2>3 DEF EngineIsOwned
<1>2. CASE UNCHANGED servingVars
  BY <1>2 DEF servingVars, runtimeVars, taskVars, EngineIsOwned
<1> QED
  BY <1>1, <1>2 DEF VerifyRaises

\* Every step of a start() taken apart is a step of the runtime, leaves it alone
\* or is a refusal while verifying.
LEMMA StartupIsServing == [StartupNext]_startupVars => [ServingNext]_servingVars \/ VerifyRaises
<1> SUFFICES ASSUME [StartupNext]_startupVars PROVE [ServingNext]_servingVars \/ VerifyRaises
  OBVIOUS
<1>1. CASE UNCHANGED servingVars
  BY <1>1
<1>2. CASE (\E t \in Task : BuildEngine(t)) \/ BuildFails \/ RuntimeStep \/ ChangePermission
  BY <1>2 DEF BuildEngine, BuildFails, RuntimeStep, ServingNext
<1>3. CASE VerifyRaises
  BY <1>3
<1> QED
  BY <1>1, <1>2, <1>3 DEF StartupNext, StartVerifies, GateVerifies, ReadPolicy, CheckMount,
     ReadAgain, ListFiles, OpenFile, ReadPiece, CloseFile, ListAgain, LookAgain, GateReports,
     Write, Protect, NewPolicy, Quiet, startupVars

\* The invariant of the runtime holds around it.
LEMMA StartupHolds == StartupSpec => []SInv
<1>1. StartupInit => SInv
  BY ServingInitHolds DEF StartupInit
<1>2. SInv /\ [StartupNext]_startupVars => SInv'
  BY StartupIsServing, ServingStepHolds, RaiseKeepsOwner
<1> QED
  BY <1>1, <1>2, PTL DEF StartupSpec

\* However long verification takes and whatever happens around it, no engine is
\* lost or doubled (EngineIsOwned).
THEOREM StartupKeepsOwner == StartupSpec => []EngineIsOwned
<1>1. SInv => EngineIsOwned
  BY DEF SInv
<1> QED
  BY <1>1, StartupHolds, PTL

\* A refusal while verifying hands out nothing and resumes no task.
LEMMA RaiseIsQuiet == VerifyRaises => [Handed]_servingVars /\ [Harmless]_servingVars
<1>1. VerifyRaises => UNCHANGED <<pc, given>>
  BY DEF VerifyRaises, taskVars, servingVars
<1>2. UNCHANGED <<pc, given>> => Handed /\ Harmless
  BY DEF Handed, Harmless
<1> QED
  BY <1>1, <1>2

\* With start() taken step by step, an engine that is handed out is the current
\* one, live and approved at that moment (HandoffIsCurrent).
THEOREM StartupHandsOutCurrent == StartupSpec => HandoffIsCurrent
<1>1. SInv /\ [StartupNext]_startupVars => [Handed]_servingVars
  BY StartupIsServing, HandedSteps, RaiseIsQuiet
<1> QED
  BY <1>1, StartupHolds, PTL DEF StartupSpec, HandoffIsCurrent, Handed

\* With start() taken step by step, a task whose lifecycle was replaced changes
\* nothing when its await ends (OldTaskIsHarmless).
THEOREM StartupSparesNewer == StartupSpec => OldTaskIsHarmless
<1>1. SInv /\ [StartupNext]_startupVars => [Harmless]_servingVars
  BY StartupIsServing, HarmlessSteps, RaiseIsQuiet
<1> QED
  BY <1>1, StartupHolds, PTL DEF StartupSpec, OldTaskIsHarmless, Harmless
=============================================================================
