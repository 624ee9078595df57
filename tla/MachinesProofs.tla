--------------------------- MODULE MachinesProofs ---------------------------
(***************************************************************************)
(* Proofs about the scenarios of MCMachines: what the commands of clawcli   *)
(* on an instance and the calls of its backend keep, in each of them, from  *)
(* instances of the theorems of SandboxProofs.  So what SandboxProofs shows *)
(* under an assumption is shown of a system that meets it; and the names,   *)
(* records, versions, proxies, bounds and faults of the scenarios remain    *)
(* any that their assumptions allow.                                        *)
(***************************************************************************)
EXTENDS MCMachines, TLAPS

-----------------------------------------------------------------------------
(* What the scenarios share.                                                *)

(* A scenario is of one part of the system, and stays so.                   *)
LEMMA ScenarioStays == [MCNext]_mcvars => UNCHANGED scenario
BY DEF MCNext, mcvars, Commanded, Called

(* A step of a scenario is one of its part ...                              *)
LEMMA CommandSteps ==
  ASSUME [MCNext]_mcvars
  PROVE  /\ scenario = "lima" => One("lima")!Next \/ UNCHANGED vars
         /\ scenario = "wsl2" => One("wsl2")!Next \/ UNCHANGED vars
         /\ scenario = "podman" => One("podman")!Next \/ UNCHANGED vars
         /\ scenario = "locked" => Two!Next \/ UNCHANGED vars
         /\ scenario = "calm" => Three!Next \/ UNCHANGED vars
         /\ scenario \notin Commands => UNCHANGED vars
BY DEF MCNext, mcvars, Commanded, Called, Commands, OneActor

(* ... and so for the calls of a backend ...                               *)
LEMMA CallSteps ==
  ASSUME [MCNext]_mcvars
  PROVE  /\ scenario = "lima vm" => Lima!BackendNext \/ UNCHANGED backend
         /\ scenario = "distribution" => Boxy("wsl2")!BackendNext \/ UNCHANGED backend
         /\ scenario = "container" => Boxy("podman")!BackendNext \/ UNCHANGED backend
         /\ scenario = "two callers" => Pair!BackendNext \/ UNCHANGED backend
         /\ scenario = "sure stops" => Sure!BackendNext \/ UNCHANGED backend
         /\ scenario = "no imports" => Pure!BackendNext \/ UNCHANGED backend
         /\ scenario \notin Calls => UNCHANGED backend
BY DEF MCNext, mcvars, Commanded, Called, Calls, OneActor, OneLima, Pairs

(* ... and moves nothing else.                                              *)
LEMMA OnePartMoves ==
  ASSUME MCNext, mcvars' # mcvars
  PROVE  /\ scenario \in Commands => vars' # vars
         /\ scenario \in Calls => backend' # backend
<1>1. /\ scenario \in Commands => UNCHANGED <<backend, setup, hw, scenario>>
      /\ scenario \in Calls => UNCHANGED <<vars, setup, hw, scenario>>
  BY DEF MCNext, Commanded, Called, Commands, Calls, OneActor, OneLima, Pairs
<1> QED  BY <1>1 DEF mcvars

(* Where each part starts.                                                  *)
LEMMA ScenarioStarts ==
  ASSUME MCInit
  PROVE  /\ scenario \in OneActor => One("lima")!Init
         /\ scenario = "locked" => Two!Init
         /\ scenario = "calm" => Three!Init
         /\ scenario = "distribution" => Boxy("wsl2")!BackendInit
         /\ scenario = "container" => Boxy("podman")!BackendInit
         /\ scenario \in OneLima => Lima!BackendInit
         /\ scenario \in Pairs => BackendInit
BY DEF MCInit, OneActor, OneLima, Pairs

(* A machine with one version is among the machines with more.              *)
LEMMA FewerVersions ==
  /\ NoVM \notin [provisioned : BOOLEAN, up : BOOLEAN, disk : BOOLEAN, claw : {v1} \cup {NoClaw},
                  scripts : SUBSET (Nat \X {v1})]
  /\ NoRec \notin [created_at : Nat, claw_version : {v1} \cup {NoClaw}, proxy : Proxies]
  /\ NoClaw # v1
<1>1. v1 \in Versions
  BY MCMachinesAssumption
<1>2. /\ [provisioned : BOOLEAN, up : BOOLEAN, disk : BOOLEAN, claw : {v1} \cup {NoClaw},
                  scripts : SUBSET (Nat \X {v1})]
           \subseteq [provisioned : BOOLEAN, up : BOOLEAN, disk : BOOLEAN,
                      claw : Versions \cup {NoClaw}, scripts : SUBSET (Nat \X Versions)]
      /\ [created_at : Nat, claw_version : {v1} \cup {NoClaw}, proxy : Proxies]
           \subseteq [created_at : Nat, claw_version : Versions \cup {NoClaw}, proxy : Proxies]
  BY <1>1
<1> QED  BY <1>1, <1>2, LifecycleAssumption, NoneAssumption

\* What the commands are said to do, in the copies of MCMachines.
OneWords == One("lima")!InstalledMeansRunningStep /\ One("lima")!UpgradeOnlyStampsStep
TwoWords == Two!InstalledMeansRunningStep /\ Two!UpgradeOnlyStampsStep
ThreeWords == Three!InstalledMeansRunningStep /\ Three!UpgradeOnlyStampsStep

-----------------------------------------------------------------------------
(* Each pair of a scenario of commands and one of calls has its own         *)
(* instance of the theorems; the copies of MCMachines are those of the      *)
(* instance.                                                                *)

(* The scenarios "lima" and "lima vm".                                     *)
OnLima == INSTANCE SandboxProofs
            WITH Actors <- {g1}, Gui <- {g1}, Backend <- "lima", MaxRequests <- 4, Callers <- {1}

(* Of "lima": the commands, their state and what is said of them are those  *)
(* of the theorems' instance.                                               *)
LEMMA LimaCommands ==
  /\ One("lima")!Init <=> OnLima!Init
  /\ One("lima")!Next <=> OnLima!Next
  /\ vars = OnLima!vars
  /\ One("lima")!TypeOK <=> OnLima!TypeOK
  /\ One("lima")!InstalledMeansRunningStep <=> OnLima!InstalledMeansRunningStep
  /\ One("lima")!DeleteLeavesNothingStep <=> OnLima!DeleteLeavesNothingStep
  /\ One("lima")!UpgradeOnlyStampsStep <=> OnLima!UpgradeOnlyStampsStep
<1>1. ASSUME NEW a PROVE One("lima")!Install(a) <=> OnLima!Install(a)
  BY Zenon DEF One!Install, OnLima!Install, One!InstallFind, OnLima!InstallFind, One!InstallCreate,
         OnLima!InstallCreate, One!InstallCreated, OnLima!InstallCreated, One!InstallVerify,
         OnLima!InstallVerify, One!InstallScript, OnLima!InstallScript, One!InstallProbe,
         OnLima!InstallProbe, One!InstallInsert, OnLima!InstallInsert, One!Goto, OnLima!Goto, One!End,
         OnLima!End, One!IsPresent, OnLima!IsPresent, One!Registered, OnLima!Registered,
         One!Provisioned, OnLima!Provisioned, One!CanExec, OnLima!CanExec, One!AfterExec,
         OnLima!AfterExec, One!RunScript, OnLima!RunScript, One!Probe, OnLima!Probe, One!Insert,
         OnLima!Insert, One!LivesOn, OnLima!LivesOn, One!ScriptOf, OnLima!ScriptOf, One!CanStart,
         OnLima!CanStart, One!Off, OnLima!Off
<1>2. ASSUME NEW a PROVE /\ One("lima")!Register(a) <=> OnLima!Register(a)
                         /\ One("lima")!Upgrade(a) <=> OnLima!Upgrade(a)
  BY Zenon DEF One!Register, OnLima!Register, One!Upgrade, OnLima!Upgrade, One!RegisterFind,
         OnLima!RegisterFind, One!RegisterCheck, OnLima!RegisterCheck, One!RegisterInsert,
         OnLima!RegisterInsert, One!UpgradeFind, OnLima!UpgradeFind, One!UpgradeStart,
         OnLima!UpgradeStart, One!UpgradeScript, OnLima!UpgradeScript, One!UpgradeProbe,
         OnLima!UpgradeProbe, One!UpgradeUpdate, OnLima!UpgradeUpdate, One!Goto, OnLima!Goto, One!End,
         OnLima!End, One!IsUp, OnLima!IsUp, One!Insert, OnLima!Insert, One!StartVM, OnLima!StartVM,
         One!RunScript, OnLima!RunScript, One!Probe, OnLima!Probe, One!Update, OnLima!Update,
         One!CanExec, OnLima!CanExec, One!AfterExec, OnLima!AfterExec, One!LivesOn, OnLima!LivesOn,
         One!ScriptOf, OnLima!ScriptOf, One!CanStart, OnLima!CanStart, One!Off, OnLima!Off
<1>3. ASSUME NEW a PROVE /\ One("lima")!Destroy(a) <=> OnLima!Destroy(a)
                         /\ One("lima")!Delete(a) <=> OnLima!Delete(a)
                         /\ One("lima")!SetProxy(a) <=> OnLima!SetProxy(a)
  BY Zenon DEF One!Destroy, OnLima!Destroy, One!Delete, OnLima!Delete, One!SetProxy, OnLima!SetProxy,
         One!DestroyFind, OnLima!DestroyFind, One!DestroyPorts, OnLima!DestroyPorts, One!DestroyVM,
         OnLima!DestroyVM, One!DestroyRemove, OnLima!DestroyRemove, One!DeleteFind, OnLima!DeleteFind,
         One!DeleteStop, OnLima!DeleteStop, One!DeleteDestroy, OnLima!DeleteDestroy, One!DeleteRemove,
         OnLima!DeleteRemove, One!ProxyFind, OnLima!ProxyFind, One!ProxyUpdate, OnLima!ProxyUpdate,
         One!ProxyApply, OnLima!ProxyApply, One!Goto, OnLima!Goto, One!End, OnLima!End, One!IsUp,
         OnLima!IsUp, One!DestroyOk, OnLima!DestroyOk, One!DestroyErr, OnLima!DestroyErr,
         One!LockFree, OnLima!LockFree, One!TryStopVM, OnLima!TryStopVM, One!Update, OnLima!Update,
         One!CanExec, OnLima!CanExec, One!AfterExec, OnLima!AfterExec, One!IsPresent,
         OnLima!IsPresent, One!InLock, OnLima!InLock, One!LockedKinds, OnLima!LockedKinds,
         One!CanStart, OnLima!CanStart, One!Off, OnLima!Off
<1>4. ASSUME NEW a PROVE /\ One("lima")!Start(a) <=> OnLima!Start(a)
                         /\ One("lima")!Stop(a) <=> OnLima!Stop(a)
                         /\ One("lima")!Export(a) <=> OnLima!Export(a)
                         /\ One("lima")!Import(a) <=> OnLima!Import(a)
  BY Zenon DEF One!Start, OnLima!Start, One!Stop, OnLima!Stop, One!Export, OnLima!Export, One!Import,
         OnLima!Import, One!StartVM, OnLima!StartVM, One!End, OnLima!End, One!IsPresent,
         OnLima!IsPresent, One!TryStopVM, OnLima!TryStopVM, One!CanExec, OnLima!CanExec,
         One!AfterExec, OnLima!AfterExec, One!ImportImage, OnLima!ImportImage, One!ImportInsert,
         OnLima!ImportInsert, One!IsUp, OnLima!IsUp, One!Goto, OnLima!Goto, One!Insert, OnLima!Insert,
         One!CanStart, OnLima!CanStart, One!Off, OnLima!Off, One!Unpacked, OnLima!Unpacked,
         One!RollBackDistro, OnLima!RollBackDistro
<1>5. ASSUME NEW a PROVE /\ One("lima")!Request(a) <=> OnLima!Request(a)
                         /\ One("lima")!StepFails(a) <=> OnLima!StepFails(a)
                         /\ One("lima")!Crash(a) <=> OnLima!Crash(a)
  BY Zenon DEF One!Request, OnLima!Request, One!StepFails, OnLima!StepFails, One!Crash, OnLima!Crash,
         One!LockedKinds, OnLima!LockedKinds, One!LockFree, OnLima!LockFree, One!FirstStep,
         OnLima!FirstStep, One!End, OnLima!End, One!InLock, OnLima!InLock, One!CanExec,
         OnLima!CanExec, One!AfterExec, OnLima!AfterExec, One!LivesOn, OnLima!LivesOn, One!ScriptOf,
         OnLima!ScriptOf, One!CanStart, OnLima!CanStart, One!Tolerant, OnLima!Tolerant
<1>6. One("lima")!Next <=> OnLima!Next
  BY Zenon, <1>1, <1>2, <1>3, <1>4, <1>5 DEF One!Next, OnLima!Next, One!Step, OnLima!Step,
         One!ScriptEnds, OnLima!ScriptEnds
<1>7. /\ One("lima")!Init <=> OnLima!Init
      /\ vars = OnLima!vars
      /\ One("lima")!TypeOK <=> OnLima!TypeOK
      /\ One("lima")!InstalledMeansRunningStep <=> OnLima!InstalledMeansRunningStep
      /\ One("lima")!DeleteLeavesNothingStep <=> OnLima!DeleteLeavesNothingStep
      /\ One("lima")!UpgradeOnlyStampsStep <=> OnLima!UpgradeOnlyStampsStep
  BY Zenon DEF vars, OnLima!vars, One!Init, OnLima!Init, One!TypeOK, OnLima!TypeOK,
         One!InstalledMeansRunningStep, OnLima!InstalledMeansRunningStep, One!DeleteLeavesNothingStep,
         OnLima!DeleteLeavesNothingStep, One!UpgradeOnlyStampsStep, OnLima!UpgradeOnlyStampsStep,
         One!VM, OnLima!VM, One!Record, OnLima!Record, One!Steps, OnLima!Steps, One!Job, OnLima!Job,
         OnLima!Scripts, One!Scripts
<1> QED  BY <1>6, <1>7

(* Of "lima vm": the calls, their state and what is said of them are those  *)
(* of the theorems' instance.                                               *)
LEMMA LimaCalls ==
  /\ Lima!BackendInit <=> OnLima!BackendInit
  /\ Lima!BackendNext <=> OnLima!BackendNext
  /\ backend = OnLima!backend
  /\ Lima!BackendTypeOK <=> OnLima!BackendTypeOK
  /\ Lima!AgentsReachable <=> OnLima!AgentsReachable
  /\ Lima!OnlyDestroyTakesStep <=> OnLima!OnlyDestroyTakesStep
  /\ Lima!Machines = OnLima!Machines
<1>1. ASSUME NEW c PROVE Lima!Prerequisites(c) <=> OnLima!Prerequisites(c)
  BY Zenon DEF Lima!Prerequisites, OnLima!Prerequisites, Lima!ProbeTool, OnLima!ProbeTool, Lima!FetchTool,
         OnLima!FetchTool, Lima!UnpackTool, OnLima!UnpackTool, Lima!ProbeHardware, OnLima!ProbeHardware,
         Lima!AskRunning, OnLima!AskRunning, Lima!Proceed, OnLima!Proceed, Lima!ProbeFeatures,
         OnLima!ProbeFeatures, Lima!Elevate, OnLima!Elevate, Lima!Finish, OnLima!Finish, Lima!TryManager,
         OnLima!TryManager, Lima!At, OnLima!At, Lima!On, OnLima!On, Lima!Same, OnLima!Same, Lima!Its,
         OnLima!Its, Lima!Idle, OnLima!Idle
<1>2. ASSUME NEW c PROVE Lima!CreateInstance(c) <=> OnLima!CreateInstance(c)
  BY Zenon DEF Lima!CreateInstance, OnLima!CreateInstance, Lima!ProbeFirst, OnLima!ProbeFirst, Lima!Stage,
         OnLima!Stage, Lima!LaunchVM, OnLima!LaunchVM, Lima!BootVM, OnLima!BootVM, Lima!RegisterDistro,
         OnLima!RegisterDistro, Lima!ProvisionDistro, OnLima!ProvisionDistro, Lima!BuildImage,
         OnLima!BuildImage, Lima!RunContainer, OnLima!RunContainer, Lima!At, OnLima!At, Lima!Probed,
         OnLima!Probed, Lima!Its, OnLima!Its, Lima!Finish, OnLima!Finish, Lima!Proceed, OnLima!Proceed,
         Lima!On, OnLima!On, Lima!Same, OnLima!Same, Lima!Hold, OnLima!Hold, Lima!ToolWorks,
         OnLima!ToolWorks, Lima!Present, OnLima!Present, Lima!HoldPid, OnLima!HoldPid, Lima!Idle,
         OnLima!Idle, Lima!Mark, OnLima!Mark, Lima!Reading, OnLima!Reading
<1>3. ASSUME NEW c PROVE Lima!Power(c) <=> OnLima!Power(c)
  BY Zenon DEF Lima!Power, OnLima!Power, Lima!LimaStart, OnLima!LimaStart, Lima!WslStart, OnLima!WslStart,
         Lima!PodmanStart, OnLima!PodmanStart, Lima!LimaStop, OnLima!LimaStop, Lima!WslStop, OnLima!WslStop,
         Lima!PodmanStop, OnLima!PodmanStop, Lima!Halt, OnLima!Halt, Lima!NoRename, OnLima!NoRename,
         Lima!Move, OnLima!Move, Lima!Powers, OnLima!Powers, Lima!Works, OnLima!Works, Lima!HoldPid,
         OnLima!HoldPid, Lima!Its, OnLima!Its, Lima!Finish, OnLima!Finish, Lima!Fails, OnLima!Fails,
         Lima!Hold, OnLima!Hold, Lima!Down, OnLima!Down, Lima!At, OnLima!At, Lima!On, OnLima!On, Lima!Same,
         OnLima!Same, Lima!Proceed, OnLima!Proceed, Lima!Present, OnLima!Present, Lima!ToolWorks,
         OnLima!ToolWorks, Lima!Reading, OnLima!Reading, Lima!Idle, OnLima!Idle, Lima!Mark, OnLima!Mark
<1>4. ASSUME NEW c PROVE Lima!Images(c) <=> OnLima!Images(c)
  BY Zenon DEF Lima!Images, OnLima!Images, Lima!ProbeExport, OnLima!ProbeExport, Lima!OpenArchive,
         OnLima!OpenArchive, Lima!CloseArchive, OnLima!CloseArchive, Lima!ProbeImport, OnLima!ProbeImport,
         Lima!FillVM, OnLima!FillVM, Lima!FillDistro, OnLima!FillDistro, Lima!RollBack, OnLima!RollBack,
         Lima!LoadImage, OnLima!LoadImage, Lima!At, OnLima!At, Lima!Probed, OnLima!Probed, Lima!Its,
         OnLima!Its, Lima!Proceed, OnLima!Proceed, Lima!On, OnLima!On, Lima!Finish, OnLima!Finish,
         Lima!Same, OnLima!Same, Lima!Present, OnLima!Present, Lima!ToolWorks, OnLima!ToolWorks, Lima!Hold,
         OnLima!Hold, Lima!HoldPid, OnLima!HoldPid, Lima!Idle, OnLima!Idle, Lima!Mark, OnLima!Mark,
         Lima!Reading, OnLima!Reading
<1>5. ASSUME NEW c PROVE /\ Lima!DestroyInstance(c) <=> OnLima!DestroyInstance(c)
                         /\ Lima!KillFails(c) <=> OnLima!KillFails(c)
  BY Zenon DEF Lima!DestroyInstance, OnLima!DestroyInstance, Lima!ProbeDestroy, OnLima!ProbeDestroy,
         Lima!KillAgent, OnLima!KillAgent, Lima!DeleteVM, OnLima!DeleteVM, Lima!UnregisterDistro,
         OnLima!UnregisterDistro, Lima!RemoveContainer, OnLima!RemoveContainer, Lima!RemoveImage,
         OnLima!RemoveImage, Lima!Tidy, OnLima!Tidy, Lima!At, OnLima!At, Lima!Probed, OnLima!Probed,
         Lima!Its, OnLima!Its, Lima!Finish, OnLima!Finish, Lima!Proceed, OnLima!Proceed, Lima!On,
         OnLima!On, Lima!Same, OnLima!Same, Lima!HoldPid, OnLima!HoldPid, Lima!ToolWorks,
         OnLima!ToolWorks, Lima!Present, OnLima!Present, Lima!Hold, OnLima!Hold, Lima!Idle,
         OnLima!Idle, Lima!Reading, OnLima!Reading, Lima!Mark, OnLima!Mark, Lima!KillFails,
         OnLima!KillFails
<1>6. ASSUME NEW c PROVE /\ Lima!Ask(c) <=> OnLima!Ask(c)
                         /\ Lima!Dies(c) <=> OnLima!Dies(c)
                         /\ Lima!GivesUp(c) <=> OnLima!GivesUp(c)
  BY Zenon DEF Lima!Ask, OnLima!Ask, Lima!Dies, OnLima!Dies, Lima!GivesUp, OnLima!GivesUp, Lima!Idle,
         OnLima!Idle, Lima!FirstStage, OnLima!FirstStage, Lima!Finish, OnLima!Finish, Lima!At, OnLima!At
<1>7. Lima!BackendNext <=> OnLima!BackendNext
  BY Zenon, <1>1, <1>2, <1>3, <1>4, <1>5, <1>6 DEF Lima!BackendNext, OnLima!BackendNext, Lima!Reboot,
         OnLima!Reboot, Lima!Idle, OnLima!Idle
<1>8. /\ Lima!BackendInit <=> OnLima!BackendInit
      /\ backend = OnLima!backend
      /\ Lima!BackendTypeOK <=> OnLima!BackendTypeOK
      /\ Lima!AgentsReachable <=> OnLima!AgentsReachable
      /\ Lima!OnlyDestroyTakesStep <=> OnLima!OnlyDestroyTakesStep
      /\ Lima!Machines = OnLima!Machines
  BY Zenon DEF backend, OnLima!backend, Lima!BackendInit, OnLima!BackendInit, Lima!BackendTypeOK,
         OnLima!BackendTypeOK, Lima!AgentsReachable, OnLima!AgentsReachable, Lima!OnlyDestroyTakesStep,
         OnLima!OnlyDestroyTakesStep, Lima!Machines, OnLima!Machines, Lima!Idle, OnLima!Idle, Lima!Parts,
         OnLima!Parts, Lima!Call, OnLima!Call, Lima!On, OnLima!On, Lima!Present, OnLima!Present,
         Lima!Intact, OnLima!Intact, Lima!Its, OnLima!Its, Lima!AllOps, OnLima!AllOps, Lima!Stages,
         OnLima!Stages, Lima!Mark, OnLima!Mark
<1> QED  BY <1>7, <1>8

(* The two scenarios meet what the theorems assume.                         *)
LEMMA LimaSound ==
  /\ Kinds \subseteq OnLima!AllKinds
  /\ Ops \subseteq OnLima!AllOps
  /\ OnLima!Exclusive
  /\ OnLima!ReportsDestroy
  /\ OnLima!OneSureCaller
  /\ \E c : {1} = {c}
<1>1. \E c : {1} = {c}
  OBVIOUS
<1> QED
  BY <1>1, LifecycleAssumption, NoneAssumption, BackendAssumption, MCMachinesAssumption
  DEF AllKinds, AllOps, OnLima!AllKinds, OnLima!AllOps, OnLima!Exclusive,
      OnLima!ReportsDestroy, OnLima!OneSureCaller, OnLima!SureProbes, OnLima!On

(* What the commands of "lima" keep.                                        *)
LEMMA LimaCommanded ==
  /\ MCSpec => [](scenario = "lima" => One("lima")!TypeOK)
  /\ MCSpec => [][scenario = "lima" => OneWords /\ One("lima")!DeleteLeavesNothingStep]_mcvars
<1>1. /\ MCInit /\ scenario = "lima" => OnLima!Init
      /\ [MCNext]_mcvars /\ scenario = "lima" => [OnLima!Next]_OnLima!vars
      /\ scenario = "lima" /\ [MCNext]_mcvars => (scenario = "lima")'
      /\ scenario # "lima" /\ [MCNext]_mcvars => (scenario # "lima")'
  <2>1. MCInit /\ scenario = "lima" => OnLima!Init
    BY ScenarioStarts, LimaCommands DEF OneActor
  <2>2. [MCNext]_mcvars /\ scenario = "lima" => OnLima!Next \/ UNCHANGED OnLima!vars
    BY CommandSteps, LimaCommands DEF vars, OnLima!vars
  <2> QED  BY <2>1, <2>2, ScenarioStays
<1>2. MCSpec /\ scenario = "lima" => OnLima!Spec
  BY <1>1, PTL DEF MCSpec, OnLima!Spec
<1>3. OnLima!Spec => []OnLima!TypeOK
  <2>1. OnLima!Spec => [](OnLima!TypeOK /\ OnLima!JobInv)
    BY OnLima!LifecycleTypes, LimaSound, LifecycleAssumption, NoneAssumption, BackendAssumption
  <2> QED  BY <2>1, PTL
<1>4. OnLima!Spec => [][OnLima!InstalledMeansRunningStep]_OnLima!vars
  BY OnLima!InstallKeepsItsWord, LimaSound, LifecycleAssumption, NoneAssumption, BackendAssumption
      DEF OnLima!InstalledMeansRunning
<1>5. OnLima!Spec => [][OnLima!UpgradeOnlyStampsStep]_OnLima!vars
  BY OnLima!LockedUpgradeOnlyStamps, LimaSound, LifecycleAssumption, NoneAssumption,
      BackendAssumption DEF OnLima!UpgradeOnlyStamps
<1>6. OnLima!Spec => [][OnLima!DeleteLeavesNothingStep]_OnLima!vars
  BY OnLima!DeleteKeepsItsWord, LimaSound, LifecycleAssumption, NoneAssumption, BackendAssumption
      DEF OnLima!DeleteLeavesNothing
<1> DEFINE Typed == scenario = "lima" => One("lima")!TypeOK
           Said == scenario = "lima" => OneWords /\ One("lima")!DeleteLeavesNothingStep
           Words == /\ OnLima!InstalledMeansRunningStep /\ OnLima!UpgradeOnlyStampsStep
                    /\ OnLima!DeleteLeavesNothingStep
<1>7. /\ scenario = "lima" \/ scenario # "lima"
      /\ scenario # "lima" => Typed
      /\ OnLima!TypeOK => Typed
  BY LimaCommands
<1>8. /\ scenario # "lima" => [Said]_mcvars
      /\ [Words]_OnLima!vars /\ [MCNext]_mcvars => [Said]_mcvars
  <2>1. ASSUME [Words]_OnLima!vars, MCNext, mcvars' # mcvars, scenario = "lima"
        PROVE  Words
    BY <2>1, OnePartMoves DEF Commands, OneActor, vars, OnLima!vars
  <2> QED  BY <2>1, LimaCommands DEF OneWords
<1> HIDE DEF Typed, Said
<1>9. MCSpec => []Typed
  BY <1>1, <1>2, <1>3, <1>7, PTL DEF MCSpec
<1>10. MCSpec => [][Said]_mcvars
  <2>1. OnLima!Spec => [][Words]_OnLima!vars
    BY <1>4, <1>5, <1>6, PTL
  <2> HIDE DEF Words
  <2> QED  BY <2>1, <1>1, <1>2, <1>7, <1>8, PTL DEF MCSpec
<1> QED  BY <1>9, <1>10 DEF Typed, Said

(* What the calls of "lima vm" keep.                                        *)
LEMMA LimaCalled ==
  /\ MCSpec => [](scenario = "lima vm" => Lima!BackendTypeOK /\ Lima!AgentsReachable)
  /\ MCSpec => [][scenario = "lima vm" => Lima!OnlyDestroyTakesStep]_mcvars
  /\ MCSpec /\ scenario = "lima vm" => MCIsOneMachine
<1>1. /\ MCInit /\ scenario = "lima vm" => OnLima!BackendInit
      /\ [MCNext]_mcvars /\ scenario = "lima vm" => [OnLima!BackendNext]_OnLima!backend
      /\ scenario = "lima vm" /\ [MCNext]_mcvars => (scenario = "lima vm")'
      /\ scenario # "lima vm" /\ [MCNext]_mcvars => (scenario # "lima vm")'
  <2>1. MCInit /\ scenario = "lima vm" => OnLima!BackendInit
    BY ScenarioStarts, LimaCalls DEF OneLima
  <2>2. [MCNext]_mcvars /\ scenario = "lima vm" => OnLima!BackendNext \/ UNCHANGED OnLima!backend
    BY CallSteps, LimaCalls DEF backend, OnLima!backend
  <2> QED  BY <2>1, <2>2, ScenarioStays
<1>2. MCSpec /\ scenario = "lima vm" => OnLima!BackendSpec
  BY <1>1, PTL DEF MCSpec, OnLima!BackendSpec
<1>3. OnLima!BackendSpec => []OnLima!BackendTypeOK
  BY OnLima!BackendTypes, LimaSound, LifecycleAssumption, NoneAssumption, BackendAssumption
<1>4. OnLima!BackendSpec => []OnLima!AgentsReachable
  BY OnLima!AgentsFound, LimaSound, LifecycleAssumption, NoneAssumption, BackendAssumption
<1>5. OnLima!BackendSpec => [][OnLima!OnlyDestroyTakesStep]_OnLima!backend
  BY OnLima!DestroyTakes, LimaSound, LifecycleAssumption, NoneAssumption, BackendAssumption
      DEF OnLima!OnlyDestroyTakes
<1>6. OnLima!BackendSpec => OnLima!Slot!SlotInit /\ [][OnLima!Slot!SlotNext]_OnLima!Machines
  BY OnLima!BackendIsOneMachine, LimaSound, LifecycleAssumption, NoneAssumption, BackendAssumption
      DEF OnLima!IsOneMachine, OnLima!Slot!SlotSpec
<1> DEFINE Typed == scenario = "lima vm" => Lima!BackendTypeOK /\ Lima!AgentsReachable
           Said == scenario = "lima vm" => Lima!OnlyDestroyTakesStep
<1>7. /\ scenario = "lima vm" \/ scenario # "lima vm"
      /\ scenario # "lima vm" => Typed
      /\ OnLima!BackendTypeOK /\ OnLima!AgentsReachable => Typed
  BY LimaCalls
<1>8. /\ scenario # "lima vm" => [Said]_mcvars
      /\ [OnLima!OnlyDestroyTakesStep]_OnLima!backend /\ [MCNext]_mcvars => [Said]_mcvars
  <2>1. ASSUME [OnLima!OnlyDestroyTakesStep]_OnLima!backend,
               MCNext, mcvars' # mcvars, scenario = "lima vm"
        PROVE  OnLima!OnlyDestroyTakesStep
    BY <2>1, OnePartMoves DEF Calls, OneLima, Pairs, backend, OnLima!backend
  <2> QED  BY <2>1, LimaCalls
<1>9. /\ scenario = "lima vm" /\ OnLima!Slot!SlotInit => MCSlot!SlotInit
      /\ scenario = "lima vm" /\ [MCNext]_mcvars /\ [OnLima!Slot!SlotNext]_OnLima!Machines =>
           [MCSlot!SlotNext]_MCMachine
  <2>1. /\ scenario = "lima vm" => MCMachine = OnLima!Machines
        /\ (scenario = "lima vm")' => MCMachine' = OnLima!Machines'
    <3>1. Machines = OnLima!Machines /\ Machines' = OnLima!Machines'
      BY Zenon DEF Machines, Present, Intact, Mark, OnLima!Machines, OnLima!Present, OnLima!Intact,
          OnLima!Mark
    <3> QED  BY <3>1 DEF MCMachine, OneLima, Pairs
  <2>2. ASSUME MCMachine = OnLima!Machines PROVE OnLima!Slot!SlotInit => MCSlot!SlotInit
    BY <2>2 DEF MCSlot!SlotInit, OnLima!Slot!SlotInit, MCSlot!Nothing, OnLima!Slot!Nothing
  <2>3. ASSUME MCMachine = OnLima!Machines, MCMachine' = OnLima!Machines', OnLima!Slot!SlotNext
        PROVE  MCSlot!SlotNext
    BY Zenon, <2>3 DEF MCSlot!SlotInit, MCSlot!SlotNext, MCSlot!Begun, MCSlot!Goes, MCSlot!Gone,
        MCSlot!Moved, MCSlot!AllDown, MCSlot!Becomes, MCSlot!Machine, MCSlot!Nothing,
         OnLima!Slot!SlotInit, OnLima!Slot!SlotNext, OnLima!Slot!Begun, OnLima!Slot!Goes,
            OnLima!Slot!Gone, OnLima!Slot!Moved, OnLima!Slot!AllDown, OnLima!Slot!Becomes,
               OnLima!Slot!Machine, OnLima!Slot!Nothing
  <2> QED  BY <2>1, <2>2, <2>3, <1>1
<1> HIDE DEF Typed, Said
<1>10. MCSpec => []Typed
  BY <1>1, <1>2, <1>3, <1>4, <1>7, PTL DEF MCSpec
<1>11. MCSpec => [][Said]_mcvars
  BY <1>1, <1>2, <1>5, <1>7, <1>8, PTL DEF MCSpec
<1>12. MCSpec /\ scenario = "lima vm" => MCIsOneMachine
  <2>1. MCSpec /\ scenario = "lima vm" => OnLima!Slot!SlotInit /\ [][OnLima!Slot!SlotNext]_OnLima!Machines
    BY <1>2, <1>6
  <2> QED  BY <2>1, <1>1, <1>9, PTL DEF MCSpec, MCIsOneMachine, MCSlot!SlotSpec
<1> QED  BY <1>10, <1>11, <1>12 DEF Typed, Said

(* The scenarios "wsl2" and "distribution".                                *)
OnWsl == INSTANCE SandboxProofs
           WITH Actors <- {g1}, Gui <- {g1}, Backend <- "wsl2", MaxRequests <- 4,
                Platform <- "wsl2", Callers <- {1}, Mishaps <- Mishaps \ {"probe"}

(* Of "wsl2": the commands, their state and what is said of them are those  *)
(* of the theorems' instance.                                               *)
LEMMA WslCommands ==
  /\ One("lima")!Init <=> OnWsl!Init
  /\ One("wsl2")!Next <=> OnWsl!Next
  /\ vars = OnWsl!vars
  /\ One("lima")!TypeOK <=> OnWsl!TypeOK
  /\ One("lima")!InstalledMeansRunningStep <=> OnWsl!InstalledMeansRunningStep
  /\ One("lima")!DeleteLeavesNothingStep <=> OnWsl!DeleteLeavesNothingStep
  /\ One("lima")!UpgradeOnlyStampsStep <=> OnWsl!UpgradeOnlyStampsStep
<1>1. ASSUME NEW a PROVE One("wsl2")!Install(a) <=> OnWsl!Install(a)
  BY Zenon DEF One!Install, OnWsl!Install, One!InstallFind, OnWsl!InstallFind, One!InstallCreate,
         OnWsl!InstallCreate, One!InstallCreated, OnWsl!InstallCreated, One!InstallVerify,
         OnWsl!InstallVerify, One!InstallScript, OnWsl!InstallScript, One!InstallProbe,
         OnWsl!InstallProbe, One!InstallInsert, OnWsl!InstallInsert, One!Goto, OnWsl!Goto, One!End,
         OnWsl!End, One!IsPresent, OnWsl!IsPresent, One!Registered, OnWsl!Registered, One!Provisioned,
         OnWsl!Provisioned, One!CanExec, OnWsl!CanExec, One!AfterExec, OnWsl!AfterExec, One!RunScript,
         OnWsl!RunScript, One!Probe, OnWsl!Probe, One!Insert, OnWsl!Insert, One!LivesOn,
         OnWsl!LivesOn, One!ScriptOf, OnWsl!ScriptOf, One!CanStart, OnWsl!CanStart, One!Off, OnWsl!Off
<1>2. ASSUME NEW a PROVE /\ One("wsl2")!Register(a) <=> OnWsl!Register(a)
                         /\ One("wsl2")!Upgrade(a) <=> OnWsl!Upgrade(a)
  BY Zenon DEF One!Register, OnWsl!Register, One!Upgrade, OnWsl!Upgrade, One!RegisterFind,
         OnWsl!RegisterFind, One!RegisterCheck, OnWsl!RegisterCheck, One!RegisterInsert,
         OnWsl!RegisterInsert, One!UpgradeFind, OnWsl!UpgradeFind, One!UpgradeStart,
         OnWsl!UpgradeStart, One!UpgradeScript, OnWsl!UpgradeScript, One!UpgradeProbe,
         OnWsl!UpgradeProbe, One!UpgradeUpdate, OnWsl!UpgradeUpdate, One!Goto, OnWsl!Goto, One!End,
         OnWsl!End, One!IsUp, OnWsl!IsUp, One!Insert, OnWsl!Insert, One!StartVM, OnWsl!StartVM,
         One!RunScript, OnWsl!RunScript, One!Probe, OnWsl!Probe, One!Update, OnWsl!Update,
         One!CanExec, OnWsl!CanExec, One!AfterExec, OnWsl!AfterExec, One!LivesOn, OnWsl!LivesOn,
         One!ScriptOf, OnWsl!ScriptOf, One!CanStart, OnWsl!CanStart, One!Off, OnWsl!Off
<1>3. ASSUME NEW a PROVE /\ One("wsl2")!Destroy(a) <=> OnWsl!Destroy(a)
                         /\ One("wsl2")!Delete(a) <=> OnWsl!Delete(a)
                         /\ One("wsl2")!SetProxy(a) <=> OnWsl!SetProxy(a)
  BY Zenon DEF One!Destroy, OnWsl!Destroy, One!Delete, OnWsl!Delete, One!SetProxy, OnWsl!SetProxy,
         One!DestroyFind, OnWsl!DestroyFind, One!DestroyPorts, OnWsl!DestroyPorts, One!DestroyVM,
         OnWsl!DestroyVM, One!DestroyRemove, OnWsl!DestroyRemove, One!DeleteFind, OnWsl!DeleteFind,
         One!DeleteStop, OnWsl!DeleteStop, One!DeleteDestroy, OnWsl!DeleteDestroy, One!DeleteRemove,
         OnWsl!DeleteRemove, One!ProxyFind, OnWsl!ProxyFind, One!ProxyUpdate, OnWsl!ProxyUpdate,
         One!ProxyApply, OnWsl!ProxyApply, One!Goto, OnWsl!Goto, One!End, OnWsl!End, One!IsUp,
         OnWsl!IsUp, One!DestroyOk, OnWsl!DestroyOk, One!DestroyErr, OnWsl!DestroyErr, One!LockFree,
         OnWsl!LockFree, One!TryStopVM, OnWsl!TryStopVM, One!Update, OnWsl!Update, One!CanExec,
         OnWsl!CanExec, One!AfterExec, OnWsl!AfterExec, One!IsPresent, OnWsl!IsPresent, One!InLock,
         OnWsl!InLock, One!LockedKinds, OnWsl!LockedKinds, One!CanStart, OnWsl!CanStart, One!Off,
         OnWsl!Off
<1>4. ASSUME NEW a PROVE /\ One("wsl2")!Start(a) <=> OnWsl!Start(a)
                         /\ One("wsl2")!Stop(a) <=> OnWsl!Stop(a)
                         /\ One("wsl2")!Export(a) <=> OnWsl!Export(a)
                         /\ One("wsl2")!Import(a) <=> OnWsl!Import(a)
  BY Zenon DEF One!Start, OnWsl!Start, One!Stop, OnWsl!Stop, One!Export, OnWsl!Export, One!Import,
         OnWsl!Import, One!StartVM, OnWsl!StartVM, One!End, OnWsl!End, One!IsPresent, OnWsl!IsPresent,
         One!TryStopVM, OnWsl!TryStopVM, One!CanExec, OnWsl!CanExec, One!AfterExec, OnWsl!AfterExec,
         One!ImportImage, OnWsl!ImportImage, One!ImportInsert, OnWsl!ImportInsert, One!IsUp,
         OnWsl!IsUp, One!Goto, OnWsl!Goto, One!Insert, OnWsl!Insert, One!CanStart, OnWsl!CanStart,
         One!Off, OnWsl!Off, One!Unpacked, OnWsl!Unpacked, One!RollBackDistro, OnWsl!RollBackDistro
<1>5. ASSUME NEW a PROVE /\ One("wsl2")!Request(a) <=> OnWsl!Request(a)
                         /\ One("wsl2")!StepFails(a) <=> OnWsl!StepFails(a)
                         /\ One("wsl2")!Crash(a) <=> OnWsl!Crash(a)
  BY Zenon DEF One!Request, OnWsl!Request, One!StepFails, OnWsl!StepFails, One!Crash, OnWsl!Crash,
         One!LockedKinds, OnWsl!LockedKinds, One!LockFree, OnWsl!LockFree, One!FirstStep,
         OnWsl!FirstStep, One!End, OnWsl!End, One!InLock, OnWsl!InLock, One!CanExec, OnWsl!CanExec,
         One!AfterExec, OnWsl!AfterExec, One!LivesOn, OnWsl!LivesOn, One!ScriptOf, OnWsl!ScriptOf,
         One!CanStart, OnWsl!CanStart, One!Tolerant, OnWsl!Tolerant
<1>6. One("wsl2")!Next <=> OnWsl!Next
  BY Zenon, <1>1, <1>2, <1>3, <1>4, <1>5 DEF One!Next, OnWsl!Next, One!Step, OnWsl!Step,
         One!ScriptEnds, OnWsl!ScriptEnds
<1>7. /\ One("lima")!Init <=> OnWsl!Init
      /\ vars = OnWsl!vars
      /\ One("lima")!TypeOK <=> OnWsl!TypeOK
      /\ One("lima")!InstalledMeansRunningStep <=> OnWsl!InstalledMeansRunningStep
      /\ One("lima")!DeleteLeavesNothingStep <=> OnWsl!DeleteLeavesNothingStep
      /\ One("lima")!UpgradeOnlyStampsStep <=> OnWsl!UpgradeOnlyStampsStep
  BY Zenon DEF vars, OnWsl!vars, One!Init, OnWsl!Init, One!TypeOK, OnWsl!TypeOK,
         One!InstalledMeansRunningStep, OnWsl!InstalledMeansRunningStep, One!DeleteLeavesNothingStep,
         OnWsl!DeleteLeavesNothingStep, One!UpgradeOnlyStampsStep, OnWsl!UpgradeOnlyStampsStep,
         One!VM, OnWsl!VM, One!Record, OnWsl!Record, One!Steps, OnWsl!Steps, One!Job, OnWsl!Job,
         OnWsl!Scripts, One!Scripts
<1> QED  BY <1>6, <1>7

(* Of "distribution": the calls, their state and what is said of them are   *)
(* those of the theorems' instance.                                         *)
LEMMA WslCalls ==
  /\ Boxy("wsl2")!BackendInit <=> OnWsl!BackendInit
  /\ Boxy("wsl2")!BackendNext <=> OnWsl!BackendNext
  /\ backend = OnWsl!backend
  /\ Boxy("wsl2")!BackendTypeOK <=> OnWsl!BackendTypeOK
  /\ Boxy("wsl2")!OnlyDestroyTakesStep <=> OnWsl!OnlyDestroyTakesStep
  /\ Boxy("wsl2")!Machines = OnWsl!Machines
<1>1. ASSUME NEW c PROVE Boxy("wsl2")!Prerequisites(c) <=> OnWsl!Prerequisites(c)
  BY Zenon DEF Boxy!Prerequisites, OnWsl!Prerequisites, Boxy!ProbeTool, OnWsl!ProbeTool, Boxy!FetchTool,
         OnWsl!FetchTool, Boxy!UnpackTool, OnWsl!UnpackTool, Boxy!ProbeHardware, OnWsl!ProbeHardware,
         Boxy!AskRunning, OnWsl!AskRunning, Boxy!Proceed, OnWsl!Proceed, Boxy!ProbeFeatures,
         OnWsl!ProbeFeatures, Boxy!Elevate, OnWsl!Elevate, Boxy!Finish, OnWsl!Finish, Boxy!TryManager,
         OnWsl!TryManager, Boxy!At, OnWsl!At, Boxy!On, OnWsl!On, Boxy!Same, OnWsl!Same, Boxy!Its, OnWsl!Its,
         Boxy!Idle, OnWsl!Idle
<1>2. ASSUME NEW c PROVE Boxy("wsl2")!CreateInstance(c) <=> OnWsl!CreateInstance(c)
  BY Zenon DEF Boxy!CreateInstance, OnWsl!CreateInstance, Boxy!ProbeFirst, OnWsl!ProbeFirst, Boxy!Stage,
         OnWsl!Stage, Boxy!LaunchVM, OnWsl!LaunchVM, Boxy!BootVM, OnWsl!BootVM, Boxy!RegisterDistro,
         OnWsl!RegisterDistro, Boxy!ProvisionDistro, OnWsl!ProvisionDistro, Boxy!BuildImage,
         OnWsl!BuildImage, Boxy!RunContainer, OnWsl!RunContainer, Boxy!At, OnWsl!At, Boxy!Probed,
         OnWsl!Probed, Boxy!Its, OnWsl!Its, Boxy!Finish, OnWsl!Finish, Boxy!Proceed, OnWsl!Proceed, Boxy!On,
         OnWsl!On, Boxy!Same, OnWsl!Same, Boxy!Hold, OnWsl!Hold, Boxy!ToolWorks, OnWsl!ToolWorks,
         Boxy!Present, OnWsl!Present, Boxy!HoldPid, OnWsl!HoldPid, Boxy!Idle, OnWsl!Idle, Boxy!Mark,
         OnWsl!Mark, Boxy!Reading, OnWsl!Reading
<1>3. ASSUME NEW c PROVE Boxy("wsl2")!Power(c) <=> OnWsl!Power(c)
  BY Zenon DEF Boxy!Power, OnWsl!Power, Boxy!LimaStart, OnWsl!LimaStart, Boxy!WslStart, OnWsl!WslStart,
         Boxy!PodmanStart, OnWsl!PodmanStart, Boxy!LimaStop, OnWsl!LimaStop, Boxy!WslStop, OnWsl!WslStop,
         Boxy!PodmanStop, OnWsl!PodmanStop, Boxy!Halt, OnWsl!Halt, Boxy!NoRename, OnWsl!NoRename, Boxy!Move,
         OnWsl!Move, Boxy!Powers, OnWsl!Powers, Boxy!Works, OnWsl!Works, Boxy!HoldPid, OnWsl!HoldPid,
         Boxy!Its, OnWsl!Its, Boxy!Finish, OnWsl!Finish, Boxy!Fails, OnWsl!Fails, Boxy!Hold, OnWsl!Hold,
         Boxy!Down, OnWsl!Down, Boxy!At, OnWsl!At, Boxy!On, OnWsl!On, Boxy!Same, OnWsl!Same, Boxy!Proceed,
         OnWsl!Proceed, Boxy!Present, OnWsl!Present, Boxy!ToolWorks, OnWsl!ToolWorks, Boxy!Reading,
         OnWsl!Reading, Boxy!Idle, OnWsl!Idle, Boxy!Mark, OnWsl!Mark
<1>4. ASSUME NEW c PROVE Boxy("wsl2")!Images(c) <=> OnWsl!Images(c)
  BY Zenon DEF Boxy!Images, OnWsl!Images, Boxy!ProbeExport, OnWsl!ProbeExport, Boxy!OpenArchive,
         OnWsl!OpenArchive, Boxy!CloseArchive, OnWsl!CloseArchive, Boxy!ProbeImport, OnWsl!ProbeImport,
         Boxy!FillVM, OnWsl!FillVM, Boxy!FillDistro, OnWsl!FillDistro, Boxy!RollBack, OnWsl!RollBack,
         Boxy!LoadImage, OnWsl!LoadImage, Boxy!At, OnWsl!At, Boxy!Probed, OnWsl!Probed, Boxy!Its, OnWsl!Its,
         Boxy!Proceed, OnWsl!Proceed, Boxy!On, OnWsl!On, Boxy!Finish, OnWsl!Finish, Boxy!Same, OnWsl!Same,
         Boxy!Present, OnWsl!Present, Boxy!ToolWorks, OnWsl!ToolWorks, Boxy!Hold, OnWsl!Hold, Boxy!HoldPid,
         OnWsl!HoldPid, Boxy!Idle, OnWsl!Idle, Boxy!Mark, OnWsl!Mark, Boxy!Reading, OnWsl!Reading
<1>5. ASSUME NEW c PROVE /\ Boxy("wsl2")!DestroyInstance(c) <=> OnWsl!DestroyInstance(c)
                         /\ Boxy("wsl2")!KillFails(c) <=> OnWsl!KillFails(c)
  BY Zenon DEF Boxy!DestroyInstance, OnWsl!DestroyInstance, Boxy!ProbeDestroy, OnWsl!ProbeDestroy,
         Boxy!KillAgent, OnWsl!KillAgent, Boxy!DeleteVM, OnWsl!DeleteVM, Boxy!UnregisterDistro,
         OnWsl!UnregisterDistro, Boxy!RemoveContainer, OnWsl!RemoveContainer, Boxy!RemoveImage,
         OnWsl!RemoveImage, Boxy!Tidy, OnWsl!Tidy, Boxy!At, OnWsl!At, Boxy!Probed, OnWsl!Probed,
         Boxy!Its, OnWsl!Its, Boxy!Finish, OnWsl!Finish, Boxy!Proceed, OnWsl!Proceed, Boxy!On,
         OnWsl!On, Boxy!Same, OnWsl!Same, Boxy!HoldPid, OnWsl!HoldPid, Boxy!ToolWorks,
         OnWsl!ToolWorks, Boxy!Present, OnWsl!Present, Boxy!Hold, OnWsl!Hold, Boxy!Idle, OnWsl!Idle,
         Boxy!Reading, OnWsl!Reading, Boxy!Mark, OnWsl!Mark, Boxy!KillFails, OnWsl!KillFails
<1>6. ASSUME NEW c PROVE /\ Boxy("wsl2")!Ask(c) <=> OnWsl!Ask(c)
                         /\ Boxy("wsl2")!Dies(c) <=> OnWsl!Dies(c)
                         /\ Boxy("wsl2")!GivesUp(c) <=> OnWsl!GivesUp(c)
  BY Zenon DEF Boxy!Ask, OnWsl!Ask, Boxy!Dies, OnWsl!Dies, Boxy!GivesUp, OnWsl!GivesUp, Boxy!Idle,
         OnWsl!Idle, Boxy!FirstStage, OnWsl!FirstStage, Boxy!Finish, OnWsl!Finish, Boxy!At, OnWsl!At
<1>7. Boxy("wsl2")!BackendNext <=> OnWsl!BackendNext
  BY Zenon, <1>1, <1>2, <1>3, <1>4, <1>5, <1>6 DEF Boxy!BackendNext, OnWsl!BackendNext, Boxy!Reboot,
         OnWsl!Reboot, Boxy!Idle, OnWsl!Idle
<1>8. /\ Boxy("wsl2")!BackendInit <=> OnWsl!BackendInit
      /\ backend = OnWsl!backend
      /\ Boxy("wsl2")!BackendTypeOK <=> OnWsl!BackendTypeOK
      /\ Boxy("wsl2")!OnlyDestroyTakesStep <=> OnWsl!OnlyDestroyTakesStep
      /\ Boxy("wsl2")!Machines = OnWsl!Machines
  BY Zenon DEF backend, OnWsl!backend, Boxy!BackendInit, OnWsl!BackendInit, Boxy!BackendTypeOK,
         OnWsl!BackendTypeOK, Boxy!OnlyDestroyTakesStep, OnWsl!OnlyDestroyTakesStep, Boxy!Machines,
         OnWsl!Machines, Boxy!Idle, OnWsl!Idle, Boxy!Parts, OnWsl!Parts, Boxy!Call, OnWsl!Call, Boxy!Intact,
         OnWsl!Intact, Boxy!Its, OnWsl!Its, Boxy!Present, OnWsl!Present, Boxy!AllOps, OnWsl!AllOps,
         Boxy!Stages, OnWsl!Stages, Boxy!Mark, OnWsl!Mark
<1> QED  BY <1>7, <1>8

(* The two scenarios meet what the theorems assume.                         *)
LEMMA WslSound ==
  /\ Kinds \subseteq OnWsl!AllKinds
  /\ Ops \subseteq OnWsl!AllOps /\ Mishaps \ {"probe"} \subseteq Mishaps
  /\ OnWsl!Exclusive
  /\ OnWsl!OneSureCaller
<1>1. \E c : {1} = {c}
  OBVIOUS
<1> QED
  BY <1>1, LifecycleAssumption, NoneAssumption, BackendAssumption, MCMachinesAssumption
  DEF AllKinds, AllOps, OnWsl!AllKinds, OnWsl!AllOps, OnWsl!Exclusive, OnWsl!OneSureCaller,
      OnWsl!SureProbes, OnWsl!On

(* What the commands of "wsl2" keep.                                        *)
LEMMA WslCommanded ==
  /\ MCSpec => [](scenario = "wsl2" => One("lima")!TypeOK)
  /\ MCSpec => [][scenario = "wsl2" => OneWords]_mcvars
<1>1. /\ MCInit /\ scenario = "wsl2" => OnWsl!Init
      /\ [MCNext]_mcvars /\ scenario = "wsl2" => [OnWsl!Next]_OnWsl!vars
      /\ scenario = "wsl2" /\ [MCNext]_mcvars => (scenario = "wsl2")'
      /\ scenario # "wsl2" /\ [MCNext]_mcvars => (scenario # "wsl2")'
  <2>1. MCInit /\ scenario = "wsl2" => OnWsl!Init
    BY ScenarioStarts, WslCommands DEF OneActor
  <2>2. [MCNext]_mcvars /\ scenario = "wsl2" => OnWsl!Next \/ UNCHANGED OnWsl!vars
    BY CommandSteps, WslCommands DEF vars, OnWsl!vars
  <2> QED  BY <2>1, <2>2, ScenarioStays
<1>2. MCSpec /\ scenario = "wsl2" => OnWsl!Spec
  BY <1>1, PTL DEF MCSpec, OnWsl!Spec
<1>3. OnWsl!Spec => []OnWsl!TypeOK
  <2>1. OnWsl!Spec => [](OnWsl!TypeOK /\ OnWsl!JobInv)
    BY OnWsl!LifecycleTypes, WslSound, LifecycleAssumption, NoneAssumption, BackendAssumption
  <2> QED  BY <2>1, PTL
<1>4. OnWsl!Spec => [][OnWsl!InstalledMeansRunningStep]_OnWsl!vars
  BY OnWsl!InstallKeepsItsWord, WslSound, LifecycleAssumption, NoneAssumption, BackendAssumption
      DEF OnWsl!InstalledMeansRunning
<1>5. OnWsl!Spec => [][OnWsl!UpgradeOnlyStampsStep]_OnWsl!vars
  BY OnWsl!LockedUpgradeOnlyStamps, WslSound, LifecycleAssumption, NoneAssumption, BackendAssumption
      DEF OnWsl!UpgradeOnlyStamps
<1> DEFINE Typed == scenario = "wsl2" => One("lima")!TypeOK
           Said == scenario = "wsl2" => OneWords
           Words == /\ OnWsl!InstalledMeansRunningStep /\ OnWsl!UpgradeOnlyStampsStep
<1>6. /\ scenario = "wsl2" \/ scenario # "wsl2"
      /\ scenario # "wsl2" => Typed
      /\ OnWsl!TypeOK => Typed
  BY WslCommands
<1>7. /\ scenario # "wsl2" => [Said]_mcvars
      /\ [Words]_OnWsl!vars /\ [MCNext]_mcvars => [Said]_mcvars
  <2>1. ASSUME [Words]_OnWsl!vars, MCNext, mcvars' # mcvars, scenario = "wsl2"
        PROVE  Words
    BY <2>1, OnePartMoves DEF Commands, OneActor, vars, OnWsl!vars
  <2> QED  BY <2>1, WslCommands DEF OneWords
<1> HIDE DEF Typed, Said
<1>8. MCSpec => []Typed
  BY <1>1, <1>2, <1>3, <1>6, PTL DEF MCSpec
<1>9. MCSpec => [][Said]_mcvars
  <2>1. OnWsl!Spec => [][Words]_OnWsl!vars
    BY <1>4, <1>5, PTL
  <2> HIDE DEF Words
  <2> QED  BY <2>1, <1>1, <1>2, <1>6, <1>7, PTL DEF MCSpec
<1> QED  BY <1>8, <1>9 DEF Typed, Said

(* What the calls of "distribution" keep.                                   *)
LEMMA WslCalled ==
  /\ MCSpec => [](scenario = "distribution" => Boxy("wsl2")!BackendTypeOK)
  /\ MCSpec => [][scenario = "distribution" => Boxy("wsl2")!OnlyDestroyTakesStep]_mcvars
  /\ MCSpec /\ scenario = "distribution" => MCIsOneMachine
<1>1. /\ MCInit /\ scenario = "distribution" => OnWsl!BackendInit
      /\ [MCNext]_mcvars /\ scenario = "distribution" => [OnWsl!BackendNext]_OnWsl!backend
      /\ scenario = "distribution" /\ [MCNext]_mcvars => (scenario = "distribution")'
      /\ scenario # "distribution" /\ [MCNext]_mcvars => (scenario # "distribution")'
  <2>1. MCInit /\ scenario = "distribution" => OnWsl!BackendInit
    BY ScenarioStarts, WslCalls DEF OneLima
  <2>2. [MCNext]_mcvars /\ scenario = "distribution" => OnWsl!BackendNext \/ UNCHANGED OnWsl!backend
    BY CallSteps, WslCalls DEF backend, OnWsl!backend
  <2> QED  BY <2>1, <2>2, ScenarioStays
<1>2. MCSpec /\ scenario = "distribution" => OnWsl!BackendSpec
  BY <1>1, PTL DEF MCSpec, OnWsl!BackendSpec
<1>3. OnWsl!BackendSpec => []OnWsl!BackendTypeOK
  BY OnWsl!BackendTypes, WslSound, LifecycleAssumption, NoneAssumption, BackendAssumption
<1>4. OnWsl!BackendSpec => [][OnWsl!OnlyDestroyTakesStep]_OnWsl!backend
  BY OnWsl!DestroyTakes, WslSound, LifecycleAssumption, NoneAssumption, BackendAssumption
      DEF OnWsl!OnlyDestroyTakes
<1>5. OnWsl!BackendSpec => OnWsl!Slot!SlotInit /\ [][OnWsl!Slot!SlotNext]_OnWsl!Machines
  BY OnWsl!BackendIsOneMachine, WslSound, LifecycleAssumption, NoneAssumption, BackendAssumption
      DEF OnWsl!IsOneMachine, OnWsl!Slot!SlotSpec
<1> DEFINE Typed == scenario = "distribution" => Boxy("wsl2")!BackendTypeOK
           Said == scenario = "distribution" => Boxy("wsl2")!OnlyDestroyTakesStep
<1>6. /\ scenario = "distribution" \/ scenario # "distribution"
      /\ scenario # "distribution" => Typed
      /\ OnWsl!BackendTypeOK => Typed
  BY WslCalls
<1>7. /\ scenario # "distribution" => [Said]_mcvars
      /\ [OnWsl!OnlyDestroyTakesStep]_OnWsl!backend /\ [MCNext]_mcvars => [Said]_mcvars
  <2>1. ASSUME [OnWsl!OnlyDestroyTakesStep]_OnWsl!backend,
               MCNext, mcvars' # mcvars, scenario = "distribution"
        PROVE  OnWsl!OnlyDestroyTakesStep
    BY <2>1, OnePartMoves DEF Calls, OneLima, Pairs, backend, OnWsl!backend
  <2> QED  BY <2>1, WslCalls
<1>8. /\ scenario = "distribution" /\ OnWsl!Slot!SlotInit => MCSlot!SlotInit
      /\ scenario = "distribution" /\ [MCNext]_mcvars /\ [OnWsl!Slot!SlotNext]_OnWsl!Machines =>
           [MCSlot!SlotNext]_MCMachine
  <2>1. /\ scenario = "distribution" => MCMachine = OnWsl!Machines
        /\ (scenario = "distribution")' => MCMachine' = OnWsl!Machines'
    <3>1. Boxy("wsl2")!Machines = OnWsl!Machines /\ Boxy("wsl2")!Machines' = OnWsl!Machines'
      BY Zenon DEF Boxy!Machines, Boxy!Present, Boxy!Intact, Boxy!Mark, OnWsl!Machines, OnWsl!Present,
          OnWsl!Intact, OnWsl!Mark
    <3> QED  BY <3>1 DEF MCMachine, OneLima, Pairs
  <2>2. ASSUME MCMachine = OnWsl!Machines PROVE OnWsl!Slot!SlotInit => MCSlot!SlotInit
    BY <2>2 DEF MCSlot!SlotInit, OnWsl!Slot!SlotInit, MCSlot!Nothing, OnWsl!Slot!Nothing
  <2>3. ASSUME MCMachine = OnWsl!Machines, MCMachine' = OnWsl!Machines', OnWsl!Slot!SlotNext
        PROVE  MCSlot!SlotNext
    BY Zenon, <2>3 DEF MCSlot!SlotInit, MCSlot!SlotNext, MCSlot!Begun, MCSlot!Goes, MCSlot!Gone,
        MCSlot!Moved, MCSlot!AllDown, MCSlot!Becomes, MCSlot!Machine, MCSlot!Nothing,
         OnWsl!Slot!SlotInit, OnWsl!Slot!SlotNext, OnWsl!Slot!Begun, OnWsl!Slot!Goes, OnWsl!Slot!Gone,
            OnWsl!Slot!Moved, OnWsl!Slot!AllDown, OnWsl!Slot!Becomes, OnWsl!Slot!Machine, OnWsl!Slot!Nothing
  <2> QED  BY <2>1, <2>2, <2>3, <1>1
<1> HIDE DEF Typed, Said
<1>9. MCSpec => []Typed
  BY <1>1, <1>2, <1>3, <1>6, PTL DEF MCSpec
<1>10. MCSpec => [][Said]_mcvars
  BY <1>1, <1>2, <1>4, <1>6, <1>7, PTL DEF MCSpec
<1>11. MCSpec /\ scenario = "distribution" => MCIsOneMachine
  <2>1. MCSpec /\ scenario = "distribution" => OnWsl!Slot!SlotInit /\ [][OnWsl!Slot!SlotNext]_OnWsl!Machines
    BY <1>2, <1>5
  <2> QED  BY <2>1, <1>1, <1>8, PTL DEF MCSpec, MCIsOneMachine, MCSlot!SlotSpec
<1> QED  BY <1>9, <1>10, <1>11 DEF Typed, Said

(* The scenarios "podman" and "container".                                 *)
OnPodman == INSTANCE SandboxProofs
              WITH Actors <- {g1}, Gui <- {g1}, Backend <- "podman", MaxRequests <- 4,
                   Platform <- "podman", Callers <- {1}, Mishaps <- Mishaps \ {"probe"}

(* Of "podman": the commands, their state and what is said of them are      *)
(* those of the theorems' instance.                                         *)
LEMMA PodmanCommands ==
  /\ One("lima")!Init <=> OnPodman!Init
  /\ One("podman")!Next <=> OnPodman!Next
  /\ vars = OnPodman!vars
  /\ One("lima")!TypeOK <=> OnPodman!TypeOK
  /\ One("lima")!InstalledMeansRunningStep <=> OnPodman!InstalledMeansRunningStep
  /\ One("lima")!DeleteLeavesNothingStep <=> OnPodman!DeleteLeavesNothingStep
  /\ One("lima")!UpgradeOnlyStampsStep <=> OnPodman!UpgradeOnlyStampsStep
<1>1. ASSUME NEW a PROVE One("podman")!Install(a) <=> OnPodman!Install(a)
  BY Zenon DEF One!Install, OnPodman!Install, One!InstallFind, OnPodman!InstallFind,
         One!InstallCreate, OnPodman!InstallCreate, One!InstallCreated, OnPodman!InstallCreated,
         One!InstallVerify, OnPodman!InstallVerify, One!InstallScript, OnPodman!InstallScript,
         One!InstallProbe, OnPodman!InstallProbe, One!InstallInsert, OnPodman!InstallInsert, One!Goto,
         OnPodman!Goto, One!End, OnPodman!End, One!IsPresent, OnPodman!IsPresent, One!Registered,
         OnPodman!Registered, One!Provisioned, OnPodman!Provisioned, One!CanExec, OnPodman!CanExec,
         One!AfterExec, OnPodman!AfterExec, One!RunScript, OnPodman!RunScript, One!Probe,
         OnPodman!Probe, One!Insert, OnPodman!Insert, One!LivesOn, OnPodman!LivesOn, One!ScriptOf,
         OnPodman!ScriptOf, One!CanStart, OnPodman!CanStart, One!Off, OnPodman!Off
<1>2. ASSUME NEW a PROVE /\ One("podman")!Register(a) <=> OnPodman!Register(a)
                         /\ One("podman")!Upgrade(a) <=> OnPodman!Upgrade(a)
  BY Zenon DEF One!Register, OnPodman!Register, One!Upgrade, OnPodman!Upgrade, One!RegisterFind,
         OnPodman!RegisterFind, One!RegisterCheck, OnPodman!RegisterCheck, One!RegisterInsert,
         OnPodman!RegisterInsert, One!UpgradeFind, OnPodman!UpgradeFind, One!UpgradeStart,
         OnPodman!UpgradeStart, One!UpgradeScript, OnPodman!UpgradeScript, One!UpgradeProbe,
         OnPodman!UpgradeProbe, One!UpgradeUpdate, OnPodman!UpgradeUpdate, One!Goto, OnPodman!Goto,
         One!End, OnPodman!End, One!IsUp, OnPodman!IsUp, One!Insert, OnPodman!Insert, One!StartVM,
         OnPodman!StartVM, One!RunScript, OnPodman!RunScript, One!Probe, OnPodman!Probe, One!Update,
         OnPodman!Update, One!CanExec, OnPodman!CanExec, One!AfterExec, OnPodman!AfterExec,
         One!LivesOn, OnPodman!LivesOn, One!ScriptOf, OnPodman!ScriptOf, One!CanStart,
         OnPodman!CanStart, One!Off, OnPodman!Off
<1>3. ASSUME NEW a PROVE /\ One("podman")!Destroy(a) <=> OnPodman!Destroy(a)
                         /\ One("podman")!Delete(a) <=> OnPodman!Delete(a)
                         /\ One("podman")!SetProxy(a) <=> OnPodman!SetProxy(a)
  BY Zenon DEF One!Destroy, OnPodman!Destroy, One!Delete, OnPodman!Delete, One!SetProxy,
         OnPodman!SetProxy, One!DestroyFind, OnPodman!DestroyFind, One!DestroyPorts,
         OnPodman!DestroyPorts, One!DestroyVM, OnPodman!DestroyVM, One!DestroyRemove,
         OnPodman!DestroyRemove, One!DeleteFind, OnPodman!DeleteFind, One!DeleteStop,
         OnPodman!DeleteStop, One!DeleteDestroy, OnPodman!DeleteDestroy, One!DeleteRemove,
         OnPodman!DeleteRemove, One!ProxyFind, OnPodman!ProxyFind, One!ProxyUpdate,
         OnPodman!ProxyUpdate, One!ProxyApply, OnPodman!ProxyApply, One!Goto, OnPodman!Goto, One!End,
         OnPodman!End, One!IsUp, OnPodman!IsUp, One!DestroyOk, OnPodman!DestroyOk, One!DestroyErr,
         OnPodman!DestroyErr, One!LockFree, OnPodman!LockFree, One!TryStopVM, OnPodman!TryStopVM,
         One!Update, OnPodman!Update, One!CanExec, OnPodman!CanExec, One!AfterExec,
         OnPodman!AfterExec, One!IsPresent, OnPodman!IsPresent, One!InLock, OnPodman!InLock,
         One!LockedKinds, OnPodman!LockedKinds, One!CanStart, OnPodman!CanStart, One!Off, OnPodman!Off
<1>4. ASSUME NEW a PROVE /\ One("podman")!Start(a) <=> OnPodman!Start(a)
                         /\ One("podman")!Stop(a) <=> OnPodman!Stop(a)
                         /\ One("podman")!Export(a) <=> OnPodman!Export(a)
                         /\ One("podman")!Import(a) <=> OnPodman!Import(a)
  BY Zenon DEF One!Start, OnPodman!Start, One!Stop, OnPodman!Stop, One!Export, OnPodman!Export,
         One!Import, OnPodman!Import, One!StartVM, OnPodman!StartVM, One!End, OnPodman!End,
         One!IsPresent, OnPodman!IsPresent, One!TryStopVM, OnPodman!TryStopVM, One!CanExec,
         OnPodman!CanExec, One!AfterExec, OnPodman!AfterExec, One!ImportImage, OnPodman!ImportImage,
         One!ImportInsert, OnPodman!ImportInsert, One!IsUp, OnPodman!IsUp, One!Goto, OnPodman!Goto,
         One!Insert, OnPodman!Insert, One!CanStart, OnPodman!CanStart, One!Off, OnPodman!Off,
         One!Unpacked, OnPodman!Unpacked, One!RollBackDistro, OnPodman!RollBackDistro
<1>5. ASSUME NEW a PROVE /\ One("podman")!Request(a) <=> OnPodman!Request(a)
                         /\ One("podman")!StepFails(a) <=> OnPodman!StepFails(a)
                         /\ One("podman")!Crash(a) <=> OnPodman!Crash(a)
  BY Zenon DEF One!Request, OnPodman!Request, One!StepFails, OnPodman!StepFails, One!Crash,
         OnPodman!Crash, One!LockedKinds, OnPodman!LockedKinds, One!LockFree, OnPodman!LockFree,
         One!FirstStep, OnPodman!FirstStep, One!End, OnPodman!End, One!InLock, OnPodman!InLock,
         One!CanExec, OnPodman!CanExec, One!AfterExec, OnPodman!AfterExec, One!LivesOn,
         OnPodman!LivesOn, One!ScriptOf, OnPodman!ScriptOf, One!CanStart, OnPodman!CanStart,
         One!Tolerant, OnPodman!Tolerant
<1>6. One("podman")!Next <=> OnPodman!Next
  BY Zenon, <1>1, <1>2, <1>3, <1>4, <1>5 DEF One!Next, OnPodman!Next, One!Step, OnPodman!Step,
         One!ScriptEnds, OnPodman!ScriptEnds
<1>7. /\ One("lima")!Init <=> OnPodman!Init
      /\ vars = OnPodman!vars
      /\ One("lima")!TypeOK <=> OnPodman!TypeOK
      /\ One("lima")!InstalledMeansRunningStep <=> OnPodman!InstalledMeansRunningStep
      /\ One("lima")!DeleteLeavesNothingStep <=> OnPodman!DeleteLeavesNothingStep
      /\ One("lima")!UpgradeOnlyStampsStep <=> OnPodman!UpgradeOnlyStampsStep
  BY Zenon DEF vars, OnPodman!vars, One!Init, OnPodman!Init, One!TypeOK, OnPodman!TypeOK,
         One!InstalledMeansRunningStep, OnPodman!InstalledMeansRunningStep,
         One!DeleteLeavesNothingStep, OnPodman!DeleteLeavesNothingStep, One!UpgradeOnlyStampsStep,
         OnPodman!UpgradeOnlyStampsStep, One!VM, OnPodman!VM, One!Record, OnPodman!Record, One!Steps,
         OnPodman!Steps, One!Job, OnPodman!Job, OnPodman!Scripts, One!Scripts
<1> QED  BY <1>6, <1>7

(* Of "container": the calls, their state and what is said of them are      *)
(* those of the theorems' instance.                                         *)
LEMMA PodmanCalls ==
  /\ Boxy("podman")!BackendInit <=> OnPodman!BackendInit
  /\ Boxy("podman")!BackendNext <=> OnPodman!BackendNext
  /\ backend = OnPodman!backend
  /\ Boxy("podman")!BackendTypeOK <=> OnPodman!BackendTypeOK
  /\ Boxy("podman")!OnlyDestroyTakesStep <=> OnPodman!OnlyDestroyTakesStep
  /\ Boxy("podman")!Machines = OnPodman!Machines
<1>1. ASSUME NEW c PROVE Boxy("podman")!Prerequisites(c) <=> OnPodman!Prerequisites(c)
  BY Zenon DEF Boxy!Prerequisites, OnPodman!Prerequisites, Boxy!ProbeTool, OnPodman!ProbeTool,
         Boxy!FetchTool, OnPodman!FetchTool, Boxy!UnpackTool, OnPodman!UnpackTool, Boxy!ProbeHardware,
         OnPodman!ProbeHardware, Boxy!AskRunning, OnPodman!AskRunning, Boxy!Proceed, OnPodman!Proceed,
         Boxy!ProbeFeatures, OnPodman!ProbeFeatures, Boxy!Elevate, OnPodman!Elevate, Boxy!Finish,
         OnPodman!Finish, Boxy!TryManager, OnPodman!TryManager, Boxy!At, OnPodman!At, Boxy!On, OnPodman!On,
         Boxy!Same, OnPodman!Same, Boxy!Its, OnPodman!Its, Boxy!Idle, OnPodman!Idle
<1>2. ASSUME NEW c PROVE Boxy("podman")!CreateInstance(c) <=> OnPodman!CreateInstance(c)
  BY Zenon DEF Boxy!CreateInstance, OnPodman!CreateInstance, Boxy!ProbeFirst, OnPodman!ProbeFirst,
         Boxy!Stage, OnPodman!Stage, Boxy!LaunchVM, OnPodman!LaunchVM, Boxy!BootVM, OnPodman!BootVM,
         Boxy!RegisterDistro, OnPodman!RegisterDistro, Boxy!ProvisionDistro, OnPodman!ProvisionDistro,
         Boxy!BuildImage, OnPodman!BuildImage, Boxy!RunContainer, OnPodman!RunContainer, Boxy!At,
         OnPodman!At, Boxy!Probed, OnPodman!Probed, Boxy!Its, OnPodman!Its, Boxy!Finish, OnPodman!Finish,
         Boxy!Proceed, OnPodman!Proceed, Boxy!On, OnPodman!On, Boxy!Same, OnPodman!Same, Boxy!Hold,
         OnPodman!Hold, Boxy!ToolWorks, OnPodman!ToolWorks, Boxy!Present, OnPodman!Present, Boxy!HoldPid,
         OnPodman!HoldPid, Boxy!Idle, OnPodman!Idle, Boxy!Mark, OnPodman!Mark, Boxy!Reading,
         OnPodman!Reading
<1>3. ASSUME NEW c PROVE Boxy("podman")!Power(c) <=> OnPodman!Power(c)
  BY Zenon DEF Boxy!Power, OnPodman!Power, Boxy!LimaStart, OnPodman!LimaStart, Boxy!WslStart,
         OnPodman!WslStart, Boxy!PodmanStart, OnPodman!PodmanStart, Boxy!LimaStop, OnPodman!LimaStop,
         Boxy!WslStop, OnPodman!WslStop, Boxy!PodmanStop, OnPodman!PodmanStop, Boxy!Halt, OnPodman!Halt,
         Boxy!NoRename, OnPodman!NoRename, Boxy!Move, OnPodman!Move, Boxy!Powers, OnPodman!Powers,
         Boxy!Works, OnPodman!Works, Boxy!HoldPid, OnPodman!HoldPid, Boxy!Its, OnPodman!Its, Boxy!Finish,
         OnPodman!Finish, Boxy!Fails, OnPodman!Fails, Boxy!Hold, OnPodman!Hold, Boxy!Down, OnPodman!Down,
         Boxy!At, OnPodman!At, Boxy!On, OnPodman!On, Boxy!Same, OnPodman!Same, Boxy!Proceed,
         OnPodman!Proceed, Boxy!Present, OnPodman!Present, Boxy!ToolWorks, OnPodman!ToolWorks, Boxy!Reading,
         OnPodman!Reading, Boxy!Idle, OnPodman!Idle, Boxy!Mark, OnPodman!Mark
<1>4. ASSUME NEW c PROVE Boxy("podman")!Images(c) <=> OnPodman!Images(c)
  BY Zenon DEF Boxy!Images, OnPodman!Images, Boxy!ProbeExport, OnPodman!ProbeExport, Boxy!OpenArchive,
         OnPodman!OpenArchive, Boxy!CloseArchive, OnPodman!CloseArchive, Boxy!ProbeImport,
         OnPodman!ProbeImport, Boxy!FillVM, OnPodman!FillVM, Boxy!FillDistro, OnPodman!FillDistro,
         Boxy!RollBack, OnPodman!RollBack, Boxy!LoadImage, OnPodman!LoadImage, Boxy!At, OnPodman!At,
         Boxy!Probed, OnPodman!Probed, Boxy!Its, OnPodman!Its, Boxy!Proceed, OnPodman!Proceed, Boxy!On,
         OnPodman!On, Boxy!Finish, OnPodman!Finish, Boxy!Same, OnPodman!Same, Boxy!Present,
         OnPodman!Present, Boxy!ToolWorks, OnPodman!ToolWorks, Boxy!Hold, OnPodman!Hold, Boxy!HoldPid,
         OnPodman!HoldPid, Boxy!Idle, OnPodman!Idle, Boxy!Mark, OnPodman!Mark, Boxy!Reading,
         OnPodman!Reading
<1>5. ASSUME NEW c PROVE /\ Boxy("podman")!DestroyInstance(c) <=> OnPodman!DestroyInstance(c)
                         /\ Boxy("podman")!KillFails(c) <=> OnPodman!KillFails(c)
  BY Zenon DEF Boxy!DestroyInstance, OnPodman!DestroyInstance, Boxy!ProbeDestroy,
         OnPodman!ProbeDestroy, Boxy!KillAgent, OnPodman!KillAgent, Boxy!DeleteVM, OnPodman!DeleteVM,
         Boxy!UnregisterDistro, OnPodman!UnregisterDistro, Boxy!RemoveContainer,
         OnPodman!RemoveContainer, Boxy!RemoveImage, OnPodman!RemoveImage, Boxy!Tidy, OnPodman!Tidy,
         Boxy!At, OnPodman!At, Boxy!Probed, OnPodman!Probed, Boxy!Its, OnPodman!Its, Boxy!Finish,
         OnPodman!Finish, Boxy!Proceed, OnPodman!Proceed, Boxy!On, OnPodman!On, Boxy!Same,
         OnPodman!Same, Boxy!HoldPid, OnPodman!HoldPid, Boxy!ToolWorks, OnPodman!ToolWorks,
         Boxy!Present, OnPodman!Present, Boxy!Hold, OnPodman!Hold, Boxy!Idle, OnPodman!Idle,
         Boxy!Reading, OnPodman!Reading, Boxy!Mark, OnPodman!Mark, Boxy!KillFails, OnPodman!KillFails
<1>6. ASSUME NEW c PROVE /\ Boxy("podman")!Ask(c) <=> OnPodman!Ask(c)
                         /\ Boxy("podman")!Dies(c) <=> OnPodman!Dies(c)
                         /\ Boxy("podman")!GivesUp(c) <=> OnPodman!GivesUp(c)
  BY Zenon DEF Boxy!Ask, OnPodman!Ask, Boxy!Dies, OnPodman!Dies, Boxy!GivesUp, OnPodman!GivesUp, Boxy!Idle,
         OnPodman!Idle, Boxy!FirstStage, OnPodman!FirstStage, Boxy!Finish, OnPodman!Finish, Boxy!At,
         OnPodman!At
<1>7. Boxy("podman")!BackendNext <=> OnPodman!BackendNext
  BY Zenon, <1>1, <1>2, <1>3, <1>4, <1>5, <1>6 DEF Boxy!BackendNext, OnPodman!BackendNext, Boxy!Reboot,
         OnPodman!Reboot, Boxy!Idle, OnPodman!Idle
<1>8. /\ Boxy("podman")!BackendInit <=> OnPodman!BackendInit
      /\ backend = OnPodman!backend
      /\ Boxy("podman")!BackendTypeOK <=> OnPodman!BackendTypeOK
      /\ Boxy("podman")!OnlyDestroyTakesStep <=> OnPodman!OnlyDestroyTakesStep
      /\ Boxy("podman")!Machines = OnPodman!Machines
  BY Zenon DEF backend, OnPodman!backend, Boxy!BackendInit, OnPodman!BackendInit, Boxy!BackendTypeOK,
         OnPodman!BackendTypeOK, Boxy!OnlyDestroyTakesStep, OnPodman!OnlyDestroyTakesStep, Boxy!Machines,
         OnPodman!Machines, Boxy!Idle, OnPodman!Idle, Boxy!Parts, OnPodman!Parts, Boxy!Call, OnPodman!Call,
         Boxy!Intact, OnPodman!Intact, Boxy!Its, OnPodman!Its, Boxy!Present, OnPodman!Present, Boxy!AllOps,
         OnPodman!AllOps, Boxy!Stages, OnPodman!Stages, Boxy!Mark, OnPodman!Mark
<1> QED  BY <1>7, <1>8

(* The two scenarios meet what the theorems assume.                         *)
LEMMA PodmanSound ==
  /\ Kinds \subseteq OnPodman!AllKinds
  /\ Ops \subseteq OnPodman!AllOps /\ Mishaps \ {"probe"} \subseteq Mishaps
  /\ OnPodman!Exclusive
  /\ OnPodman!OneSureCaller
<1>1. \E c : {1} = {c}
  OBVIOUS
<1> QED
  BY <1>1, LifecycleAssumption, NoneAssumption, BackendAssumption, MCMachinesAssumption
  DEF AllKinds, AllOps, OnPodman!AllKinds, OnPodman!AllOps, OnPodman!Exclusive,
      OnPodman!OneSureCaller, OnPodman!SureProbes, OnPodman!On

(* What the commands of "podman" keep.                                      *)
LEMMA PodmanCommanded ==
  /\ MCSpec => [](scenario = "podman" => One("lima")!TypeOK)
  /\ MCSpec => [][scenario = "podman" => OneWords]_mcvars
<1>1. /\ MCInit /\ scenario = "podman" => OnPodman!Init
      /\ [MCNext]_mcvars /\ scenario = "podman" => [OnPodman!Next]_OnPodman!vars
      /\ scenario = "podman" /\ [MCNext]_mcvars => (scenario = "podman")'
      /\ scenario # "podman" /\ [MCNext]_mcvars => (scenario # "podman")'
  <2>1. MCInit /\ scenario = "podman" => OnPodman!Init
    BY ScenarioStarts, PodmanCommands DEF OneActor
  <2>2. [MCNext]_mcvars /\ scenario = "podman" => OnPodman!Next \/ UNCHANGED OnPodman!vars
    BY CommandSteps, PodmanCommands DEF vars, OnPodman!vars
  <2> QED  BY <2>1, <2>2, ScenarioStays
<1>2. MCSpec /\ scenario = "podman" => OnPodman!Spec
  BY <1>1, PTL DEF MCSpec, OnPodman!Spec
<1>3. OnPodman!Spec => []OnPodman!TypeOK
  <2>1. OnPodman!Spec => [](OnPodman!TypeOK /\ OnPodman!JobInv)
    BY OnPodman!LifecycleTypes, PodmanSound, LifecycleAssumption, NoneAssumption, BackendAssumption
  <2> QED  BY <2>1, PTL
<1>4. OnPodman!Spec => [][OnPodman!InstalledMeansRunningStep]_OnPodman!vars
  BY OnPodman!InstallKeepsItsWord, PodmanSound, LifecycleAssumption, NoneAssumption,
      BackendAssumption DEF OnPodman!InstalledMeansRunning
<1>5. OnPodman!Spec => [][OnPodman!UpgradeOnlyStampsStep]_OnPodman!vars
  BY OnPodman!LockedUpgradeOnlyStamps, PodmanSound, LifecycleAssumption, NoneAssumption,
      BackendAssumption DEF OnPodman!UpgradeOnlyStamps
<1> DEFINE Typed == scenario = "podman" => One("lima")!TypeOK
           Said == scenario = "podman" => OneWords
           Words == /\ OnPodman!InstalledMeansRunningStep /\ OnPodman!UpgradeOnlyStampsStep
<1>6. /\ scenario = "podman" \/ scenario # "podman"
      /\ scenario # "podman" => Typed
      /\ OnPodman!TypeOK => Typed
  BY PodmanCommands
<1>7. /\ scenario # "podman" => [Said]_mcvars
      /\ [Words]_OnPodman!vars /\ [MCNext]_mcvars => [Said]_mcvars
  <2>1. ASSUME [Words]_OnPodman!vars, MCNext, mcvars' # mcvars, scenario = "podman"
        PROVE  Words
    BY <2>1, OnePartMoves DEF Commands, OneActor, vars, OnPodman!vars
  <2> QED  BY <2>1, PodmanCommands DEF OneWords
<1> HIDE DEF Typed, Said
<1>8. MCSpec => []Typed
  BY <1>1, <1>2, <1>3, <1>6, PTL DEF MCSpec
<1>9. MCSpec => [][Said]_mcvars
  <2>1. OnPodman!Spec => [][Words]_OnPodman!vars
    BY <1>4, <1>5, PTL
  <2> HIDE DEF Words
  <2> QED  BY <2>1, <1>1, <1>2, <1>6, <1>7, PTL DEF MCSpec
<1> QED  BY <1>8, <1>9 DEF Typed, Said

(* What the calls of "container" keep.                                      *)
LEMMA PodmanCalled ==
  /\ MCSpec => [](scenario = "container" => Boxy("podman")!BackendTypeOK)
  /\ MCSpec => [][scenario = "container" => Boxy("podman")!OnlyDestroyTakesStep]_mcvars
  /\ MCSpec /\ scenario = "container" => MCIsOneMachine
<1>1. /\ MCInit /\ scenario = "container" => OnPodman!BackendInit
      /\ [MCNext]_mcvars /\ scenario = "container" => [OnPodman!BackendNext]_OnPodman!backend
      /\ scenario = "container" /\ [MCNext]_mcvars => (scenario = "container")'
      /\ scenario # "container" /\ [MCNext]_mcvars => (scenario # "container")'
  <2>1. MCInit /\ scenario = "container" => OnPodman!BackendInit
    BY ScenarioStarts, PodmanCalls DEF OneLima
  <2>2. [MCNext]_mcvars /\ scenario = "container" => OnPodman!BackendNext \/ UNCHANGED OnPodman!backend
    BY CallSteps, PodmanCalls DEF backend, OnPodman!backend
  <2> QED  BY <2>1, <2>2, ScenarioStays
<1>2. MCSpec /\ scenario = "container" => OnPodman!BackendSpec
  BY <1>1, PTL DEF MCSpec, OnPodman!BackendSpec
<1>3. OnPodman!BackendSpec => []OnPodman!BackendTypeOK
  BY OnPodman!BackendTypes, PodmanSound, LifecycleAssumption, NoneAssumption, BackendAssumption
<1>4. OnPodman!BackendSpec => [][OnPodman!OnlyDestroyTakesStep]_OnPodman!backend
  BY OnPodman!DestroyTakes, PodmanSound, LifecycleAssumption, NoneAssumption, BackendAssumption
      DEF OnPodman!OnlyDestroyTakes
<1>5. OnPodman!BackendSpec => OnPodman!Slot!SlotInit /\ [][OnPodman!Slot!SlotNext]_OnPodman!Machines
  BY OnPodman!BackendIsOneMachine, PodmanSound, LifecycleAssumption, NoneAssumption,
      BackendAssumption DEF OnPodman!IsOneMachine, OnPodman!Slot!SlotSpec
<1> DEFINE Typed == scenario = "container" => Boxy("podman")!BackendTypeOK
           Said == scenario = "container" => Boxy("podman")!OnlyDestroyTakesStep
<1>6. /\ scenario = "container" \/ scenario # "container"
      /\ scenario # "container" => Typed
      /\ OnPodman!BackendTypeOK => Typed
  BY PodmanCalls
<1>7. /\ scenario # "container" => [Said]_mcvars
      /\ [OnPodman!OnlyDestroyTakesStep]_OnPodman!backend /\ [MCNext]_mcvars => [Said]_mcvars
  <2>1. ASSUME [OnPodman!OnlyDestroyTakesStep]_OnPodman!backend,
               MCNext, mcvars' # mcvars, scenario = "container"
        PROVE  OnPodman!OnlyDestroyTakesStep
    BY <2>1, OnePartMoves DEF Calls, OneLima, Pairs, backend, OnPodman!backend
  <2> QED  BY <2>1, PodmanCalls
<1>8. /\ scenario = "container" /\ OnPodman!Slot!SlotInit => MCSlot!SlotInit
      /\ scenario = "container" /\ [MCNext]_mcvars /\ [OnPodman!Slot!SlotNext]_OnPodman!Machines =>
           [MCSlot!SlotNext]_MCMachine
  <2>1. /\ scenario = "container" => MCMachine = OnPodman!Machines
        /\ (scenario = "container")' => MCMachine' = OnPodman!Machines'
    <3>1. Boxy("podman")!Machines = OnPodman!Machines /\ Boxy("podman")!Machines' = OnPodman!Machines'
      BY Zenon DEF Boxy!Machines, Boxy!Present, Boxy!Intact, Boxy!Mark, OnPodman!Machines,
          OnPodman!Present, OnPodman!Intact, OnPodman!Mark
    <3> QED  BY <3>1 DEF MCMachine, OneLima, Pairs
  <2>2. ASSUME MCMachine = OnPodman!Machines PROVE OnPodman!Slot!SlotInit => MCSlot!SlotInit
    BY <2>2 DEF MCSlot!SlotInit, OnPodman!Slot!SlotInit, MCSlot!Nothing, OnPodman!Slot!Nothing
  <2>3. ASSUME MCMachine = OnPodman!Machines, MCMachine' = OnPodman!Machines', OnPodman!Slot!SlotNext
        PROVE  MCSlot!SlotNext
    BY Zenon, <2>3 DEF MCSlot!SlotInit, MCSlot!SlotNext, MCSlot!Begun, MCSlot!Goes, MCSlot!Gone,
        MCSlot!Moved, MCSlot!AllDown, MCSlot!Becomes, MCSlot!Machine, MCSlot!Nothing,
         OnPodman!Slot!SlotInit, OnPodman!Slot!SlotNext, OnPodman!Slot!Begun, OnPodman!Slot!Goes,
            OnPodman!Slot!Gone, OnPodman!Slot!Moved, OnPodman!Slot!AllDown, OnPodman!Slot!Becomes,
               OnPodman!Slot!Machine, OnPodman!Slot!Nothing
  <2> QED  BY <2>1, <2>2, <2>3, <1>1
<1> HIDE DEF Typed, Said
<1>9. MCSpec => []Typed
  BY <1>1, <1>2, <1>3, <1>6, PTL DEF MCSpec
<1>10. MCSpec => [][Said]_mcvars
  BY <1>1, <1>2, <1>4, <1>6, <1>7, PTL DEF MCSpec
<1>11. MCSpec /\ scenario = "container" => MCIsOneMachine
  <2>1. MCSpec /\ scenario = "container" => OnPodman!Slot!SlotInit /\ [][OnPodman!Slot!SlotNext]_OnPodman!Machines
    BY <1>2, <1>5
  <2> QED  BY <2>1, <1>1, <1>8, PTL DEF MCSpec, MCIsOneMachine, MCSlot!SlotSpec
<1> QED  BY <1>9, <1>10, <1>11 DEF Typed, Said

(* The scenarios "locked" and "two callers".                               *)
Handlers == INSTANCE SandboxProofs
              WITH Actors <- {g1, g2}, Gui <- {g1, g2}, Backend <- "lima", Faults <- {"step", "crash"},
                   Kinds <- Locked \ {"export", "import"},
                   Ops <- Ops \ {"prereqs", "rename"}, Mishaps <- {}

(* Of "locked": the commands, their state and what is said of them are      *)
(* those of the theorems' instance.                                         *)
LEMMA LockedCommands ==
  /\ Two!Init <=> Handlers!Init
  /\ Two!Next <=> Handlers!Next
  /\ vars = Handlers!vars
  /\ Two!TypeOK <=> Handlers!TypeOK
  /\ Two!InstalledMeansRunningStep <=> Handlers!InstalledMeansRunningStep
  /\ Two!DeleteLeavesNothingStep <=> Handlers!DeleteLeavesNothingStep
  /\ Two!UpgradeOnlyStampsStep <=> Handlers!UpgradeOnlyStampsStep
<1>1. ASSUME NEW a PROVE Two!Install(a) <=> Handlers!Install(a)
  BY Zenon DEF Two!Install, Handlers!Install, Two!InstallFind, Handlers!InstallFind,
         Two!InstallCreate, Handlers!InstallCreate, Two!InstallCreated, Handlers!InstallCreated,
         Two!InstallVerify, Handlers!InstallVerify, Two!InstallScript, Handlers!InstallScript,
         Two!InstallProbe, Handlers!InstallProbe, Two!InstallInsert, Handlers!InstallInsert, Two!Goto,
         Handlers!Goto, Two!End, Handlers!End, Two!IsPresent, Handlers!IsPresent, Two!Registered,
         Handlers!Registered, Two!Provisioned, Handlers!Provisioned, Two!CanExec, Handlers!CanExec,
         Two!AfterExec, Handlers!AfterExec, Two!RunScript, Handlers!RunScript, Two!Probe,
         Handlers!Probe, Two!Insert, Handlers!Insert, Two!LivesOn, Handlers!LivesOn, Two!ScriptOf,
         Handlers!ScriptOf, Two!CanStart, Handlers!CanStart, Two!Off, Handlers!Off
<1>2. ASSUME NEW a PROVE /\ Two!Register(a) <=> Handlers!Register(a)
                         /\ Two!Upgrade(a) <=> Handlers!Upgrade(a)
  BY Zenon DEF Two!Register, Handlers!Register, Two!Upgrade, Handlers!Upgrade, Two!RegisterFind,
         Handlers!RegisterFind, Two!RegisterCheck, Handlers!RegisterCheck, Two!RegisterInsert,
         Handlers!RegisterInsert, Two!UpgradeFind, Handlers!UpgradeFind, Two!UpgradeStart,
         Handlers!UpgradeStart, Two!UpgradeScript, Handlers!UpgradeScript, Two!UpgradeProbe,
         Handlers!UpgradeProbe, Two!UpgradeUpdate, Handlers!UpgradeUpdate, Two!Goto, Handlers!Goto,
         Two!End, Handlers!End, Two!IsUp, Handlers!IsUp, Two!Insert, Handlers!Insert, Two!StartVM,
         Handlers!StartVM, Two!RunScript, Handlers!RunScript, Two!Probe, Handlers!Probe, Two!Update,
         Handlers!Update, Two!CanExec, Handlers!CanExec, Two!AfterExec, Handlers!AfterExec,
         Two!LivesOn, Handlers!LivesOn, Two!ScriptOf, Handlers!ScriptOf, Two!CanStart,
         Handlers!CanStart, Two!Off, Handlers!Off
<1>3. ASSUME NEW a PROVE /\ Two!Destroy(a) <=> Handlers!Destroy(a)
                         /\ Two!Delete(a) <=> Handlers!Delete(a)
                         /\ Two!SetProxy(a) <=> Handlers!SetProxy(a)
  BY Zenon DEF Two!Destroy, Handlers!Destroy, Two!Delete, Handlers!Delete, Two!SetProxy,
         Handlers!SetProxy, Two!DestroyFind, Handlers!DestroyFind, Two!DestroyPorts,
         Handlers!DestroyPorts, Two!DestroyVM, Handlers!DestroyVM, Two!DestroyRemove,
         Handlers!DestroyRemove, Two!DeleteFind, Handlers!DeleteFind, Two!DeleteStop,
         Handlers!DeleteStop, Two!DeleteDestroy, Handlers!DeleteDestroy, Two!DeleteRemove,
         Handlers!DeleteRemove, Two!ProxyFind, Handlers!ProxyFind, Two!ProxyUpdate,
         Handlers!ProxyUpdate, Two!ProxyApply, Handlers!ProxyApply, Two!Goto, Handlers!Goto, Two!End,
         Handlers!End, Two!IsUp, Handlers!IsUp, Two!DestroyOk, Handlers!DestroyOk, Two!DestroyErr,
         Handlers!DestroyErr, Two!LockFree, Handlers!LockFree, Two!TryStopVM, Handlers!TryStopVM,
         Two!Update, Handlers!Update, Two!CanExec, Handlers!CanExec, Two!AfterExec,
         Handlers!AfterExec, Two!IsPresent, Handlers!IsPresent, Two!InLock, Handlers!InLock,
         Two!LockedKinds, Handlers!LockedKinds, Two!CanStart, Handlers!CanStart, Two!Off, Handlers!Off
<1>4. ASSUME NEW a PROVE /\ Two!Start(a) <=> Handlers!Start(a)
                         /\ Two!Stop(a) <=> Handlers!Stop(a)
                         /\ Two!Export(a) <=> Handlers!Export(a)
                         /\ Two!Import(a) <=> Handlers!Import(a)
  BY Zenon DEF Two!Start, Handlers!Start, Two!Stop, Handlers!Stop, Two!Export, Handlers!Export,
         Two!Import, Handlers!Import, Two!StartVM, Handlers!StartVM, Two!End, Handlers!End,
         Two!IsPresent, Handlers!IsPresent, Two!TryStopVM, Handlers!TryStopVM, Two!CanExec,
         Handlers!CanExec, Two!AfterExec, Handlers!AfterExec, Two!ImportImage, Handlers!ImportImage,
         Two!ImportInsert, Handlers!ImportInsert, Two!IsUp, Handlers!IsUp, Two!Goto, Handlers!Goto,
         Two!Insert, Handlers!Insert, Two!CanStart, Handlers!CanStart, Two!Off, Handlers!Off,
         Two!Unpacked, Handlers!Unpacked, Two!RollBackDistro, Handlers!RollBackDistro
<1>5. ASSUME NEW a PROVE /\ Two!Request(a) <=> Handlers!Request(a)
                         /\ Two!StepFails(a) <=> Handlers!StepFails(a)
                         /\ Two!Crash(a) <=> Handlers!Crash(a)
  BY Zenon DEF Two!Request, Handlers!Request, Two!StepFails, Handlers!StepFails, Two!Crash,
         Handlers!Crash, Two!LockedKinds, Handlers!LockedKinds, Two!LockFree, Handlers!LockFree,
         Two!FirstStep, Handlers!FirstStep, Two!End, Handlers!End, Two!InLock, Handlers!InLock,
         Two!CanExec, Handlers!CanExec, Two!AfterExec, Handlers!AfterExec, Two!LivesOn,
         Handlers!LivesOn, Two!ScriptOf, Handlers!ScriptOf, Two!CanStart, Handlers!CanStart,
         Two!Tolerant, Handlers!Tolerant
<1>6. Two!Next <=> Handlers!Next
  BY Zenon, <1>1, <1>2, <1>3, <1>4, <1>5 DEF Two!Next, Handlers!Next, Two!Step, Handlers!Step,
         Two!ScriptEnds, Handlers!ScriptEnds
<1>7. /\ Two!Init <=> Handlers!Init
      /\ vars = Handlers!vars
      /\ Two!TypeOK <=> Handlers!TypeOK
      /\ Two!InstalledMeansRunningStep <=> Handlers!InstalledMeansRunningStep
      /\ Two!DeleteLeavesNothingStep <=> Handlers!DeleteLeavesNothingStep
      /\ Two!UpgradeOnlyStampsStep <=> Handlers!UpgradeOnlyStampsStep
  BY Zenon DEF vars, Handlers!vars, Two!Init, Handlers!Init, Two!TypeOK, Handlers!TypeOK,
         Two!InstalledMeansRunningStep, Handlers!InstalledMeansRunningStep,
         Two!DeleteLeavesNothingStep, Handlers!DeleteLeavesNothingStep, Two!UpgradeOnlyStampsStep,
         Handlers!UpgradeOnlyStampsStep, Two!VM, Handlers!VM, Two!Record, Handlers!Record, Two!Steps,
         Handlers!Steps, Two!Job, Handlers!Job, Handlers!Scripts, Two!Scripts
<1> QED  BY <1>6, <1>7

(* Of "two callers": the calls, their state and what is said of them are    *)
(* those of the theorems' instance.                                         *)
LEMMA PairCalls ==
  /\ Pair!BackendInit <=> Handlers!BackendInit
  /\ Pair!BackendNext <=> Handlers!BackendNext
  /\ backend = Handlers!backend
  /\ Pair!BackendTypeOK <=> Handlers!BackendTypeOK
  /\ Pair!OnlyDestroyTakesStep <=> Handlers!OnlyDestroyTakesStep
  /\ Pair!Machines = Handlers!Machines
<1>1. ASSUME NEW c PROVE Pair!Prerequisites(c) <=> Handlers!Prerequisites(c)
  BY Zenon DEF Pair!Prerequisites, Handlers!Prerequisites, Pair!ProbeTool, Handlers!ProbeTool,
         Pair!FetchTool, Handlers!FetchTool, Pair!UnpackTool, Handlers!UnpackTool, Pair!ProbeHardware,
         Handlers!ProbeHardware, Pair!AskRunning, Handlers!AskRunning, Pair!Proceed, Handlers!Proceed,
         Pair!ProbeFeatures, Handlers!ProbeFeatures, Pair!Elevate, Handlers!Elevate, Pair!Finish,
         Handlers!Finish, Pair!TryManager, Handlers!TryManager, Pair!At, Handlers!At, Pair!On, Handlers!On,
         Pair!Same, Handlers!Same, Pair!Its, Handlers!Its, Pair!Idle, Handlers!Idle
<1>2. ASSUME NEW c PROVE Pair!CreateInstance(c) <=> Handlers!CreateInstance(c)
  BY Zenon DEF Pair!CreateInstance, Handlers!CreateInstance, Pair!ProbeFirst, Handlers!ProbeFirst,
         Pair!Stage, Handlers!Stage, Pair!LaunchVM, Handlers!LaunchVM, Pair!BootVM, Handlers!BootVM,
         Pair!RegisterDistro, Handlers!RegisterDistro, Pair!ProvisionDistro, Handlers!ProvisionDistro,
         Pair!BuildImage, Handlers!BuildImage, Pair!RunContainer, Handlers!RunContainer, Pair!At,
         Handlers!At, Pair!Probed, Handlers!Probed, Pair!Its, Handlers!Its, Pair!Finish, Handlers!Finish,
         Pair!Proceed, Handlers!Proceed, Pair!On, Handlers!On, Pair!Same, Handlers!Same, Pair!Hold,
         Handlers!Hold, Pair!ToolWorks, Handlers!ToolWorks, Pair!Present, Handlers!Present, Pair!HoldPid,
         Handlers!HoldPid, Pair!Idle, Handlers!Idle, Pair!Mark, Handlers!Mark, Pair!Reading,
         Handlers!Reading
<1>3. ASSUME NEW c PROVE Pair!Power(c) <=> Handlers!Power(c)
  BY Zenon DEF Pair!Power, Handlers!Power, Pair!LimaStart, Handlers!LimaStart, Pair!WslStart,
         Handlers!WslStart, Pair!PodmanStart, Handlers!PodmanStart, Pair!LimaStop, Handlers!LimaStop,
         Pair!WslStop, Handlers!WslStop, Pair!PodmanStop, Handlers!PodmanStop, Pair!Halt, Handlers!Halt,
         Pair!NoRename, Handlers!NoRename, Pair!Move, Handlers!Move, Pair!Powers, Handlers!Powers,
         Pair!Works, Handlers!Works, Pair!HoldPid, Handlers!HoldPid, Pair!Its, Handlers!Its, Pair!Finish,
         Handlers!Finish, Pair!Fails, Handlers!Fails, Pair!Hold, Handlers!Hold, Pair!Down, Handlers!Down,
         Pair!At, Handlers!At, Pair!On, Handlers!On, Pair!Same, Handlers!Same, Pair!Proceed,
         Handlers!Proceed, Pair!Present, Handlers!Present, Pair!ToolWorks, Handlers!ToolWorks, Pair!Reading,
         Handlers!Reading, Pair!Idle, Handlers!Idle, Pair!Mark, Handlers!Mark
<1>4. ASSUME NEW c PROVE Pair!Images(c) <=> Handlers!Images(c)
  BY Zenon DEF Pair!Images, Handlers!Images, Pair!ProbeExport, Handlers!ProbeExport, Pair!OpenArchive,
         Handlers!OpenArchive, Pair!CloseArchive, Handlers!CloseArchive, Pair!ProbeImport,
         Handlers!ProbeImport, Pair!FillVM, Handlers!FillVM, Pair!FillDistro, Handlers!FillDistro,
         Pair!RollBack, Handlers!RollBack, Pair!LoadImage, Handlers!LoadImage, Pair!At, Handlers!At,
         Pair!Probed, Handlers!Probed, Pair!Its, Handlers!Its, Pair!Proceed, Handlers!Proceed, Pair!On,
         Handlers!On, Pair!Finish, Handlers!Finish, Pair!Same, Handlers!Same, Pair!Present,
         Handlers!Present, Pair!ToolWorks, Handlers!ToolWorks, Pair!Hold, Handlers!Hold, Pair!HoldPid,
         Handlers!HoldPid, Pair!Idle, Handlers!Idle, Pair!Mark, Handlers!Mark, Pair!Reading,
         Handlers!Reading
<1>5. ASSUME NEW c PROVE /\ Pair!DestroyInstance(c) <=> Handlers!DestroyInstance(c)
                         /\ Pair!KillFails(c) <=> Handlers!KillFails(c)
  BY Zenon DEF Pair!DestroyInstance, Handlers!DestroyInstance, Pair!ProbeDestroy,
         Handlers!ProbeDestroy, Pair!KillAgent, Handlers!KillAgent, Pair!DeleteVM, Handlers!DeleteVM,
         Pair!UnregisterDistro, Handlers!UnregisterDistro, Pair!RemoveContainer,
         Handlers!RemoveContainer, Pair!RemoveImage, Handlers!RemoveImage, Pair!Tidy, Handlers!Tidy,
         Pair!At, Handlers!At, Pair!Probed, Handlers!Probed, Pair!Its, Handlers!Its, Pair!Finish,
         Handlers!Finish, Pair!Proceed, Handlers!Proceed, Pair!On, Handlers!On, Pair!Same,
         Handlers!Same, Pair!HoldPid, Handlers!HoldPid, Pair!ToolWorks, Handlers!ToolWorks,
         Pair!Present, Handlers!Present, Pair!Hold, Handlers!Hold, Pair!Idle, Handlers!Idle,
         Pair!Reading, Handlers!Reading, Pair!Mark, Handlers!Mark, Pair!KillFails, Handlers!KillFails
<1>6. ASSUME NEW c PROVE /\ Pair!Ask(c) <=> Handlers!Ask(c)
                         /\ Pair!Dies(c) <=> Handlers!Dies(c)
                         /\ Pair!GivesUp(c) <=> Handlers!GivesUp(c)
  BY Zenon DEF Pair!Ask, Handlers!Ask, Pair!Dies, Handlers!Dies, Pair!GivesUp, Handlers!GivesUp, Pair!Idle,
         Handlers!Idle, Pair!FirstStage, Handlers!FirstStage, Pair!Finish, Handlers!Finish, Pair!At,
         Handlers!At
<1>7. Pair!BackendNext <=> Handlers!BackendNext
  BY Zenon, <1>1, <1>2, <1>3, <1>4, <1>5, <1>6 DEF Pair!BackendNext, Handlers!BackendNext, Pair!Reboot,
         Handlers!Reboot, Pair!Idle, Handlers!Idle
<1>8. /\ Pair!BackendInit <=> Handlers!BackendInit
      /\ backend = Handlers!backend
      /\ Pair!BackendTypeOK <=> Handlers!BackendTypeOK
      /\ Pair!OnlyDestroyTakesStep <=> Handlers!OnlyDestroyTakesStep
      /\ Pair!Machines = Handlers!Machines
  BY Zenon DEF backend, Handlers!backend, Pair!BackendInit, Handlers!BackendInit, Pair!BackendTypeOK,
         Handlers!BackendTypeOK, Pair!OnlyDestroyTakesStep, Handlers!OnlyDestroyTakesStep, Pair!Machines,
         Handlers!Machines, Pair!Idle, Handlers!Idle, Pair!Parts, Handlers!Parts, Pair!Call, Handlers!Call,
         Pair!Intact, Handlers!Intact, Pair!Its, Handlers!Its, Pair!Present, Handlers!Present, Pair!AllOps,
         Handlers!AllOps, Pair!Stages, Handlers!Stages, Pair!Mark, Handlers!Mark
<1> QED  BY <1>7, <1>8

(* The two scenarios meet what the theorems assume.                         *)
LEMMA LockedSound ==
  /\ Locked \ {"export", "import"} \subseteq Handlers!AllKinds
  /\ Ops \ {"prereqs", "rename"} \subseteq Handlers!AllOps /\ {} \subseteq Mishaps
  /\ Handlers!Exclusive
  /\ Handlers!LimaFills /\ Handlers!On("lima") /\ "rename" \notin Ops \ {"prereqs", "rename"}
<1>1. \E c : {1} = {c}
  OBVIOUS
<1> QED
  BY <1>1, LifecycleAssumption, NoneAssumption, BackendAssumption, MCMachinesAssumption
  DEF AllKinds, AllOps, Handlers!AllKinds, Handlers!AllOps, Locked, Handlers!Exclusive,
      Handlers!LockedKinds, Handlers!LimaFills, Handlers!On

(* What the commands of "locked" keep.                                      *)
LEMMA LockedCommanded ==
  /\ MCSpec => [](scenario = "locked" => Two!TypeOK)
  /\ MCSpec => [][scenario = "locked" => TwoWords]_mcvars
<1>1. /\ MCInit /\ scenario = "locked" => Handlers!Init
      /\ [MCNext]_mcvars /\ scenario = "locked" => [Handlers!Next]_Handlers!vars
      /\ scenario = "locked" /\ [MCNext]_mcvars => (scenario = "locked")'
      /\ scenario # "locked" /\ [MCNext]_mcvars => (scenario # "locked")'
  <2>1. MCInit /\ scenario = "locked" => Handlers!Init
    BY ScenarioStarts, LockedCommands DEF OneActor
  <2>2. [MCNext]_mcvars /\ scenario = "locked" => Handlers!Next \/ UNCHANGED Handlers!vars
    BY CommandSteps, LockedCommands DEF vars, Handlers!vars
  <2> QED  BY <2>1, <2>2, ScenarioStays
<1>2. MCSpec /\ scenario = "locked" => Handlers!Spec
  BY <1>1, PTL DEF MCSpec, Handlers!Spec
<1>3. Handlers!Spec => []Handlers!TypeOK
  <2>1. Handlers!Spec => [](Handlers!TypeOK /\ Handlers!JobInv)
    BY Handlers!LifecycleTypes, LockedSound, LifecycleAssumption, NoneAssumption, BackendAssumption
  <2> QED  BY <2>1, PTL
<1>4. Handlers!Spec => [][Handlers!InstalledMeansRunningStep]_Handlers!vars
  BY Handlers!InstallKeepsItsWord, LockedSound, LifecycleAssumption, NoneAssumption,
      BackendAssumption DEF Handlers!InstalledMeansRunning
<1>5. Handlers!Spec => [][Handlers!UpgradeOnlyStampsStep]_Handlers!vars
  BY Handlers!LockedUpgradeOnlyStamps, LockedSound, LifecycleAssumption, NoneAssumption,
      BackendAssumption DEF Handlers!UpgradeOnlyStamps
<1> DEFINE Typed == scenario = "locked" => Two!TypeOK
           Said == scenario = "locked" => TwoWords
           Words == /\ Handlers!InstalledMeansRunningStep /\ Handlers!UpgradeOnlyStampsStep
<1>6. /\ scenario = "locked" \/ scenario # "locked"
      /\ scenario # "locked" => Typed
      /\ Handlers!TypeOK => Typed
  BY LockedCommands
<1>7. /\ scenario # "locked" => [Said]_mcvars
      /\ [Words]_Handlers!vars /\ [MCNext]_mcvars => [Said]_mcvars
  <2>1. ASSUME [Words]_Handlers!vars, MCNext, mcvars' # mcvars, scenario = "locked"
        PROVE  Words
    BY <2>1, OnePartMoves DEF Commands, OneActor, vars, Handlers!vars
  <2> QED  BY <2>1, LockedCommands DEF TwoWords
<1> HIDE DEF Typed, Said
<1>8. MCSpec => []Typed
  BY <1>1, <1>2, <1>3, <1>6, PTL DEF MCSpec
<1>9. MCSpec => [][Said]_mcvars
  <2>1. Handlers!Spec => [][Words]_Handlers!vars
    BY <1>4, <1>5, PTL
  <2> HIDE DEF Words
  <2> QED  BY <2>1, <1>1, <1>2, <1>6, <1>7, PTL DEF MCSpec
<1> QED  BY <1>8, <1>9 DEF Typed, Said

(* What the calls of "two callers" keep.                                    *)
LEMMA LockedCalled ==
  /\ MCSpec => [](scenario = "two callers" => Pair!BackendTypeOK)
  /\ MCSpec => [][scenario = "two callers" => OnlyDestroyTakesStep]_mcvars
  /\ MCSpec /\ scenario = "two callers" => MCIsOneMachine
<1>1. /\ MCInit /\ scenario = "two callers" => Handlers!BackendInit
      /\ [MCNext]_mcvars /\ scenario = "two callers" => [Handlers!BackendNext]_Handlers!backend
      /\ scenario = "two callers" /\ [MCNext]_mcvars => (scenario = "two callers")'
      /\ scenario # "two callers" /\ [MCNext]_mcvars => (scenario # "two callers")'
  <2>1. MCInit /\ scenario = "two callers" => Handlers!BackendInit
    BY ScenarioStarts DEF BackendInit, Handlers!BackendInit, Idle, Handlers!Idle, OneLima, Pairs
  <2>2. [MCNext]_mcvars /\ scenario = "two callers" => Handlers!BackendNext \/ UNCHANGED Handlers!backend
    BY CallSteps, PairCalls DEF backend, Handlers!backend
  <2> QED  BY <2>1, <2>2, ScenarioStays
<1>2. MCSpec /\ scenario = "two callers" => Handlers!BackendSpec
  BY <1>1, PTL DEF MCSpec, Handlers!BackendSpec
<1>3. Handlers!BackendSpec => []Handlers!BackendTypeOK
  BY Handlers!BackendTypes, LockedSound, LifecycleAssumption, NoneAssumption, BackendAssumption
<1>4. Handlers!BackendSpec => [][Handlers!OnlyDestroyTakesStep]_Handlers!backend
  BY Handlers!DestroyTakes, LockedSound, LifecycleAssumption, NoneAssumption, BackendAssumption
      DEF Handlers!OnlyDestroyTakes
<1>5. Handlers!BackendSpec => Handlers!Slot!SlotInit /\ [][Handlers!Slot!SlotNext]_Handlers!Machines
  BY Handlers!BackendIsOneMachine, LockedSound, LifecycleAssumption, NoneAssumption,
      BackendAssumption DEF Handlers!IsOneMachine, Handlers!Slot!SlotSpec
<1> DEFINE Typed == scenario = "two callers" => Pair!BackendTypeOK
           Said == scenario = "two callers" => OnlyDestroyTakesStep
<1>6. /\ scenario = "two callers" \/ scenario # "two callers"
      /\ scenario # "two callers" => Typed
      /\ Handlers!BackendTypeOK => Typed
  BY PairCalls
<1>7. /\ scenario # "two callers" => [Said]_mcvars
      /\ [Handlers!OnlyDestroyTakesStep]_Handlers!backend /\ [MCNext]_mcvars => [Said]_mcvars
  <2>1. ASSUME [Handlers!OnlyDestroyTakesStep]_Handlers!backend,
               MCNext, mcvars' # mcvars, scenario = "two callers"
        PROVE  Handlers!OnlyDestroyTakesStep
    BY <2>1, OnePartMoves DEF Calls, OneLima, Pairs, backend, Handlers!backend
  <2>2. Handlers!OnlyDestroyTakesStep <=> OnlyDestroyTakesStep
    BY Zenon DEF OnlyDestroyTakesStep, Handlers!OnlyDestroyTakesStep, Intact, Handlers!Intact, Present,
        Handlers!Present, Its, Handlers!Its, Idle, Handlers!Idle, Mark, Handlers!Mark
  <2> QED  BY <2>1, <2>2
<1>8. /\ scenario = "two callers" /\ Handlers!Slot!SlotInit => MCSlot!SlotInit
      /\ scenario = "two callers" /\ [MCNext]_mcvars /\ [Handlers!Slot!SlotNext]_Handlers!Machines =>
           [MCSlot!SlotNext]_MCMachine
  <2>1. /\ scenario = "two callers" => MCMachine = Handlers!Machines
        /\ (scenario = "two callers")' => MCMachine' = Handlers!Machines'
    <3>1. Machines = Handlers!Machines /\ Machines' = Handlers!Machines'
      BY Zenon DEF Machines, Present, Intact, Mark, Handlers!Machines, Handlers!Present, Handlers!Intact,
          Handlers!Mark
    <3> QED  BY <3>1 DEF MCMachine, OneLima, Pairs
  <2>2. ASSUME MCMachine = Handlers!Machines PROVE Handlers!Slot!SlotInit => MCSlot!SlotInit
    BY <2>2 DEF MCSlot!SlotInit, Handlers!Slot!SlotInit, MCSlot!Nothing, Handlers!Slot!Nothing
  <2>3. ASSUME MCMachine = Handlers!Machines, MCMachine' = Handlers!Machines', Handlers!Slot!SlotNext
        PROVE  MCSlot!SlotNext
    BY Zenon, <2>3 DEF MCSlot!SlotInit, MCSlot!SlotNext, MCSlot!Begun, MCSlot!Goes, MCSlot!Gone,
        MCSlot!Moved, MCSlot!AllDown, MCSlot!Becomes, MCSlot!Machine, MCSlot!Nothing,
         Handlers!Slot!SlotInit, Handlers!Slot!SlotNext, Handlers!Slot!Begun, Handlers!Slot!Goes,
            Handlers!Slot!Gone, Handlers!Slot!Moved, Handlers!Slot!AllDown, Handlers!Slot!Becomes,
               Handlers!Slot!Machine, Handlers!Slot!Nothing
  <2> QED  BY <2>1, <2>2, <2>3, <1>1
<1> HIDE DEF Typed, Said
<1>9. MCSpec => []Typed
  BY <1>1, <1>2, <1>3, <1>6, PTL DEF MCSpec
<1>10. MCSpec => [][Said]_mcvars
  BY <1>1, <1>2, <1>4, <1>6, <1>7, PTL DEF MCSpec
<1>11. MCSpec /\ scenario = "two callers" => MCIsOneMachine
  <2>1. MCSpec /\ scenario = "two callers" => Handlers!Slot!SlotInit /\ [][Handlers!Slot!SlotNext]_Handlers!Machines
    BY <1>2, <1>5
  <2> QED  BY <2>1, <1>1, <1>8, PTL DEF MCSpec, MCIsOneMachine, MCSlot!SlotSpec
<1> QED  BY <1>9, <1>10, <1>11 DEF Typed, Said

(* The scenarios "calm" and "sure stops".                                  *)
Calmly == INSTANCE SandboxProofs
            WITH Actors <- {g1, g2, g3}, Gui <- {g1, g2, g3}, Backend <- "lima", Faults <- {},
                 Kinds <- Locked, Versions <- {v1}, MaxRequests <- 4,
                 Callers <- {1}, Mishaps <- Mishaps \ {"step", "timeout"}

(* Of "calm": the commands, their state and what is said of them are those  *)
(* of the theorems' instance.                                               *)
LEMMA CalmCommands ==
  /\ Three!Init <=> Calmly!Init
  /\ Three!Next <=> Calmly!Next
  /\ vars = Calmly!vars
  /\ Three!TypeOK <=> Calmly!TypeOK
  /\ Three!NothingLost <=> Calmly!NothingLost
  /\ Three!ExportIsWhole <=> Calmly!ExportIsWhole
  /\ Three!InstalledMeansRunningStep <=> Calmly!InstalledMeansRunningStep
  /\ Three!DeleteLeavesNothingStep <=> Calmly!DeleteLeavesNothingStep
  /\ Three!UpgradeOnlyStampsStep <=> Calmly!UpgradeOnlyStampsStep
<1>1. ASSUME NEW a PROVE Three!Install(a) <=> Calmly!Install(a)
  BY Zenon DEF Three!Install, Calmly!Install, Three!InstallFind, Calmly!InstallFind,
         Three!InstallCreate, Calmly!InstallCreate, Three!InstallCreated, Calmly!InstallCreated,
         Three!InstallVerify, Calmly!InstallVerify, Three!InstallScript, Calmly!InstallScript,
         Three!InstallProbe, Calmly!InstallProbe, Three!InstallInsert, Calmly!InstallInsert,
         Three!Goto, Calmly!Goto, Three!End, Calmly!End, Three!IsPresent, Calmly!IsPresent,
         Three!Registered, Calmly!Registered, Three!Provisioned, Calmly!Provisioned, Three!CanExec,
         Calmly!CanExec, Three!AfterExec, Calmly!AfterExec, Three!RunScript, Calmly!RunScript,
         Three!Probe, Calmly!Probe, Three!Insert, Calmly!Insert, Three!LivesOn, Calmly!LivesOn,
         Three!ScriptOf, Calmly!ScriptOf, Three!CanStart, Calmly!CanStart, Three!Off, Calmly!Off
<1>2. ASSUME NEW a PROVE /\ Three!Register(a) <=> Calmly!Register(a)
                         /\ Three!Upgrade(a) <=> Calmly!Upgrade(a)
  BY Zenon DEF Three!Register, Calmly!Register, Three!Upgrade, Calmly!Upgrade, Three!RegisterFind,
         Calmly!RegisterFind, Three!RegisterCheck, Calmly!RegisterCheck, Three!RegisterInsert,
         Calmly!RegisterInsert, Three!UpgradeFind, Calmly!UpgradeFind, Three!UpgradeStart,
         Calmly!UpgradeStart, Three!UpgradeScript, Calmly!UpgradeScript, Three!UpgradeProbe,
         Calmly!UpgradeProbe, Three!UpgradeUpdate, Calmly!UpgradeUpdate, Three!Goto, Calmly!Goto,
         Three!End, Calmly!End, Three!IsUp, Calmly!IsUp, Three!Insert, Calmly!Insert, Three!StartVM,
         Calmly!StartVM, Three!RunScript, Calmly!RunScript, Three!Probe, Calmly!Probe, Three!Update,
         Calmly!Update, Three!CanExec, Calmly!CanExec, Three!AfterExec, Calmly!AfterExec,
         Three!LivesOn, Calmly!LivesOn, Three!ScriptOf, Calmly!ScriptOf, Three!CanStart,
         Calmly!CanStart, Three!Off, Calmly!Off
<1>3. ASSUME NEW a PROVE /\ Three!Destroy(a) <=> Calmly!Destroy(a)
                         /\ Three!Delete(a) <=> Calmly!Delete(a)
                         /\ Three!SetProxy(a) <=> Calmly!SetProxy(a)
  BY Zenon DEF Three!Destroy, Calmly!Destroy, Three!Delete, Calmly!Delete, Three!SetProxy,
         Calmly!SetProxy, Three!DestroyFind, Calmly!DestroyFind, Three!DestroyPorts,
         Calmly!DestroyPorts, Three!DestroyVM, Calmly!DestroyVM, Three!DestroyRemove,
         Calmly!DestroyRemove, Three!DeleteFind, Calmly!DeleteFind, Three!DeleteStop,
         Calmly!DeleteStop, Three!DeleteDestroy, Calmly!DeleteDestroy, Three!DeleteRemove,
         Calmly!DeleteRemove, Three!ProxyFind, Calmly!ProxyFind, Three!ProxyUpdate,
         Calmly!ProxyUpdate, Three!ProxyApply, Calmly!ProxyApply, Three!Goto, Calmly!Goto, Three!End,
         Calmly!End, Three!IsUp, Calmly!IsUp, Three!DestroyOk, Calmly!DestroyOk, Three!DestroyErr,
         Calmly!DestroyErr, Three!LockFree, Calmly!LockFree, Three!TryStopVM, Calmly!TryStopVM,
         Three!Update, Calmly!Update, Three!CanExec, Calmly!CanExec, Three!AfterExec,
         Calmly!AfterExec, Three!IsPresent, Calmly!IsPresent, Three!InLock, Calmly!InLock,
         Three!LockedKinds, Calmly!LockedKinds, Three!CanStart, Calmly!CanStart, Three!Off, Calmly!Off
<1>4. ASSUME NEW a PROVE /\ Three!Start(a) <=> Calmly!Start(a)
                         /\ Three!Stop(a) <=> Calmly!Stop(a)
                         /\ Three!Export(a) <=> Calmly!Export(a)
                         /\ Three!Import(a) <=> Calmly!Import(a)
  BY Zenon DEF Three!Start, Calmly!Start, Three!Stop, Calmly!Stop, Three!Export, Calmly!Export,
         Three!Import, Calmly!Import, Three!StartVM, Calmly!StartVM, Three!End, Calmly!End,
         Three!IsPresent, Calmly!IsPresent, Three!TryStopVM, Calmly!TryStopVM, Three!CanExec,
         Calmly!CanExec, Three!AfterExec, Calmly!AfterExec, Three!ImportImage, Calmly!ImportImage,
         Three!ImportInsert, Calmly!ImportInsert, Three!IsUp, Calmly!IsUp, Three!Goto, Calmly!Goto,
         Three!Insert, Calmly!Insert, Three!CanStart, Calmly!CanStart, Three!Off, Calmly!Off,
         Three!Unpacked, Calmly!Unpacked, Three!RollBackDistro, Calmly!RollBackDistro
<1>5. ASSUME NEW a PROVE /\ Three!Request(a) <=> Calmly!Request(a)
                         /\ Three!StepFails(a) <=> Calmly!StepFails(a)
                         /\ Three!Crash(a) <=> Calmly!Crash(a)
  BY Zenon DEF Three!Request, Calmly!Request, Three!StepFails, Calmly!StepFails, Three!Crash,
         Calmly!Crash, Three!LockedKinds, Calmly!LockedKinds, Three!LockFree, Calmly!LockFree,
         Three!FirstStep, Calmly!FirstStep, Three!End, Calmly!End, Three!InLock, Calmly!InLock,
         Three!CanExec, Calmly!CanExec, Three!AfterExec, Calmly!AfterExec, Three!LivesOn,
         Calmly!LivesOn, Three!ScriptOf, Calmly!ScriptOf, Three!CanStart, Calmly!CanStart,
         Three!Tolerant, Calmly!Tolerant
<1>6. Three!Next <=> Calmly!Next
  BY Zenon, <1>1, <1>2, <1>3, <1>4, <1>5 DEF Three!Next, Calmly!Next, Three!Step, Calmly!Step,
         Three!ScriptEnds, Calmly!ScriptEnds
<1>7. /\ Three!Init <=> Calmly!Init
      /\ vars = Calmly!vars
      /\ Three!TypeOK <=> Calmly!TypeOK
      /\ Three!NothingLost <=> Calmly!NothingLost
      /\ Three!ExportIsWhole <=> Calmly!ExportIsWhole
      /\ Three!InstalledMeansRunningStep <=> Calmly!InstalledMeansRunningStep
      /\ Three!DeleteLeavesNothingStep <=> Calmly!DeleteLeavesNothingStep
      /\ Three!UpgradeOnlyStampsStep <=> Calmly!UpgradeOnlyStampsStep
  BY Zenon DEF vars, Calmly!vars, Three!Init, Calmly!Init, Three!TypeOK, Calmly!TypeOK,
         Three!NothingLost, Calmly!NothingLost, Three!ExportIsWhole, Calmly!ExportIsWhole,
         Three!InstalledMeansRunningStep, Calmly!InstalledMeansRunningStep,
         Three!DeleteLeavesNothingStep, Calmly!DeleteLeavesNothingStep, Three!UpgradeOnlyStampsStep,
         Calmly!UpgradeOnlyStampsStep, Three!VM, Calmly!VM, Three!Record, Calmly!Record, Three!Steps,
         Calmly!Steps, Three!Job, Calmly!Job, Calmly!Scripts, Three!Scripts
<1> QED  BY <1>6, <1>7

(* Of "sure stops": the calls, their state and what is said of them are     *)
(* those of the theorems' instance.                                         *)
LEMMA SureCalls ==
  /\ Sure!BackendInit <=> Calmly!BackendInit
  /\ Sure!BackendNext <=> Calmly!BackendNext
  /\ backend = Calmly!backend
  /\ Sure!BackendTypeOK <=> Calmly!BackendTypeOK
  /\ Sure!AgentsReachable <=> Calmly!AgentsReachable
  /\ Sure!WholeNamesNoAgent <=> Calmly!WholeNamesNoAgent
  /\ Sure!OnlyDestroyTakesStep <=> Calmly!OnlyDestroyTakesStep
  /\ Sure!Machines = Calmly!Machines
<1>1. ASSUME NEW c PROVE Sure!Prerequisites(c) <=> Calmly!Prerequisites(c)
  BY Zenon DEF Sure!Prerequisites, Calmly!Prerequisites, Sure!ProbeTool, Calmly!ProbeTool, Sure!FetchTool,
         Calmly!FetchTool, Sure!UnpackTool, Calmly!UnpackTool, Sure!ProbeHardware, Calmly!ProbeHardware,
         Sure!AskRunning, Calmly!AskRunning, Sure!Proceed, Calmly!Proceed, Sure!ProbeFeatures,
         Calmly!ProbeFeatures, Sure!Elevate, Calmly!Elevate, Sure!Finish, Calmly!Finish, Sure!TryManager,
         Calmly!TryManager, Sure!At, Calmly!At, Sure!On, Calmly!On, Sure!Same, Calmly!Same, Sure!Its,
         Calmly!Its, Sure!Idle, Calmly!Idle
<1>2. ASSUME NEW c PROVE Sure!CreateInstance(c) <=> Calmly!CreateInstance(c)
  BY Zenon DEF Sure!CreateInstance, Calmly!CreateInstance, Sure!ProbeFirst, Calmly!ProbeFirst, Sure!Stage,
         Calmly!Stage, Sure!LaunchVM, Calmly!LaunchVM, Sure!BootVM, Calmly!BootVM, Sure!RegisterDistro,
         Calmly!RegisterDistro, Sure!ProvisionDistro, Calmly!ProvisionDistro, Sure!BuildImage,
         Calmly!BuildImage, Sure!RunContainer, Calmly!RunContainer, Sure!At, Calmly!At, Sure!Probed,
         Calmly!Probed, Sure!Its, Calmly!Its, Sure!Finish, Calmly!Finish, Sure!Proceed, Calmly!Proceed,
         Sure!On, Calmly!On, Sure!Same, Calmly!Same, Sure!Hold, Calmly!Hold, Sure!ToolWorks,
         Calmly!ToolWorks, Sure!Present, Calmly!Present, Sure!HoldPid, Calmly!HoldPid, Sure!Idle,
         Calmly!Idle, Sure!Mark, Calmly!Mark, Sure!Reading, Calmly!Reading
<1>3. ASSUME NEW c PROVE Sure!Power(c) <=> Calmly!Power(c)
  BY Zenon DEF Sure!Power, Calmly!Power, Sure!LimaStart, Calmly!LimaStart, Sure!WslStart, Calmly!WslStart,
         Sure!PodmanStart, Calmly!PodmanStart, Sure!LimaStop, Calmly!LimaStop, Sure!WslStop, Calmly!WslStop,
         Sure!PodmanStop, Calmly!PodmanStop, Sure!Halt, Calmly!Halt, Sure!NoRename, Calmly!NoRename,
         Sure!Move, Calmly!Move, Sure!Powers, Calmly!Powers, Sure!Works, Calmly!Works, Sure!HoldPid,
         Calmly!HoldPid, Sure!Its, Calmly!Its, Sure!Finish, Calmly!Finish, Sure!Fails, Calmly!Fails,
         Sure!Hold, Calmly!Hold, Sure!Down, Calmly!Down, Sure!At, Calmly!At, Sure!On, Calmly!On, Sure!Same,
         Calmly!Same, Sure!Proceed, Calmly!Proceed, Sure!Present, Calmly!Present, Sure!ToolWorks,
         Calmly!ToolWorks, Sure!Reading, Calmly!Reading, Sure!Idle, Calmly!Idle, Sure!Mark, Calmly!Mark
<1>4. ASSUME NEW c PROVE Sure!Images(c) <=> Calmly!Images(c)
  BY Zenon DEF Sure!Images, Calmly!Images, Sure!ProbeExport, Calmly!ProbeExport, Sure!OpenArchive,
         Calmly!OpenArchive, Sure!CloseArchive, Calmly!CloseArchive, Sure!ProbeImport, Calmly!ProbeImport,
         Sure!FillVM, Calmly!FillVM, Sure!FillDistro, Calmly!FillDistro, Sure!RollBack, Calmly!RollBack,
         Sure!LoadImage, Calmly!LoadImage, Sure!At, Calmly!At, Sure!Probed, Calmly!Probed, Sure!Its,
         Calmly!Its, Sure!Proceed, Calmly!Proceed, Sure!On, Calmly!On, Sure!Finish, Calmly!Finish,
         Sure!Same, Calmly!Same, Sure!Present, Calmly!Present, Sure!ToolWorks, Calmly!ToolWorks, Sure!Hold,
         Calmly!Hold, Sure!HoldPid, Calmly!HoldPid, Sure!Idle, Calmly!Idle, Sure!Mark, Calmly!Mark,
         Sure!Reading, Calmly!Reading
<1>5. ASSUME NEW c PROVE /\ Sure!DestroyInstance(c) <=> Calmly!DestroyInstance(c)
                         /\ Sure!KillFails(c) <=> Calmly!KillFails(c)
  BY Zenon DEF Sure!DestroyInstance, Calmly!DestroyInstance, Sure!ProbeDestroy, Calmly!ProbeDestroy,
         Sure!KillAgent, Calmly!KillAgent, Sure!DeleteVM, Calmly!DeleteVM, Sure!UnregisterDistro,
         Calmly!UnregisterDistro, Sure!RemoveContainer, Calmly!RemoveContainer, Sure!RemoveImage,
         Calmly!RemoveImage, Sure!Tidy, Calmly!Tidy, Sure!At, Calmly!At, Sure!Probed, Calmly!Probed,
         Sure!Its, Calmly!Its, Sure!Finish, Calmly!Finish, Sure!Proceed, Calmly!Proceed, Sure!On,
         Calmly!On, Sure!Same, Calmly!Same, Sure!HoldPid, Calmly!HoldPid, Sure!ToolWorks,
         Calmly!ToolWorks, Sure!Present, Calmly!Present, Sure!Hold, Calmly!Hold, Sure!Idle,
         Calmly!Idle, Sure!Reading, Calmly!Reading, Sure!Mark, Calmly!Mark, Sure!KillFails,
         Calmly!KillFails
<1>6. ASSUME NEW c PROVE /\ Sure!Ask(c) <=> Calmly!Ask(c)
                         /\ Sure!Dies(c) <=> Calmly!Dies(c)
                         /\ Sure!GivesUp(c) <=> Calmly!GivesUp(c)
  BY Zenon DEF Sure!Ask, Calmly!Ask, Sure!Dies, Calmly!Dies, Sure!GivesUp, Calmly!GivesUp, Sure!Idle,
         Calmly!Idle, Sure!FirstStage, Calmly!FirstStage, Sure!Finish, Calmly!Finish, Sure!At, Calmly!At
<1>7. Sure!BackendNext <=> Calmly!BackendNext
  BY Zenon, <1>1, <1>2, <1>3, <1>4, <1>5, <1>6 DEF Sure!BackendNext, Calmly!BackendNext, Sure!Reboot,
         Calmly!Reboot, Sure!Idle, Calmly!Idle
<1>8. /\ Sure!BackendInit <=> Calmly!BackendInit
      /\ backend = Calmly!backend
      /\ Sure!BackendTypeOK <=> Calmly!BackendTypeOK
      /\ Sure!AgentsReachable <=> Calmly!AgentsReachable
      /\ Sure!WholeNamesNoAgent <=> Calmly!WholeNamesNoAgent
      /\ Sure!OnlyDestroyTakesStep <=> Calmly!OnlyDestroyTakesStep
      /\ Sure!Machines = Calmly!Machines
  BY Zenon DEF backend, Calmly!backend, Sure!BackendInit, Calmly!BackendInit, Sure!BackendTypeOK,
         Calmly!BackendTypeOK, Sure!AgentsReachable, Calmly!AgentsReachable, Sure!WholeNamesNoAgent,
         Calmly!WholeNamesNoAgent, Sure!OnlyDestroyTakesStep, Calmly!OnlyDestroyTakesStep, Sure!Machines,
         Calmly!Machines, Sure!Idle, Calmly!Idle, Sure!Parts, Calmly!Parts, Sure!Call, Calmly!Call, Sure!On,
         Calmly!On, Sure!Present, Calmly!Present, Sure!Intact, Calmly!Intact, Sure!Its, Calmly!Its,
         Sure!AllOps, Calmly!AllOps, Sure!Stages, Calmly!Stages, Sure!Mark, Calmly!Mark
<1> QED  BY <1>7, <1>8

(* The two scenarios meet what the theorems assume.                         *)
LEMMA CalmSound ==
  /\ Locked \subseteq Calmly!AllKinds
  /\ Ops \subseteq Calmly!AllOps /\ Mishaps \ {"step", "timeout"} \subseteq Mishaps
  /\ Calmly!Exclusive
  /\ Calmly!Calm /\ Calmly!ImportsUnderItsName /\ Calmly!SureStops
  /\ Calmly!OneSureCaller
  /\ \E c : {1} = {c}
<1>1. \E c : {1} = {c}
  OBVIOUS
<1> QED
  BY <1>1, LifecycleAssumption, NoneAssumption, BackendAssumption, FewerVersions, MCMachinesAssumption
  DEF AllKinds, AllOps, Calmly!AllKinds, Calmly!AllOps, Locked, Calmly!Exclusive,
      Calmly!LockedKinds, Calmly!Calm, Calmly!ImportsUnderItsName, Calmly!SureStops,
         Calmly!OneSureCaller, Calmly!SureProbes, Calmly!On

(* What the commands of "calm" keep.                                        *)
LEMMA CalmCommanded ==
  /\ MCSpec => [](scenario = "calm" => Three!TypeOK /\ Three!NothingLost /\ Three!ExportIsWhole)
  /\ MCSpec => [][scenario = "calm" => ThreeWords]_mcvars
<1>1. /\ MCInit /\ scenario = "calm" => Calmly!Init
      /\ [MCNext]_mcvars /\ scenario = "calm" => [Calmly!Next]_Calmly!vars
      /\ scenario = "calm" /\ [MCNext]_mcvars => (scenario = "calm")'
      /\ scenario # "calm" /\ [MCNext]_mcvars => (scenario # "calm")'
  <2>1. MCInit /\ scenario = "calm" => Calmly!Init
    BY ScenarioStarts, CalmCommands DEF OneActor
  <2>2. [MCNext]_mcvars /\ scenario = "calm" => Calmly!Next \/ UNCHANGED Calmly!vars
    BY CommandSteps, CalmCommands DEF vars, Calmly!vars
  <2> QED  BY <2>1, <2>2, ScenarioStays
<1>2. MCSpec /\ scenario = "calm" => Calmly!Spec
  BY <1>1, PTL DEF MCSpec, Calmly!Spec
<1>3. Calmly!Spec => []Calmly!TypeOK
  <2>1. Calmly!Spec => [](Calmly!TypeOK /\ Calmly!JobInv)
    BY Calmly!LifecycleTypes, CalmSound, LifecycleAssumption, NoneAssumption, BackendAssumption,
        FewerVersions
  <2> QED  BY <2>1, PTL
<1>4. Calmly!Spec => []Calmly!NothingLost
  BY Calmly!NothingIsLost, CalmSound, LifecycleAssumption, NoneAssumption, BackendAssumption, FewerVersions
<1>5. Calmly!Spec => []Calmly!ExportIsWhole
  BY Calmly!ExportsAreWhole, CalmSound, LifecycleAssumption, NoneAssumption, BackendAssumption,
      FewerVersions
<1>6. Calmly!Spec => [][Calmly!InstalledMeansRunningStep]_Calmly!vars
  BY Calmly!InstallKeepsItsWord, CalmSound, LifecycleAssumption, NoneAssumption, BackendAssumption,
      FewerVersions DEF Calmly!InstalledMeansRunning
<1>7. Calmly!Spec => [][Calmly!UpgradeOnlyStampsStep]_Calmly!vars
  BY Calmly!LockedUpgradeOnlyStamps, CalmSound, LifecycleAssumption, NoneAssumption, BackendAssumption,
      FewerVersions DEF Calmly!UpgradeOnlyStamps
<1> DEFINE Typed == scenario = "calm" => Three!TypeOK /\ Three!NothingLost /\ Three!ExportIsWhole
           Said == scenario = "calm" => ThreeWords
           Words == /\ Calmly!InstalledMeansRunningStep /\ Calmly!UpgradeOnlyStampsStep
<1>8. /\ scenario = "calm" \/ scenario # "calm"
      /\ scenario # "calm" => Typed
      /\ Calmly!TypeOK /\ Calmly!NothingLost /\ Calmly!ExportIsWhole => Typed
  BY CalmCommands
<1>9. /\ scenario # "calm" => [Said]_mcvars
      /\ [Words]_Calmly!vars /\ [MCNext]_mcvars => [Said]_mcvars
  <2>1. ASSUME [Words]_Calmly!vars, MCNext, mcvars' # mcvars, scenario = "calm"
        PROVE  Words
    BY <2>1, OnePartMoves DEF Commands, OneActor, vars, Calmly!vars
  <2> QED  BY <2>1, CalmCommands DEF ThreeWords
<1> HIDE DEF Typed, Said
<1>10. MCSpec => []Typed
  BY <1>1, <1>2, <1>3, <1>4, <1>5, <1>8, PTL DEF MCSpec
<1>11. MCSpec => [][Said]_mcvars
  <2>1. Calmly!Spec => [][Words]_Calmly!vars
    BY <1>6, <1>7, PTL
  <2> HIDE DEF Words
  <2> QED  BY <2>1, <1>1, <1>2, <1>8, <1>9, PTL DEF MCSpec
<1> QED  BY <1>10, <1>11 DEF Typed, Said

(* What the calls of "sure stops" keep.                                     *)
LEMMA CalmCalled ==
  /\ MCSpec => [](scenario = "sure stops" => Sure!BackendTypeOK /\ Sure!AgentsReachable /\ Sure!WholeNamesNoAgent)
  /\ MCSpec => [][scenario = "sure stops" => Lima!OnlyDestroyTakesStep]_mcvars
  /\ MCSpec /\ scenario = "sure stops" => MCIsOneMachine
<1>1. /\ MCInit /\ scenario = "sure stops" => Calmly!BackendInit
      /\ [MCNext]_mcvars /\ scenario = "sure stops" => [Calmly!BackendNext]_Calmly!backend
      /\ scenario = "sure stops" /\ [MCNext]_mcvars => (scenario = "sure stops")'
      /\ scenario # "sure stops" /\ [MCNext]_mcvars => (scenario # "sure stops")'
  <2>1. MCInit /\ scenario = "sure stops" => Calmly!BackendInit
    BY ScenarioStarts DEF Lima!BackendInit, Calmly!BackendInit, Lima!Idle, Calmly!Idle, OneLima, Pairs
  <2>2. [MCNext]_mcvars /\ scenario = "sure stops" => Calmly!BackendNext \/ UNCHANGED Calmly!backend
    BY CallSteps, SureCalls DEF backend, Calmly!backend
  <2> QED  BY <2>1, <2>2, ScenarioStays
<1>2. MCSpec /\ scenario = "sure stops" => Calmly!BackendSpec
  BY <1>1, PTL DEF MCSpec, Calmly!BackendSpec
<1>3. Calmly!BackendSpec => []Calmly!BackendTypeOK
  BY Calmly!BackendTypes, CalmSound, LifecycleAssumption, NoneAssumption, BackendAssumption, FewerVersions
<1>4. Calmly!BackendSpec => []Calmly!AgentsReachable
  BY Calmly!AgentsFound, CalmSound, LifecycleAssumption, NoneAssumption, BackendAssumption, FewerVersions
<1>5. Calmly!BackendSpec => []Calmly!WholeNamesNoAgent
  BY Calmly!WholeArchivesNameNone, CalmSound, LifecycleAssumption, NoneAssumption, BackendAssumption,
      FewerVersions
<1>6. Calmly!BackendSpec => [][Calmly!OnlyDestroyTakesStep]_Calmly!backend
  BY Calmly!DestroyTakes, CalmSound, LifecycleAssumption, NoneAssumption, BackendAssumption,
      FewerVersions DEF Calmly!OnlyDestroyTakes
<1>7. Calmly!BackendSpec => Calmly!Slot!SlotInit /\ [][Calmly!Slot!SlotNext]_Calmly!Machines
  BY Calmly!BackendIsOneMachine, CalmSound, LifecycleAssumption, NoneAssumption, BackendAssumption,
      FewerVersions DEF Calmly!IsOneMachine, Calmly!Slot!SlotSpec
<1> DEFINE Typed == scenario = "sure stops" => Sure!BackendTypeOK /\ Sure!AgentsReachable /\ Sure!WholeNamesNoAgent
           Said == scenario = "sure stops" => Lima!OnlyDestroyTakesStep
<1>8. /\ scenario = "sure stops" \/ scenario # "sure stops"
      /\ scenario # "sure stops" => Typed
      /\ Calmly!BackendTypeOK /\ Calmly!AgentsReachable /\ Calmly!WholeNamesNoAgent => Typed
  BY SureCalls
<1>9. /\ scenario # "sure stops" => [Said]_mcvars
      /\ [Calmly!OnlyDestroyTakesStep]_Calmly!backend /\ [MCNext]_mcvars => [Said]_mcvars
  <2>1. ASSUME [Calmly!OnlyDestroyTakesStep]_Calmly!backend,
               MCNext, mcvars' # mcvars, scenario = "sure stops"
        PROVE  Calmly!OnlyDestroyTakesStep
    BY <2>1, OnePartMoves DEF Calls, OneLima, Pairs, backend, Calmly!backend
  <2>2. Calmly!OnlyDestroyTakesStep <=> Lima!OnlyDestroyTakesStep
    BY Zenon DEF Lima!OnlyDestroyTakesStep, Calmly!OnlyDestroyTakesStep, Lima!Intact, Calmly!Intact,
        Lima!Present, Calmly!Present, Lima!Its, Calmly!Its, Lima!Idle, Calmly!Idle, Lima!Mark, Calmly!Mark
  <2> QED  BY <2>1, <2>2
<1>10. /\ scenario = "sure stops" /\ Calmly!Slot!SlotInit => MCSlot!SlotInit
       /\ scenario = "sure stops" /\ [MCNext]_mcvars /\ [Calmly!Slot!SlotNext]_Calmly!Machines =>
            [MCSlot!SlotNext]_MCMachine
  <2>1. /\ scenario = "sure stops" => MCMachine = Calmly!Machines
        /\ (scenario = "sure stops")' => MCMachine' = Calmly!Machines'
    <3>1. Machines = Calmly!Machines /\ Machines' = Calmly!Machines'
      BY Zenon DEF Machines, Present, Intact, Mark, Calmly!Machines, Calmly!Present, Calmly!Intact,
          Calmly!Mark
    <3> QED  BY <3>1 DEF MCMachine, OneLima, Pairs
  <2>2. ASSUME MCMachine = Calmly!Machines PROVE Calmly!Slot!SlotInit => MCSlot!SlotInit
    BY <2>2 DEF MCSlot!SlotInit, Calmly!Slot!SlotInit, MCSlot!Nothing, Calmly!Slot!Nothing
  <2>3. ASSUME MCMachine = Calmly!Machines, MCMachine' = Calmly!Machines', Calmly!Slot!SlotNext
        PROVE  MCSlot!SlotNext
    BY Zenon, <2>3 DEF MCSlot!SlotInit, MCSlot!SlotNext, MCSlot!Begun, MCSlot!Goes, MCSlot!Gone,
        MCSlot!Moved, MCSlot!AllDown, MCSlot!Becomes, MCSlot!Machine, MCSlot!Nothing,
         Calmly!Slot!SlotInit, Calmly!Slot!SlotNext, Calmly!Slot!Begun, Calmly!Slot!Goes,
            Calmly!Slot!Gone, Calmly!Slot!Moved, Calmly!Slot!AllDown, Calmly!Slot!Becomes,
               Calmly!Slot!Machine, Calmly!Slot!Nothing
  <2> QED  BY <2>1, <2>2, <2>3, <1>1
<1> HIDE DEF Typed, Said
<1>11. MCSpec => []Typed
  BY <1>1, <1>2, <1>3, <1>4, <1>5, <1>8, PTL DEF MCSpec
<1>12. MCSpec => [][Said]_mcvars
  BY <1>1, <1>2, <1>6, <1>8, <1>9, PTL DEF MCSpec
<1>13. MCSpec /\ scenario = "sure stops" => MCIsOneMachine
  <2>1. MCSpec /\ scenario = "sure stops" => Calmly!Slot!SlotInit /\ [][Calmly!Slot!SlotNext]_Calmly!Machines
    BY <1>2, <1>7
  <2> QED  BY <2>1, <1>1, <1>10, PTL DEF MCSpec, MCIsOneMachine, MCSlot!SlotSpec
<1> QED  BY <1>11, <1>12, <1>13 DEF Typed, Said

(* The scenario "no imports".                                              *)
Unread == INSTANCE SandboxProofs WITH Ops <- {"create", "export", "destroy", "start"}

(* Of "no imports": the calls, their state and what is said of them are     *)
(* those of the theorems' instance.                                         *)
LEMMA PureCalls ==
  /\ Pure!BackendInit <=> Unread!BackendInit
  /\ Pure!BackendNext <=> Unread!BackendNext
  /\ backend = Unread!backend
  /\ Pure!BackendTypeOK <=> Unread!BackendTypeOK
  /\ Pure!WholeNamesNoAgent <=> Unread!WholeNamesNoAgent
  /\ Pure!OnlyDestroyTakesStep <=> Unread!OnlyDestroyTakesStep
  /\ Pure!Machines = Unread!Machines
<1>1. ASSUME NEW c PROVE Pure!Prerequisites(c) <=> Unread!Prerequisites(c)
  BY Zenon DEF Pure!Prerequisites, Unread!Prerequisites, Pure!ProbeTool, Unread!ProbeTool, Pure!FetchTool,
         Unread!FetchTool, Pure!UnpackTool, Unread!UnpackTool, Pure!ProbeHardware, Unread!ProbeHardware,
         Pure!AskRunning, Unread!AskRunning, Pure!Proceed, Unread!Proceed, Pure!ProbeFeatures,
         Unread!ProbeFeatures, Pure!Elevate, Unread!Elevate, Pure!Finish, Unread!Finish, Pure!TryManager,
         Unread!TryManager, Pure!At, Unread!At, Pure!On, Unread!On, Pure!Same, Unread!Same, Pure!Its,
         Unread!Its, Pure!Idle, Unread!Idle
<1>2. ASSUME NEW c PROVE Pure!CreateInstance(c) <=> Unread!CreateInstance(c)
  BY Zenon DEF Pure!CreateInstance, Unread!CreateInstance, Pure!ProbeFirst, Unread!ProbeFirst, Pure!Stage,
         Unread!Stage, Pure!LaunchVM, Unread!LaunchVM, Pure!BootVM, Unread!BootVM, Pure!RegisterDistro,
         Unread!RegisterDistro, Pure!ProvisionDistro, Unread!ProvisionDistro, Pure!BuildImage,
         Unread!BuildImage, Pure!RunContainer, Unread!RunContainer, Pure!At, Unread!At, Pure!Probed,
         Unread!Probed, Pure!Its, Unread!Its, Pure!Finish, Unread!Finish, Pure!Proceed, Unread!Proceed,
         Pure!On, Unread!On, Pure!Same, Unread!Same, Pure!Hold, Unread!Hold, Pure!ToolWorks,
         Unread!ToolWorks, Pure!Present, Unread!Present, Pure!HoldPid, Unread!HoldPid, Pure!Idle,
         Unread!Idle, Pure!Mark, Unread!Mark, Pure!Reading, Unread!Reading
<1>3. ASSUME NEW c PROVE Pure!Power(c) <=> Unread!Power(c)
  BY Zenon DEF Pure!Power, Unread!Power, Pure!LimaStart, Unread!LimaStart, Pure!WslStart, Unread!WslStart,
         Pure!PodmanStart, Unread!PodmanStart, Pure!LimaStop, Unread!LimaStop, Pure!WslStop, Unread!WslStop,
         Pure!PodmanStop, Unread!PodmanStop, Pure!Halt, Unread!Halt, Pure!NoRename, Unread!NoRename,
         Pure!Move, Unread!Move, Pure!Powers, Unread!Powers, Pure!Works, Unread!Works, Pure!HoldPid,
         Unread!HoldPid, Pure!Its, Unread!Its, Pure!Finish, Unread!Finish, Pure!Fails, Unread!Fails,
         Pure!Hold, Unread!Hold, Pure!Down, Unread!Down, Pure!At, Unread!At, Pure!On, Unread!On, Pure!Same,
         Unread!Same, Pure!Proceed, Unread!Proceed, Pure!Present, Unread!Present, Pure!ToolWorks,
         Unread!ToolWorks, Pure!Reading, Unread!Reading, Pure!Idle, Unread!Idle, Pure!Mark, Unread!Mark
<1>4. ASSUME NEW c PROVE Pure!Images(c) <=> Unread!Images(c)
  BY Zenon DEF Pure!Images, Unread!Images, Pure!ProbeExport, Unread!ProbeExport, Pure!OpenArchive,
         Unread!OpenArchive, Pure!CloseArchive, Unread!CloseArchive, Pure!ProbeImport, Unread!ProbeImport,
         Pure!FillVM, Unread!FillVM, Pure!FillDistro, Unread!FillDistro, Pure!RollBack, Unread!RollBack,
         Pure!LoadImage, Unread!LoadImage, Pure!At, Unread!At, Pure!Probed, Unread!Probed, Pure!Its,
         Unread!Its, Pure!Proceed, Unread!Proceed, Pure!On, Unread!On, Pure!Finish, Unread!Finish,
         Pure!Same, Unread!Same, Pure!Present, Unread!Present, Pure!ToolWorks, Unread!ToolWorks, Pure!Hold,
         Unread!Hold, Pure!HoldPid, Unread!HoldPid, Pure!Idle, Unread!Idle, Pure!Mark, Unread!Mark,
         Pure!Reading, Unread!Reading
<1>5. ASSUME NEW c PROVE /\ Pure!DestroyInstance(c) <=> Unread!DestroyInstance(c)
                         /\ Pure!KillFails(c) <=> Unread!KillFails(c)
  BY Zenon DEF Pure!DestroyInstance, Unread!DestroyInstance, Pure!ProbeDestroy, Unread!ProbeDestroy,
         Pure!KillAgent, Unread!KillAgent, Pure!DeleteVM, Unread!DeleteVM, Pure!UnregisterDistro,
         Unread!UnregisterDistro, Pure!RemoveContainer, Unread!RemoveContainer, Pure!RemoveImage,
         Unread!RemoveImage, Pure!Tidy, Unread!Tidy, Pure!At, Unread!At, Pure!Probed, Unread!Probed,
         Pure!Its, Unread!Its, Pure!Finish, Unread!Finish, Pure!Proceed, Unread!Proceed, Pure!On,
         Unread!On, Pure!Same, Unread!Same, Pure!HoldPid, Unread!HoldPid, Pure!ToolWorks,
         Unread!ToolWorks, Pure!Present, Unread!Present, Pure!Hold, Unread!Hold, Pure!Idle,
         Unread!Idle, Pure!Reading, Unread!Reading, Pure!Mark, Unread!Mark, Pure!KillFails,
         Unread!KillFails
<1>6. ASSUME NEW c PROVE /\ Pure!Ask(c) <=> Unread!Ask(c)
                         /\ Pure!Dies(c) <=> Unread!Dies(c)
                         /\ Pure!GivesUp(c) <=> Unread!GivesUp(c)
  BY Zenon DEF Pure!Ask, Unread!Ask, Pure!Dies, Unread!Dies, Pure!GivesUp, Unread!GivesUp, Pure!Idle,
         Unread!Idle, Pure!FirstStage, Unread!FirstStage, Pure!Finish, Unread!Finish, Pure!At, Unread!At
<1>7. Pure!BackendNext <=> Unread!BackendNext
  BY Zenon, <1>1, <1>2, <1>3, <1>4, <1>5, <1>6 DEF Pure!BackendNext, Unread!BackendNext, Pure!Reboot,
         Unread!Reboot, Pure!Idle, Unread!Idle
<1>8. /\ Pure!BackendInit <=> Unread!BackendInit
      /\ backend = Unread!backend
      /\ Pure!BackendTypeOK <=> Unread!BackendTypeOK
      /\ Pure!WholeNamesNoAgent <=> Unread!WholeNamesNoAgent
      /\ Pure!OnlyDestroyTakesStep <=> Unread!OnlyDestroyTakesStep
      /\ Pure!Machines = Unread!Machines
  BY Zenon DEF backend, Unread!backend, Pure!BackendInit, Unread!BackendInit, Pure!BackendTypeOK,
         Unread!BackendTypeOK, Pure!WholeNamesNoAgent, Unread!WholeNamesNoAgent, Pure!OnlyDestroyTakesStep,
         Unread!OnlyDestroyTakesStep, Pure!Machines, Unread!Machines, Pure!Idle, Unread!Idle, Pure!Parts,
         Unread!Parts, Pure!Call, Unread!Call, Pure!Intact, Unread!Intact, Pure!Its, Unread!Its,
         Pure!Present, Unread!Present, Pure!AllOps, Unread!AllOps, Pure!Stages, Unread!Stages, Pure!Mark,
         Unread!Mark
<1> QED  BY <1>7, <1>8

(* The scenario meets what the theorems assume.                             *)
LEMMA PureSound ==
  /\ Kinds \subseteq Unread!AllKinds
  /\ {"create", "export", "destroy", "start"} \subseteq Unread!AllOps
  /\ Unread!On("lima")
  /\ "import" \notin {"create", "export", "destroy", "start"} /\ "rename" \notin {"create", "export",
     "destroy", "start"}
<1>1. \E c : {1} = {c}
  OBVIOUS
<1> QED
  BY <1>1, LifecycleAssumption, NoneAssumption, BackendAssumption, MCMachinesAssumption
  DEF AllKinds, AllOps, Unread!AllKinds, Unread!AllOps, Unread!On

(* What the calls of "no imports" keep.                                     *)
LEMMA PureCalled ==
  /\ MCSpec => [](scenario = "no imports" => Pure!BackendTypeOK /\ Pure!WholeNamesNoAgent)
  /\ MCSpec => [][scenario = "no imports" => OnlyDestroyTakesStep]_mcvars
  /\ MCSpec /\ scenario = "no imports" => MCIsOneMachine
<1>1. /\ MCInit /\ scenario = "no imports" => Unread!BackendInit
      /\ [MCNext]_mcvars /\ scenario = "no imports" => [Unread!BackendNext]_Unread!backend
      /\ scenario = "no imports" /\ [MCNext]_mcvars => (scenario = "no imports")'
      /\ scenario # "no imports" /\ [MCNext]_mcvars => (scenario # "no imports")'
  <2>1. MCInit /\ scenario = "no imports" => Unread!BackendInit
    BY ScenarioStarts DEF BackendInit, Unread!BackendInit, Idle, Unread!Idle, OneLima, Pairs
  <2>2. [MCNext]_mcvars /\ scenario = "no imports" => Unread!BackendNext \/ UNCHANGED Unread!backend
    BY CallSteps, PureCalls DEF backend, Unread!backend
  <2> QED  BY <2>1, <2>2, ScenarioStays
<1>2. MCSpec /\ scenario = "no imports" => Unread!BackendSpec
  BY <1>1, PTL DEF MCSpec, Unread!BackendSpec
<1>3. Unread!BackendSpec => []Unread!BackendTypeOK
  BY Unread!BackendTypes, PureSound, LifecycleAssumption, NoneAssumption, BackendAssumption
<1>4. Unread!BackendSpec => []Unread!WholeNamesNoAgent
  BY Unread!WholeArchivesNameNone, PureSound, LifecycleAssumption, NoneAssumption, BackendAssumption
<1>5. Unread!BackendSpec => [][Unread!OnlyDestroyTakesStep]_Unread!backend
  BY Unread!DestroyTakes, PureSound, LifecycleAssumption, NoneAssumption, BackendAssumption
      DEF Unread!OnlyDestroyTakes
<1>6. Unread!BackendSpec => Unread!Slot!SlotInit /\ [][Unread!Slot!SlotNext]_Unread!Machines
  BY Unread!BackendIsOneMachine, PureSound, LifecycleAssumption, NoneAssumption, BackendAssumption
      DEF Unread!IsOneMachine, Unread!Slot!SlotSpec
<1> DEFINE Typed == scenario = "no imports" => Pure!BackendTypeOK /\ Pure!WholeNamesNoAgent
           Said == scenario = "no imports" => OnlyDestroyTakesStep
<1>7. /\ scenario = "no imports" \/ scenario # "no imports"
      /\ scenario # "no imports" => Typed
      /\ Unread!BackendTypeOK /\ Unread!WholeNamesNoAgent => Typed
  BY PureCalls
<1>8. /\ scenario # "no imports" => [Said]_mcvars
      /\ [Unread!OnlyDestroyTakesStep]_Unread!backend /\ [MCNext]_mcvars => [Said]_mcvars
  <2>1. ASSUME [Unread!OnlyDestroyTakesStep]_Unread!backend,
               MCNext, mcvars' # mcvars, scenario = "no imports"
        PROVE  Unread!OnlyDestroyTakesStep
    BY <2>1, OnePartMoves DEF Calls, OneLima, Pairs, backend, Unread!backend
  <2>2. Unread!OnlyDestroyTakesStep <=> OnlyDestroyTakesStep
    BY Zenon DEF OnlyDestroyTakesStep, Unread!OnlyDestroyTakesStep, Intact, Unread!Intact, Present,
        Unread!Present, Its, Unread!Its, Idle, Unread!Idle, Mark, Unread!Mark
  <2> QED  BY <2>1, <2>2
<1>9. /\ scenario = "no imports" /\ Unread!Slot!SlotInit => MCSlot!SlotInit
      /\ scenario = "no imports" /\ [MCNext]_mcvars /\ [Unread!Slot!SlotNext]_Unread!Machines =>
           [MCSlot!SlotNext]_MCMachine
  <2>1. /\ scenario = "no imports" => MCMachine = Unread!Machines
        /\ (scenario = "no imports")' => MCMachine' = Unread!Machines'
    <3>1. Machines = Unread!Machines /\ Machines' = Unread!Machines'
      BY Zenon DEF Machines, Present, Intact, Mark, Unread!Machines, Unread!Present, Unread!Intact,
          Unread!Mark
    <3> QED  BY <3>1 DEF MCMachine, OneLima, Pairs
  <2>2. ASSUME MCMachine = Unread!Machines PROVE Unread!Slot!SlotInit => MCSlot!SlotInit
    BY <2>2 DEF MCSlot!SlotInit, Unread!Slot!SlotInit, MCSlot!Nothing, Unread!Slot!Nothing
  <2>3. ASSUME MCMachine = Unread!Machines, MCMachine' = Unread!Machines', Unread!Slot!SlotNext
        PROVE  MCSlot!SlotNext
    BY Zenon, <2>3 DEF MCSlot!SlotInit, MCSlot!SlotNext, MCSlot!Begun, MCSlot!Goes, MCSlot!Gone,
        MCSlot!Moved, MCSlot!AllDown, MCSlot!Becomes, MCSlot!Machine, MCSlot!Nothing,
         Unread!Slot!SlotInit, Unread!Slot!SlotNext, Unread!Slot!Begun, Unread!Slot!Goes,
            Unread!Slot!Gone, Unread!Slot!Moved, Unread!Slot!AllDown, Unread!Slot!Becomes,
               Unread!Slot!Machine, Unread!Slot!Nothing
  <2> QED  BY <2>1, <2>2, <2>3, <1>1
<1> HIDE DEF Typed, Said
<1>10. MCSpec => []Typed
  BY <1>1, <1>2, <1>3, <1>4, <1>7, PTL DEF MCSpec
<1>11. MCSpec => [][Said]_mcvars
  BY <1>1, <1>2, <1>5, <1>7, <1>8, PTL DEF MCSpec
<1>12. MCSpec /\ scenario = "no imports" => MCIsOneMachine
  <2>1. MCSpec /\ scenario = "no imports" => Unread!Slot!SlotInit /\ [][Unread!Slot!SlotNext]_Unread!Machines
    BY <1>2, <1>6
  <2> QED  BY <2>1, <1>1, <1>9, PTL DEF MCSpec, MCIsOneMachine, MCSlot!SlotSpec
<1> QED  BY <1>10, <1>11, <1>12 DEF Typed, Said

-----------------------------------------------------------------------------
(* What the scenarios amount to.                                            *)

\* In every scenario: the types of the commands' state; where nothing fails and
\* the GUI's lock keeps the commands apart, a VM at rest exactly where there is
\* a record, and no image of a running VM; the types of the backends' state;
\* and, one caller at a time, a hostagent that can be found, but one that a
\* destroy has failed to kill, and whole archives that name none (orchestrator.rs, install and destroy; cli_bridge.rs:51;
\* lima.rs, export_image and destroy).
THEOREM SandboxesKeep == MCSpec => []SandboxesHold
<1>1. MCSpec => [](scenario \notin Commands => TypeOK)
  <2>1. MCInit /\ scenario \notin Commands => TypeOK
    BY LifecycleAssumption DEF MCInit, Commands, OneActor, Init, TypeOK, Steps
  <2>2. TypeOK /\ UNCHANGED vars => TypeOK'
    BY DEF vars, TypeOK
  <2>3. /\ scenario \in Commands /\ [MCNext]_mcvars => (scenario \in Commands)'
        /\ scenario \notin Commands /\ [MCNext]_mcvars => (scenario \notin Commands)' /\ UNCHANGED vars
        /\ scenario \notin Commands <=> ~(scenario \in Commands)
    BY ScenarioStays, CommandSteps
  <2> QED  BY <2>1, <2>2, <2>3, PTL DEF MCSpec
<1> DEFINE Commanding ==
             /\ scenario = "lima" => One("lima")!TypeOK
             /\ scenario = "wsl2" => One("lima")!TypeOK
             /\ scenario = "podman" => One("lima")!TypeOK
             /\ scenario = "locked" => Two!TypeOK
             /\ scenario = "calm" => Three!TypeOK /\ Three!NothingLost /\ Three!ExportIsWhole
             /\ scenario \notin Commands => TypeOK
           Calling ==
             /\ scenario = "lima vm" => Lima!BackendTypeOK /\ Lima!AgentsReachable
             /\ scenario = "distribution" => Boxy("wsl2")!BackendTypeOK
             /\ scenario = "container" => Boxy("podman")!BackendTypeOK
             /\ scenario = "two callers" => Pair!BackendTypeOK
             /\ scenario = "sure stops" => Sure!BackendTypeOK /\ Sure!AgentsReachable /\ Sure!WholeNamesNoAgent
             /\ scenario = "no imports" => Pure!BackendTypeOK /\ Pure!WholeNamesNoAgent
<1>2. Commanding => LifecycleHolds
  BY DEF LifecycleHolds, Commands, OneActor
<1>3. Calling => BackendHolds
  BY DEF BackendHolds
<1>4. MCSpec => []Commanding
  BY <1>1, LimaCommanded, WslCommanded, PodmanCommanded, LockedCommanded, CalmCommanded, PTL
<1>5. MCSpec => []Calling
  BY LimaCalled, WslCalled, PodmanCalled, LockedCalled, CalmCalled, PureCalled, PTL
<1> HIDE DEF Commanding, Calling
<1> QED  BY <1>2, <1>3, <1>4, <1>5, PTL DEF SandboxesHold

\* In every scenario an install that succeeds leaves the VM up, and with the
\* version it was asked for unless it met a script of an earlier command in the
\* VM, whatever else had been left behind; and on lima the GUI's delete drops the record only when the VM is
\* gone (orchestrator.rs, stages 3 to 8; ipc/instance.rs, stages 3 and 4).
THEOREM WordsAreKept == MCSpec => CommandsKeepTheirWord
<1> DEFINE Said ==
             /\ scenario = "lima" => OneWords /\ One("lima")!DeleteLeavesNothingStep
             /\ scenario = "wsl2" => OneWords
             /\ scenario = "podman" => OneWords
             /\ scenario = "locked" => TwoWords
             /\ scenario = "calm" => ThreeWords
           Words ==
             /\ scenario \in OneActor => One("lima")!InstalledMeansRunningStep
             /\ scenario = "locked" => Two!InstalledMeansRunningStep
             /\ scenario = "calm" => Three!InstalledMeansRunningStep
             /\ scenario = "lima" => One("lima")!DeleteLeavesNothingStep
<1>1. MCSpec => [][Said]_mcvars
  BY LimaCommanded, WslCommanded, PodmanCommanded, LockedCommanded, CalmCommanded, PTL
<1>2. Said => Words
  BY DEF OneActor, OneWords, TwoWords, ThreeWords
<1> HIDE DEF Said, Words
<1>3. MCSpec => [][Words]_mcvars
  BY <1>1, <1>2, PTL
<1> QED  BY <1>3 DEF CommandsKeepTheirWord, Words

\* In every scenario an upgrade writes back the record that stands, but for its
\* stamp: one caller, or the GUI's lock, keeps any other command from coming
\* between its read and its write (orchestrator.rs, upgrade; cli_bridge.rs:51).
THEOREM UpgradesOnlyStamp == MCSpec => MCUpgradeOnlyStamps
<1> DEFINE Said ==
             /\ scenario = "lima" => OneWords /\ One("lima")!DeleteLeavesNothingStep
             /\ scenario = "wsl2" => OneWords
             /\ scenario = "podman" => OneWords
             /\ scenario = "locked" => TwoWords
             /\ scenario = "calm" => ThreeWords
           Stamps ==
             /\ scenario \in OneActor => One("lima")!UpgradeOnlyStampsStep
             /\ scenario = "locked" => Two!UpgradeOnlyStampsStep
             /\ scenario = "calm" => Three!UpgradeOnlyStampsStep
<1>1. MCSpec => [][Said]_mcvars
  BY LimaCommanded, WslCommanded, PodmanCommanded, LockedCommanded, CalmCommanded, PTL
<1>2. Said => Stamps
  BY DEF OneActor, OneWords, TwoWords, ThreeWords
<1> HIDE DEF Said, Stamps
<1>3. MCSpec => [][Stamps]_mcvars
  BY <1>1, <1>2, PTL
<1> QED  BY <1>3 DEF MCUpgradeOnlyStamps, Stamps

\* In every scenario of the calls a provisioned instance is lost to its own
\* destroy or rename only (lima.rs:219; wsl.rs, import_image).
THEOREM NothingElseTakes == MCSpec => MCOnlyDestroyTakes
<1> DEFINE Each ==
             /\ scenario = "lima vm" => Lima!OnlyDestroyTakesStep
             /\ scenario = "distribution" => Boxy("wsl2")!OnlyDestroyTakesStep
             /\ scenario = "container" => Boxy("podman")!OnlyDestroyTakesStep
             /\ scenario = "two callers" => OnlyDestroyTakesStep
             /\ scenario = "sure stops" => Lima!OnlyDestroyTakesStep
             /\ scenario = "no imports" => OnlyDestroyTakesStep
           Takes ==
             CASE scenario \in OneLima -> Lima!OnlyDestroyTakesStep
               [] scenario \in Pairs -> OnlyDestroyTakesStep
               [] scenario = "distribution" -> Boxy("wsl2")!OnlyDestroyTakesStep
               [] scenario = "container" -> Boxy("podman")!OnlyDestroyTakesStep
               [] OTHER -> TRUE
<1>1. MCSpec => [][Each]_mcvars
  BY LimaCalled, WslCalled, PodmanCalled, LockedCalled, CalmCalled, PureCalled, PTL
<1>2. Each => Takes
  BY DEF OneLima, Pairs
<1> HIDE DEF Each, Takes
<1>3. MCSpec => [][Takes]_mcvars
  BY <1>1, <1>2, PTL
<1> QED  BY <1>3 DEF MCOnlyDestroyTakes, Takes

\* In every scenario of the calls the files, processes and registrations of a
\* backend amount to one machine under each name, which is begun, changed and
\* dropped as a whole (BackendSlot; sandbox_backend/mod.rs, SandboxBackend).
THEOREM EachIsOneMachine == MCSpec => MCIsOneMachine
<1>1. MCInit /\ scenario \notin Calls => MCSlot!SlotInit
  BY DEF MCMachine, Calls, OneLima, Pairs, MCSlot!SlotInit, MCSlot!Nothing
<1>2. scenario \notin Calls /\ [MCNext]_mcvars => (scenario \notin Calls)' /\ [MCSlot!SlotNext]_MCMachine
  <2> DEFINE None == [n \in Names |-> [there |-> FALSE, whole |-> FALSE, up |-> FALSE]]
  <2>1. scenario \notin Calls => MCMachine = None
    BY DEF MCMachine, Calls, OneLima, Pairs
  <2>2. (scenario \notin Calls)' => MCMachine' = None
    BY DEF MCMachine, Calls, OneLima, Pairs
  <2> QED  BY <2>1, <2>2, ScenarioStays DEF Calls, OneLima, Pairs
<1>3. MCSpec /\ scenario \notin Calls => MCIsOneMachine
  BY <1>1, <1>2, PTL DEF MCSpec, MCIsOneMachine, MCSlot!SlotSpec
<1>4. \/ scenario \notin Calls
      \/ scenario = "lima vm" \/ scenario = "distribution" \/ scenario = "container"
      \/ scenario = "two callers" \/ scenario = "sure stops" \/ scenario = "no imports"
  BY DEF Calls, OneLima, Pairs
<1> QED  BY <1>3, <1>4, LimaCalled, WslCalled, PodmanCalled, LockedCalled, CalmCalled, PureCalled

=============================================================================
