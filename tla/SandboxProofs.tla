---------------------------- MODULE SandboxProofs ----------------------------
(***************************************************************************)
(* Proofs about a sandboxed instance: the commands on it (InstanceLifecycle)*)
(* for every set of actors, commands and faults on every backend, and what *)
(* the GUI's lock gives; and the calls of the three backends below them    *)
(* (SandboxBackend), for any names and, where it is not said otherwise, any *)
(* callers and any mishaps.  The scenarios of MCMachines take instances of *)
(* these theorems.                                                         *)
(***************************************************************************)
EXTENDS InstanceLifecycle, SandboxBackend, TLAPS

-----------------------------------------------------------------------------
(* The commands.  Types first.                                              *)

\* A command that is under way has a job, and where it is to write back the
\* record it has read it has read one.
Holding == {"u_start", "u_script", "u_probe", "u_update", "p_update"}

JobInv ==
    \A a \in Actors :
        /\ pc[a] # "idle" => job[a] \in Job
        /\ pc[a] \in Holding => job[a].inst \in Record

IInv == TypeOK /\ JobInv

\* Nothing is told from a VM, and from a record of this many requests.
LEMMA NoneIs == NoVM \notin VM /\ NoRec \notin Record
<1>1. Record \subseteq [created_at : Nat, claw_version : Versions \cup {NoClaw}, proxy : Proxies]
  BY LifecycleAssumption DEF Record
<1>2. VM \subseteq [provisioned : BOOLEAN, up : BOOLEAN, disk : BOOLEAN,
                   claw : Versions \cup {NoClaw}, scripts : SUBSET (Nat \X Versions)]
  <2>1. Scripts \subseteq Nat \X Versions
    BY LifecycleAssumption DEF Scripts
  <2> QED  BY <2>1 DEF VM
<1> QED  BY <1>1, <1>2, NoneAssumption

LEMMA InitIInv == Init => IInv
BY LifecycleAssumption DEF Init, IInv, TypeOK, JobInv, Steps, Holding

\* The record a new command gets is a job.
LEMMA RequestIInv ==
    ASSUME IInv, NEW a \in Actors, Request(a)
    PROVE  IInv'
<1>1. PICK k \in Kinds, v \in Versions, p \in Proxies :
        /\ pc' = [pc EXCEPT ![a] = FirstStep(k)]
        /\ job' = [job EXCEPT ![a] =
                     [kind |-> k, id |-> asked + 1, claw |-> v, proxy |-> p,
                      inst |-> NoRec, retries |-> 3, alone |-> FALSE]]
  BY Zenon DEF Request
<1> USE LifecycleAssumption DEF IInv, TypeOK
<1>2. FirstStep(k) \in Steps \ (Holding \cup {"idle"})
  BY DEF FirstStep, Steps, Holding, AllKinds
<1>3. asked' \in 0..MaxRequests /\ asked + 1 \in 1..MaxRequests
  BY DEF Request
<1>4. [kind |-> k, id |-> asked + 1, claw |-> v, proxy |-> p, inst |-> NoRec, retries |-> 3,
       alone |-> FALSE] \in Job
  BY <1>3 DEF Job
<1>5. TypeOK'
  BY <1>1, <1>2, <1>3, <1>4 DEF Request
<1>6. JobInv'
  BY <1>1, <1>2, <1>4 DEF JobInv
<1> QED
  BY <1>5, <1>6

\* How a step leaves the actor's own state: it moves on with its job, or
\* returns; what it leaves in the VM and the record has their types.
LEMMA MoveOn ==
    ASSUME IInv, NEW a \in Actors, pc[a] # "idle", NEW s \in Steps, Goto(a, s),
           s \in Holding => pc[a] \in Holding,
           UNCHANGED job,
           vm' \in VM \cup {NoVM}, rec' \in Record \cup {NoRec},
           bundle' \in {"none", "whole", "torn"}
    PROVE  IInv'
<1>1. TypeOK'
  BY DEF IInv, TypeOK, Goto
<1>2. JobInv'
  BY DEF IInv, TypeOK, JobInv, Goto
<1> QED
  BY <1>1, <1>2 DEF IInv

\* ... or with what it knows of the VM it has found.
LEMMA MoveOnWith ==
    ASSUME IInv, NEW a \in Actors, pc[a] # "idle", NEW s \in Steps, Goto(a, s),
           s \in Holding => pc[a] \in Holding,
           NEW b \in BOOLEAN, job' = [job EXCEPT ![a].alone = b],
           vm' \in VM \cup {NoVM}, UNCHANGED <<rec, bundle>>
    PROVE  IInv'
<1> DEFINE j == [job[a] EXCEPT !.alone = b]
<1>1. j \in Job /\ j.inst = job[a].inst
  BY DEF IInv, TypeOK, JobInv, Job
<1>2. job' = [job EXCEPT ![a] = j]
  OBVIOUS
<1> HIDE DEF j
<1>3. TypeOK'
  BY <1>1, <1>2 DEF IInv, TypeOK, Goto
<1>4. JobInv'
  BY <1>1, <1>2 DEF IInv, TypeOK, JobInv, Goto
<1> QED
  BY <1>3, <1>4 DEF IInv

LEMMA Return ==
    ASSUME IInv, NEW a \in Actors, NEW r \in {"none", "ok", "err"}, End(a, r),
           vm' \in VM \cup {NoVM}, rec' \in Record \cup {NoRec},
           bundle' \in {"none", "whole", "torn"}
    PROVE  IInv'
<1>1. TypeOK'
  BY DEF IInv, TypeOK, End, Steps
<1>2. JobInv'
  BY DEF IInv, TypeOK, JobInv, End, Holding
<1> QED
  BY <1>1, <1>2 DEF IInv

\* The VM after the backend's calls.
LEMMA VMTypes ==
    ASSUME TypeOK
    PROVE  /\ Registered \in VM /\ Provisioned \in VM
           /\ \A v \in Versions : Unpacked(v) \in VM
           /\ vm # NoVM => AfterExec \in VM /\ Off \in VM
           /\ vm # NoVM => [vm EXCEPT !.provisioned = TRUE, !.up = TRUE] \in VM
           /\ \A v \in Versions \cup {NoClaw} : vm # NoVM => [AfterExec EXCEPT !.claw = v] \in VM
           /\ TryStopVM => vm' \in VM \cup {NoVM}
           /\ DestroyOk \/ DestroyErr => vm' \in VM \cup {NoVM}
           /\ RollBackDistro => vm' \in VM
<1>1. Registered \in VM /\ Provisioned \in VM /\ \A v \in Versions : Unpacked(v) \in VM
  BY DEF VM, Registered, Provisioned, Unpacked
<1>2. vm # NoVM => vm \in VM
  BY DEF TypeOK
<1>3. vm # NoVM => AfterExec \in VM /\ Off \in VM
  BY <1>2 DEF VM, AfterExec, Off
<1>4. vm # NoVM => [vm EXCEPT !.provisioned = TRUE, !.up = TRUE] \in VM
  BY <1>2 DEF VM
<1>5. \A v \in Versions \cup {NoClaw} : vm # NoVM => [AfterExec EXCEPT !.claw = v] \in VM
  BY <1>3 DEF VM
<1>6. (TryStopVM \/ DestroyOk \/ DestroyErr) => vm' \in VM \cup {NoVM}
  BY <1>2, <1>3 DEF TryStopVM, DestroyOk, DestroyErr
<1>7. RollBackDistro => vm' \in VM
  BY <1>2 DEF RollBackDistro, VM
<1> QED  BY <1>1, <1>3, <1>4, <1>5, <1>6, <1>7

\* ... and after a script, a's own or another.
LEMMA LeftTypes ==
    ASSUME IInv, NEW a \in Actors, pc[a] # "idle", vm # NoVM
    PROVE  /\ LivesOn(a) => vm' \in VM
           /\ \A s \in vm.scripts :
                /\ s[2] \in Versions
                /\ [AfterExec EXCEPT !.claw = s[2], !.scripts = (@ \ {s}) \cup {ScriptOf(a)}] \in VM
<1>1. ScriptOf(a) \in Scripts
  BY DEF IInv, JobInv, Job, ScriptOf, Scripts
<1>2. AfterExec \in VM /\ AfterExec.scripts = vm.scripts /\ vm.scripts \subseteq Scripts
  BY VMTypes DEF IInv, TypeOK, AfterExec, VM
<1>3. \A s \in vm.scripts : s[2] \in Versions
  BY <1>2 DEF Scripts
<1>4. LivesOn(a) => vm' \in VM
  BY <1>1, <1>2 DEF LivesOn, VM
<1>5. ASSUME NEW s \in vm.scripts
      PROVE  [AfterExec EXCEPT !.claw = s[2], !.scripts = (@ \ {s}) \cup {ScriptOf(a)}] \in VM
  BY <1>1, <1>2, <1>3 DEF VM
<1> QED
  BY <1>3, <1>4, <1>5

LEMMA StepFailsIInv ==
    ASSUME IInv, NEW a \in Actors, StepFails(a) \/ Crash(a)
    PROVE  IInv'
<1>1. CASE StepFails(a)
  BY <1>1, Return DEF IInv, TypeOK, StepFails
<1>2. CASE Crash(a)
  <2>1. CASE UNCHANGED vm
    BY <2>1, <1>2, Return DEF IInv, TypeOK, Crash
  <2>2. CASE CanExec /\ LivesOn(a)
    <3>1. vm' \in VM
      BY <1>2, <2>2, LeftTypes DEF Crash, CanExec, CanStart
    <3> QED  BY <1>2, <3>1, Return DEF IInv, TypeOK, Crash
  <2> QED  BY <1>2, <2>1, <2>2 DEF Crash
<1> QED
  BY <1>1, <1>2

LEMMA ScriptIInv ==
    ASSUME IInv, NEW a \in Actors, pc[a] # "idle",
           NEW s \in Steps \ {"idle"}, s \in Holding => pc[a] \in Holding,
           RunScript(a, s) \/ Probe(a, s), UNCHANGED <<rec, bundle>>
    PROVE  IInv'
<1>1. job[a].claw \in Versions
  BY DEF IInv, JobInv, Job
<1>2. vm' \in VM \cup {NoVM}
  <2>1. CASE vm # NoVM
    <3>1. /\ vm' = AfterExec => vm' \in VM
          /\ \A v \in {job[a].claw, NoClaw} : vm' = [AfterExec EXCEPT !.claw = v] => vm' \in VM
      BY <1>1, <2>1, VMTypes DEF IInv
    <3>2. LivesOn(a) => vm' \in VM
      BY <2>1, LeftTypes
    <3>3. \A t \in vm.scripts :
            vm' = [AfterExec EXCEPT !.claw = t[2], !.scripts = (@ \ {t}) \cup {ScriptOf(a)}]
              => vm' \in VM
      BY <2>1, LeftTypes
    <3>4. UNCHANGED vm => vm' \in VM
      BY <2>1 DEF IInv, TypeOK
    <3> QED  BY <3>1, <3>2, <3>3, <3>4 DEF RunScript, Probe
  <2>2. CASE vm = NoVM
    BY <2>2 DEF RunScript, Probe, CanExec, CanStart
  <2> QED  BY <2>1, <2>2
<1>3. \/ Goto(a, s) /\ UNCHANGED job
      \/ Goto(a, s) /\ \E b \in BOOLEAN : job' = [job EXCEPT ![a].alone = b]
      \/ End(a, "err")
  BY DEF RunScript, Probe
<1> QED
  BY <1>2, <1>3, MoveOn, MoveOnWith, Return DEF IInv, TypeOK

LEMMA InsertTypes ==
    ASSUME IInv, NEW a \in Actors, pc[a] # "idle", NEW v \in Versions \cup {NoClaw},
           Insert(a, v), UNCHANGED <<vm, bundle>>
    PROVE  IInv'
<1>1. job[a].id \in 1..MaxRequests
  BY DEF IInv, JobInv, Job
<1>2. rec' \in Record \cup {NoRec}
  BY <1>1, LifecycleAssumption DEF Insert, Record, IInv, TypeOK
<1>3. End(a, "ok") \/ End(a, "err")
  BY DEF Insert
<1> QED
  BY <1>2, <1>3, Return DEF IInv, TypeOK

LEMMA InstallIInv ==
    ASSUME IInv, NEW a \in Actors, Install(a)
    PROVE  IInv'
<1> USE DEF IInv, TypeOK
<1>1. CASE InstallFind(a)
  BY <1>1, MoveOn, Return DEF InstallFind, Steps, Holding
<1>2. CASE InstallCreate(a)
  <2>1. vm' \in VM \cup {NoVM}
    BY <1>2, VMTypes DEF InstallCreate
  <2>2. \/ Goto(a, "i_verify") /\ UNCHANGED job
        \/ Goto(a, "i_creating") /\ UNCHANGED job
        \/ End(a, "err")
    BY <1>2 DEF InstallCreate
  <2> QED
    BY <1>2, <2>1, <2>2, MoveOn, Return DEF InstallCreate, Steps, Holding
<1>3. CASE InstallCreated(a)
  <2>1. vm' \in VM \cup {NoVM}
    BY <1>3, VMTypes DEF InstallCreated
  <2>2. \/ Goto(a, "i_verify") /\ UNCHANGED job
        \/ End(a, "err")
    BY <1>3 DEF InstallCreated
  <2> QED
    BY <1>3, <2>1, <2>2, MoveOn, Return DEF InstallCreated, Steps, Holding
<1>4. CASE InstallVerify(a)
  <2>1. vm' \in VM \cup {NoVM}
    BY <1>4, VMTypes DEF InstallVerify, CanExec, CanStart
  <2> QED
    BY <1>4, <2>1, MoveOn, Return DEF InstallVerify, Steps, Holding
<1>5. CASE InstallScript(a)
  BY <1>5, ScriptIInv DEF InstallScript, Steps, Holding
<1>6. CASE InstallProbe(a)
  BY <1>6, ScriptIInv DEF InstallProbe, Steps, Holding
<1>7. CASE InstallInsert(a)
  <2>1. job[a].claw \in Versions
    BY <1>7 DEF InstallInsert, JobInv, Job
  <2> QED
    BY <1>7, <2>1, InsertTypes DEF InstallInsert
<1> QED
  BY <1>1, <1>2, <1>3, <1>4, <1>5, <1>6, <1>7 DEF Install

LEMMA RegisterIInv ==
    ASSUME IInv, NEW a \in Actors, Register(a)
    PROVE  IInv'
<1> USE DEF IInv, TypeOK
<1>1. CASE RegisterFind(a)
  BY <1>1, MoveOn, Return DEF RegisterFind, Steps, Holding
<1>2. CASE RegisterCheck(a)
  <2>1. vm' \in VM \cup {NoVM}
    BY <1>2, VMTypes DEF RegisterCheck, IsUp
  <2>2. \/ Goto(a, "c_insert") /\ UNCHANGED job
        \/ End(a, "err")
    BY <1>2 DEF RegisterCheck
  <2> QED
    BY <1>2, <2>1, <2>2, MoveOn, Return DEF RegisterCheck, Steps, Holding
<1>3. CASE RegisterInsert(a)
  BY <1>3, InsertTypes DEF RegisterInsert
<1> QED
  BY <1>1, <1>2, <1>3 DEF Register

\* A command reads the record and keeps it.
LEMMA Read ==
    ASSUME IInv, NEW a \in Actors, pc[a] # "idle", rec # NoRec,
           NEW s \in Steps, Goto(a, s), job' = [job EXCEPT ![a].inst = rec],
           UNCHANGED <<vm, rec, bundle>>
    PROVE  IInv'
<1> DEFINE j == [job[a] EXCEPT !.inst = rec]
<1>1. j \in Job /\ j.inst \in Record
  BY DEF IInv, TypeOK, JobInv, Job
<1>2. job' = [job EXCEPT ![a] = j]
  OBVIOUS
<1> HIDE DEF j
<1>3. TypeOK'
  BY <1>1, <1>2 DEF IInv, TypeOK, Goto
<1>4. JobInv'
  BY <1>1, <1>2 DEF IInv, TypeOK, JobInv, Goto
<1> QED
  BY <1>3, <1>4 DEF IInv

LEMMA UpgradeIInv ==
    ASSUME IInv, NEW a \in Actors, Upgrade(a)
    PROVE  IInv'
<1> USE DEF IInv, TypeOK
<1>1. CASE UpgradeFind(a)
  BY <1>1, Read, Return DEF UpgradeFind, Steps
<1>2. CASE UpgradeStart(a)
  <2>1. vm' \in VM \cup {NoVM}
    BY <1>2, VMTypes DEF UpgradeStart, StartVM, CanStart
  <2> QED
    BY <1>2, <2>1, MoveOn, Return DEF UpgradeStart, Steps, Holding
<1>3. CASE UpgradeScript(a)
  BY <1>3, ScriptIInv DEF UpgradeScript, Steps, Holding
<1>4. CASE UpgradeProbe(a)
  BY <1>4, ScriptIInv DEF UpgradeProbe, Steps, Holding
<1>5. CASE UpgradeUpdate(a)
  <2>1. job[a].inst \in Record
    BY <1>5 DEF UpgradeUpdate, JobInv, Holding
  <2> QED
    BY <1>5, <2>1, Return DEF UpgradeUpdate, Update
<1> QED
  BY <1>1, <1>2, <1>3, <1>4, <1>5 DEF Upgrade

LEMMA DestroyIInv ==
    ASSUME IInv, NEW a \in Actors, Destroy(a)
    PROVE  IInv'
<1> USE DEF IInv, TypeOK
<1>1. CASE DestroyFind(a)
  BY <1>1, Read, Return DEF DestroyFind, Steps
<1>2. CASE DestroyPorts(a)
  <2>1. vm' \in VM \cup {NoVM}
    BY <1>2, VMTypes DEF DestroyPorts, IsUp
  <2> QED
    BY <1>2, <2>1, MoveOn DEF DestroyPorts, Steps, Holding
<1>3. CASE DestroyVM(a)
  BY <1>3, VMTypes, MoveOn DEF DestroyVM, Steps, Holding
<1>4. CASE DestroyRemove(a)
  BY <1>4, Return DEF DestroyRemove
<1> QED
  BY <1>1, <1>2, <1>3, <1>4 DEF Destroy

LEMMA DeleteIInv ==
    ASSUME IInv, NEW a \in Actors, Delete(a)
    PROVE  IInv'
<1> USE DEF IInv, TypeOK
<1>1. CASE DeleteFind(a)
  BY <1>1, MoveOn, Return DEF DeleteFind, Steps, Holding
<1>2. CASE DeleteStop(a)
  BY <1>2, VMTypes, MoveOn DEF DeleteStop, Steps, Holding
<1>3. CASE DeleteDestroy(a)
  <2>1. vm' \in VM \cup {NoVM}
    BY <1>3, VMTypes DEF DeleteDestroy
  <2>2. CASE \/ Goto(a, "g_remove") /\ UNCHANGED job
             \/ End(a, "err")
    BY <1>3, <2>1, <2>2, MoveOn, Return DEF DeleteDestroy, Steps, Holding
  <2>3. CASE /\ job[a].retries > 0
             /\ job' = [job EXCEPT ![a].retries = @ - 1]
             /\ Goto(a, "g_destroy")
    <3> DEFINE j == [job[a] EXCEPT !.retries = @ - 1]
    <3>1. j \in Job
      BY <1>3, <2>3 DEF DeleteDestroy, JobInv, Job
    <3>2. job' = [job EXCEPT ![a] = j]
      BY <2>3
    <3> HIDE DEF j
    <3>3. TypeOK'
      BY <1>3, <2>1, <2>3, <3>1, <3>2 DEF DeleteDestroy, Goto, Steps
    <3>4. JobInv'
      BY <2>3, <3>1, <3>2 DEF JobInv, Goto, Holding
    <3> QED
      BY <3>3, <3>4
  <2> QED
    BY <1>3, <2>2, <2>3 DEF DeleteDestroy
<1>4. CASE DeleteRemove(a)
  BY <1>4, Return DEF DeleteRemove
<1> QED
  BY <1>1, <1>2, <1>3, <1>4 DEF Delete

LEMMA SetProxyIInv ==
    ASSUME IInv, NEW a \in Actors, SetProxy(a)
    PROVE  IInv'
<1> USE DEF IInv, TypeOK
<1>1. CASE ProxyFind(a)
  BY <1>1, Read, Return DEF ProxyFind, Steps
<1>2. CASE ProxyUpdate(a)
  <2>1. [job[a].inst EXCEPT !.proxy = job[a].proxy] \in Record
    BY <1>2 DEF ProxyUpdate, JobInv, Holding, Job, Record
  <2> QED
    BY <1>2, <2>1, MoveOn, Return DEF ProxyUpdate, Update, Steps, Holding
<1>3. CASE ProxyApply(a)
  <2>1. vm' \in VM \cup {NoVM}
    BY <1>3, VMTypes DEF ProxyApply, CanExec, CanStart
  <2>2. End(a, "ok") \/ End(a, "err")
    BY <1>3 DEF ProxyApply
  <2> QED
    BY <1>3, <2>1, <2>2, Return DEF ProxyApply
<1> QED
  BY <1>1, <1>2, <1>3 DEF SetProxy

LEMMA VerbIInv ==
    ASSUME IInv, NEW a \in Actors, Start(a) \/ Stop(a) \/ Export(a) \/ Import(a)
    PROVE  IInv'
<1> USE DEF IInv, TypeOK
<1>1. CASE Start(a)
  <2>1. vm' \in VM \cup {NoVM}
    BY <1>1, VMTypes DEF Start, StartVM, CanStart
  <2> QED
    BY <1>1, <2>1, Return DEF Start
<1>2. CASE Stop(a)
  <2>1. vm' \in VM \cup {NoVM}
    BY <1>2, VMTypes DEF Stop
  <2> QED
    BY <1>2, <2>1, Return DEF Stop
<1>3. CASE Export(a)
  <2>1. vm' \in VM \cup {NoVM}
    <3>1. CASE Backend = "lima" /\ TryStopVM
      BY <3>1, VMTypes
    <3>2. CASE vm' \in {vm, IF CanExec THEN AfterExec ELSE vm}
      BY <3>2, VMTypes DEF CanExec, CanStart
    <3>3. CASE UNCHANGED vm
      BY <3>3
    <3> QED
      BY <1>3, <3>1, <3>2, <3>3 DEF Export
  <2>2. bundle' \in {"none", "whole", "torn"}
    BY <1>3 DEF Export
  <2>3. End(a, "ok") \/ End(a, "err")
    BY <1>3 DEF Export
  <2> QED
    BY <1>3, <2>1, <2>2, <2>3, Return DEF Export
<1>4. CASE ImportImage(a)
  <2>1. job[a].claw \in Versions
    BY <1>4 DEF ImportImage, JobInv, Job
  <2>2. vm' \in VM \cup {NoVM}
    BY <1>4, <2>1, VMTypes DEF ImportImage
  <2>3. \/ Goto(a, "m_insert") /\ UNCHANGED job
        \/ End(a, "err")
    BY <1>4 DEF ImportImage
  <2> QED
    BY <1>4, <2>2, <2>3, MoveOn, Return DEF ImportImage, Steps, Holding
<1>5. CASE ImportInsert(a)
  <2>1. job[a].claw \in Versions
    BY <1>5 DEF ImportInsert, JobInv, Job
  <2> QED
    BY <1>5, <2>1, InsertTypes DEF ImportInsert
<1> QED
  BY <1>1, <1>2, <1>3, <1>4, <1>5 DEF Import

\* The end of a script that lives on changes what it installs, and nothing
\* else of the VM.
LEMMA ScriptEndsTypes ==
    ASSUME IInv, ScriptEnds
    PROVE  /\ vm # NoVM /\ vm \in VM /\ vm' \in VM
           /\ vm.scripts # {} /\ vm'.scripts \subseteq vm.scripts
           /\ vm'.up = vm.up /\ vm'.disk = vm.disk
           /\ "step" \notin Faults => vm'.claw # NoClaw
<1>1. vm # NoVM /\ vm \in VM
  BY DEF IInv, TypeOK, ScriptEnds
<1>2. PICK s \in vm.scripts, v \in Versions \cup {NoClaw} :
        /\ v = s[2] \/ (v = NoClaw /\ "step" \in Faults)
        /\ vm' = [vm EXCEPT !.claw = v, !.scripts = @ \ {s}]
  BY DEF ScriptEnds
<1>3. s[2] \in Versions
  BY <1>1, <1>2 DEF VM, Scripts
<1>4. vm' \in VM /\ vm'.up = vm.up /\ vm'.disk = vm.disk /\ vm'.claw = v
      /\ vm'.scripts = vm.scripts \ {s}
  BY <1>1, <1>2 DEF VM
<1>5. "step" \notin Faults => v # NoClaw
  BY <1>2, <1>3, LifecycleAssumption
<1> QED
  BY <1>1, <1>2, <1>4, <1>5

\* Whatever the actors, the commands, the backend and the faults, the VM,
\* the record and every command's state keep their types, and a command that
\* will write a record back holds one.
THEOREM LifecycleTypes == Spec => [](TypeOK /\ JobInv)
<1>1. IInv /\ [Next]_vars => IInv'
  <2> SUFFICES ASSUME IInv, [Next]_vars PROVE IInv'
    OBVIOUS
  <2>1. CASE UNCHANGED vars
    BY <2>1 DEF vars, IInv, TypeOK, JobInv
  <2>2. ASSUME NEW a \in Actors, Request(a) \/ Step(a) \/ Crash(a) PROVE IInv'
    BY <2>2, RequestIInv, StepFailsIInv, InstallIInv, RegisterIInv, UpgradeIInv, DestroyIInv,
       DeleteIInv, SetProxyIInv, VerbIInv DEF Step
  <2>3. CASE ScriptEnds
    BY <2>3, ScriptEndsTypes DEF IInv, TypeOK, JobInv, ScriptEnds
  <2> QED
    BY <2>1, <2>2, <2>3 DEF Next
<1> QED
  BY InitIInv, <1>1, PTL DEF Spec, IInv

----------------------------------------------------------------------------
(* One command at a time: there is one caller, or every caller is the GUI's  *)
(* and every command takes the instance's lock.                              *)

Exclusive ==
    \/ \A a, b \in Actors : a = b
    \/ Gui = Actors /\ Kinds \subseteq LockedKinds

Alone == \A a, b \in Actors : pc[a] # "idle" /\ pc[b] # "idle" => a = b

\* The steps of the commands: all but the end of a script that lives on.
CommandNext == \E a \in Actors : Request(a) \/ Step(a) \/ Crash(a)

LEMMA CommandsOrScripts == Next <=> CommandNext \/ ScriptEnds
BY DEF Next, CommandNext

\* Only the commands' own steps move them.
LEMMA StepMoves ==
    ASSUME IInv, NEW a \in Actors, Step(a) \/ Crash(a)
    PROVE  pc[a] # "idle" /\ \E s \in Steps : pc' = [pc EXCEPT ![a] = s]
<1>1. CASE Install(a)
  BY <1>1 DEF Goto, End, Steps, Install, InstallFind, InstallCreate, InstallCreated,
     InstallVerify, InstallScript, InstallProbe, InstallInsert, RunScript, Probe, Insert
<1>2. CASE Register(a)
  BY <1>2 DEF Goto, End, Steps, Register, RegisterFind, RegisterCheck, RegisterInsert, Insert
<1>3. CASE Upgrade(a)
  BY <1>3 DEF Goto, End, Steps, Upgrade, UpgradeFind, UpgradeStart, UpgradeScript,
     UpgradeProbe, UpgradeUpdate, RunScript, Probe, Update
<1>4. CASE Destroy(a)
  BY <1>4 DEF Goto, End, Steps, Destroy, DestroyFind, DestroyPorts, DestroyVM, DestroyRemove
<1>5. CASE Delete(a)
  BY <1>5 DEF Goto, End, Steps, Delete, DeleteFind, DeleteStop, DeleteDestroy, DeleteRemove
<1>6. CASE SetProxy(a)
  BY <1>6 DEF Goto, End, Steps, SetProxy, ProxyFind, ProxyUpdate, ProxyApply, Update
<1>7. CASE Start(a) \/ Stop(a) \/ Export(a) \/ Import(a)
  BY <1>7 DEF Goto, End, Steps, Start, Stop, Export, Import, ImportImage, ImportInsert, Insert
<1>8. CASE StepFails(a) \/ Crash(a)
  BY <1>8 DEF Goto, End, Steps, StepFails, Tolerant, Crash
<1> QED
  BY <1>1, <1>2, <1>3, <1>4, <1>5, <1>6, <1>7, <1>8 DEF Step

\* A command starts when no other one is under way, and where it starts.
LEMMA RequestMoves ==
    ASSUME Exclusive, IInv, NEW a \in Actors, Request(a)
    PROVE  /\ \A b \in Actors : pc[b] = "idle"
           /\ \E k \in Kinds : pc' = [pc EXCEPT ![a] = FirstStep(k)]
           /\ pc'[a] \in {"i_find", "c_find", "u_find", "d_find", "g_find", "p_find", "start",
                          "stop", "e_image", "m_image"}
           /\ UNCHANGED <<vm, rec, bundle>>
<1>1. PICK k \in Kinds : /\ (a \in Gui /\ k \in LockedKinds) => LockFree(a)
                         /\ pc' = [pc EXCEPT ![a] = FirstStep(k)]
  BY Zenon DEF Request
<1>2. pc[a] = "idle" /\ UNCHANGED <<vm, rec, bundle>>
  BY DEF Request
<1>3. FirstStep(k) \in {"i_find", "c_find", "u_find", "d_find", "g_find", "p_find", "start",
                        "stop", "e_image", "m_image"}
  BY LifecycleAssumption DEF FirstStep, AllKinds
<1>4. pc'[a] = FirstStep(k)
  BY <1>1 DEF IInv, TypeOK
<1>5. \A b \in Actors : pc[b] = "idle"
  <2>1. CASE \A b, c \in Actors : b = c
    BY <1>2, <2>1
  <2>2. CASE Gui = Actors /\ Kinds \subseteq LockedKinds
    <3>1. \A b \in Actors \ {a} : ~InLock(b)
      BY <1>1, <2>2 DEF LockFree
    <3>2. \A b \in Actors : pc[b] # "idle" => job[b].kind \in Kinds
      BY DEF IInv, JobInv, Job
    <3> QED  BY <1>2, <2>2, <3>1, <3>2 DEF InLock
  <2> QED  BY <2>1, <2>2 DEF Exclusive
<1> QED
  BY <1>1, <1>2, <1>3, <1>4, <1>5

LEMMA AloneStep ==
    ASSUME Exclusive, IInv, Alone, CommandNext
    PROVE  Alone'
<1>1. PICK a \in Actors : Request(a) \/ Step(a) \/ Crash(a)
  BY DEF CommandNext
<1>2. \A b \in Actors \ {a} : pc[b] = "idle"
  BY <1>1, StepMoves, RequestMoves DEF Alone
<1>3. \E s : pc' = [pc EXCEPT ![a] = s]
  BY <1>1, StepMoves, RequestMoves
<1> QED
  BY <1>2, <1>3 DEF Alone, IInv, TypeOK

\* The step of one command: it was under way alone, and is the only one that
\* may be after it.
LEMMA OneMoves ==
    ASSUME Exclusive, IInv, Alone, CommandNext
    PROVE  \E a \in Actors :
             /\ Request(a) \/ Step(a) \/ Crash(a)
             /\ Request(a) => /\ pc[a] = "idle" /\ UNCHANGED <<vm, rec, bundle>>
                              /\ pc'[a] \in {"i_find", "c_find", "u_find", "d_find", "g_find",
                                             "p_find", "start", "stop", "e_image", "m_image"}
             /\ \A b \in Actors \ {a} : pc[b] = "idle" /\ pc'[b] = "idle"
<1>1. PICK a \in Actors : Request(a) \/ Step(a) \/ Crash(a)
  BY DEF CommandNext
<1>2. \A b \in Actors \ {a} : pc[b] = "idle"
  BY <1>1, StepMoves, RequestMoves DEF Alone
<1>3. \E s : pc' = [pc EXCEPT ![a] = s]
  BY <1>1, StepMoves, RequestMoves
<1>4. \A b \in Actors \ {a} : pc'[b] = "idle"
  BY <1>2, <1>3 DEF IInv, TypeOK
<1> QED
  BY <1>1, <1>2, <1>4, RequestMoves DEF Request

LEMMA SpecAlone == ASSUME Exclusive PROVE Spec => [](IInv /\ Alone)
<1>1. Init => Alone
  BY DEF Init, Alone
<1>2. IInv /\ Alone /\ [Next]_vars => Alone'
  BY AloneStep, CommandsOrScripts DEF vars, Alone, ScriptEnds
<1>3. Spec => []IInv
  BY LifecycleTypes, PTL DEF IInv
<1> QED
  BY <1>1, <1>2, <1>3, PTL DEF Spec

----------------------------------------------------------------------------
(* upgrade writes back what it has read. *)

\* The steps at which upgrade is to write back the record it has read.
Stamping == Holding \ {"p_update"}

\* No one else touches the record of an upgrade.
StampInv == \A a \in Actors : pc[a] \in Stamping => rec # NoRec /\ job[a].inst = rec

\* The only step by which a command comes to where something is promised.
LEMMA Enters ==
    ASSUME IInv, NEW a \in Actors, Step(a) \/ Crash(a)
    PROVE  /\ pc'[a] \in Stamping => Upgrade(a)
           /\ pc'[a] = "i_probe" => InstallScript(a)
           /\ pc'[a] = "i_insert" => InstallProbe(a)
           /\ pc'[a] = "g_remove" => DeleteDestroy(a)
<1> USE DEF Goto, End, Stamping, Holding, IInv, TypeOK
<1>1. CASE Install(a)
  BY <1>1 DEF Install, InstallFind, InstallCreate, InstallCreated, InstallVerify, InstallScript,
     InstallProbe, InstallInsert, RunScript, Probe, Insert
<1>2. CASE Register(a)
  BY <1>2 DEF Register, RegisterFind, RegisterCheck, RegisterInsert, Insert
<1>3. CASE Upgrade(a)
  BY <1>3 DEF Upgrade, UpgradeFind, UpgradeStart, UpgradeScript, UpgradeProbe, UpgradeUpdate,
     RunScript, Probe, Update
<1>4. CASE Destroy(a)
  BY <1>4 DEF Destroy, DestroyFind, DestroyPorts, DestroyVM, DestroyRemove
<1>5. CASE Delete(a)
  BY <1>5 DEF Delete, DeleteFind, DeleteStop, DeleteDestroy, DeleteRemove
<1>6. CASE SetProxy(a)
  BY <1>6 DEF SetProxy, ProxyFind, ProxyUpdate, ProxyApply, Update
<1>7. CASE Start(a) \/ Stop(a) \/ Export(a) \/ Import(a)
  BY <1>7 DEF Start, Stop, Export, Import, ImportImage, ImportInsert, Insert
<1>8. CASE StepFails(a) \/ Crash(a)
  BY <1>8 DEF StepFails, Crash
<1> QED
  BY <1>1, <1>2, <1>3, <1>4, <1>5, <1>6, <1>7, <1>8 DEF Step

\* The only step by which an upgrade writes the record back.
LEMMA Leaves ==
    ASSUME NEW a \in Actors, Step(a), pc[a] = "u_update"
    PROVE  UpgradeUpdate(a) \/ StepFails(a)
<1>1. ~Install(a)
  BY DEF Install, InstallFind, InstallCreate, InstallCreated, InstallVerify, InstallScript,
     InstallProbe, InstallInsert
<1>2. ~Register(a) /\ ~Destroy(a) /\ ~SetProxy(a)
  BY DEF Register, RegisterFind, RegisterCheck, RegisterInsert, Destroy, DestroyFind,
     DestroyPorts, DestroyVM, DestroyRemove, SetProxy, ProxyFind, ProxyUpdate, ProxyApply
<1>3. ~Delete(a)
  BY DEF Delete, DeleteFind, DeleteStop, DeleteDestroy, DeleteRemove
<1>4. ~Start(a) /\ ~Stop(a) /\ ~Export(a) /\ ~Import(a)
  BY DEF Start, Stop, Export, Import, ImportImage, ImportInsert
<1>5. CASE Upgrade(a)
  BY <1>5 DEF Upgrade, UpgradeFind, UpgradeStart, UpgradeScript, UpgradeProbe
<1> QED
  BY <1>1, <1>2, <1>3, <1>4, <1>5 DEF Step

LEMMA StampInvStep ==
    ASSUME Exclusive, IInv, Alone, StampInv, CommandNext
    PROVE  StampInv'
<1>1. PICK a \in Actors :
        /\ Request(a) \/ Step(a) \/ Crash(a)
        /\ Request(a) => pc'[a] \notin Stamping
        /\ \A b \in Actors \ {a} : pc'[b] = "idle"
  BY OneMoves DEF Stamping, Holding
<1>2. SUFFICES ASSUME pc'[a] \in Stamping, Step(a) \/ Crash(a)
               PROVE  rec' # NoRec /\ job'[a].inst = rec'
  BY <1>1 DEF StampInv, Stamping, Holding
<1>3. Upgrade(a)
  BY <1>2, Enters
<1> USE DEF Goto, End, Stamping, Holding, IInv, TypeOK
<1>4. CASE UpgradeFind(a)
  <2>1. job[a] \in Job
    BY <1>4 DEF UpgradeFind, JobInv
  <2> QED  BY <1>2, <1>4, <2>1 DEF UpgradeFind, Job
<1>5. CASE UpgradeStart(a) \/ UpgradeScript(a) \/ UpgradeProbe(a)
  <2>1. pc[a] \in Stamping /\ rec' = rec
    BY <1>5 DEF UpgradeStart, UpgradeScript, UpgradeProbe
  <2>2. job' = job \/ \E b : job' = [job EXCEPT ![a].alone = b]
    BY <1>2, <1>5 DEF UpgradeStart, UpgradeScript, UpgradeProbe, RunScript, Probe
  <2>3. job'[a].inst = job[a].inst
    BY <2>1, <2>2 DEF JobInv, Job
  <2> QED  BY <2>1, <2>3 DEF StampInv
<1>6. ~UpgradeUpdate(a)
  BY <1>2 DEF UpgradeUpdate, Update
<1> QED
  BY <1>3, <1>4, <1>5, <1>6 DEF Upgrade

LEMMA SpecStamp == ASSUME Exclusive PROVE Spec => [](IInv /\ Alone /\ StampInv)
<1>1. Init => StampInv
  BY DEF Init, StampInv, Stamping, Holding
<1>2. IInv /\ Alone /\ StampInv /\ [Next]_vars => StampInv'
  BY StampInvStep, CommandsOrScripts DEF vars, StampInv, ScriptEnds
<1> QED
  BY <1>1, <1>2, SpecAlone, PTL DEF Spec

\* The actor of a step that ends with success from where something is promised.
LEMMA OwnStep ==
    ASSUME Exclusive, IInv, Alone, CommandNext, NEW a \in Actors, pc[a] # "idle"
    PROVE  Step(a) \/ Crash(a)
BY OneMoves DEF Request

\* When an upgrade writes the record back, it is what stands there.
LEMMA StampStep ==
    ASSUME Exclusive, IInv, Alone, StampInv, [Next]_vars
    PROVE  [UpgradeOnlyStampsStep]_vars
<1> SUFFICES ASSUME CommandNext, NEW a \in Actors, pc[a] = "u_update" PROVE rec' = rec
  BY CommandsOrScripts DEF vars, UpgradeOnlyStampsStep, ScriptEnds
<1>1. Crash(a) \/ UpgradeUpdate(a) \/ StepFails(a)
  BY OwnStep, Leaves
<1> QED
  BY <1>1 DEF Crash, StepFails, UpgradeUpdate, Update, StampInv, Stamping, Holding

UpgradeOnlyStamps == [][UpgradeOnlyStampsStep]_vars

\* When one command runs at a time, for there is one caller or every command
\* takes the GUI's lock, an upgrade writes back the record as it stands: it
\* undoes no one's change, and brings back no record of an instance that was
\* destroyed meanwhile.
THEOREM LockedUpgradeOnlyStamps == ASSUME Exclusive PROVE Spec => UpgradeOnlyStamps
BY SpecStamp, StampStep, PTL DEF Spec, UpgradeOnlyStamps

----------------------------------------------------------------------------
(* What install and delete promise. *)

\* From its script to its record, an install has the VM up; and with the
\* version it was asked for, and no other script there, if it met none.
Ready(a) == IsUp /\ (job[a].alone => vm.claw = job[a].claw /\ vm.scripts = {})
ReadyInv == \A a \in Actors : pc[a] \in {"i_probe", "i_insert"} => Ready(a)

LEMMA ReadyStep ==
    ASSUME Exclusive, IInv, Alone, ReadyInv, CommandNext
    PROVE  ReadyInv'
<1>1. PICK a \in Actors :
        /\ Request(a) \/ Step(a) \/ Crash(a)
        /\ Request(a) => pc'[a] \notin {"i_probe", "i_insert"}
        /\ \A b \in Actors \ {a} : pc'[b] = "idle"
  BY OneMoves
<1>2. SUFFICES ASSUME pc'[a] \in {"i_probe", "i_insert"}, Step(a) \/ Crash(a)
               PROVE  Ready(a)'
  BY <1>1 DEF ReadyInv
<1>3. CASE InstallScript(a)
  <2>1. pc[a] # "idle" /\ job[a] \in Job /\ job[a].claw \in Versions
    BY <1>3 DEF InstallScript, IInv, JobInv, Job
  <2>2. ~End(a, "err")
    BY <1>2 DEF End, IInv, TypeOK
  <2>3. vm # NoVM /\ vm \in VM
    BY <1>3, <2>2 DEF InstallScript, RunScript, CanExec, CanStart, IInv, TypeOK
  <2>4. CASE /\ vm' = [AfterExec EXCEPT !.claw = job[a].claw]
             /\ job' = [job EXCEPT ![a].alone = (vm.scripts = {})]
    <3>1. vm' \in VM /\ vm'.up /\ vm'.claw = job[a].claw /\ vm'.scripts = vm.scripts
      BY <2>1, <2>3, <2>4 DEF VM, AfterExec
    <3>2. job'[a] = [job[a] EXCEPT !.alone = (vm.scripts = {})]
      BY <2>4 DEF IInv, TypeOK
    <3>3. job'[a].claw = job[a].claw /\ (job'[a].alone => vm.scripts = {})
      BY <2>1, <3>2 DEF Job
    <3> QED  BY <3>1, <3>3, NoneIs DEF Ready, IsUp
  <2>5. ASSUME NEW s \in vm.scripts,
               vm' = [AfterExec EXCEPT !.claw = s[2], !.scripts = (@ \ {s}) \cup {ScriptOf(a)}],
               job' = [job EXCEPT ![a].alone = FALSE]
        PROVE  Ready(a)'
    <3>1. vm' \in VM
      BY <2>1, <2>3, <2>5, LeftTypes
    <3>2. vm'.up
      BY <2>3, <2>5 DEF VM, AfterExec
    <3>3. ~job'[a].alone
      BY <2>1, <2>5 DEF IInv, TypeOK, Job
    <3> QED  BY <3>1, <3>2, <3>3, NoneIs DEF Ready, IsUp
  <2> QED  BY <1>3, <2>2, <2>4, <2>5 DEF InstallScript, RunScript
<1>4. CASE InstallProbe(a)
  <2>1. ~End(a, "err")
    BY <1>2 DEF End, IInv, TypeOK
  <2>2. pc[a] = "i_probe" /\ UNCHANGED job /\ vm' = AfterExec
    BY <1>4, <2>1 DEF InstallProbe, Probe
  <2>3. vm \in VM /\ Ready(a)
    BY <2>2 DEF ReadyInv, Ready, IsUp, IInv, TypeOK
  <2>4. vm' \in VM /\ vm'.up /\ vm'.claw = vm.claw /\ vm'.scripts = vm.scripts
    BY <2>2, <2>3 DEF VM, AfterExec
  <2> QED  BY <2>2, <2>3, <2>4, NoneIs DEF Ready, IsUp
<1> QED
  BY <1>2, <1>3, <1>4, Enters

InstalledMeansRunning == [][InstalledMeansRunningStep]_vars

LEMMA InstalledStep ==
    ASSUME Exclusive, IInv, Alone, ReadyInv, [Next]_vars
    PROVE  [InstalledMeansRunningStep]_vars
<1>1. \A a \in Actors : pc[a] = "i_insert" => Ready(a)
  BY DEF ReadyInv
<1> QED
  BY <1>1 DEF vars, InstalledMeansRunningStep, Ready, IsUp

\* When one command runs at a time, an install that succeeds leaves the VM up
\* on every backend, whatever earlier installs, failures, kills and stops had
\* left behind; and with the version it was asked for, if no script of an
\* earlier command was living on in the VM when it came to run its own.
THEOREM InstallKeepsItsWord == ASSUME Exclusive PROVE Spec => InstalledMeansRunning
<1>1. Init => ReadyInv
  BY DEF Init, ReadyInv
<1>2. IInv /\ Alone /\ ReadyInv /\ [Next]_vars => ReadyInv'
  <2> SUFFICES ASSUME IInv, Alone, ReadyInv, [Next]_vars PROVE ReadyInv'
    OBVIOUS
  <2>1. CASE UNCHANGED vars
    BY <2>1 DEF vars, ReadyInv, Ready, IsUp
  <2>2. CASE ScriptEnds
    <3>1. pc' = pc /\ job' = job /\ vm' # NoVM /\ vm.scripts # {} /\ vm'.up = vm.up
      BY <2>2, ScriptEndsTypes, NoneIs DEF ScriptEnds
    <3> QED  BY <3>1 DEF ReadyInv, Ready, IsUp
  <2> QED  BY <2>1, <2>2, ReadyStep, CommandsOrScripts
<1> QED
  BY <1>1, <1>2, SpecAlone, InstalledStep, PTL DEF Spec, InstalledMeansRunning

\* The backends whose destroy() tells of its failure, or does not fail.
ReportsDestroy ==
    /\ Backend # "lima" => "probe" \notin Faults
    /\ Backend = "podman" => "step" \notin Faults

\* Once the GUI's delete is to drop the record the VM is gone.
GoneInv == \A a \in Actors : pc[a] = "g_remove" => vm = NoVM

LEMMA GoneStep ==
    ASSUME Exclusive, ReportsDestroy, IInv, Alone, GoneInv, CommandNext
    PROVE  GoneInv'
<1>1. PICK a \in Actors :
        /\ Request(a) \/ Step(a) \/ Crash(a)
        /\ Request(a) => pc'[a] # "g_remove"
        /\ \A b \in Actors \ {a} : pc'[b] = "idle"
  BY OneMoves
<1>2. SUFFICES ASSUME pc'[a] = "g_remove", DeleteDestroy(a) PROVE vm' = NoVM
  BY <1>1, Enters DEF GoneInv
<1>3. DestroyOk
  BY <1>2 DEF DeleteDestroy, Goto, End, IInv, TypeOK
<1> QED
  BY <1>3 DEF DestroyOk, IsPresent, ReportsDestroy

DeleteLeavesNothing == [][DeleteLeavesNothingStep]_vars

LEMMA DeletedStep ==
    ASSUME GoneInv, [Next]_vars
    PROVE  [DeleteLeavesNothingStep]_vars
BY DEF GoneInv, DeleteLeavesNothingStep, vars

\* When one command runs at a time, and the backend's destroy tells of its
\* failures, the GUI's delete drops the record only when the VM is gone,
\* whatever fails or is killed.
THEOREM DeleteKeepsItsWord ==
    ASSUME Exclusive, ReportsDestroy
    PROVE  Spec => DeleteLeavesNothing
<1>1. Init => GoneInv
  BY DEF Init, GoneInv
<1>2. IInv /\ Alone /\ GoneInv /\ [Next]_vars => GoneInv'
  BY GoneStep, CommandsOrScripts DEF vars, GoneInv, ScriptEnds
<1> QED
  BY <1>1, <1>2, SpecAlone, DeletedStep, PTL DEF Spec, DeleteLeavesNothing

----------------------------------------------------------------------------
(* The VM and its record. *)

\* The faults that leave the commands' work whole: none, or the no of a
\* probe that Lima does not make.
Calm == Faults \subseteq (IF Backend = "lima" THEN {"probe"} ELSE {})

\* podman loads an image under the name it was saved with.
ImportsUnderItsName == Backend = "podman" => "import" \notin Kinds

Both == (vm # NoVM) <=> (rec # NoRec)

\* What a command has done of its work, by the step it is at.
Underway(a) ==
    /\ pc[a] \in {"i_create", "c_check"} => vm = NoVM /\ rec = NoRec
    /\ pc[a] = "i_creating" => rec = NoRec /\ (vm = NoVM <=> Backend = "podman")
    /\ pc[a] \in {"i_verify", "i_script", "i_probe", "i_insert"} => rec = NoRec /\ IsUp
    /\ pc[a] \in {"i_probe", "i_insert"} => vm.claw # NoClaw
    /\ pc[a] = "m_insert" => rec = NoRec /\ vm # NoVM
    /\ pc[a] \in {"d_remove", "g_remove"} => vm = NoVM
    /\ pc[a] # "c_insert" /\ (pc[a] = "m_image" => Backend # "podman")
    /\ pc[a] \in {"i_find", "c_find", "u_find", "u_start", "u_script", "u_probe", "u_update",
                  "d_find", "d_ports", "d_vm", "g_find", "g_stop", "g_destroy", "p_find",
                  "p_update", "p_apply", "start", "stop", "e_image", "m_image", "idle"} => Both

\* A VM has its disk.
DiskInv == vm # NoVM => vm.disk

LEMMA DiskVM ==
    ASSUME IInv, DiskInv
    PROVE  /\ Registered.disk /\ Provisioned.disk /\ \A v \in Versions : Unpacked(v).disk
           /\ vm # NoVM => AfterExec.disk /\ Off.disk
           /\ vm # NoVM => [vm EXCEPT !.provisioned = TRUE, !.up = TRUE].disk
           /\ vm # NoVM => \A v \in Versions \cup {NoClaw} : [AfterExec EXCEPT !.claw = v].disk
           /\ vm # NoVM => \A v, x : [AfterExec EXCEPT !.claw = v, !.scripts = x].disk
           /\ vm # NoVM => \A x : [AfterExec EXCEPT !.scripts = x].disk
<1>1. Registered.disk /\ Provisioned.disk /\ \A v \in Versions : Unpacked(v).disk
  BY DEF Registered, Provisioned, Unpacked
<1>2. CASE vm # NoVM
  BY <1>1, <1>2 DEF IInv, TypeOK, DiskInv, VM, AfterExec, Off
<1> QED  BY <1>1, <1>2

LEMMA DiskStep ==
    ASSUME Calm, IInv, DiskInv, NEW a \in Actors, Step(a)
    PROVE  DiskInv'
<1> USE DEF DiskInv, IsUp, CanExec, CanStart
<1>1. ~StepFails(a) /\ "step" \notin Faults
  BY DEF StepFails, Calm
<1>2. CASE Install(a) \/ Upgrade(a)
  <2>1. pc[a] # "idle"
    BY StepMoves
  <2>2. job[a].claw \in Versions
    BY <2>1 DEF IInv, JobInv, Job
  <2>3. CASE \E n \in {"i_probe", "u_probe"} : RunScript(a, n)
    BY <1>1, <2>2, <2>3, DiskVM DEF RunScript
  <2>4. CASE InstallCreated(a)
    BY <1>1, <2>4, DiskVM DEF InstallCreated
  <2> QED
    BY <1>2, <2>3, <2>4, DiskVM DEF Install, InstallFind, InstallCreate, InstallVerify,
       InstallScript, InstallProbe, InstallInsert, Upgrade, UpgradeFind, UpgradeStart,
       UpgradeScript, UpgradeProbe, UpgradeUpdate, Probe, StartVM
<1>3. CASE Register(a) \/ Destroy(a) \/ Delete(a)
  BY <1>3, DiskVM DEF Register, RegisterFind, RegisterCheck, RegisterInsert, Destroy,
     DestroyFind, DestroyPorts, DestroyVM, DestroyRemove, DestroyOk, DestroyErr, Delete,
     DeleteFind, DeleteStop, DeleteDestroy, DeleteRemove, TryStopVM
<1>4. CASE SetProxy(a) \/ Start(a) \/ Stop(a) \/ Export(a)
  BY <1>4, DiskVM DEF SetProxy, ProxyFind, ProxyUpdate, ProxyApply, Start, StartVM, Stop,
     Export, TryStopVM
<1>5. CASE Import(a)
  <2>1. ~RollBackDistro
    BY DEF RollBackDistro, IsPresent, Calm
  <2>2. pc[a] # "idle"
    BY StepMoves
  <2>3. job[a].claw \in Versions
    BY <2>2 DEF IInv, JobInv, Job
  <2> QED  BY <1>5, <2>1, <2>3, DiskVM DEF Import, ImportImage, ImportInsert
<1> QED
  BY <1>1, <1>2, <1>3, <1>4, <1>5 DEF Step

StageInv ==
    /\ DiskInv
    /\ (\A a \in Actors : pc[a] = "idle") => Both
    /\ \A a \in Actors : pc[a] # "idle" => Underway(a)

LEMMA InstallStage ==
    ASSUME Calm, IInv, DiskInv, NEW a \in Actors, Underway(a), Install(a)
    PROVE  Underway(a)'
<1> USE NoneIs DEF Goto, End, IInv, TypeOK, Calm, IsUp, CanExec, CanStart, DiskInv
<1>1. CASE InstallFind(a)
  BY <1>1 DEF InstallFind, Underway, Both
<1>2. CASE InstallCreate(a)
  <2>1. vm = NoVM /\ rec = NoRec /\ ~(TRUE \in IsPresent)
    BY <1>2 DEF InstallCreate, Underway, IsPresent
  <2>2. Registered \in VM
    BY VMTypes
  <2> QED  BY <1>2, <2>1, <2>2 DEF InstallCreate, Underway, Both
<1>3. CASE InstallCreated(a)
  <2>1. rec = NoRec /\ (vm = NoVM <=> Backend = "podman") /\ "step" \notin Faults
    BY <1>3 DEF InstallCreated, Underway
  <2>2. /\ vm' = IF vm = NoVM THEN Provisioned ELSE [vm EXCEPT !.provisioned = TRUE, !.up = TRUE]
        /\ Goto(a, "i_verify") /\ UNCHANGED <<rec, job>>
    BY <1>3, <2>1 DEF InstallCreated
  <2>3. vm' \in VM /\ vm'.up
    BY <2>2 DEF VM, Provisioned
  <2> QED  BY <2>1, <2>2, <2>3 DEF Underway, Both
<1>4. CASE InstallVerify(a)
  <2>1. vm \in VM /\ vm.up /\ rec = NoRec /\ pc'[a] = "i_script" /\ vm' = [vm EXCEPT !.up = TRUE]
        /\ rec' = rec
    BY <1>4 DEF InstallVerify, Underway, AfterExec
  <2>2. vm' \in VM /\ vm'.up
    BY <2>1 DEF VM
  <2> QED  BY <2>1, <2>2 DEF Underway, Both
<1>5. CASE InstallScript(a)
  <2>1. pc[a] # "idle" /\ vm # NoVM /\ vm \in VM /\ CanExec /\ rec = NoRec /\ rec' = rec
    BY <1>5 DEF InstallScript, Underway
  <2>2. job[a].claw \in Versions
    BY <2>1 DEF JobInv, Job
  <2>3. /\ pc'[a] = "i_probe"
        /\ \/ vm' = [AfterExec EXCEPT !.claw = job[a].claw]
           \/ \E s \in vm.scripts :
                vm' = [AfterExec EXCEPT !.claw = s[2], !.scripts = (@ \ {s}) \cup {ScriptOf(a)}]
    BY <1>5, <2>1 DEF InstallScript, RunScript
  <2>4. vm' = [AfterExec EXCEPT !.claw = job[a].claw] => vm' \in VM /\ vm'.up /\ vm'.claw # NoClaw
    BY <2>1, <2>2, LifecycleAssumption DEF VM, AfterExec
  <2>5. ASSUME NEW s \in vm.scripts,
               vm' = [AfterExec EXCEPT !.claw = s[2], !.scripts = (@ \ {s}) \cup {ScriptOf(a)}]
        PROVE  vm' \in VM /\ vm'.up /\ vm'.claw # NoClaw
    <3>1. vm' \in VM /\ s[2] \in Versions
      BY <2>1, <2>5, LeftTypes
    <3> QED  BY <2>1, <2>5, <3>1, LifecycleAssumption DEF VM, AfterExec
  <2>6. vm' \in VM /\ vm'.up /\ vm'.claw # NoClaw
    BY <2>3, <2>4, <2>5
  <2> QED  BY <2>1, <2>3, <2>6 DEF Underway, Both
<1>6. CASE InstallProbe(a)
  <2>1. vm \in VM /\ vm.up /\ vm.claw # NoClaw /\ rec = NoRec /\ pc'[a] = "i_insert" /\ rec' = rec
        /\ vm' = [vm EXCEPT !.up = TRUE]
    BY <1>6 DEF InstallProbe, Probe, Underway, AfterExec
  <2>2. vm' \in VM /\ vm'.up /\ vm'.claw # NoClaw
    BY <2>1 DEF VM
  <2> QED  BY <2>1, <2>2 DEF Underway, Both
<1>7. CASE InstallInsert(a)
  <2>1. rec = NoRec /\ vm # NoVM /\ vm' = vm /\ pc'[a] = "idle"
    BY <1>7 DEF InstallInsert, Insert, Underway
  <2>2. rec' = [created_at |-> job[a].id, claw_version |-> job[a].claw, proxy |-> NoProxy]
    BY <1>7, <2>1 DEF InstallInsert, Insert
  <2>3. rec' \in Record
    BY <1>7, <2>2, LifecycleAssumption DEF InstallInsert, JobInv, Job, Record
  <2> QED  BY <2>1, <2>3 DEF Underway, Both
<1> QED
  BY <1>1, <1>2, <1>3, <1>4, <1>5, <1>6, <1>7 DEF Install

LEMMA RegisterStage ==
    ASSUME IInv, NEW a \in Actors, Underway(a), Register(a)
    PROVE  Underway(a)'
<1> USE DEF Goto, End, IInv, TypeOK, IsUp
<1>1. CASE RegisterFind(a)
  BY <1>1 DEF RegisterFind, Underway, Both
<1>2. CASE RegisterCheck(a)
  BY <1>2 DEF RegisterCheck, Underway, Both
<1>3. ~RegisterInsert(a)
  BY DEF RegisterInsert, Underway
<1> QED
  BY <1>1, <1>2, <1>3 DEF Register

\* A step that neither makes nor takes a VM or a record, between two steps
\* at which there are both or neither.
Quiet == {"idle", "u_start", "u_script", "u_probe", "u_update", "d_ports", "d_vm", "g_stop",
          "g_destroy", "p_update", "p_apply"}

LEMMA QuietStage ==
    ASSUME NEW a \in Actors, pc'[a] \in Quiet, Both,
           vm' = NoVM <=> vm = NoVM, rec' = NoRec <=> rec = NoRec
    PROVE  Underway(a)'
BY DEF Quiet, Underway, Both

LEMMA UpgradeStage ==
    ASSUME Calm, IInv, DiskInv, NEW a \in Actors, Underway(a), StampInv, Upgrade(a)
    PROVE  Underway(a)'
<1>1. Both
  BY DEF Upgrade, UpgradeFind, UpgradeStart, UpgradeScript, UpgradeProbe, UpgradeUpdate, Underway
<1> USE NoneIs DEF Goto, End, IInv, TypeOK, Quiet, CanExec, CanStart
<1>2. CASE UpgradeFind(a)
  BY <1>1, <1>2, QuietStage DEF UpgradeFind
<1>3. CASE UpgradeStart(a)
  <2>1. vm' = NoVM <=> vm = NoVM
    BY <1>3, VMTypes DEF UpgradeStart, StartVM
  <2> QED  BY <1>1, <1>3, <2>1, QuietStage DEF UpgradeStart
<1>4. CASE UpgradeScript(a)
  <2>1. job[a].claw \in Versions
    BY <1>4 DEF UpgradeScript, JobInv, Job
  <2>2. vm' = NoVM <=> vm = NoVM
    <3>1. CASE vm = NoVM
      BY <1>4, <3>1 DEF UpgradeScript, RunScript
    <3>2. CASE vm # NoVM
      <4>1. "step" \notin Faults
        BY DEF Calm
      <4>2. \A s \in vm.scripts :
              [AfterExec EXCEPT !.claw = s[2], !.scripts = (@ \ {s}) \cup {ScriptOf(a)}] \in VM
        BY <1>4, <3>2, LeftTypes DEF UpgradeScript
      <4>3. [AfterExec EXCEPT !.claw = job[a].claw] \in VM
        BY <2>1, <3>2, VMTypes
      <4>4. \/ vm' = vm
            \/ vm' = [AfterExec EXCEPT !.claw = job[a].claw]
            \/ \E t \in vm.scripts :
                 vm' = [AfterExec EXCEPT !.claw = t[2], !.scripts = (@ \ {t}) \cup {ScriptOf(a)}]
        BY <1>4, <4>1 DEF UpgradeScript, RunScript
      <4>5. vm \in VM
        BY <3>2
      <4>6. vm' \in VM
        BY ONLY <4>2, <4>3, <4>4, <4>5, Zenon
      <4> QED  BY <3>2, <4>6, NoneIs
    <3> QED  BY <3>1, <3>2
  <2>3. pc'[a] \in Quiet
    BY <1>4 DEF UpgradeScript, RunScript
  <2> QED  BY <1>1, <1>4, <2>2, <2>3, QuietStage DEF UpgradeScript
<1>5. CASE UpgradeProbe(a)
  <2>1. vm' = NoVM <=> vm = NoVM
    BY <1>5, VMTypes DEF UpgradeProbe, Probe
  <2> QED  BY <1>1, <1>5, <2>1, QuietStage DEF UpgradeProbe, Probe
<1>6. CASE UpgradeUpdate(a)
  BY <1>1, <1>6, QuietStage DEF UpgradeUpdate, Update, StampInv, Stamping, Holding
<1> QED
  BY <1>2, <1>3, <1>4, <1>5, <1>6 DEF Upgrade

LEMMA DestroyStage ==
    ASSUME Calm, IInv, NEW a \in Actors, Underway(a), Destroy(a)
    PROVE  Underway(a)'
<1> USE NoneIs DEF Goto, End, IInv, TypeOK, Quiet
<1>1. CASE DestroyFind(a)
  BY <1>1, QuietStage DEF DestroyFind, Underway
<1>2. CASE DestroyPorts(a)
  <2>1. vm' = vm
    BY <1>2 DEF DestroyPorts, Calm
  <2> QED  BY <1>2, <2>1, QuietStage DEF DestroyPorts, Underway
<1>3. CASE DestroyVM(a)
  <2>1. vm' = NoVM
    BY <1>3 DEF DestroyVM, DestroyOk, DestroyErr, IsPresent, Calm
  <2> QED  BY <1>3, <2>1 DEF DestroyVM, Underway
<1>4. CASE DestroyRemove(a)
  BY <1>4 DEF DestroyRemove, Underway, Both
<1> QED
  BY <1>1, <1>2, <1>3, <1>4 DEF Destroy

LEMMA DeleteStage ==
    ASSUME Calm, IInv, NEW a \in Actors, Underway(a), Delete(a)
    PROVE  Underway(a)'
<1> USE NoneIs DEF Goto, End, IInv, TypeOK, Quiet
<1>1. CASE DeleteFind(a)
  BY <1>1, QuietStage DEF DeleteFind, Underway
<1>2. CASE DeleteStop(a)
  <2>1. vm' = NoVM <=> vm = NoVM
    BY <1>2, VMTypes DEF DeleteStop, TryStopVM
  <2> QED  BY <1>2, <2>1, QuietStage DEF DeleteStop, Underway
<1>3. CASE DeleteDestroy(a)
  <2>1. ~DestroyErr /\ (DestroyOk => vm' = NoVM)
    BY DEF DestroyOk, DestroyErr, IsPresent, Calm
  <2> QED  BY <1>3, <2>1 DEF DeleteDestroy, Underway
<1>4. CASE DeleteRemove(a)
  BY <1>4 DEF DeleteRemove, Underway, Both, Calm
<1> QED
  BY <1>1, <1>2, <1>3, <1>4 DEF Delete

LEMMA SetProxyStage ==
    ASSUME IInv, NEW a \in Actors, Underway(a), SetProxy(a)
    PROVE  Underway(a)'
<1> USE NoneIs DEF Goto, End, IInv, TypeOK, Quiet
<1>1. CASE ProxyFind(a)
  BY <1>1, QuietStage DEF ProxyFind, Underway
<1>2. CASE ProxyUpdate(a)
  <2>1. [job[a].inst EXCEPT !.proxy = job[a].proxy] \in Record
    BY <1>2 DEF ProxyUpdate, JobInv, Holding, Job, Record
  <2>2. (rec' = NoRec <=> rec = NoRec) /\ pc'[a] \in Quiet
    BY <1>2, <2>1 DEF ProxyUpdate, Update
  <2> QED  BY <1>2, <2>2, QuietStage DEF ProxyUpdate, Underway
<1>3. CASE ProxyApply(a)
  <2>1. vm' = NoVM <=> vm = NoVM
    BY <1>3, VMTypes DEF ProxyApply, CanExec, CanStart
  <2> QED  BY <1>3, <2>1, QuietStage DEF ProxyApply, Underway
<1> QED
  BY <1>1, <1>2, <1>3 DEF SetProxy

LEMMA VerbStage ==
    ASSUME Calm, IInv, NEW a \in Actors, Underway(a),
           Start(a) \/ Stop(a) \/ Export(a) \/ Import(a)
    PROVE  Underway(a)'
<1> USE NoneIs DEF Goto, End, IInv, TypeOK, Quiet
<1>1. CASE Start(a)
  <2>1. vm' = NoVM <=> vm = NoVM
    BY <1>1, VMTypes DEF Start, StartVM, CanStart
  <2> QED  BY <1>1, <2>1, QuietStage DEF Start, Underway
<1>2. CASE Stop(a)
  <2>1. vm' = NoVM <=> vm = NoVM
    BY <1>2, VMTypes DEF Stop
  <2> QED  BY <1>2, <2>1, QuietStage DEF Stop, Underway
<1>3. CASE Export(a)
  <2>1. vm' = NoVM <=> vm = NoVM
    BY <1>3, VMTypes DEF Export, TryStopVM, CanExec, CanStart, IsPresent
  <2>2. Both /\ rec' = rec /\ pc'[a] = "idle"
    BY <1>3 DEF Export, Underway
  <2> QED  BY <2>1, <2>2, QuietStage
<1>4. CASE Import(a)
  <2>1. job[a] \in Job
    BY <1>4 DEF Import, ImportImage, ImportInsert, JobInv
  <2>2. CASE ImportImage(a)
    <3>1. Both /\ rec' = rec
      BY <2>2 DEF ImportImage, Underway
    <3>2. CASE vm = NoVM /\ vm' = Unpacked(job[a].claw) /\ pc'[a] = "m_insert"
      <4>1. vm' \in VM
        BY <2>1, <3>2, VMTypes DEF Job
      <4> QED  BY <3>1, <3>2, <4>1 DEF Underway, Both
    <3>3. CASE vm' = vm /\ pc'[a] = "idle"
      BY <3>1, <3>3, QuietStage
    <3>4. Backend # "podman" /\ ~RollBackDistro
      BY <2>2 DEF ImportImage, Underway, RollBackDistro, IsPresent, Calm
    <3> QED  BY <2>2, <3>2, <3>3, <3>4 DEF ImportImage
  <2>3. CASE ImportInsert(a)
    <3>1. rec = NoRec /\ vm # NoVM /\ vm' = vm /\ pc'[a] = "idle"
      BY <2>3 DEF ImportInsert, Insert, Underway
    <3>2. rec' \in Record
      BY <2>1, <2>3, <3>1, LifecycleAssumption DEF ImportInsert, Insert, Job, Record
    <3> QED  BY <3>1, <3>2 DEF Underway, Both
  <2> QED  BY <1>4, <2>2, <2>3 DEF Import
<1> QED
  BY <1>1, <1>2, <1>3, <1>4

LEMMA RequestStage ==
    ASSUME Exclusive, ImportsUnderItsName, IInv, StageInv, NEW a \in Actors, Request(a)
    PROVE  Underway(a)'
<1>1. Both'
  BY RequestMoves DEF StageInv, Both
<1>2. PICK k \in Kinds : pc' = [pc EXCEPT ![a] = FirstStep(k)]
  BY RequestMoves
<1>3. pc'[a] = FirstStep(k)
  BY <1>2 DEF IInv, TypeOK
<1>4. pc'[a] = "m_image" => k = "import"
  BY <1>3, LifecycleAssumption DEF FirstStep, AllKinds
<1>5. pc'[a] \in {"i_find", "c_find", "u_find", "d_find", "g_find", "p_find", "start",
                  "stop", "e_image", "m_image"}
  BY RequestMoves
<1> QED
  BY <1>1, <1>4, <1>5 DEF Underway, ImportsUnderItsName

LEMMA StageStep ==
    ASSUME Exclusive, Calm, ImportsUnderItsName, IInv, Alone, StampInv, StageInv, CommandNext
    PROVE  StageInv'
<1>1. PICK a \in Actors :
        /\ Request(a) \/ Step(a) \/ Crash(a)
        /\ \A b \in Actors \ {a} : pc'[b] = "idle"
  BY OneMoves
<1>2. Underway(a)'
  <2>1. CASE Request(a)
    BY <2>1, RequestStage
  <2>2. CASE Step(a) \/ Crash(a)
    <3>1. Underway(a)
      BY <2>2, StepMoves DEF StageInv
    <3>2. ~StepFails(a) /\ ~Crash(a)
      BY DEF StepFails, Crash, Calm
    <3>3. DiskInv
      BY DEF StageInv
    <3> QED
      BY <2>2, <3>1, <3>2, <3>3, InstallStage, RegisterStage, UpgradeStage, DestroyStage, DeleteStage,
         SetProxyStage, VerbStage DEF Step
  <2> QED  BY <1>1, <2>1, <2>2
<1>3. pc'[a] = "idle" => Both'
  BY <1>2 DEF Underway
<1>4. DiskInv'
  <2>1. CASE Request(a)
    BY <2>1, RequestMoves DEF StageInv, DiskInv
  <2>2. CASE Step(a)
    BY <2>2, DiskStep DEF StageInv
  <2> QED  BY <1>1, <2>1, <2>2 DEF Crash, Calm
<1> QED
  BY <1>1, <1>2, <1>3, <1>4 DEF StageInv

\* When one command runs at a time and nothing fails, nothing is lost: at
\* rest there is a VM exactly when there is a record of it.
THEOREM NothingIsLost ==
    ASSUME Exclusive, Calm, ImportsUnderItsName
    PROVE  Spec => []NothingLost
<1>1. Init => StageInv
  BY DEF Init, StageInv, Both, DiskInv
<1>2. IInv /\ Alone /\ StampInv /\ StageInv /\ [Next]_vars => StageInv'
  <2>1. ASSUME StageInv, UNCHANGED vars PROVE StageInv'
    BY <2>1 DEF StageInv, Underway, Both, IsUp, DiskInv, vars
  <2>2. ASSUME IInv, StageInv, ScriptEnds PROVE StageInv'
    <3>1. /\ vm # NoVM /\ vm' # NoVM /\ vm'.up = vm.up /\ vm'.disk = vm.disk
          /\ vm'.claw # NoClaw /\ UNCHANGED <<rec, pc>>
      BY <2>2, ScriptEndsTypes, NoneIs DEF ScriptEnds, Calm
    <3> QED  BY <2>2, <3>1 DEF StageInv, Underway, Both, IsUp, DiskInv
  <2> QED  BY <2>1, <2>2, StageStep, CommandsOrScripts
<1>3. StageInv => NothingLost
  BY DEF StageInv, NothingLost, Both
<1> QED
  BY <1>1, <1>2, <1>3, SpecStamp, PTL DEF Spec

----------------------------------------------------------------------------
(* What survives failures and kills: whose a record is. *)

Dropping == {"d_remove", "g_remove"}
Having == {"i_verify", "i_script", "i_probe", "i_insert", "c_insert", "m_insert"}

\* A command on its way to insert a record has the VM.
HavingInv ==
    /\ \A a \in Actors : pc[a] \in Having => vm # NoVM
    /\ \A a \in Actors : pc[a] = "m_image" => Backend # "podman"

\* The script of a command takes no VM.
LEMMA ScriptKeepsVM ==
    ASSUME IInv, NEW a \in Actors, pc[a] # "idle", NEW s, RunScript(a, s), vm # NoVM
    PROVE  vm' # NoVM
<1>1. job[a].claw \in Versions
  BY DEF IInv, JobInv, Job
<1>2. \A v \in {job[a].claw, NoClaw} : vm' = [AfterExec EXCEPT !.claw = v] => vm' \in VM
  BY <1>1, VMTypes DEF IInv
<1>3. LivesOn(a) => vm' \in VM
  BY LeftTypes
<1>4. \A t \in vm.scripts :
        vm' = [AfterExec EXCEPT !.claw = t[2], !.scripts = (@ \ {t}) \cup {ScriptOf(a)}]
          => vm' \in VM
  BY LeftTypes
<1>5. vm' \in VM \/ vm' = vm
  BY <1>2, <1>3, <1>4 DEF RunScript
<1> QED  BY <1>5, NoneIs

\* Only a destroy takes the VM.
LEMMA OnlyDestroyTakesVM ==
    ASSUME IInv, NEW a \in Actors, Step(a), vm # NoVM
    PROVE  vm' # NoVM \/ pc'[a] \in Dropping
<1> USE NoneIs, VMTypes
    DEF Goto, End, IInv, TypeOK, IsUp, CanExec, CanStart, Dropping
<1>1. CASE Install(a)
  <2>1. job[a].claw \in Versions
    BY <1>1 DEF Install, InstallFind, InstallCreate, InstallCreated, InstallVerify, InstallScript,
       InstallProbe, InstallInsert, JobInv, Job
  <2>2. CASE InstallCreate(a) \/ InstallFind(a) \/ InstallInsert(a)
    BY <2>2 DEF InstallCreate, InstallFind, InstallInsert
  <2>3. CASE InstallCreated(a)
    <3>1. CASE vm' = [vm EXCEPT !.provisioned = TRUE, !.up = TRUE]
      BY <3>1
    <3>2. CASE vm' \in {AfterExec, Off}
      BY <3>2
    <3>3. CASE vm' = vm
      BY <3>3
    <3> QED  BY <2>3, <3>1, <3>2, <3>3 DEF InstallCreated
  <2>4. CASE InstallVerify(a)
    BY <2>4 DEF InstallVerify
  <2>5. CASE InstallScript(a)
    BY <2>5, ScriptKeepsVM DEF InstallScript
  <2>6. CASE InstallProbe(a)
    BY <2>6 DEF InstallProbe, Probe
  <2> QED  BY <1>1, <2>2, <2>3, <2>4, <2>5, <2>6 DEF Install
<1>2. CASE Register(a)
  BY <1>2 DEF Register, RegisterFind, RegisterCheck, RegisterInsert
<1>3. CASE Upgrade(a)
  <2>2. CASE UpgradeScript(a)
    BY <2>2, ScriptKeepsVM DEF UpgradeScript
  <2>3. CASE UpgradeFind(a) \/ UpgradeStart(a) \/ UpgradeUpdate(a) \/ UpgradeProbe(a)
    BY <2>3 DEF UpgradeFind, UpgradeStart, StartVM, UpgradeProbe, Probe, UpgradeUpdate
  <2> QED  BY <1>3, <2>2, <2>3 DEF Upgrade
<1>4. CASE Destroy(a)
  BY <1>4 DEF Destroy, DestroyFind, DestroyPorts, DestroyVM, DestroyRemove
<1>5. CASE Delete(a)
  <2>1. DestroyErr => vm' = vm
    BY DEF DestroyErr
  <2>2. CASE DeleteDestroy(a)
    BY <2>1, <2>2 DEF DeleteDestroy, Steps
  <2>3. CASE DeleteFind(a) \/ DeleteStop(a) \/ DeleteRemove(a)
    BY <2>3 DEF DeleteFind, DeleteStop, TryStopVM, DeleteRemove
  <2> QED  BY <1>5, <2>2, <2>3 DEF Delete
<1>6. CASE SetProxy(a)
  BY <1>6 DEF SetProxy, ProxyFind, ProxyUpdate, ProxyApply
<1>7. CASE Start(a) \/ Stop(a) \/ StepFails(a)
  BY <1>7 DEF Start, StartVM, Stop, StepFails
<1>8. CASE Export(a) \/ Import(a)
  <2>1. ASSUME ~(Backend # "podman" /\ vm = NoVM) PROVE Import(a) => vm' = vm \/ RollBackDistro
    BY <2>1 DEF Import, ImportImage, ImportInsert
  <2>2. RollBackDistro => vm' # NoVM
    BY VMTypes, NoneIs
  <2> QED  BY <1>8, <2>1, <2>2 DEF Export, TryStopVM
<1> QED
  BY <1>1, <1>2, <1>3, <1>4, <1>5, <1>6, <1>7, <1>8 DEF Step

\* Only a command that has the VM inserts a record, and what comes to have
\* it has found it, made it or unpacked it.
LEMMA InsertsWhatItHas ==
    ASSUME IInv, NEW a \in Actors, Step(a),
           pc[a] = "m_image" => Backend # "podman"
    PROVE  /\ rec = NoRec /\ rec' # NoRec => pc[a] \in Having
           /\ pc'[a] \in Having => vm' # NoVM \/ pc[a] \in Having
           /\ pc'[a] # "m_image"
<1> USE DEF Goto, End, IInv, TypeOK, Having, Dropping
<1>1. CASE Install(a)
  <2>1. CASE InstallCreate(a)
    BY <2>1 DEF InstallCreate, IsPresent
  <2>2. CASE InstallCreated(a)
    <3>1. vm # NoVM /\ vm' = [vm EXCEPT !.provisioned = TRUE, !.up = TRUE] => vm' # NoVM
      BY VMTypes, NoneIs
    <3>2. Provisioned # NoVM
      BY VMTypes, NoneIs
    <3> QED  BY <2>2, <3>1, <3>2 DEF InstallCreated
  <2>3. CASE ~InstallCreate(a) /\ ~InstallCreated(a)
    BY <1>1, <2>3 DEF Install, InstallFind, InstallVerify, InstallScript,
       InstallProbe, InstallInsert, RunScript, Probe, Insert
  <2> QED  BY <2>1, <2>2, <2>3
<1>2. CASE Register(a)
  BY <1>2 DEF Register, RegisterFind, RegisterCheck, RegisterInsert, Insert, IsUp
<1>3. CASE Upgrade(a)
  BY <1>3 DEF Upgrade, UpgradeFind, UpgradeStart, UpgradeScript, UpgradeProbe, UpgradeUpdate,
     RunScript, Probe, Update
<1>4. CASE Destroy(a)
  BY <1>4 DEF Destroy, DestroyFind, DestroyPorts, DestroyVM, DestroyRemove
<1>5. CASE Delete(a)
  BY <1>5 DEF Delete, DeleteFind, DeleteStop, DeleteDestroy, DeleteRemove
<1>6. CASE SetProxy(a)
  BY <1>6 DEF SetProxy, ProxyFind, ProxyUpdate, ProxyApply, Update
<1>7. CASE Start(a) \/ Stop(a) \/ Export(a) \/ StepFails(a)
  BY <1>7 DEF Start, Stop, Export, StepFails
<1>8. CASE Import(a)
  <2>1. CASE ImportImage(a)
    <3>1. job[a].claw \in Versions
      BY <2>1 DEF ImportImage, JobInv, Job
    <3>2. Unpacked(job[a].claw) # NoVM
      BY <3>1, VMTypes, NoneIs
    <3> QED  BY <2>1, <3>2 DEF ImportImage
  <2>2. CASE ImportInsert(a)
    BY <2>2 DEF ImportInsert, Insert
  <2> QED  BY <1>8, <2>1, <2>2 DEF Import
<1> QED
  BY <1>1, <1>2, <1>3, <1>4, <1>5, <1>6, <1>7, <1>8 DEF Step

\* The VM goes, and a record comes.
Gone == vm # NoVM /\ vm' = NoVM
Recorded == rec = NoRec /\ rec' # NoRec

LEMMA HavingStep ==
    ASSUME Exclusive, ImportsUnderItsName, IInv, Alone, HavingInv, CommandNext
    PROVE  /\ HavingInv'
           /\ Gone => \E a \in Actors : pc'[a] \in Dropping
           /\ Recorded => vm # NoVM
<1>1. PICK a \in Actors :
        /\ Request(a) \/ Step(a) \/ Crash(a)
        /\ \A b \in Actors \ {a} : pc[b] = "idle" /\ pc'[b] = "idle"
  BY OneMoves
<1>2. CASE Request(a)
  <2>1. PICK k \in Kinds : pc' = [pc EXCEPT ![a] = FirstStep(k)]
    BY <1>2, RequestMoves
  <2>2. pc'[a] = "m_image" => Backend # "podman"
    BY <2>1, LifecycleAssumption DEF IInv, TypeOK, FirstStep, AllKinds, ImportsUnderItsName
  <2>3. pc'[a] \notin Having /\ UNCHANGED <<vm, rec>>
    BY <1>2, RequestMoves DEF Having
  <2> QED  BY <1>1, <2>2, <2>3 DEF HavingInv, Having, Gone, Recorded
<1>3. CASE Step(a)
  <2>1. /\ Recorded => pc[a] \in Having
        /\ pc'[a] \in Having => vm' # NoVM \/ pc[a] \in Having
        /\ pc'[a] # "m_image"
    BY <1>3, InsertsWhatItHas DEF HavingInv, Recorded
  <2>2. vm # NoVM => vm' # NoVM \/ pc'[a] \in Dropping
    BY <1>3, OnlyDestroyTakesVM
  <2>3. pc[a] \in Having => vm # NoVM
    BY DEF HavingInv
  <2>4. pc'[a] \in Having => vm' # NoVM
    BY <2>1, <2>2, <2>3 DEF Having, Dropping
  <2>5. HavingInv'
    BY <1>1, <2>1, <2>4 DEF HavingInv, Having
  <2> QED  BY <2>1, <2>2, <2>3, <2>5 DEF Gone
<1>4. CASE Crash(a)
  <2>1. pc'[a] = "idle" /\ rec' = rec
    BY <1>4 DEF Crash, End, IInv, TypeOK
  <2>2. vm # NoVM => vm' # NoVM
    BY <1>4, LeftTypes, NoneIs DEF Crash
  <2> QED  BY <1>1, <2>1, <2>2 DEF HavingInv, Having, Gone, Recorded
<1> QED
  BY <1>1, <1>2, <1>3, <1>4

RecordsAreOfVMs ==
    [][/\ Gone => \E a \in Actors : pc'[a] \in Dropping
       /\ Recorded => vm # NoVM]_vars

\* When one command runs at a time, and whatever calls of the backend and of
\* the registry fail, scripts live on and commands are killed: a VM goes only
\* at the step of a command that is to drop the record next, and a record
\* comes only while the VM is there.  A record without a VM is left, then,
\* only by a destroy or a delete that was killed, or whose save failed, in
\* between.
THEOREM VMsGoBeforeTheirRecords ==
    ASSUME Exclusive, ImportsUnderItsName
    PROVE  Spec => RecordsAreOfVMs
<1> DEFINE Fine == /\ Gone => \E a \in Actors : pc'[a] \in Dropping
                   /\ Recorded => vm # NoVM
<1>1. Init => HavingInv
  BY DEF Init, HavingInv, Having
<1>2. IInv /\ Alone /\ HavingInv /\ [Next]_vars => HavingInv' /\ [Fine]_vars
  <2> SUFFICES ASSUME IInv, Alone, HavingInv, [Next]_vars PROVE HavingInv' /\ [Fine]_vars
    OBVIOUS
  <2>1. CASE UNCHANGED vars
    BY <2>1 DEF HavingInv, vars
  <2>2. CASE ScriptEnds
    <3>1. vm # NoVM /\ vm' # NoVM /\ UNCHANGED <<rec, pc>>
      BY <2>2, ScriptEndsTypes, NoneIs DEF ScriptEnds
    <3> QED  BY <3>1 DEF HavingInv, Gone, Recorded
  <2>3. CASE CommandNext
    BY <2>3, HavingStep
  <2> QED  BY <2>1, <2>2, <2>3, CommandsOrScripts
<1> QED
  BY <1>1, <1>2, SpecAlone, PTL DEF Spec, RecordsAreOfVMs

----------------------------------------------------------------------------
(* The exported image. *)

\* An image is never taken of a running VM, on the backends whose export
\* stops it or does not need to, as long as the stop works; whoever else runs.
THEOREM ExportsAreWhole ==
    ASSUME Backend = "podman" \/ (Backend = "lima" /\ "step" \notin Faults)
    PROVE  Spec => []ExportIsWhole
<1>1. Init => ExportIsWhole
  BY DEF Init, ExportIsWhole
<1>2. ASSUME IInv, ExportIsWhole, CommandNext PROVE ExportIsWhole'
  <2>1. PICK a \in Actors : Request(a) \/ Step(a) \/ Crash(a)
    BY <1>2 DEF CommandNext
  <2>2. CASE Export(a)
    <3>1. CASE Backend = "lima" /\ "step" \notin Faults /\ vm # NoVM /\ TryStopVM
      <4>1. vm' = Off \/ (~vm.up /\ vm' = vm)
        BY <3>1 DEF TryStopVM, IsUp
      <4>2. ~vm'.up
        BY <1>2, <3>1, <4>1 DEF IInv, TypeOK, VM, Off
      <4> QED  BY <1>2, <2>2, <3>1, <4>2 DEF Export, ExportIsWhole
    <3>2. CASE Backend = "podman"
      BY <1>2, <2>2, <3>2 DEF Export, ExportIsWhole
    <3> QED  BY <1>2, <2>2, <3>1, <3>2 DEF Export, IsPresent, ExportIsWhole
  <2>3. ASSUME ~Export(a) PROVE bundle' = bundle
    <3>1. CASE Install(a) \/ Register(a)
      BY <3>1 DEF Install, InstallFind, InstallCreate, InstallCreated, InstallVerify,
         InstallScript, InstallProbe, InstallInsert, Register, RegisterFind, RegisterCheck,
         RegisterInsert
    <3>2. CASE Upgrade(a) \/ Destroy(a)
      BY <3>2 DEF Upgrade, UpgradeFind, UpgradeStart, UpgradeScript, UpgradeProbe, UpgradeUpdate,
         Destroy, DestroyFind, DestroyPorts, DestroyVM, DestroyRemove
    <3>3. CASE Delete(a) \/ SetProxy(a) \/ Start(a) \/ Stop(a) \/ Import(a)
      BY <3>3 DEF Delete, DeleteFind, DeleteStop, DeleteDestroy, DeleteRemove, SetProxy,
         ProxyFind, ProxyUpdate, ProxyApply, Start, Stop, Import, ImportImage, ImportInsert
    <3>4. CASE StepFails(a) \/ Request(a) \/ Crash(a)
      BY <3>4 DEF StepFails, Request, Crash
    <3> QED  BY <2>1, <2>3, <3>1, <3>2, <3>3, <3>4 DEF Step
  <2> QED  BY <1>2, <2>2, <2>3 DEF ExportIsWhole
<1>3. IInv /\ ExportIsWhole /\ [Next]_vars => ExportIsWhole'
  BY <1>2, CommandsOrScripts DEF vars, ExportIsWhole, ScriptEnds
<1> QED
  BY <1>1, <1>3, LifecycleTypes, PTL DEF Spec, IInv

-----------------------------------------------------------------------------
(* What a step of a caller may do to the parts under a name.                *)

Pids == Names \cup {NoPid, StalePid}

\* The call a caller makes is one of those allowed, and at a stage of it.
OnCourse(d) ==
  /\ d.op \in Ops
  /\ d.op = "rename" <=> d.to # d.name
  /\ d.at \in {"stage", "launch", "boot"} => d.op = "create" /\ On("lima")
  /\ d.at \in {"rootfs", "register", "provision"} => d.op = "create" /\ On("wsl2")
  /\ d.at \in {"context", "build", "run"} => d.op = "create" /\ On("podman")
  /\ d.at \in {"fill", "rollback"} => d.op = "import" /\ ~On("podman")
  /\ d.at = "load" => d.op = "import" /\ On("podman")
  /\ d.at = "halt" => d.op = "rename" \/ (d.op = "export" /\ On("lima"))
  /\ d.at = "move" => d.op = "rename" /\ On("lima")
  /\ d.at \in {"read", "reading"} => d.op = "export"
  /\ d.at \in {"kill", "delete"} => d.op = "destroy" /\ On("lima")
  /\ d.at = "unregister" => d.op = "destroy" /\ On("wsl2")
  /\ d.at \in {"remove", "untag"} => d.op = "destroy" /\ On("podman")
  /\ d.at = "tidy" => d.op = "destroy"

Courses == \A c \in Callers : doing[c] \in Call => OnCourse(doing[c])

Still(c) == UNCHANGED <<slot, pidfile>> /\ (image' = image \/ OpenArchive(c) \/ CloseArchive(c))

\* Parts are added; those of a machine that is whole or up with its mark, a
\* yaml file with its directory, an agent with its own pid file.
Grown(c) ==
  \E n \in Names, p \in SUBSET Parts, pid \in Pids :
    /\ HoldPid(n, p, pid)
    /\ slot[n] \subseteq p
    /\ On("podman") \/ n = Its(c)
    /\ p \cap {"filled", "up"} \subseteq slot[n] \/ Mark \in p
    /\ "yaml" \in p => "yaml" \in slot[n] \/ "dir" \in p
    /\ "agent" \in p => (pid = n /\ "up" \in p) \/ ("agent" \in slot[n] /\ (pid = pidfile[n] \/ At(c, "fill")))
    /\ \/ pid = pidfile[n]
       \/ pid = n /\ "up" \in p /\ On("lima")
       \/ pid = image.pid /\ At(c, "fill") /\ On("lima")

Halted == \E n \in Names : Down(n)

\* A destroy takes parts of its own machine: the mark with all that it marks,
\* or what is not the machine's.
Taken(c) ==
  \E p \in SUBSET Parts, pid \in Pids :
    /\ doing[c].op = "destroy" /\ HoldPid(Its(c), p, pid)
    /\ p \subseteq slot[Its(c)]
    /\ \/ /\ slot[Its(c)] \cap {Mark, "filled", "up", "agent"} \subseteq p
          /\ On("lima") => slot[Its(c)] \cap {"dir"} \subseteq p
          /\ pid = pidfile[Its(c)]
       \/ /\ p \cap {Mark, "filled", "up"} = {}
          /\ IF On("lima") THEN At(c, "delete") /\ pid = NoPid ELSE pid = pidfile[Its(c)]

RolledBack(c) ==
  /\ At(c, "rollback") /\ ~(On("wsl2") /\ "up" \in slot[Its(c)])
  /\ HoldPid(Its(c), slot[Its(c)] \ {"dir", "yaml", "filled"}, NoPid)

CallStep(c) ==
  Prerequisites(c) \/ CreateInstance(c) \/ Power(c) \/ Images(c) \/ DestroyInstance(c) \/ KillFails(c)

\* One of the things above, or a rename.
Effect(c) == Still(c) \/ Grown(c) \/ Halted \/ Taken(c) \/ RolledBack(c) \/ Move(c)

LEMMA BusyIsCall ==
  ASSUME BackendTypeOK, NEW c \in Callers, doing[c].at # "idle"
  PROVE  doing[c] \in Call /\ Its(c) \in Names /\ doing[c].to \in Names
BY DEF BackendTypeOK, Idle, Call, Its

LEMMA HoldEffect ==
  ASSUME BackendTypeOK, NEW n \in Names, NEW p, Hold(n, p)
  PROVE  HoldPid(n, p, pidfile[n]) /\ pidfile[n] \in Pids
BY DEF Hold, BackendTypeOK, Pids

LEMMA CreateEffect ==
  ASSUME BackendTypeOK, Courses, NEW c \in Callers, CreateInstance(c) PROVE Still(c) \/ Grown(c)
<1> USE BackendAssumption DEF On, At
<1>0. CASE ProbeFirst(c)
  BY <1>0 DEF ProbeFirst, Same, Still
<1>1. SUFFICES ASSUME ~ProbeFirst(c), ~Still(c) PROVE Grown(c)
  BY <1>0
<1>2. doing[c] \in Call /\ OnCourse(doing[c]) /\ Its(c) \in Names /\ slot[Its(c)] \subseteq Parts
  <2>1. doing[c].at # "idle"
    BY <1>1 DEF CreateInstance, Stage, LaunchVM, BootVM, RegisterDistro, ProvisionDistro, BuildImage, RunContainer
  <2> QED  BY <2>1, BusyIsCall DEF Courses, BackendTypeOK
<1>3. PICK n \in Names, p \in SUBSET Parts, pid \in Pids : n = Its(c) /\ slot[n] \subseteq p /\ HoldPid(n, p, pid)
         /\ (p \cap {"filled", "up"} \subseteq slot[n] \/ Mark \in p)
         /\ ("yaml" \in p => "yaml" \in slot[n] \/ "dir" \in p)
         /\ ((pid = pidfile[n] /\ ("agent" \in p => "agent" \in slot[n])) \/ (pid = n /\ "up" \in p /\ On("lima")))
  <2>1. CASE Stage(c)
    <3>1. PICK q \in {"template", "dir", "context"} :
             Hold(Its(c), slot[Its(c)] \cup {q}) /\ q \in Parts
      BY <1>2, <2>1 DEF Stage, OnCourse, Parts
    <3> DEFINE p0 == slot[Its(c)] \cup {q}
    <3>2. /\ p0 \in SUBSET Parts /\ slot[Its(c)] \subseteq p0
          /\ \A x \in {"filled", "up", "yaml", "agent"} : x \in p0 => x \in slot[Its(c)]
      BY <1>2, <3>1
    <3>3. HoldPid(Its(c), p0, pidfile[Its(c)]) /\ pidfile[Its(c)] \in Pids
      BY <1>2, <3>1, HoldEffect
    <3> HIDE DEF p0
    <3> QED  BY <1>2, <3>2, <3>3
  <2>3. CASE BootVM(c)
    <3>1. On("lima") /\ Mark = "yaml"
      BY <1>2, <2>3 DEF BootVM, OnCourse, Mark
    <3>2. PICK x \in {{}, {"agent", "up"}, {"agent", "up", "filled"}} :
             Present(Its(c)) /\ HoldPid(Its(c), slot[Its(c)] \cup x, IF x = {} THEN pidfile[Its(c)] ELSE Its(c))
      <4>1. CASE HoldPid(Its(c), slot[Its(c)] \cup {"agent", "up", "filled"}, Its(c)) /\ Present(Its(c))
        BY <4>1
      <4> QED  BY <1>1, <2>3, <4>1 DEF BootVM, Same, Still
    <3> DEFINE p0 == slot[Its(c)] \cup x
               pid0 == IF x = {} THEN pidfile[Its(c)] ELSE Its(c)
    <3>3. pid0 \in Pids /\ p0 \in SUBSET Parts /\ slot[Its(c)] \subseteq p0 /\ "yaml" \in p0
      BY <1>2, <3>1, <3>2 DEF Pids, BackendTypeOK, Parts, Present
    <3>4. ("yaml" \in p0 => "yaml" \in slot[Its(c)])
          /\ \/ pid0 = pidfile[Its(c)] /\ ("agent" \in p0 => "agent" \in slot[Its(c)])
             \/ pid0 = Its(c) /\ "up" \in p0
      BY <3>2
    <3> HIDE DEF p0, pid0
    <3> QED  BY <1>2, <3>1, <3>2, <3>3, <3>4 DEF p0, pid0
  <2> USE <1>2 DEF OnCourse, Parts, Mark, Present, Pids
  <2>2. CASE LaunchVM(c)
    BY <1>1, <2>2, HoldEffect, SMTT(30) DEF LaunchVM, Same, Still
  <2>4. CASE RegisterDistro(c)
    BY <1>1, <2>4, HoldEffect DEF RegisterDistro, Same, Still
  <2>5. CASE ProvisionDistro(c)
    BY <1>1, <2>5, HoldEffect DEF ProvisionDistro, Same, Still
  <2>6. CASE BuildImage(c)
    BY <1>1, <2>6, HoldEffect DEF BuildImage, Same, Still
  <2>7. CASE RunContainer(c)
    BY <1>1, <2>7, HoldEffect DEF RunContainer, Same, Still
  <2> QED  BY <1>1, <2>1, <2>2, <2>3, <2>4, <2>5, <2>6, <2>7 DEF CreateInstance
<1> QED  BY <1>3 DEF Grown

LEMMA PowerEffect ==
  ASSUME BackendTypeOK, Courses, NEW c \in Callers, Power(c)
  PROVE  Still(c) \/ Grown(c) \/ Halted \/ Move(c)
<1> USE BackendAssumption DEF On, At
<1>1. SUFFICES ASSUME ~Move(c), ~Still(c) PROVE Grown(c) \/ Halted
  OBVIOUS
<1>2. doing[c] \in Call /\ OnCourse(doing[c]) /\ Its(c) \in Names /\ slot[Its(c)] \subseteq Parts
  <2>1. doing[c].at # "idle"
    BY <1>1 DEF Power, LimaStart, WslStart, PodmanStart, LimaStop, WslStop, PodmanStop, Powers, Halt, NoRename
  <2> QED  BY <2>1, BusyIsCall DEF Courses, BackendTypeOK
<1>3. CASE LimaStop(c) \/ WslStop(c) \/ PodmanStop(c) \/ Halt(c) \/ NoRename(c)
  BY <1>1, <1>2, <1>3 DEF LimaStop, WslStop, PodmanStop, Halt, NoRename, Fails, Same, Still, Halted
<1>4. CASE LimaStart(c) \/ WslStart(c) \/ PodmanStart(c)
  <2>1. /\ Present(Its(c))
        /\ \/ On("lima") /\ HoldPid(Its(c), slot[Its(c)] \cup {"up", "agent"}, Its(c))
           \/ ~On("lima") /\ HoldPid(Its(c), slot[Its(c)] \cup {"up"}, pidfile[Its(c)])
    BY <1>1, <1>2, <1>4, HoldEffect
    DEF LimaStart, WslStart, PodmanStart, Powers, Fails, Same, Still, Works
  <2>2. PICK p \in SUBSET Parts, pid \in Pids :
           /\ slot[Its(c)] \subseteq p /\ HoldPid(Its(c), p, pid) /\ Mark \in p /\ p \ {"up", "agent"} \subseteq slot[Its(c)]
           /\ ((pid = pidfile[Its(c)] /\ ~On("lima")) \/ (pid = Its(c) /\ "up" \in p /\ On("lima")))
    BY <1>2, <2>1 DEF Parts, Present, Pids, BackendTypeOK
  <2> QED  BY <1>2, <2>2 DEF Grown, Parts
<1> QED  BY <1>1, <1>3, <1>4 DEF Power

LEMMA ImagesEffect ==
  ASSUME BackendTypeOK, Courses, NEW c \in Callers, Images(c)
  PROVE  Still(c) \/ Grown(c) \/ RolledBack(c)
<1> USE BackendAssumption DEF On, At
<1>0. CASE ProbeExport(c) \/ OpenArchive(c) \/ CloseArchive(c)
  BY <1>0 DEF ProbeExport, OpenArchive, CloseArchive, Same, Still
<1>1. SUFFICES ASSUME ~(ProbeExport(c) \/ OpenArchive(c) \/ CloseArchive(c)), ~Still(c)
               PROVE  Grown(c) \/ RolledBack(c)
  BY <1>0
<1>2. /\ doing[c] \in Call /\ OnCourse(doing[c]) /\ Its(c) \in Names /\ slot[Its(c)] \subseteq Parts
      /\ image.pid \in Pids /\ image.of \in Names /\ slot[image.of] \subseteq Parts
  <2>1. doing[c].at # "idle"
    BY <1>1 DEF Images, ProbeImport, FillVM, FillDistro, RollBack, LoadImage
  <2> QED  BY <2>1, BusyIsCall DEF Courses, BackendTypeOK, Pids
<1>3. CASE RollBack(c)
  BY <1>1, <1>3 DEF RollBack, Same, Still, RolledBack
<1>4. CASE FillVM(c)
  <2>1. PICK p \in SUBSET Parts, pid \in {pidfile[Its(c)], image.pid} :
           /\ HoldPid(Its(c), p, pid) /\ slot[Its(c)] \subseteq p /\ p \subseteq slot[Its(c)] \cup {"dir", "yaml", "filled"}
           /\ "dir" \in p /\ ("filled" \in slot[Its(c)] \/ "filled" \notin p \/ "yaml" \in p)
    BY <1>2, <1>4 DEF FillVM, Parts
  <2>2. On("lima") /\ At(c, "fill") /\ pid \in Pids
    BY <1>2, <1>4 DEF FillVM, BackendTypeOK, Pids
  <2> QED  BY <1>2, <2>1, <2>2 DEF Grown, Mark
<1>5. CASE ProbeImport(c) \/ FillDistro(c) \/ LoadImage(c)
  <2>1. PICK n \in Names, p \in SUBSET Parts : Hold(n, p) /\ slot[n] \subseteq p /\ p \subseteq slot[n] \cup {"dir", "reg", "filled", "image"}
           /\ (On("podman") \/ n = Its(c)) /\ ("filled" \in slot[n] \/ "filled" \notin p \/ Mark \in p)
    <3> USE DEF OnCourse, Parts, Mark
    <3>1. CASE ProbeImport(c)
      <4>1. ~On("podman") /\ Hold(Its(c), slot[Its(c)] \cup {"dir"})
        BY <1>1, <3>1 DEF ProbeImport, Same, Still
      <4> QED  BY <1>2, <4>1
    <3>2. CASE FillDistro(c)
      BY <1>1, <1>2, <3>2 DEF FillDistro, Same, Still
    <3>3. CASE LoadImage(c)
      BY <1>1, <1>2, <3>3 DEF LoadImage, Same, Still
    <3> QED  BY <1>5, <3>1, <3>2, <3>3
  <2>2. HoldPid(n, p, pidfile[n]) /\ pidfile[n] \in Pids
    BY <2>1, HoldEffect
  <2> QED  BY <2>1, <2>2 DEF Grown
<1> QED  BY <1>1, <1>3, <1>4, <1>5 DEF Images

LEMMA DestroyEffect ==
  ASSUME BackendTypeOK, Courses, NEW c \in Callers, DestroyInstance(c)
  PROVE  Still(c) \/ Halted \/ Taken(c)
<1> USE BackendAssumption DEF On, At
<1>0. CASE ProbeDestroy(c)
  BY <1>0 DEF ProbeDestroy, Same, Still
<1>1. SUFFICES ASSUME ~ProbeDestroy(c), ~Still(c) PROVE Halted \/ Taken(c)
  BY <1>0
<1>2. doing[c] \in Call /\ OnCourse(doing[c]) /\ Its(c) \in Names /\ slot[Its(c)] \subseteq Parts /\ pidfile[Its(c)] \in Pids
  <2>1. doing[c].at # "idle"
    BY <1>1 DEF DestroyInstance, KillAgent, DeleteVM, UnregisterDistro, RemoveContainer, RemoveImage, Tidy
  <2> QED  BY <2>1, BusyIsCall DEF Courses, BackendTypeOK, Pids
<1>3. CASE KillAgent(c)
  <2>1. pidfile[Its(c)] \in Names /\ HoldPid(pidfile[Its(c)], slot[pidfile[Its(c)]] \ {"agent", "up"}, NoPid)
    BY <1>1, <1>3 DEF KillAgent, Same, Still
  <2>2. slot[pidfile[Its(c)]] \ {"agent", "up"} = slot[pidfile[Its(c)]] \ {"up", "agent"}
    OBVIOUS
  <2> QED  BY <2>1, <2>2 DEF Halted, Down
<1>4. ASSUME ~KillAgent(c)
      PROVE  \E p \in SUBSET Parts, pid \in Pids :
               /\ doing[c].op = "destroy" /\ HoldPid(Its(c), p, pid) /\ p \subseteq slot[Its(c)]
               /\ \/ /\ slot[Its(c)] \cap {Mark, "filled", "up", "agent"} \subseteq p
                     /\ On("lima") => slot[Its(c)] \cap {"dir"} \subseteq p
                     /\ pid = pidfile[Its(c)]
                  \/ /\ p \cap {Mark, "filled", "up"} = {}
                     /\ IF On("lima") THEN At(c, "delete") /\ pid = NoPid ELSE pid = pidfile[Its(c)]
  <2> USE <1>2 DEF OnCourse, Parts, Mark, Pids
  <2>1. CASE DeleteVM(c)
    BY <1>1, <2>1 DEF DeleteVM, Same, Still
  <2>2. CASE UnregisterDistro(c)
    BY <1>1, <2>2, HoldEffect DEF UnregisterDistro, Same, Still
  <2>3. CASE RemoveContainer(c)
    BY <1>1, <2>3, HoldEffect DEF RemoveContainer, Same, Still
  <2>4. CASE RemoveImage(c)
    BY <1>1, <2>4, HoldEffect DEF RemoveImage, Same, Still
  <2>5. CASE Tidy(c)
    BY <1>1, <2>5, HoldEffect DEF Tidy, Same, Still
  <2> QED  BY <1>1, <1>4, <2>1, <2>2, <2>3, <2>4, <2>5 DEF DestroyInstance
<1> QED  BY <1>3, <1>4 DEF Taken

LEMMA CallEffect ==
  ASSUME BackendTypeOK, Courses, NEW c \in Callers, CallStep(c) PROVE Effect(c)
<1>1. CASE Prerequisites(c)
  BY <1>1 DEF Prerequisites, ProbeTool, FetchTool, UnpackTool, ProbeHardware, AskRunning, ProbeFeatures,
              Elevate, TryManager, Same, Still, Effect
<1>2. CASE CreateInstance(c)
  BY <1>2, CreateEffect DEF Effect
<1>3. CASE Power(c)
  BY <1>3, PowerEffect DEF Effect
<1>4. CASE Images(c)
  BY <1>4, ImagesEffect DEF Effect
<1>5. CASE DestroyInstance(c)
  BY <1>5, DestroyEffect DEF Effect
<1>6. CASE KillFails(c)
  BY <1>6 DEF KillFails, Same, Still, Effect
<1> QED  BY <1>1, <1>2, <1>3, <1>4, <1>5, <1>6 DEF CallStep

-----------------------------------------------------------------------------
(* What a step of a caller does to its call.                                *)

LeadsTo(c, s) ==
  /\ OnCourse([doing[c] EXCEPT !.at = s])
  /\ s = "fill" => ProbeImport(c)
  /\ s = "rollback" => FillVM(c) \/ FillDistro(c)
  /\ s = "delete" => KillAgent(c) \/ KillFails(c)
  /\ s = "read" => ProbeExport(c) \/ Halt(c)

\* The call ends, goes on to the next stage, or tries the next manager.
Turn(c) ==
  /\ doing[c] \in Call
  /\ \/ \E r \in {"none", "ok", "err"} : Finish(c, r)
     \/ \E s \in Stages : Proceed(c, s) /\ LeadsTo(c, s)
     \/ /\ At(c, "managers") /\ doing[c].left > 0
        /\ doing' = [doing EXCEPT ![c].left = @ - 1] /\ UNCHANGED <<outcome, made>>

LEMMA CallTurn ==
  ASSUME BackendTypeOK, Courses, NEW c \in Callers, CallStep(c) PROVE Turn(c)
<1> USE BackendAssumption DEF On, At
<1>1. doing[c] \in Call /\ OnCourse(doing[c])
  <2>1. doing[c].at # "idle"
    BY DEF CallStep, Prerequisites, ProbeTool, FetchTool, UnpackTool, ProbeHardware, AskRunning, ProbeFeatures,
           Elevate, TryManager, CreateInstance, ProbeFirst, Stage, LaunchVM, BootVM, RegisterDistro,
           ProvisionDistro, BuildImage, RunContainer, Power, LimaStart, WslStart, PodmanStart, LimaStop,
           WslStop, PodmanStop, Powers, Halt, NoRename, Move, Images, ProbeExport, OpenArchive, CloseArchive,
           ProbeImport, FillVM, FillDistro, RollBack, LoadImage, DestroyInstance, ProbeDestroy, KillAgent,
           KillFails, DeleteVM, UnregisterDistro, RemoveContainer, RemoveImage, Tidy
  <2> QED  BY <2>1, BusyIsCall DEF Courses
<1>2. SUFFICES ASSUME ~\E r \in {"none", "ok", "err"} : Finish(c, r),
                      ~TryManager(c)
               PROVE  \E s \in Stages : Proceed(c, s) /\ LeadsTo(c, s)
  BY <1>1 DEF Turn, TryManager
<1> USE <1>1 DEF Call, OnCourse, LeadsTo, Stages
<1>3. CASE Prerequisites(c)
  <2>1. CASE ProbeTool(c)
    BY <1>2, <2>1 DEF ProbeTool
  <2>2. CASE FetchTool(c) \/ UnpackTool(c) \/ ProbeHardware(c)
    BY <1>2, <2>2 DEF FetchTool, UnpackTool, ProbeHardware
  <2>3. CASE ProbeFeatures(c) \/ Elevate(c)
    BY <1>2, <2>3 DEF ProbeFeatures, Elevate
  <2>4. CASE \/ AskRunning(c, "running", Proceed(c, "features"))
             \/ AskRunning(c, "running2", Proceed(c, "elevate"))
             \/ AskRunning(c, "running3", Finish(c, "err"))
    BY <1>2, <2>4 DEF AskRunning
  <2> QED  BY <1>2, <1>3, <2>1, <2>2, <2>3, <2>4 DEF Prerequisites
<1>4. CASE CreateInstance(c)
  <2>1. CASE ProbeFirst(c)
    <3>1. doing[c].op = "create" /\ \/ On("lima") /\ Proceed(c, "stage")
                                    \/ On("wsl2") /\ Proceed(c, "rootfs")
                                    \/ On("podman") /\ Proceed(c, "context")
      BY <1>2, <2>1 DEF ProbeFirst
    <3> QED  BY <3>1
  <2>2. CASE Stage(c)
    BY <1>2, <2>2 DEF Stage
  <2>3. CASE LaunchVM(c) \/ BootVM(c)
    BY <1>2, <2>3 DEF LaunchVM, BootVM
  <2>4. CASE RegisterDistro(c) \/ ProvisionDistro(c)
    BY <1>2, <2>4 DEF RegisterDistro, ProvisionDistro
  <2>5. CASE BuildImage(c) \/ RunContainer(c)
    BY <1>2, <2>5 DEF BuildImage, RunContainer
  <2> QED  BY <1>4, <2>1, <2>2, <2>3, <2>4, <2>5 DEF CreateInstance
<1>5. CASE Power(c)
  <2>1. ~(LimaStart(c) \/ WslStart(c) \/ PodmanStart(c))
    BY <1>2 DEF LimaStart, WslStart, PodmanStart, Fails
  <2>2. ~(LimaStop(c) \/ WslStop(c) \/ PodmanStop(c))
    BY <1>2 DEF LimaStop, WslStop, PodmanStop, Fails
  <2>3. ~(NoRename(c) \/ Move(c))
    BY <1>2 DEF NoRename, Move
  <2>4. /\ Halt(c) /\ On("lima")
        /\ \E s \in {"move", "read"} : Proceed(c, s) /\ (s = "move" <=> doing[c].op = "rename")
    BY <1>5, <2>1, <2>2, <2>3 DEF Power, Halt
  <2>5. At(c, "halt")
    BY <2>4 DEF Halt
  <2> QED  BY <2>4, <2>5
<1>6. CASE Images(c)
  <2>1. CASE ProbeExport(c)
    <3>1. doing[c].op = "export" /\ ((On("lima") /\ Proceed(c, "halt")) \/ (~On("lima") /\ Proceed(c, "read")))
      BY <1>2, <2>1 DEF ProbeExport
    <3> QED  BY <2>1, <3>1
  <2>5. CASE OpenArchive(c) \/ CloseArchive(c)
    BY <1>2, <2>5 DEF OpenArchive, CloseArchive
  <2>2. CASE ProbeImport(c)
    <3>1. doing[c].op = "import" /\ ((On("podman") /\ Proceed(c, "load")) \/ (~On("podman") /\ Proceed(c, "fill")))
      BY <1>2, <2>2 DEF ProbeImport
    <3> QED  BY <2>2, <3>1
  <2>3. CASE FillVM(c) \/ FillDistro(c)
    <3>1. Proceed(c, "rollback") /\ At(c, "fill")
      BY <1>2, <2>3 DEF FillVM, FillDistro
    <3> QED  BY <2>3, <3>1
  <2>4. CASE RollBack(c) \/ LoadImage(c)
    BY <1>2, <2>4 DEF RollBack, LoadImage
  <2> QED  BY <1>6, <2>1, <2>2, <2>3, <2>4, <2>5 DEF Images
<1>7. CASE DestroyInstance(c)
  <2>1. CASE ProbeDestroy(c)
    <3>1. doing[c].op = "destroy" /\ \/ On("lima") /\ Proceed(c, "kill")
                                     \/ On("wsl2") /\ Proceed(c, "unregister")
                                     \/ On("podman") /\ Proceed(c, "remove")
      BY <1>2, <2>1 DEF ProbeDestroy
    <3> QED  BY <3>1
  <2>2. CASE KillAgent(c)
    BY <1>2, <2>2 DEF KillAgent
  <2>3. CASE DeleteVM(c) \/ UnregisterDistro(c) \/ RemoveContainer(c) \/ RemoveImage(c) \/ Tidy(c)
    BY <1>2, <2>3 DEF DeleteVM, UnregisterDistro, RemoveContainer, RemoveImage, Tidy
  <2> QED  BY <1>7, <2>1, <2>2, <2>3 DEF DestroyInstance
<1>8. CASE KillFails(c)
  BY <1>2, <1>8 DEF KillFails
<1> QED  BY <1>2, <1>3, <1>4, <1>5, <1>6, <1>7, <1>8 DEF CallStep

LEMMA TurnKeeps ==
  ASSUME BackendTypeOK, Courses, NEW c \in Callers, Turn(c)
  PROVE  /\ doing' \in [Callers -> Call \cup {Idle}]
         /\ outcome' \in [Callers -> {"none", "ok", "err"}]
         /\ made' \in 0..MaxOps
         /\ Courses'
         /\ \A d \in Callers \ {c} : doing'[d] = doing[d]
         /\ doing'[c] \in Call => /\ doing'[c].name = doing[c].name
                                  /\ \/ doing'[c].at = doing[c].at /\ At(c, "managers")
                                     \/ LeadsTo(c, doing'[c].at)
<1> DEFINE d1 == doing[c]
<1>1. d1 \in Call /\ OnCourse(d1)
  BY DEF Turn, Courses
<1>2. doing \in [Callers -> Call \cup {Idle}] /\ outcome \in [Callers -> {"none", "ok", "err"}] /\ made \in 0..MaxOps
  BY DEF BackendTypeOK
<1>3. CASE \E r \in {"none", "ok", "err"} : Finish(c, r)
  <2>1. Idle \notin Call
    BY DEF Call, Idle, Stages
  <2>2. /\ doing' = [doing EXCEPT ![c] = Idle] /\ made' = made
        /\ \E r \in {"none", "ok", "err"} : outcome' = [outcome EXCEPT ![c] = r]
    BY <1>3 DEF Finish
  <2> QED  BY <1>2, <2>1, <2>2 DEF Courses
<1>4. ASSUME NEW s \in Stages, Proceed(c, s), LeadsTo(c, s)
      PROVE  /\ doing' = [doing EXCEPT ![c] = [d1 EXCEPT !.at = s]]
             /\ [d1 EXCEPT !.at = s] \in Call /\ [d1 EXCEPT !.at = s].at = s /\ [d1 EXCEPT !.at = s].name = d1.name
             /\ OnCourse([d1 EXCEPT !.at = s]) /\ UNCHANGED <<outcome, made>>
  BY <1>1, <1>4 DEF Proceed, LeadsTo, Call
<1>5. CASE \E s \in Stages : Proceed(c, s) /\ LeadsTo(c, s)
  <2>1. PICK s \in Stages : Proceed(c, s) /\ LeadsTo(c, s)
    BY <1>5
  <2>2. DEFINE d2 == [d1 EXCEPT !.at = s]
  <2>3. /\ doing' = [doing EXCEPT ![c] = d2] /\ d2 \in Call /\ d2.at = s /\ d2.name = d1.name
        /\ OnCourse(d2) /\ UNCHANGED <<outcome, made>>
    BY <1>4, <2>1
  <2> HIDE DEF d2
  <2>4. doing'[c] = d2 /\ \A d \in Callers \ {c} : doing'[d] = doing[d]
    BY <1>2, <2>3
  <2>5. Courses'
    BY <2>3, <2>4 DEF Courses, OnCourse, On
  <2> QED  BY <1>2, <2>1, <2>3, <2>4, <2>5
<1>6. CASE /\ At(c, "managers") /\ doing[c].left > 0
           /\ doing' = [doing EXCEPT ![c].left = @ - 1] /\ UNCHANGED <<outcome, made>>
  <2>2. DEFINE d2 == [d1 EXCEPT !.left = @ - 1]
  <2>3. /\ doing' = [doing EXCEPT ![c] = d2] /\ d2 \in Call /\ d2.at = d1.at /\ d2.name = d1.name
        /\ d2.op = d1.op /\ d2.to = d1.to
    BY <1>1, <1>6 DEF Call
  <2> HIDE DEF d2
  <2>4. doing'[c] = d2 /\ \A d \in Callers \ {c} : doing'[d] = doing[d]
    BY <1>2, <2>3
  <2>5. Courses'
    BY <1>1, <2>3, <2>4 DEF Courses, OnCourse, On
  <2> QED  BY <1>2, <1>6, <2>3, <2>4, <2>5
<1> QED  BY <1>3, <1>5, <1>6 DEF Turn

-----------------------------------------------------------------------------
(* Types, and that every call keeps to its course.                          *)

LEMMA HoldIs ==
  ASSUME BackendTypeOK, NEW n \in Names, NEW p \in SUBSET Parts, NEW pid \in Pids, HoldPid(n, p, pid)
  PROVE  /\ slot' = [slot EXCEPT ![n] = p]
         /\ pidfile' \in [Names -> Pids]
         /\ pidfile'[n] = pid
         /\ \A m \in Names \ {n} : \/ pidfile'[m] = pidfile[m]
                                   \/ pidfile[m] = n /\ "agent" \notin p /\ pidfile'[m] = StalePid
         /\ image' \in [is : {"none", "reading", "whole", "torn"}, of : Names, pid : Pids]
         /\ image'.pid \in {image.pid, StalePid}
         /\ image'.is = image.is \/ image'.is = "torn"
         /\ Reading(n) /\ "up" \in p => image'.is = "torn"
<1> DEFINE old(q) == IF q = n /\ "agent" \notin p THEN StalePid ELSE q
           is == IF Reading(n) /\ "up" \in p THEN "torn" ELSE image.is
<1>1. image \in [is : {"none", "reading", "whole", "torn"}, of : Names, pid : Pids] /\ pidfile \in [Names -> Pids]
  BY DEF BackendTypeOK, Pids
<1>2. \A q \in Pids : old(q) \in Pids /\ old(q) \in {q, StalePid}
  BY DEF Pids
<1>3. image' = [is |-> is, of |-> image.of, pid |-> old(image.pid)]
  BY <1>1 DEF HoldPid
<1>4. pidfile' = [m \in Names |-> IF m = n THEN pid ELSE old(pidfile[m])] /\ slot' = [slot EXCEPT ![n] = p]
  BY DEF HoldPid
<1>5. pidfile' \in [Names -> Pids]
  BY <1>1, <1>2, <1>4
<1>6. /\ pidfile'[n] = pid
      /\ \A m \in Names \ {n} : \/ pidfile'[m] = pidfile[m]
                                \/ pidfile[m] = n /\ "agent" \notin p /\ pidfile'[m] = StalePid
  BY <1>4
<1>7. is \in {"none", "reading", "whole", "torn"} /\ (is = image.is \/ is = "torn") /\ (Reading(n) /\ "up" \in p => is = "torn")
  BY <1>1
<1>8. old(image.pid) \in Pids /\ old(image.pid) \in {image.pid, StalePid}
  BY <1>1, <1>2
<1> HIDE DEF old, is
<1>9. image' \in [is : {"none", "reading", "whole", "torn"}, of : Names, pid : Pids]
      /\ image'.is = is /\ image'.pid = old(image.pid)
  BY <1>1, <1>3, <1>7, <1>8
<1> QED  BY <1>4, <1>5, <1>6, <1>7, <1>8, <1>9

LEMMA MoveIs ==
  ASSUME BackendTypeOK, Courses, NEW c \in Callers, Move(c), ~Still(c)
  PROVE  /\ Its(c) \in Names /\ doing[c].to \in Names /\ doing[c].to # Its(c) /\ On("lima")
         /\ Present(Its(c)) /\ "up" \notin slot[Its(c)] /\ "dir" \notin slot[doing[c].to]
         /\ slot' \in [Names -> SUBSET Parts] /\ pidfile' \in [Names -> Pids] /\ image' = image
         /\ slot'[Its(c)] = slot[Its(c)] \cap {"template", "agent"}
         /\ slot'[doing[c].to] = slot[doing[c].to] \cup (slot[Its(c)] \ {"template", "agent"})
         /\ pidfile'[Its(c)] = NoPid /\ pidfile'[doing[c].to] = pidfile[Its(c)]
         /\ \A n \in Names \ {Its(c), doing[c].to} : slot'[n] = slot[n] /\ pidfile'[n] = pidfile[n]
<1> DEFINE n == Its(c)
           m == doing[c].to
<1>1. doing[c] \in Call /\ n \in Names /\ m \in Names
  BY BusyIsCall DEF Move, At
<1>2. m # n /\ On("lima")
  BY <1>1 DEF Courses, OnCourse, Move, At, Its, Call
<1>3. /\ Works(c) /\ "up" \notin slot[n] /\ "dir" \notin slot[m] /\ image' = image
      /\ slot' = [slot EXCEPT ![n] = @ \cap {"template", "agent"}, ![m] = @ \cup (slot[n] \ {"template", "agent"})]
      /\ pidfile' = [pidfile EXCEPT ![n] = NoPid, ![m] = pidfile[n]]
  BY DEF Move, Still
<1>4. slot \in [Names -> SUBSET Parts] /\ pidfile \in [Names -> Pids]
  BY DEF BackendTypeOK, Pids
<1> HIDE DEF n, m
<1>5. /\ slot' \in [Names -> SUBSET Parts] /\ pidfile' \in [Names -> Pids]
      /\ slot'[n] = slot[n] \cap {"template", "agent"} /\ slot'[m] = slot[m] \cup (slot[n] \ {"template", "agent"})
      /\ pidfile'[n] = NoPid /\ pidfile'[m] = pidfile[n]
      /\ \A k \in Names \ {n, m} : slot'[k] = slot[k] /\ pidfile'[k] = pidfile[k]
  BY <1>1, <1>2, <1>3, <1>4 DEF Pids
<1> QED  BY <1>1, <1>2, <1>3, <1>5 DEF n, m, Works

LEMMA EffectTypes ==
  ASSUME BackendTypeOK, Courses, NEW c \in Callers, CallStep(c), ~Still(c)
  PROVE  /\ slot' \in [Names -> SUBSET Parts] /\ pidfile' \in [Names -> Pids]
         /\ image' \in [is : {"none", "reading", "whole", "torn"}, of : Names, pid : Pids]
<1>1. Effect(c) /\ doing[c] \in Call
  BY CallEffect, CallTurn DEF Turn
<1>2. slot \in [Names -> SUBSET Parts] /\ Its(c) \in Names
      /\ image \in [is : {"none", "reading", "whole", "torn"}, of : Names, pid : Pids]
  BY <1>1 DEF BackendTypeOK, Call, Its, Pids
<1>3. ASSUME NEW n \in Names, NEW p \in SUBSET Parts, NEW pid \in Pids, HoldPid(n, p, pid)
      PROVE  /\ slot' \in [Names -> SUBSET Parts] /\ pidfile' \in [Names -> Pids]
             /\ image' \in [is : {"none", "reading", "whole", "torn"}, of : Names, pid : Pids]
  BY <1>2, <1>3, HoldIs
<1>4. CASE Grown(c)
  BY <1>3, <1>4 DEF Grown
<1>5. CASE Halted
  BY <1>2, <1>3, <1>5 DEF Halted, Down, Pids
<1>6. CASE Taken(c)
  BY <1>2, <1>3, <1>6 DEF Taken
<1>7. CASE RolledBack(c)
  BY <1>2, <1>3, <1>7 DEF RolledBack, Pids
<1>8. CASE Move(c)
  BY <1>2, <1>8, MoveIs
<1> QED  BY <1>1, <1>4, <1>5, <1>6, <1>7, <1>8 DEF Effect

LEMMA MissedKeeps == ASSUME BackendTypeOK, BackendNext PROVE missed' \subseteq Names
<1>1. ASSUME NEW c \in Callers, KillFails(c) PROVE Its(c) \in Names
  <2>1. doing[c].at # "idle"
    BY <1>1 DEF KillFails, At
  <2> QED  BY <2>1, BusyIsCall
<1>2. missed \subseteq Names
  BY DEF BackendTypeOK
<1> QED  BY <1>1, <1>2 DEF BackendNext, KillFails, Reboot

LEMMA BaseKeeps ==
  ASSUME BackendTypeOK, Courses, BackendNext PROVE BackendTypeOK' /\ Courses'
<1> USE BackendAssumption
<1>m. missed' \subseteq Names
  BY MissedKeeps
<1>0. /\ image \in [is : {"none", "reading", "whole", "torn"}, of : Names, pid : Pids]
      /\ pidfile \in [Names -> Pids] /\ NoPid \in Pids /\ StalePid \in Pids
      /\ slot \in [Names -> SUBSET Parts] /\ doing \in [Callers -> Call \cup {Idle}]
      /\ Idle \notin Call /\ made \in 0..MaxOps /\ outcome \in [Callers -> {"none", "ok", "err"}]
      /\ tool \in {"none", "broken", "bare", "owed", "whole"} /\ missed \subseteq Names
  BY DEF BackendTypeOK, Pids, Idle, Call, Stages
<1>1. ASSUME NEW i \in {"none", "reading", "whole", "torn"}, image' = [image EXCEPT !.is = i]
      PROVE  image' \in [is : {"none", "reading", "whole", "torn"}, of : Names, pid : Pids]
  BY <1>0, <1>1
<1>2. ASSUME NEW c \in Callers, Ask(c) PROVE BackendTypeOK' /\ Courses'
  <2>1. PICK op \in Ops, n \in Names, m \in Names :
           /\ (op = "rename") <=> (m # n)
           /\ doing' = [doing EXCEPT ![c] = [op |-> op, at |-> FirstStage(op), name |-> n, to |-> m, left |-> 4]]
    BY <1>2 DEF Ask
  <2> DEFINE d == [op |-> op, at |-> FirstStage(op), name |-> n, to |-> m, left |-> 4]
  <2>2. FirstStage(op) \in {"probe", "present", "power", "halt"} /\ (FirstStage(op) = "halt" => op = "rename")
    BY <2>1 DEF FirstStage, AllOps
  <2>3. d \in Call /\ OnCourse(d)
    <3> HIDE DEF FirstStage
    <3>1. FirstStage(op) \in Stages /\ op \in AllOps
      BY <2>2 DEF Stages
    <3>2. d \in Call
      BY <3>1 DEF Call
    <3>3. OnCourse(d)
      BY <2>1, <2>2 DEF OnCourse
    <3> QED  BY <3>2, <3>3
  <2> HIDE DEF d
  <2>4. doing' = [doing EXCEPT ![c] = d]
    BY <2>1 DEF d
  <2>5. Courses'
    BY <1>0, <2>3, <2>4 DEF Courses, OnCourse, On
  <2>6. doing' \in [Callers -> Call \cup {Idle}]
    BY <1>0, <2>3, <2>4
  <2>7. made' \in 0..MaxOps
    BY <1>0, <1>2 DEF Ask
  <2>8. outcome' \in [Callers -> {"none", "ok", "err"}] /\ UNCHANGED <<tool, slot, pidfile, image>>
    BY <1>0, <1>2 DEF Ask
  <2> QED  BY <1>0, <1>m, <2>5, <2>6, <2>7, <2>8 DEF BackendTypeOK, Pids
<1>3. ASSUME NEW c \in Callers, Dies(c) \/ GivesUp(c) PROVE BackendTypeOK' /\ Courses'
  <2>1. \E r \in {"none", "err"} : Finish(c, r)
    BY <1>3 DEF Dies, GivesUp
  <2>2. /\ doing' \in [Callers -> Call \cup {Idle}] /\ outcome' \in [Callers -> {"none", "ok", "err"}] /\ made' = made
        /\ Courses'
    BY <1>0, <2>1 DEF Finish, Courses, OnCourse, On
  <2>3. UNCHANGED <<tool, slot, pidfile>> /\ image' \in [is : {"none", "reading", "whole", "torn"}, of : Names, pid : Pids]
    BY <1>0, <1>1, <1>3 DEF Dies, GivesUp
  <2> QED  BY <1>0, <1>m, <2>2, <2>3 DEF BackendTypeOK, Pids
<1>4. ASSUME NEW c \in Callers, CallStep(c) PROVE BackendTypeOK' /\ Courses'
  <2>1. Turn(c) /\ doing[c] \in Call
    BY <1>4, CallTurn DEF Turn
  <2>2. /\ doing' \in [Callers -> Call \cup {Idle}] /\ outcome' \in [Callers -> {"none", "ok", "err"}]
        /\ made' \in 0..MaxOps /\ Courses'
    BY <2>1, TurnKeeps
  <2>3. tool' \in {"none", "broken", "bare", "owed", "whole"}
    <3>1. CASE Prerequisites(c)
      BY <1>0, <3>1 DEF Prerequisites, ProbeTool, FetchTool, UnpackTool, ProbeHardware, AskRunning, ProbeFeatures,
                        Elevate, TryManager
    <3>2. CASE CreateInstance(c)
      BY <1>0, <3>2 DEF CreateInstance, ProbeFirst, Stage, LaunchVM, BootVM, RegisterDistro,
                        ProvisionDistro, BuildImage, RunContainer
    <3>3. CASE Power(c)
      BY <1>0, <3>3 DEF Power, LimaStart, WslStart, PodmanStart, LimaStop, WslStop, PodmanStop, Powers, Halt,
                        NoRename, Move
    <3>4. CASE Images(c)
      BY <1>0, <3>4 DEF Images, ProbeExport, OpenArchive, CloseArchive, ProbeImport, FillVM, FillDistro, RollBack, LoadImage
    <3>5. CASE DestroyInstance(c)
      BY <1>0, <3>5 DEF DestroyInstance, ProbeDestroy, KillAgent, DeleteVM, UnregisterDistro, RemoveContainer,
                        RemoveImage, Tidy
    <3>6. CASE KillFails(c)
      BY <1>0, <3>6 DEF KillFails
    <3> QED  BY <1>4, <3>1, <3>2, <3>3, <3>4, <3>5, <3>6 DEF CallStep
  <2>4. CASE ~Still(c)
    BY <1>4, <1>m, <2>2, <2>3, <2>4, EffectTypes DEF BackendTypeOK, Pids
  <2>5. CASE Still(c)
    <3>1. image' \in [is : {"none", "reading", "whole", "torn"}, of : Names, pid : Pids]
      <4>0. CASE image' = image
        BY <1>0, <4>0
      <4>1. CASE OpenArchive(c)
        <5>1. Its(c) \in Names
          BY <2>1 DEF Call, Its
        <5> QED  BY <1>0, <4>1, <5>1 DEF OpenArchive
      <4>2. CASE CloseArchive(c)
        BY <1>0, <1>1, <4>2 DEF CloseArchive
      <4> QED  BY <2>5, <4>0, <4>1, <4>2 DEF Still
    <3> QED  BY <1>0, <1>m, <2>2, <2>3, <2>5, <3>1 DEF BackendTypeOK, Pids, Still
  <2> QED  BY <2>4, <2>5
<1>5. CASE Reboot
  <2>1. slot' \in [Names -> SUBSET Parts] /\ pidfile' \in [Names -> Pids]
    BY <1>0, <1>5 DEF Reboot
  <2>2. doing' \in [Callers -> Call \cup {Idle}] /\ Courses' /\ outcome' \in [Callers -> {"none", "ok", "err"}] /\ made' = made
    BY <1>0, <1>5 DEF Reboot, Courses
  <2>3. tool' \in {"none", "broken", "bare", "owed", "whole"}
    BY <1>0, <1>5 DEF Reboot
  <2>4. image' \in [is : {"none", "reading", "whole", "torn"}, of : Names, pid : Pids]
    <3>1. image' = [is |-> IF image.is = "reading" THEN "torn" ELSE image.is, of |-> image.of,
                    pid |-> IF image.pid = NoPid THEN NoPid ELSE StalePid]
      BY <1>0, <1>5 DEF Reboot
    <3> QED  BY <1>0, <3>1
  <2> QED  BY <1>0, <1>m, <2>1, <2>2, <2>3, <2>4 DEF BackendTypeOK, Pids
<1> QED  BY <1>2, <1>3, <1>4, <1>5 DEF BackendNext, CallStep

\* The types of the backends' state (SandboxBackend, BackendTypeOK), whoever
\* calls and whatever goes wrong.
THEOREM BackendTypes == BackendSpec => []BackendTypeOK
<1>1. BackendInit => BackendTypeOK /\ Courses
  BY BackendAssumption DEF BackendInit, BackendTypeOK, Courses, Idle, Call, Stages
<1>2. BackendTypeOK /\ Courses /\ [BackendNext]_backend => BackendTypeOK' /\ Courses'
  <2>1. ASSUME BackendTypeOK, Courses, UNCHANGED backend PROVE BackendTypeOK' /\ Courses'
    BY <2>1 DEF backend, BackendTypeOK, Courses, OnCourse, On
  <2> QED  BY <2>1, BaseKeeps
<1> QED  BY <1>1, <1>2, PTL DEF BackendSpec

-----------------------------------------------------------------------------
(* What is filled has its mark, a yaml file its directory.                  *)

Marked ==
  \A n \in Names :
    /\ "filled" \in slot[n] => Present(n)
    /\ On("lima") /\ "yaml" \in slot[n] => "dir" \in slot[n]

LEMMA MarkIs == IF On("lima") THEN Mark = "yaml" ELSE Mark \in {"reg", "container"}
BY BackendAssumption DEF Mark, On

LEMMA MarkedKeeps ==
  ASSUME BackendTypeOK, Courses, Marked, BackendNext PROVE Marked'
<1> USE BackendAssumption, MarkIs
<1>1. ASSUME UNCHANGED slot PROVE Marked'
  BY <1>1 DEF Marked, Present, On, Mark
<1>2. slot \in [Names -> SUBSET Parts]
  BY DEF BackendTypeOK
<1>3. ASSUME NEW n \in Names, NEW p, slot' = [slot EXCEPT ![n] = p],
             "filled" \in p => Mark \in p, On("lima") /\ "yaml" \in p => "dir" \in p
      PROVE  Marked'
  BY <1>2, <1>3 DEF Marked, Present, On, Mark
<1>4. ASSUME NEW c \in Callers, CallStep(c) PROVE Marked'
  <2>1. Effect(c) /\ Its(c) \in Names
    BY <1>4, CallEffect, CallTurn DEF Turn, Call, Its
  <2>2. CASE Still(c)
    BY <1>1, <2>2 DEF Still
  <2>3. CASE Grown(c)
    <3>1. PICK n \in Names, p \in SUBSET Parts, pid \in Pids :
            /\ HoldPid(n, p, pid) /\ slot[n] \subseteq p
            /\ (p \cap {"filled", "up"} \subseteq slot[n] \/ Mark \in p)
            /\ ("yaml" \in p => "yaml" \in slot[n] \/ "dir" \in p)
      BY <2>3 DEF Grown
    <3>2. slot' = [slot EXCEPT ![n] = p]
      BY <3>1 DEF HoldPid
    <3>3. ("filled" \in p => Mark \in p) /\ (On("lima") /\ "yaml" \in p => "dir" \in p)
      BY <3>1 DEF Marked, Present
    <3> QED  BY <1>3, <3>2, <3>3
  <2>4. CASE Halted
    <3>1. PICK n \in Names : slot' = [slot EXCEPT ![n] = slot[n] \ {"up", "agent"}]
      BY <2>4 DEF Halted, Down, HoldPid
    <3> QED  BY <1>3, <3>1 DEF Marked, Present
  <2>5. CASE Taken(c)
    <3>1. PICK p \in SUBSET Parts :
            /\ slot' = [slot EXCEPT ![Its(c)] = p] /\ p \subseteq slot[Its(c)]
            /\ \/ /\ slot[Its(c)] \cap {Mark, "filled", "up", "agent"} \subseteq p
                  /\ On("lima") => slot[Its(c)] \cap {"dir"} \subseteq p
               \/ p \cap {Mark, "filled", "up"} = {}
      BY <2>5 DEF Taken, HoldPid
    <3> QED  BY <1>3, <2>1, <3>1 DEF Marked, Present
  <2>6. CASE RolledBack(c)
    <3>1. slot' = [slot EXCEPT ![Its(c)] = slot[Its(c)] \ {"dir", "yaml", "filled"}]
      BY <2>6 DEF RolledBack, HoldPid
    <3> QED  BY <1>3, <2>1, <3>1 DEF Marked, Present
  <2>7. CASE Move(c) /\ ~Still(c)
    BY <2>7, MoveIs DEF Marked, Present, On, Mark
  <2> QED  BY <2>1, <2>2, <2>3, <2>4, <2>5, <2>6, <2>7 DEF Effect
<1>5. CASE Reboot
  BY <1>2, <1>5 DEF Reboot, Marked, Present, On, Mark
<1> QED  BY <1>1, <1>4, <1>5 DEF BackendNext, CallStep, Ask, Dies, GivesUp

-----------------------------------------------------------------------------
(* One caller, whose probes are not wrong.                                  *)

SureProbes == On("wsl2") => "probe" \notin Mishaps

\* An import fills, and rolls back, a name under which no machine was.
Filling ==
  \A c \in Callers :
    /\ At(c, "fill") => ~Present(Its(c))
    /\ At(c, "fill") \/ At(c, "rollback") =>
         /\ "filled" \notin slot[Its(c)]
         /\ IF On("lima") THEN "up" \notin slot[Its(c)] ELSE ~Present(Its(c))

UpMarked == On("lima") => \A n \in Names : "up" \in slot[n] => Present(n)

\* A running agent has its VM up and its pid in its own directory, until a
\* destroy has ended it or failed to.
Agents ==
  On("lima") =>
    /\ \A n \in Names \ missed : "agent" \in slot[n] => "up" \in slot[n] /\ pidfile[n] = n
    /\ \A c \in Callers : At(c, "delete") => "agent" \notin slot[Its(c)] \/ Its(c) \in missed

AloneInv == Filling /\ UpMarked /\ Agents

LEMMA AloneCallKeeps ==
  ASSUME BackendTypeOK, Courses, Marked, AloneInv, SureProbes, NEW c, Callers = {c}, CallStep(c),
         KillFails(c) \/ missed' = missed
  PROVE  AloneInv'
<1> USE BackendAssumption, MarkIs DEF On, At, Present
<1> DEFINE n == Its(c)
<1>0. c \in Callers /\ SureProbes'
  BY DEF SureProbes
<1>1. /\ Effect(c) /\ doing[c] \in Call /\ n \in Names /\ Turn(c) /\ OnCourse(doing[c])
      /\ slot \in [Names -> SUBSET Parts] /\ pidfile \in [Names -> Pids]
      /\ doing' \in [Callers -> Call \cup {Idle}] /\ Mark' = Mark
  BY <1>0, CallEffect, CallTurn, TurnKeeps DEF Turn, Call, Its, BackendTypeOK, Pids, Mark, Courses
<1>2. doing'[c] \in Call =>
         /\ Its(c)' = n
         /\ (doing[c].at = "managers" /\ doing'[c].at = "managers") \/ LeadsTo(c, doing'[c].at)
  BY <1>0, <1>1, TurnKeeps DEF Its
<1>m. missed \subseteq missed'
  BY DEF KillFails
<1>3. ASSUME On("lima")
      PROVE  \A m \in Names :
               /\ "up" \in slot'[m] => "yaml" \in slot'[m]
               /\ "agent" \in slot'[m] /\ m \notin missed => "up" \in slot'[m] /\ pidfile'[m] = m
  <2>0. /\ \A m \in Names : "up" \in slot[m] => "yaml" \in slot[m]
        /\ \A m \in Names \ missed : "agent" \in slot[m] => "up" \in slot[m] /\ pidfile[m] = m
        /\ doing[c].at = "delete" => "agent" \notin slot[n] \/ n \in missed
        /\ doing[c].at \in {"fill", "rollback"} => "up" \notin slot[n]
        /\ Mark = "yaml"
    BY <1>0, <1>3 DEF AloneInv, UpMarked, Agents, Filling
  <2>1. ASSUME NEW m \in Names, NEW p, NEW pid, HoldPid(m, p, pid),
               "up" \in p => "yaml" \in p, "agent" \in p /\ m \notin missed => "up" \in p /\ pid = m
        PROVE  \A k \in Names :
                 /\ "up" \in slot'[k] => "yaml" \in slot'[k]
                 /\ "agent" \in slot'[k] /\ k \notin missed => "up" \in slot'[k] /\ pidfile'[k] = k
    <3>1. slot' = [slot EXCEPT ![m] = p] /\ pidfile'[m] = pid
          /\ \A k \in Names \ {m} : pidfile'[k] = pidfile[k] \/ pidfile[k] = m
      BY <2>1 DEF HoldPid
    <3> QED  BY <1>1, <2>0, <2>1, <3>1
  <2>2. CASE Still(c)
    BY <2>0, <2>2 DEF Still
  <2>3. CASE Grown(c)
    <3>1. PICK m \in Names, p \in SUBSET Parts, pid \in Pids :
            /\ HoldPid(m, p, pid) /\ slot[m] \subseteq p /\ m = n
            /\ (p \cap {"filled", "up"} \subseteq slot[m] \/ Mark \in p)
            /\ ("agent" \in p => (pid = m /\ "up" \in p) \/ ("agent" \in slot[m] /\ (pid = pidfile[m] \/ At(c, "fill"))))
      BY <1>3, <2>3 DEF Grown
    <3>2. "up" \in p => "yaml" \in p
      BY <2>0, <3>1
    <3>3. "agent" \in p /\ m \notin missed => "up" \in p /\ pid = m
      BY <2>0, <3>1
    <3> QED  BY <2>1, <3>1, <3>2, <3>3
  <2>4. CASE Halted
    BY <2>1, <2>4 DEF Halted, Down
  <2>5. CASE Taken(c)
    <3>1. PICK p \in SUBSET Parts, pid \in Pids :
            /\ HoldPid(n, p, pid) /\ p \subseteq slot[n]
            /\ \/ slot[n] \cap {Mark, "filled", "up", "agent"} \subseteq p /\ pid = pidfile[n]
               \/ p \cap {Mark, "filled", "up"} = {} /\ At(c, "delete")
      BY <1>3, <2>5 DEF Taken
    <3> QED  BY <1>1, <2>0, <2>1, <3>1
  <2>6. CASE RolledBack(c)
    <3> DEFINE p == slot[n] \ {"dir", "yaml", "filled"}
    <3>1. HoldPid(n, p, NoPid) /\ "up" \notin p /\ ("agent" \notin p \/ n \in missed)
      BY <1>1, <2>0, <2>6 DEF RolledBack
    <3> HIDE DEF p
    <3> QED  BY <1>1, <2>1, <3>1
  <2>7. CASE Move(c) /\ ~Still(c)
    <3> DEFINE m == doing[c].to
    <3>1. /\ m \in Names /\ m # n /\ Present(n) /\ "up" \notin slot[n] /\ "dir" \notin slot[m]
          /\ slot'[n] = slot[n] \cap {"template", "agent"} /\ slot'[m] = slot[m] \cup (slot[n] \ {"template", "agent"})
          /\ \A k \in Names \ {n, m} : slot'[k] = slot[k] /\ pidfile'[k] = pidfile[k]
      BY <1>0, <2>7, MoveIs
    <3>2. /\ "yaml" \notin slot[m] /\ "up" \notin slot[m]
          /\ "agent" \notin slot[m] \/ m \in missed
          /\ "agent" \notin slot[n] \/ n \in missed
      BY <1>1, <1>3, <2>0, <3>1 DEF Marked
    <3> HIDE DEF m, n
    <3> QED  BY <2>0, <3>1, <3>2
  <2> QED  BY <1>1, <2>2, <2>3, <2>4, <2>5, <2>6, <2>7 DEF Effect
<1>4. Filling'
  <2> SUFFICES ASSUME doing'[c].at \in {"fill", "rollback"}
               PROVE  /\ doing'[c].at = "fill" => Mark \notin slot'[Its(c)']
                      /\ "filled" \notin slot'[Its(c)']
                      /\ IF On("lima") THEN "up" \notin slot'[Its(c)'] ELSE Mark \notin slot'[Its(c)']
    BY <1>0, <1>1 DEF Filling
  <2>1. doing'[c] \in Call /\ Its(c)' = n /\ LeadsTo(c, doing'[c].at) /\ ~On("podman")
        /\ \A r \in {"none", "ok", "err"} : ~Finish(c, r)
    <3>1. doing'[c].at # "idle" /\ doing'[c].at # "managers"
      OBVIOUS
    <3>2. doing'[c] \in Call
      BY <1>0, <1>1, <3>1 DEF Idle
    <3>3. LeadsTo(c, doing'[c].at)
      BY <1>2, <3>1, <3>2
    <3>4. \A r \in {"none", "ok", "err"} : ~Finish(c, r)
      BY <1>0, <3>1 DEF Finish, Idle, BackendTypeOK
    <3>5. ~On("podman")
      BY <1>1, <3>3 DEF LeadsTo, OnCourse, Call
    <3> QED  BY <1>2, <3>2, <3>3, <3>4, <3>5
  <2>2. CASE doing'[c].at = "fill"
    <3>1. FALSE \in Probed(n) /\ slot' = [slot EXCEPT ![n] = slot[n] \cup {"dir"}]
      BY <2>1, <2>2 DEF LeadsTo, ProbeImport, Hold, HoldPid
    <3>2. ~(~On("lima") /\ "probe" \in Mishaps)
      BY <2>1 DEF SureProbes
    <3>3. ~Present(n)
      BY <3>1, <3>2, Zenon DEF Probed
    <3>4. "filled" \notin slot[n] /\ (On("lima") => "up" \notin slot[n])
      BY <1>1, <3>3 DEF Marked, AloneInv, UpMarked
    <3> QED  BY <1>1, <2>1, <3>1, <3>3, <3>4
  <2>3. CASE doing'[c].at = "rollback"
    <3>1. FillVM(c) \/ FillDistro(c)
      BY <2>1, <2>3 DEF LeadsTo
    <3>2. "filled" \notin slot[n] /\ ~Present(n) /\ (On("lima") => "up" \notin slot[n])
      BY <1>0, <3>1 DEF AloneInv, Filling, FillVM, FillDistro
    <3>3. CASE FillVM(c)
      <4>1. On("lima") /\ \E p \in {{}, {"yaml"}} : slot' = [slot EXCEPT ![n] = slot[n] \cup {"dir"} \cup p]
        BY <2>1, <3>3 DEF FillVM, HoldPid
      <4> QED  BY <1>1, <2>1, <2>3, <3>2, <4>1
    <3>4. CASE FillDistro(c)
      <4>1. slot' = slot /\ ~On("lima")
        BY <2>1, <3>4 DEF FillDistro, Same
      <4> QED  BY <1>1, <2>1, <2>3, <3>2, <4>1
    <3> QED  BY <3>1, <3>3, <3>4
  <2> QED  BY <2>2, <2>3
<1>5. ASSUME On("lima"), doing'[c].at = "delete" PROVE "agent" \notin slot'[Its(c)'] \/ Its(c)' \in missed'
  <2>0. doing'[c] \in Call /\ Its(c)' = n /\ (KillAgent(c) \/ KillFails(c))
    BY <1>0, <1>1, <1>2, <1>5 DEF LeadsTo, Idle
  <2>4. CASE KillFails(c)
    BY <2>0, <2>4 DEF KillFails
  <2>1. SUFFICES ASSUME KillAgent(c) PROVE "agent" \notin slot'[n] \/ n \in missed'
    BY <2>0, <2>4
  <2>2. "agent" \in slot[n] => pidfile[n] = n \/ n \in missed'
    BY <1>1, <1>5, <1>m DEF AloneInv, Agents
  <2>3. \/ pidfile[n] \in Names /\ slot' = [slot EXCEPT ![pidfile[n]] = slot[pidfile[n]] \ {"agent", "up"}]
        \/ pidfile[n] \notin Names /\ slot' = slot
    BY <2>1 DEF KillAgent, HoldPid, Same
  <2> QED  BY <1>1, <2>1, <2>2, <2>3
<1>6. UpMarked' /\ Agents'
  BY <1>0, <1>1, <1>3, <1>5, <1>m DEF UpMarked, Agents
<1> QED  BY <1>4, <1>6 DEF AloneInv

LEMMA AloneKeeps ==
  ASSUME BackendTypeOK, Courses, Marked, AloneInv, SureProbes, NEW c, Callers = {c}, BackendNext
  PROVE  AloneInv'
<1> USE BackendAssumption, MarkIs DEF On, At, Present
<1>1. c \in Callers /\ doing \in [Callers -> Call \cup {Idle}] /\ slot \in [Names -> SUBSET Parts] /\ Mark' = Mark
  BY DEF BackendTypeOK, Mark
<1>2. ASSUME UNCHANGED <<slot, pidfile>>, doing'[c].at \notin {"fill", "rollback", "delete"}, missed' = missed
      PROVE  AloneInv'
  BY <1>1, <1>2 DEF AloneInv, Filling, UpMarked, Agents
<1>3. CASE Ask(c) /\ missed' = missed
  <2>1. doing'[c].at \in {"probe", "present", "power", "halt"}
    BY <1>1, <1>3 DEF Ask, FirstStage, AllOps
  <2> QED  BY <1>2, <1>3, <2>1 DEF Ask
<1>4. CASE (Dies(c) \/ GivesUp(c)) /\ missed' = missed
  BY <1>1, <1>2, <1>4 DEF Dies, GivesUp, Finish, Idle
<1>5. CASE CallStep(c) /\ (KillFails(c) \/ missed' = missed)
  BY <1>5, AloneCallKeeps
<1>6. CASE Reboot
  <2>1. doing'[c].at = "idle" /\ \A n \in Names : slot'[n] = slot[n] \ {"up", "agent"}
    BY <1>1, <1>6 DEF Reboot, Idle
  <2> QED  BY <1>1, <2>1 DEF AloneInv, Filling, UpMarked, Agents
<1> QED  BY <1>1, <1>3, <1>4, <1>5, <1>6 DEF BackendNext, CallStep

LEMMA BackendStart == BackendInit => BackendTypeOK /\ Courses /\ Marked /\ AloneInv
<1> SUFFICES ASSUME BackendInit PROVE BackendTypeOK /\ Courses /\ Marked /\ AloneInv
  OBVIOUS
<1> USE BackendAssumption DEF BackendInit
<1>1. BackendTypeOK /\ Courses
  BY DEF BackendTypeOK, Courses, Idle, Call, Stages
<1>2. \A n \in Names : slot[n] = {}
  OBVIOUS
<1>3. \A c \in Callers : doing[c].at = "idle"
  BY DEF Idle
<1>4. Marked /\ Filling /\ UpMarked /\ Agents
  BY <1>2, <1>3 DEF Marked, Filling, UpMarked, Agents, At
<1> QED  BY <1>1, <1>4 DEF AloneInv

-----------------------------------------------------------------------------
(* The inductive invariant.                                                 *)

OneSureCaller == SureProbes /\ \E c : Callers = {c}

\* Lima rolls an import back only after a tar that failed.
LimaFills == On("lima") /\ "step" \notin Mishaps

NoRollBack == \A c \in Callers : ~At(c, "rollback")

BackendIInv ==
  /\ BackendTypeOK /\ Courses /\ Marked
  /\ OneSureCaller => AloneInv
  /\ LimaFills => NoRollBack

LEMMA NoRollBackKeeps ==
  ASSUME BackendTypeOK, Courses, NoRollBack, LimaFills, BackendNext PROVE NoRollBack'
<1> USE BackendAssumption DEF At
<1>1. doing \in [Callers -> Call \cup {Idle}]
  BY DEF BackendTypeOK
<1>2. ASSUME NEW c \in Callers, Ask(c) PROVE NoRollBack'
  BY <1>1, <1>2 DEF Ask, FirstStage, AllOps, NoRollBack
<1>3. ASSUME NEW c \in Callers, Dies(c) \/ GivesUp(c) PROVE NoRollBack'
  BY <1>1, <1>3 DEF Dies, GivesUp, Finish, Idle, NoRollBack
<1>4. ASSUME NEW c \in Callers, CallStep(c) PROVE NoRollBack'
  <2>1. Turn(c)
    BY <1>4, CallTurn
  <2>2. /\ \A d \in Callers \ {c} : doing'[d] = doing[d]
        /\ doing' \in [Callers -> Call \cup {Idle}]
        /\ doing'[c] \in Call /\ doing'[c].at = "rollback" => FillVM(c) \/ FillDistro(c)
    BY <2>1, TurnKeeps DEF LeadsTo
  <2>3. doing'[c].at # "rollback"
    <3> SUFFICES ASSUME doing'[c].at = "rollback" PROVE FALSE
      OBVIOUS
    <3>1. FillVM(c) \/ FillDistro(c)
      BY <2>2 DEF Idle
    <3>2. \A r \in {"ok", "err"} : ~Finish(c, r)
      BY <1>1 DEF Finish, Idle
    <3> QED  BY <3>1, <3>2 DEF FillVM, FillDistro, LimaFills, On
  <2> QED  BY <2>2, <2>3 DEF NoRollBack
<1>5. CASE Reboot
  BY <1>5 DEF Reboot, NoRollBack, Idle
<1> QED  BY <1>2, <1>3, <1>4, <1>5 DEF BackendNext, CallStep

LEMMA BackendInvariant == BackendSpec => []BackendIInv
<1>1. BackendInit => BackendIInv
  BY BackendStart DEF BackendIInv, NoRollBack, BackendInit, At, Idle
<1>2. BackendIInv /\ [BackendNext]_backend => BackendIInv'
  <2>1. ASSUME BackendIInv, UNCHANGED backend PROVE BackendIInv'
    <3>1. BackendTypeOK' /\ Courses' /\ Marked'
      BY <2>1, ZenonT(60) DEF backend, BackendIInv, BackendTypeOK, Courses, OnCourse, Marked, On, Present, Mark
    <3>2. OneSureCaller => AloneInv'
      BY <2>1 DEF backend, BackendIInv, AloneInv, Filling, UpMarked, Agents, On, At, Its, Present, Mark
    <3>3. LimaFills => NoRollBack'
      BY <2>1 DEF backend, BackendIInv, NoRollBack, At
    <3>4. (OneSureCaller' <=> OneSureCaller) /\ (LimaFills' <=> LimaFills)
      BY DEF OneSureCaller, SureProbes, LimaFills, On
    <3> QED  BY <3>1, <3>2, <3>3, <3>4 DEF BackendIInv
  <2>2. ASSUME BackendIInv, BackendNext PROVE BackendIInv'
    <3>1. BackendTypeOK' /\ Courses' /\ Marked'
      BY <2>2, BaseKeeps, MarkedKeeps DEF BackendIInv
    <3>2. OneSureCaller => AloneInv'
      BY <2>2, AloneKeeps DEF BackendIInv, OneSureCaller
    <3>3. LimaFills => NoRollBack'
      BY <2>2, NoRollBackKeeps DEF BackendIInv
    <3>4. (OneSureCaller' <=> OneSureCaller) /\ (LimaFills' <=> LimaFills)
      BY DEF OneSureCaller, SureProbes, LimaFills, On
    <3> QED  BY <3>1, <3>2, <3>3, <3>4 DEF BackendIInv
  <2> QED  BY <2>1, <2>2
<1> QED  BY <1>1, <1>2, PTL DEF BackendSpec

\* A running hostagent can be found (SandboxBackend, AgentsReachable): whatever
\* goes wrong and however many instances there are, as long as one call is made
\* at a time.
THEOREM AgentsFound == ASSUME \E c : Callers = {c} PROVE BackendSpec => []AgentsReachable
<1>1. BackendIInv => AgentsReachable
  BY MarkIs DEF BackendIInv, OneSureCaller, SureProbes, AgentsReachable, AloneInv, UpMarked, Agents, On
<1> QED  BY <1>1, BackendInvariant, PTL

\* A provisioned instance is lost to its own destroy or rename only
\* (SandboxBackend, OnlyDestroyTakes): on podman; where nothing is imported; on
\* lima, where no tar fails; and where one caller's probes are not wrong.
THEOREM DestroyTakes ==
  ASSUME On("podman") \/ "import" \notin Ops \/ LimaFills \/ OneSureCaller
  PROVE  BackendSpec => OnlyDestroyTakes
<1>1. ASSUME BackendIInv, BackendNext PROVE OnlyDestroyTakesStep
  <2> USE BackendAssumption
  <2>1. /\ slot \in [Names -> SUBSET Parts] /\ Mark' = Mark /\ Mark # "up" /\ Mark # "agent"
        /\ BackendTypeOK /\ Courses
    BY <1>1 DEF BackendIInv, BackendTypeOK, Mark
  <2>2. ASSUME \A n \in Names : slot[n] \ {"up", "agent"} \subseteq slot'[n] PROVE OnlyDestroyTakesStep
    BY <2>1, <2>2 DEF OnlyDestroyTakesStep, Intact, Present
  <2>3. ASSUME NEW c \in Callers, CallStep(c) PROVE OnlyDestroyTakesStep
    <3>1. Effect(c) /\ doing[c] \in Call /\ doing[c] # Idle /\ OnCourse(doing[c]) /\ Its(c) \in Names
      BY <2>1, <2>3, CallEffect, CallTurn DEF Turn, Courses, Call, Idle, Stages, Its
    <3>2. CASE Still(c)
      BY <2>2, <3>2 DEF Still
    <3>3. CASE Grown(c)
      BY <2>1, <2>2, <3>3 DEF Grown, HoldPid
    <3>4. CASE Halted
      BY <2>1, <2>2, <3>4 DEF Halted, Down, HoldPid
    <3>5. CASE Taken(c)
      BY <2>1, <3>1, <3>5 DEF Taken, HoldPid, OnlyDestroyTakesStep, Intact, Present
    <3>6. CASE RolledBack(c)
      <4>1. "filled" \notin slot[Its(c)]
        BY <1>1, <3>1, <3>6 DEF RolledBack, OnCourse, At, BackendIInv, NoRollBack, AloneInv, Filling
      <4>2. \A m \in Names \ {Its(c)} : slot'[m] = slot[m]
        BY <2>1, <3>6 DEF RolledBack, HoldPid
      <4> QED  BY <2>1, <4>1, <4>2 DEF OnlyDestroyTakesStep, Intact, Present
    <3>7. CASE Move(c) /\ ~Still(c)
      <4>1. doing[c].op = "rename"
        BY <3>1, <3>7 DEF Move, At, OnCourse
      <4> QED  BY <2>1, <3>1, <3>7, <4>1, MoveIs DEF OnlyDestroyTakesStep, Intact, Present
    <3> QED  BY <3>1, <3>2, <3>3, <3>4, <3>5, <3>6, <3>7 DEF Effect
  <2>4. CASE Reboot
    BY <2>2, <2>4 DEF Reboot
  <2>5. CASE UNCHANGED slot
    BY <2>2, <2>5
  <2> QED  BY <1>1, <2>3, <2>4, <2>5 DEF BackendNext, CallStep, Ask, Dies, GivesUp
<1>2. BackendIInv /\ [BackendNext]_backend => [OnlyDestroyTakesStep]_backend
  BY <1>1
<1> QED  BY <1>2, BackendInvariant, PTL DEF BackendSpec, OnlyDestroyTakes

-----------------------------------------------------------------------------
(* The parts amount to one machine under each name (BackendSlot).           *)

Becoming(n) ==
  /\ \A m \in Names \ {n} : slot'[m] = slot[m]
  /\ Intact(n) /\ Present(n)' => Intact(n)'

LEMMA MachineIs ==
  ASSUME NEW n \in Names
  PROVE  /\ Machines[n] = IF Present(n) THEN [there |-> TRUE, whole |-> Intact(n), up |-> "up" \in slot[n]]
                          ELSE Slot!Nothing
         /\ Present(n) => Machines[n] \in Slot!Machine
         /\ Machines[n] = Slot!Nothing <=> ~Present(n)
         /\ Machines[n].there <=> Present(n)
         /\ Machines[n].whole <=> Intact(n)
         /\ Machines[n].up <=> Present(n) /\ "up" \in slot[n]
<1>1. Machines[n] = [there |-> Present(n), whole |-> Intact(n), up |-> Present(n) /\ "up" \in slot[n]]
  BY DEF Machines
<1>2. /\ Machines[n].there <=> Present(n)
      /\ Machines[n].whole <=> Intact(n)
      /\ Machines[n].up <=> Present(n) /\ "up" \in slot[n]
  <2> DEFINE t == Present(n)
             w == Intact(n)
             u == Present(n) /\ "up" \in slot[n]
  <2>1. Machines[n] = [there |-> t, whole |-> w, up |-> u]
    BY <1>1
  <2> HIDE DEF t, w, u
  <2>2. Machines[n].there = t /\ Machines[n].whole = w /\ Machines[n].up = u
    BY <2>1
  <2> QED  BY <2>2 DEF t, w, u
<1>3. CASE Present(n)
  <2>1. Present(n) = TRUE /\ (Present(n) /\ "up" \in slot[n]) = ("up" \in slot[n])
    BY <1>3
  <2>2. Machines[n] = [there |-> TRUE, whole |-> Intact(n), up |-> "up" \in slot[n]]
    BY <1>1, <2>1
  <2>3. Intact(n) \in BOOLEAN /\ ("up" \in slot[n]) \in BOOLEAN
    BY DEF Intact
  <2>4. Machines[n] \in Slot!Machine
    BY <2>2, <2>3 DEF Slot!Machine
  <2>5. Machines[n] # Slot!Nothing
    <3>1. Machines[n].there = TRUE /\ Slot!Nothing.there = FALSE
      BY <2>2 DEF Slot!Nothing
    <3> QED  BY <3>1
  <2> QED  BY <1>2, <1>3, <2>2, <2>4, <2>5
<1>4. CASE ~Present(n)
  <2>1. Present(n) = FALSE /\ Intact(n) = FALSE /\ (Present(n) /\ "up" \in slot[n]) = FALSE
    BY <1>4 DEF Intact
  <2>2. Machines[n] = Slot!Nothing
    BY <1>1, <2>1 DEF Slot!Nothing
  <2> QED  BY <1>2, <1>4, <2>2
<1> QED  BY <1>3, <1>4

LEMMA MachineNext ==
  ASSUME NEW n \in Names
  PROVE  /\ Machines'[n] = IF Present(n)' THEN [there |-> TRUE, whole |-> Intact(n)', up |-> "up" \in slot'[n]]
                           ELSE Slot!Nothing
         /\ Present(n)' => Machines'[n] \in Slot!Machine
         /\ Machines'[n] = Slot!Nothing <=> ~Present(n)'
         /\ Machines'[n].there <=> Present(n)'
         /\ Machines'[n].whole <=> Intact(n)'
         /\ Machines'[n].up <=> Present(n)' /\ "up" \in slot'[n]
<1>1. (/\ Machines[n] = IF Present(n) THEN [there |-> TRUE, whole |-> Intact(n), up |-> "up" \in slot[n]]
                        ELSE Slot!Nothing
       /\ Present(n) => Machines[n] \in Slot!Machine
       /\ Machines[n] = Slot!Nothing <=> ~Present(n)
       /\ Machines[n].there <=> Present(n)
       /\ Machines[n].whole <=> Intact(n)
       /\ Machines[n].up <=> Present(n) /\ "up" \in slot[n])'
  BY MachineIs, PTL
<1> QED  BY <1>1

LEMMA BecomesOne ==
  ASSUME NEW n \in Names, Becoming(n)
  PROVE  [Slot!SlotNext]_Machines
<1>1. Mark' = Mark
  BY DEF Mark
<1>2. \A m \in Names \ {n} : Machines'[m] = Machines[m]
  BY <1>1 DEF Becoming, Machines, Intact, Present
<1> DEFINE old == Machines[n]
           new == Machines'[n]
<1>3. Machines' = [Machines EXCEPT ![n] = new]
  <2>1. Machines = [m \in Names |-> Machines[m]] /\ Machines' = [m \in Names |-> Machines'[m]]
    BY DEF Machines
  <2> QED  BY <1>2, <2>1
<1>4. /\ old \in Slot!Machine \/ old = Slot!Nothing
      /\ new \in Slot!Machine \/ new = Slot!Nothing
  BY MachineIs, MachineNext
<1>5. old # Slot!Nothing /\ new # Slot!Nothing => (old.whole => new.whole)
  <2>1. Present(n) /\ Present(n)' => (Intact(n) => Intact(n)')
    BY DEF Becoming
  <2>2. old.whole <=> Intact(n)
    BY MachineIs
  <2>3. new.whole <=> Intact(n)'
    BY MachineNext
  <2> QED  BY <2>1, <2>2, <2>3, MachineIs, MachineNext
<1>6. CASE old = Slot!Nothing /\ new = Slot!Nothing
  <2>1. Machines' = Machines
    <3>1. Machines = [m \in Names |-> Machines[m]] /\ Machines' = [m \in Names |-> Machines'[m]]
      BY DEF Machines
    <3> QED  BY <1>2, <1>6, <3>1
  <2> QED  BY <2>1
<1>7. CASE old = Slot!Nothing /\ new # Slot!Nothing
  BY <1>3, <1>4, <1>7 DEF Slot!SlotNext, Slot!Begun, Slot!Becomes
<1>8. CASE old # Slot!Nothing /\ new = Slot!Nothing
  BY <1>3, <1>8 DEF Slot!SlotNext, Slot!Gone, Slot!Becomes
<1>9. CASE old # Slot!Nothing /\ new # Slot!Nothing
  <2> HIDE DEF new, old
  <2>1. new \in Slot!Machine /\ (old.whole => new.whole)
    BY <1>4, <1>5, <1>9
  <2>2. Slot!Goes(n)
    BY <1>3, <1>9, <2>1 DEF Slot!Goes, Slot!Becomes, old
  <2> QED  BY <2>2 DEF Slot!SlotNext
<1> QED  BY <1>6, <1>7, <1>8, <1>9

LEMMA RebootIsDown == ASSUME slot \in [Names -> SUBSET Parts], Reboot PROVE Slot!AllDown
<1>1. Mark' = Mark /\ Mark # "up" /\ Mark # "agent"
  BY BackendAssumption DEF Mark
<1>2. ASSUME NEW n \in Names PROVE Machines'[n] = [Machines[n] EXCEPT !.up = FALSE]
  <2>1. /\ Machines[n] = [there |-> Present(n), whole |-> Intact(n), up |-> Present(n) /\ "up" \in slot[n]]
        /\ Machines'[n] = [there |-> Present(n)', whole |-> Intact(n)', up |-> (Present(n) /\ "up" \in slot[n])']
    BY DEF Machines
  <2>2. slot'[n] = slot[n] \ {"up", "agent"}
    BY DEF Reboot
  <2>3. Present(n)' = Present(n) /\ Intact(n)' = Intact(n) /\ (Present(n) /\ "up" \in slot[n])' = FALSE
    BY <1>1, <2>2 DEF Intact, Present
  <2> DEFINE t == Present(n)
             w == Intact(n)
             u == Present(n) /\ "up" \in slot[n]
             down == FALSE
  <2>4. Machines[n] = [there |-> t, whole |-> w, up |-> u] /\ Machines'[n] = [there |-> t, whole |-> w, up |-> down]
    BY <2>1, <2>3
  <2>5. ASSUME NEW r, NEW x, NEW y, NEW z, NEW v, r = [there |-> x, whole |-> y, up |-> z]
        PROVE  [there |-> x, whole |-> y, up |-> v] = [r EXCEPT !.up = v]
    BY <2>5
  <2> HIDE DEF t, w, u, down
  <2>6. Machines'[n] = [Machines[n] EXCEPT !.up = down]
    BY <2>4, <2>5
  <2> QED  BY <2>6 DEF down
<1>3. Machines' = [n \in Names |-> Machines'[n]]
  BY DEF Machines
<1> QED  BY <1>2, <1>3 DEF Slot!AllDown

LEMMA MoveIsMoved ==
  ASSUME NEW n \in Names, NEW m \in Names \ {n}, On("lima"),
         Present(n), "up" \notin slot[n],
         ~Present(m), "filled" \notin slot[m], "up" \notin slot[m],
         slot'[n] = slot[n] \cap {"template", "agent"},
         slot'[m] = slot[m] \cup (slot[n] \ {"template", "agent"}),
         \A k \in Names \ {n, m} : slot'[k] = slot[k]
  PROVE  Slot!SlotNext
<1>1. Mark = "yaml" /\ Mark' = "yaml"
  BY MarkIs DEF Mark, On
<1>2. /\ ~Present(n)' /\ Present(m)' /\ (Intact(m)' <=> Intact(n)) /\ "up" \notin slot'[m]
  BY <1>1 DEF Intact, Present
<1>3. Machines'[n] = Slot!Nothing /\ Machines[m] = Slot!Nothing /\ Machines[n] # Slot!Nothing /\ ~Machines[n].up
  BY <1>2, MachineIs, MachineNext
<1>4. Machines'[m] = Machines[n]
  <2>1. /\ Machines[n] = [there |-> TRUE, whole |-> Intact(n), up |-> "up" \in slot[n]]
        /\ Machines'[m] = [there |-> TRUE, whole |-> Intact(m)', up |-> "up" \in slot'[m]]
    BY <1>2, MachineIs, MachineNext
  <2>2. Intact(m)' = Intact(n) /\ ("up" \in slot'[m]) = ("up" \in slot[n])
    BY <1>2 DEF Intact
  <2> QED  BY <2>1, <2>2
<1>5. \A k \in Names \ {n, m} : Machines'[k] = Machines[k]
  BY <1>1 DEF Machines, Intact, Present
<1>6. Machines' = [Machines EXCEPT ![n] = Slot!Nothing, ![m] = Machines[n]]
  <2>1. Machines = [k \in Names |-> Machines[k]] /\ Machines' = [k \in Names |-> Machines'[k]]
    BY DEF Machines
  <2> QED  BY <1>3, <1>4, <1>5, <2>1
<1>7. Slot!Moved(n, m)
  BY <1>3, <1>6 DEF Slot!Moved
<1> QED  BY <1>7 DEF Slot!SlotNext

\* The backend implements BackendSlot (SandboxBackend, IsOneMachine): on podman,
\* with any callers; on lima, with any callers and no rename; and on every
\* backend where one caller's probes are not wrong.
THEOREM BackendIsOneMachine ==
  ASSUME On("podman") \/ (On("lima") /\ "rename" \notin Ops) \/ OneSureCaller
  PROVE  BackendSpec => IsOneMachine
<1>1. BackendInit => Slot!SlotInit
  <2> SUFFICES ASSUME BackendInit PROVE Slot!SlotInit
    OBVIOUS
  <2>1. \A n \in Names : ~Present(n)
    BY DEF BackendInit, Present
  <2>2. Machines = [n \in Names |-> Machines[n]]
    BY DEF Machines
  <2> QED  BY <2>1, <2>2, MachineIs DEF Slot!SlotInit
<1>2. ASSUME BackendIInv, BackendNext PROVE [Slot!SlotNext]_Machines
  <2> USE BackendAssumption
  <2>1. /\ slot \in [Names -> SUBSET Parts] /\ Mark' = Mark /\ Mark \notin {"up", "agent", "filled"}
        /\ BackendTypeOK /\ Courses
    BY <1>2 DEF BackendIInv, BackendTypeOK, Mark
  <2>2. ASSUME UNCHANGED slot PROVE [Slot!SlotNext]_Machines
    <3>1. Machines' = Machines
      BY <2>2 DEF Machines, Intact, Present, Mark
    <3> QED  BY <3>1
  <2>3. ASSUME NEW n \in Names, NEW p, slot' = [slot EXCEPT ![n] = p],
               Mark \in slot[n] /\ "filled" \in slot[n] /\ Mark \in p => "filled" \in p
        PROVE  [Slot!SlotNext]_Machines
    <3>1. Becoming(n)
      BY <2>1, <2>3 DEF Becoming, Intact, Present
    <3> QED  BY <3>1, BecomesOne
  <2>4. ASSUME NEW c \in Callers, CallStep(c) PROVE [Slot!SlotNext]_Machines
    <3>1. Effect(c) /\ doing[c] \in Call /\ OnCourse(doing[c]) /\ Its(c) \in Names
      BY <2>1, <2>4, CallEffect, CallTurn DEF Turn, Courses, Call, Its
    <3>2. CASE Still(c)
      BY <2>2, <3>2 DEF Still
    <3>3. CASE Grown(c)
      <4>1. PICK n \in Names, p \in SUBSET Parts : slot' = [slot EXCEPT ![n] = p] /\ slot[n] \subseteq p
        BY <3>3 DEF Grown, HoldPid
      <4> QED  BY <2>3, <4>1
    <3>4. CASE Halted
      <4>1. PICK n \in Names : slot' = [slot EXCEPT ![n] = slot[n] \ {"up", "agent"}]
        BY <3>4 DEF Halted, Down, HoldPid
      <4> QED  BY <2>1, <2>3, <4>1
    <3>5. CASE Taken(c)
      <4>1. PICK p \in SUBSET Parts :
               /\ slot' = [slot EXCEPT ![Its(c)] = p]
               /\ \/ slot[Its(c)] \cap {Mark, "filled", "up", "agent"} \subseteq p
                  \/ p \cap {Mark, "filled", "up"} = {}
        BY <3>5 DEF Taken, HoldPid
      <4> QED  BY <2>3, <3>1, <4>1
    <3>6. CASE RolledBack(c)
      <4>1. slot' = [slot EXCEPT ![Its(c)] = slot[Its(c)] \ {"dir", "yaml", "filled"}]
        BY <3>6 DEF RolledBack, HoldPid
      <4>2. CASE On("lima")
        BY <2>1, <2>3, <3>1, <4>1, <4>2, MarkIs
      <4>3. CASE ~On("lima")
        <5>1. ~Present(Its(c))
          BY <1>2, <3>1, <3>6, <4>3 DEF RolledBack, OnCourse, At, BackendIInv, AloneInv, Filling
        <5> QED  BY <2>3, <3>1, <4>1, <5>1 DEF Present
      <4> QED  BY <4>2, <4>3
    <3>7. CASE Move(c) /\ ~Still(c)
      <4>1. OneSureCaller
        BY <3>1, <3>7 DEF Move, At, OnCourse, On
      <4>2. PICK n \in Names, m \in Names :
              /\ m # n /\ On("lima") /\ Present(n) /\ "up" \notin slot[n] /\ "dir" \notin slot[m]
              /\ slot'[n] = slot[n] \cap {"template", "agent"} /\ slot'[m] = slot[m] \cup (slot[n] \ {"template", "agent"})
              /\ \A k \in Names \ {n, m} : slot'[k] = slot[k]
        BY <2>1, <3>7, MoveIs
      <4>3. ~Present(m) /\ "filled" \notin slot[m] /\ "up" \notin slot[m]
        BY <1>2, <4>1, <4>2, MarkIs DEF BackendIInv, Marked, AloneInv, UpMarked, Present
      <4>4. Slot!SlotNext
        BY <4>2, <4>3, MoveIsMoved
      <4> QED  BY <4>4
    <3> QED  BY <3>1, <3>2, <3>3, <3>4, <3>5, <3>6, <3>7 DEF Effect
  <2>5. CASE Reboot
    BY <2>1, <2>5, RebootIsDown DEF Slot!SlotNext
  <2> QED  BY <1>2, <2>2, <2>4, <2>5 DEF BackendNext, CallStep, Ask, Dies, GivesUp
<1>3. ASSUME UNCHANGED backend PROVE Machines' = Machines
  BY <1>3 DEF backend, Machines, Intact, Present, Mark
<1>4. BackendIInv /\ [BackendNext]_backend => [Slot!SlotNext]_Machines
  BY <1>2, <1>3
<1> QED  BY <1>1, <1>4, BackendInvariant, PTL DEF BackendSpec, IsOneMachine, Slot!SlotSpec

-----------------------------------------------------------------------------
(* The pid files, and what an archive takes of them.                        *)

\* Stops that work: one call at a time, of which no command fails or runs out
\* of time.
SureStops == Mishaps \cap {"step", "timeout"} = {} /\ \E c : Callers = {c}

\* The agent a pid file names is its own, and its VM is up.
PidsOwn == \A n \in Names : pidfile[n] \in Names => On("lima") /\ pidfile[n] = n /\ "up" \in slot[n]

ArchiveNamesNone ==
  /\ image.is \in {"reading", "whole"} => image.pid \notin Names
  /\ "import" \in Ops => image.pid \notin Names

\* The archive is opened when the VM is down.
ReadDown == On("lima") => \A c \in Callers : At(c, "read") /\ Works(c) => "up" \notin slot[Its(c)]

PidInv == PidsOwn /\ ArchiveNamesNone /\ ("import" \in Ops => ReadDown)

LEMMA HoldPidsOwn ==
  ASSUME BackendTypeOK, PidsOwn, ArchiveNamesNone,
         NEW n \in Names, NEW p \in SUBSET Parts, NEW pid \in Pids, HoldPid(n, p, pid),
         pid \in Names => On("lima") /\ pid = n /\ "up" \in p
  PROVE  PidsOwn' /\ ArchiveNamesNone'
<1>0. slot \in [Names -> SUBSET Parts]
  BY DEF BackendTypeOK
<1>1. /\ slot' = [slot EXCEPT ![n] = p]
      /\ pidfile'[n] = pid
      /\ \A m \in Names \ {n} : pidfile'[m] = pidfile[m] \/ pidfile'[m] = StalePid
      /\ image'.pid \in {image.pid, StalePid}
      /\ image'.is = image.is \/ image'.is = "torn"
  BY HoldIs
<1>2. StalePid \notin Names
  BY BackendAssumption
<1>3. PidsOwn'
  BY <1>0, <1>1, <1>2 DEF PidsOwn, On
<1>4. ArchiveNamesNone'
  BY <1>1, <1>2 DEF ArchiveNamesNone
<1> QED  BY <1>3, <1>4

LEMMA PidCallKeeps ==
  ASSUME BackendTypeOK, Courses, PidInv, "import" \notin Ops \/ SureStops,
         NEW c \in Callers, CallStep(c)
  PROVE  PidsOwn' /\ ArchiveNamesNone'
<1> USE BackendAssumption
<1>1. /\ Effect(c) /\ doing[c] \in Call /\ OnCourse(doing[c]) /\ Its(c) \in Names
      /\ PidsOwn /\ ArchiveNamesNone /\ slot \in [Names -> SUBSET Parts] /\ pidfile \in [Names -> Pids]
      /\ NoPid \in Pids /\ NoPid \notin Names
  BY CallEffect, CallTurn DEF Turn, Courses, Call, Its, PidInv, BackendTypeOK, Pids
<1>2. CASE Still(c)
  <2>1. PidsOwn'
    BY <1>1, <1>2 DEF Still, PidsOwn, On
  <2>2. CASE image' = image
    BY <1>1, <2>1, <2>2 DEF ArchiveNamesNone
  <2>3. CASE OpenArchive(c) /\ image' # image
    <3>1. /\ image' = [is |-> IF "up" \in slot[Its(c)] /\ ~On("podman") THEN "torn" ELSE "reading",
                       of |-> Its(c), pid |-> pidfile[Its(c)]]
          /\ At(c, "read") /\ Works(c)
      BY <2>3 DEF OpenArchive, Works
    <3>2. image'.pid = pidfile[Its(c)] /\ image'.is \in {"torn", "reading"}
          /\ (image'.is = "reading" => "up" \notin slot[Its(c)] \/ On("podman"))
      BY <3>1
    <3>3. image'.is = "reading" => image'.pid \notin Names
      BY <1>1, <3>2 DEF PidsOwn, On
    <3>4. "import" \in Ops => image'.pid \notin Names
      BY <1>1, <3>1, <3>2 DEF PidInv, PidsOwn, ReadDown
    <3> QED  BY <2>1, <3>2, <3>3, <3>4 DEF ArchiveNamesNone
  <2>4. CASE CloseArchive(c)
    <3>1. image \in [is : {"none", "reading", "whole", "torn"}, of : Names, pid : Pids]
      BY DEF BackendTypeOK, Pids
    <3>2. image'.pid = image.pid /\ (image'.is \in {"reading", "whole"} => image.is \in {"reading", "whole"})
      BY <2>4, <3>1 DEF CloseArchive
    <3> QED  BY <1>1, <2>1, <3>2 DEF ArchiveNamesNone
  <2> QED  BY <1>2, <2>2, <2>3, <2>4 DEF Still
<1>3. CASE Grown(c)
  <2>1. PICK n \in Names, p \in SUBSET Parts, pid \in Pids :
          /\ HoldPid(n, p, pid) /\ slot[n] \subseteq p
          /\ \/ pid = pidfile[n]
             \/ pid = n /\ "up" \in p /\ On("lima")
             \/ pid = image.pid /\ At(c, "fill")
    BY <1>3, ZenonT(60) DEF Grown
  <2>2. pid \in Names => On("lima") /\ pid = n /\ "up" \in p
    <3>1. At(c, "fill") => "import" \in Ops
      BY <1>1 DEF At, OnCourse
    <3> QED  BY <1>1, <2>1, <3>1 DEF PidsOwn, ArchiveNamesNone
  <2> QED  BY <1>1, <2>1, <2>2, HoldPidsOwn
<1>4. CASE Halted
  <2>1. PICK n \in Names : HoldPid(n, slot[n] \ {"up", "agent"}, NoPid)
    BY <1>4 DEF Halted, Down
  <2>2. slot[n] \ {"up", "agent"} \in SUBSET Parts
    BY <1>1
  <2> QED  BY <1>1, <2>1, <2>2, HoldPidsOwn
<1>5. CASE Taken(c)
  <2>1. PICK p \in SUBSET Parts, pid \in Pids :
          /\ HoldPid(Its(c), p, pid) /\ p \subseteq slot[Its(c)]
          /\ \/ /\ slot[Its(c)] \cap {Mark, "filled", "up", "agent"} \subseteq p
                /\ pid = pidfile[Its(c)]
             \/ IF On("lima") THEN pid = NoPid ELSE pid = pidfile[Its(c)]
    BY <1>5 DEF Taken
  <2>2. pid \in Names => On("lima") /\ pid = Its(c) /\ "up" \in p
    BY <1>1, <2>1 DEF PidsOwn
  <2> QED  BY <1>1, <2>1, <2>2, HoldPidsOwn
<1>6. CASE RolledBack(c)
  <2>1. HoldPid(Its(c), slot[Its(c)] \ {"dir", "yaml", "filled"}, NoPid)
    BY <1>6 DEF RolledBack
  <2>2. slot[Its(c)] \ {"dir", "yaml", "filled"} \in SUBSET Parts
    BY <1>1
  <2> QED  BY <1>1, <2>1, <2>2, HoldPidsOwn
<1>7. CASE Move(c) /\ ~Still(c)
  <2>1. PidsOwn'
    BY <1>1, <1>7, MoveIs DEF PidsOwn, On
  <2> QED  BY <1>1, <1>7, <2>1, MoveIs DEF ArchiveNamesNone
<1> QED  BY <1>1, <1>2, <1>3, <1>4, <1>5, <1>6, <1>7 DEF Effect

LEMMA ReadDownKeeps ==
  ASSUME BackendTypeOK, Courses, ReadDown, SureStops, BackendNext
  PROVE  ReadDown'
<1> USE BackendAssumption, MarkIs DEF At
<1>0. PICK c : Callers = {c}
  BY DEF SureStops
<1>1. c \in Callers /\ doing \in [Callers -> Call \cup {Idle}] /\ slot \in [Names -> SUBSET Parts]
  BY <1>0 DEF BackendTypeOK
<1>2. ASSUME doing'[c].at # "read" PROVE ReadDown'
  BY <1>0, <1>2 DEF ReadDown
<1>3. CASE Ask(c)
  <2>1. doing'[c].at \in {"probe", "present", "power", "halt"}
    BY <1>1, <1>3 DEF Ask, FirstStage, AllOps
  <2> QED  BY <1>2, <2>1
<1>4. CASE Dies(c) \/ GivesUp(c)
  BY <1>1, <1>2, <1>4 DEF Dies, GivesUp, Finish, Idle
<1>5. CASE CallStep(c) /\ doing'[c].at = "read"
  <2>1. Turn(c) /\ doing[c] \in Call
    BY <1>1, <1>5, CallTurn DEF Turn
  <2>2. /\ doing' \in [Callers -> Call \cup {Idle}]
        /\ doing'[c] \in Call => doing'[c].name = doing[c].name /\ (doing'[c].at = "read" => ProbeExport(c) \/ Halt(c))
    BY <1>1, <2>1, TurnKeeps DEF LeadsTo
  <2>3. Its(c)' = Its(c) /\ (ProbeExport(c) \/ Halt(c)) /\ Its(c) \in Names
    BY <1>1, <1>5, <2>1, <2>2 DEF Its, Idle, Call
  <2>4. CASE ProbeExport(c)
    <3>1. ~On("lima")
      <4>1. \A r \in {"ok", "err"} : ~Finish(c, r)
        BY <1>1, <1>5 DEF Finish, Idle
      <4>2. ~Proceed(c, "halt")
        BY <1>1, <1>5, <2>1 DEF Proceed, Call
      <4> QED  BY <2>4, <4>1, <4>2 DEF ProbeExport
    <3> QED  BY <3>1 DEF ReadDown, On
  <2>5. CASE Halt(c)
    <3>1. tool' = tool /\ (Down(Its(c)) \/ (~Works(c) /\ Same))
      BY <2>5 DEF Halt, SureStops
    <3>2. Works(c)' => "up" \notin slot'[Its(c)]
      <4>1. CASE Down(Its(c))
        BY <1>1, <2>3, <4>1 DEF Down, HoldPid
      <4>2. CASE ~Works(c) /\ Same
        BY <2>3, <3>1, <4>2 DEF Works, Same, Present, ToolWorks, Mark
      <4> QED  BY <3>1, <4>1, <4>2
    <3> QED  BY <1>0, <2>3, <3>2 DEF ReadDown
  <2> QED  BY <2>3, <2>4, <2>5
<1>6. CASE Reboot
  BY <1>1, <1>2, <1>6 DEF Reboot, Idle
<1> QED  BY <1>0, <1>2, <1>3, <1>4, <1>5, <1>6 DEF BackendNext, CallStep

\* An archive that is whole names no running agent (SandboxBackend,
\* WholeNamesNoAgent): with any callers and mishaps where nothing is imported,
\* and with imports as long as one caller's stops work.
THEOREM WholeArchivesNameNone ==
  ASSUME "import" \notin Ops \/ SureStops
  PROVE  BackendSpec => []WholeNamesNoAgent
<1> USE BackendAssumption
<1>1. BackendInit => PidInv
  <2> SUFFICES ASSUME BackendInit PROVE PidInv
    OBVIOUS
  <2>1. /\ \A n \in Names : pidfile[n] = NoPid
        /\ image.is = "none" /\ image.pid = NoPid
        /\ \A c \in Callers : doing[c].at = "idle"
    BY DEF BackendInit, Idle
  <2> QED  BY <2>1 DEF PidInv, PidsOwn, ArchiveNamesNone, ReadDown, At
<1>2. ASSUME BackendIInv, PidInv, BackendNext PROVE PidInv'
  <2>1. "import" \in Ops => ReadDown'
    BY <1>2, ReadDownKeeps DEF BackendIInv, PidInv
  <2>2. ASSUME NEW c \in Callers, CallStep(c) PROVE PidsOwn' /\ ArchiveNamesNone'
    BY <1>2, <2>2, PidCallKeeps DEF BackendIInv
  <2>3. ASSUME NEW c \in Callers, Ask(c) \/ Dies(c) \/ GivesUp(c) PROVE PidsOwn' /\ ArchiveNamesNone'
    <3>1. UNCHANGED <<slot, pidfile>> /\ (image' = image \/ image' = [image EXCEPT !.is = "torn"])
      BY <2>3 DEF Ask, Dies, GivesUp
    <3>2. image'.pid = image.pid /\ (image'.is = image.is \/ image'.is = "torn")
      BY <1>2, <3>1 DEF BackendIInv, BackendTypeOK
    <3> QED  BY <1>2, <3>1, <3>2 DEF PidInv, PidsOwn, ArchiveNamesNone, On
  <2>4. CASE Reboot
    <3>1. \A n \in Names : pidfile'[n] \in {NoPid, StalePid}
      BY <2>4 DEF Reboot
    <3>2. image'.pid \in {NoPid, StalePid}
      <4>1. image' = [is |-> IF image.is = "reading" THEN "torn" ELSE image.is, of |-> image.of,
                      pid |-> IF image.pid = NoPid THEN NoPid ELSE StalePid]
        BY <1>2, <2>4 DEF Reboot, BackendIInv, BackendTypeOK
      <4> QED  BY <4>1
    <3> QED  BY <2>1, <3>1, <3>2 DEF PidInv, PidsOwn, ArchiveNamesNone
  <2> QED  BY <1>2, <2>1, <2>2, <2>3, <2>4 DEF BackendNext, CallStep, PidInv
<1>3. ASSUME PidInv, UNCHANGED backend PROVE PidInv'
  <2>1. PidsOwn' /\ ArchiveNamesNone'
    BY <1>3 DEF backend, PidInv, PidsOwn, ArchiveNamesNone, On
  <2>2. ReadDown => ReadDown'
    BY <1>3 DEF backend, ReadDown, On, At, Its, Works, Present, Mark, ToolWorks
  <2> QED  BY <1>3, <2>1, <2>2 DEF PidInv
<1>4. BackendIInv /\ PidInv /\ [BackendNext]_backend => PidInv'
  BY <1>2, <1>3
<1>5. PidInv => WholeNamesNoAgent
  BY DEF PidInv, ArchiveNamesNone, WholeNamesNoAgent
<1> QED  BY <1>1, <1>4, <1>5, BackendInvariant, PTL DEF BackendSpec

=============================================================================
