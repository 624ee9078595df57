------------------------- MODULE InstanceLifecycle -------------------------
(***************************************************************************)
(* One sandboxed instance: its VM (or container), its registry record, and  *)
(* the commands that change the two.                                        *)
(*                                                                         *)
(* A command is a process: one clawcli run, or one handler of the GUI.      *)
(* Between two of its steps any other command may run, and a command may    *)
(* die there (Ctrl-C, a closed GUI, the kill of an idle child).  Nothing    *)
(* undoes the steps a dead or failed command has done.                      *)
(*                                                                         *)
(* The registry is atomic here; InstanceRegistry models its file.  A       *)
(* command's script in the VM and its wait for it are one step, and        *)
(* BackgroundScript models their protocol; but the script runs detached,   *)
(* and lives on in the VM when the command dies or takes it for stalled.   *)
(***************************************************************************)
EXTENDS Naturals

CONSTANTS
    Actors,       \* where commands run
    Gui,          \* the actors that are handlers of the GUI
    Kinds,        \* the commands that may be asked for
    Versions,     \* versions of the claw package
    Proxies,      \* proxy settings of a record
    NoProxy,      \* the setting that inherits the global proxy
    Backend,      \* lima, wsl2 or podman
    Faults,       \* what may go wrong: step, probe, crash
    MaxRequests,  \* bound on the commands asked for in a behaviour
    NoVM, NoRec, NoClaw, NoJob

AllKinds == {"install", "register", "upgrade", "uninstall", "delete", "setproxy",
             "start", "stop", "export", "import"}

ASSUME LifecycleAssumption ==
    /\ Gui \subseteq Actors
    /\ Kinds \subseteq AllKinds
    /\ NoProxy \in Proxies
    /\ NoClaw \notin Versions
    /\ Backend \in {"lima", "wsl2", "podman"}
    /\ Faults \subseteq {"step", "probe", "crash"}
    /\ MaxRequests \in Nat

VARIABLES
    vm,      \* NoVM, or what the backend holds under the instance's name
    rec,     \* NoRec, or the instance's record
    bundle,  \* the last exported image: nothing yet, or whether it is torn
    pc,      \* the step each actor is at
    job,     \* the command each actor runs
    ret,     \* how each actor's last command ended
    asked    \* number of commands so far

vars == <<vm, rec, bundle, pc, job, ret, asked>>

\* A script that lives on is that of a command, and installs a version.
Scripts == (1..MaxRequests) \X Versions

VM == [provisioned : BOOLEAN, up : BOOLEAN, disk : BOOLEAN, claw : Versions \cup {NoClaw},
       scripts : SUBSET Scripts]
Record == [created_at : 1..MaxRequests, claw_version : Versions \cup {NoClaw}, proxy : Proxies]
Job == [kind : Kinds, id : 1..MaxRequests, claw : Versions, proxy : Proxies,
        inst : Record \cup {NoRec}, retries : 0..3, alone : BOOLEAN]

\* Nothing is told from something.
ASSUME NoneAssumption ==
    /\ NoVM \notin [provisioned : BOOLEAN, up : BOOLEAN, disk : BOOLEAN,
                    claw : Versions \cup {NoClaw}, scripts : SUBSET (Nat \X Versions)]
    /\ NoRec \notin [created_at : Nat, claw_version : Versions \cup {NoClaw}, proxy : Proxies]

Steps == {"idle", "i_find", "i_create", "i_creating", "i_verify", "i_script", "i_probe",
          "i_insert", "c_find", "c_check", "c_insert", "u_find", "u_start", "u_script",
          "u_probe", "u_update", "d_find", "d_ports", "d_vm", "d_remove", "g_find", "g_stop",
          "g_destroy", "g_remove", "p_find", "p_update", "p_apply", "start", "stop",
          "e_image", "m_image", "m_insert"}

TypeOK ==
    /\ vm \in VM \cup {NoVM}
    /\ rec \in Record \cup {NoRec}
    /\ bundle \in {"none", "whole", "torn"}
    /\ pc \in [Actors -> Steps]
    /\ job \in [Actors -> Job \cup {NoJob}]
    /\ ret \in [Actors -> {"none", "ok", "err"}]
    /\ asked \in 0..MaxRequests

Init ==
    /\ vm = NoVM
    /\ rec = NoRec
    /\ bundle = "none"
    /\ pc = [a \in Actors |-> "idle"]
    /\ job = [a \in Actors |-> NoJob]
    /\ ret = [a \in Actors |-> "none"]
    /\ asked = 0

----------------------------------------------------------------------------
(* Control. *)

Goto(a, s) ==
    /\ pc' = [pc EXCEPT ![a] = s]
    /\ UNCHANGED <<ret, asked>>

\* The command returns: its local state is gone, its lock is released.
End(a, r) ==
    /\ pc' = [pc EXCEPT ![a] = "idle"]
    /\ job' = [job EXCEPT ![a] = NoJob]
    /\ ret' = [ret EXCEPT ![a] = r]
    /\ UNCHANGED asked

\* Fault variant: upgrade is missing from the verbs whose name is found.
LockedKindsNoUpgrade == {"install", "uninstall", "start", "stop", "export", "import"}

\* Fault variant: uninstall is missing from them.
LockedKindsNoUninstall == {"install", "upgrade", "start", "stop", "export", "import"}

\* The GUI's lock on an instance: held by a command it runs through clawcli,
\* from spawn to exit, when the name can be found in the arguments.
LockedKinds == {"install", "upgrade", "uninstall", "start", "stop", "export", "import"}

InLock(a) == a \in Gui /\ pc[a] # "idle" /\ job[a].kind \in LockedKinds
LockFree(a) == \A b \in Actors \ {a} : ~InLock(b)

FirstStep(k) ==
    CASE k = "install"   -> "i_find"
      [] k = "register"  -> "c_find"
      [] k = "upgrade"   -> "u_find"
      [] k = "uninstall" -> "d_find"
      [] k = "delete"    -> "g_find"
      [] k = "setproxy"  -> "p_find"
      [] k = "start"     -> "start"
      [] k = "stop"      -> "stop"
      [] k = "export"    -> "e_image"
      [] k = "import"    -> "m_image"

Request(a) ==
    /\ pc[a] = "idle"
    /\ asked < MaxRequests
    /\ \E k \in Kinds, v \in Versions, p \in Proxies :
        /\ k \in {"delete", "setproxy"} => a \in Gui
        /\ (a \in Gui /\ k \in LockedKinds) => LockFree(a)
        /\ pc' = [pc EXCEPT ![a] = FirstStep(k)]
        /\ job' = [job EXCEPT ![a] =
                     [kind |-> k, id |-> asked + 1, claw |-> v, proxy |-> p,
                      inst |-> NoRec, retries |-> 3, alone |-> FALSE]]
    /\ asked' = asked + 1
    /\ ret' = [ret EXCEPT ![a] = "none"]
    /\ UNCHANGED <<vm, rec, bundle>>

\* The steps at which no error is passed on with `?`, or not every one.
Tolerant == {"idle", "i_creating", "d_ports", "d_vm", "g_stop", "g_destroy", "g_remove", "e_image"}

\* A call whose error is passed on fails, with no effect: the backend's, or
\* the read or the save of the registry.
StepFails(a) ==
    /\ "step" \in Faults
    /\ pc[a] \notin Tolerant
    /\ End(a, "err")
    /\ UNCHANGED <<vm, rec, bundle>>

----------------------------------------------------------------------------
(* The backend. *)

\* Answers of is_present().unwrap_or(false): Lima looks for a file, the
\* others run a command with a timeout and take its failure for a no.
IsPresent ==
    IF vm = NoVM THEN {FALSE}
    ELSE IF Backend # "lima" /\ "probe" \in Faults THEN BOOLEAN ELSE {TRUE}

\* A command can be run inside: wsl starts the distribution for it.
IsUp == vm # NoVM /\ vm.up
CanStart == vm # NoVM /\ vm.disk
CanExec == CanStart /\ (vm.up \/ Backend = "wsl2")
AfterExec == [vm EXCEPT !.up = TRUE]

\* What runs inside ends with the VM.
Off == [vm EXCEPT !.up = FALSE, !.scripts = {}]

\* What is there once the backend's tool has registered the instance and
\* before it is provisioned; podman registers it last.
Registered == [provisioned |-> Backend = "podman", up |-> Backend = "wsl2", disk |-> TRUE,
               claw |-> NoClaw, scripts |-> {}]

Provisioned == [provisioned |-> TRUE, up |-> TRUE, disk |-> TRUE, claw |-> NoClaw, scripts |-> {}]

Unpacked(v) == [provisioned |-> TRUE, up |-> FALSE, disk |-> TRUE, claw |-> v, scripts |-> {}]

StartVM == CanStart /\ vm' = AfterExec

\* A stop whose result is ignored.
TryStopVM ==
    \/ vm # NoVM /\ vm' = Off
    \/ (IsUp => "step" \in Faults) /\ UNCHANGED vm

\* destroy() returns Ok.  A no from the probe ends it at once, and podman
\* ignores the failure of `podman rm -f`.
DestroyOk ==
    \/ vm' = NoVM
    \/ FALSE \in IsPresent /\ UNCHANGED vm
    \/ Backend = "podman" /\ "step" \in Faults /\ UNCHANGED vm

\* destroy() returns an error.
DestroyErr ==
    /\ vm # NoVM
    /\ Backend # "podman"
    /\ "step" \in Faults
    /\ UNCHANGED vm

----------------------------------------------------------------------------
(* The script of install and upgrade, and the death of a command. *)

\* a's script, as one that lives on.
ScriptOf(a) == <<job[a].id, job[a].claw>>

\* The script lives on, though the command ends.
LivesOn(a) == vm' = [AfterExec EXCEPT !.scripts = @ \cup {ScriptOf(a)}]

\* Run the package's install command.  A failed one may have removed what
\* was there before; one that says nothing for too long is left to itself; and
\* the exit code that is read may be that of a script that was left before.
RunScript(a, next) ==
    \/ /\ CanExec
       /\ vm' = [AfterExec EXCEPT !.claw = job[a].claw]
       /\ job' = [job EXCEPT ![a].alone = (vm.scripts = {})]
       /\ Goto(a, next)
    \/ /\ CanExec
       /\ \E s \in vm.scripts :
             vm' = [AfterExec EXCEPT !.claw = s[2], !.scripts = (@ \ {s}) \cup {ScriptOf(a)}]
       /\ job' = [job EXCEPT ![a].alone = FALSE]
       /\ Goto(a, next)
    \/ /\ CanExec /\ "step" \in Faults
       /\ vm' = [AfterExec EXCEPT !.claw = NoClaw] \/ LivesOn(a)
       /\ End(a, "err")
    \/ /\ ~CanExec
       /\ End(a, "err")
       /\ UNCHANGED vm

\* A script that lives on comes to its end.
ScriptEnds ==
    /\ vm # NoVM
    /\ \E s \in vm.scripts, v \in Versions \cup {NoClaw} :
          /\ v = s[2] \/ (v = NoClaw /\ "step" \in Faults)
          /\ vm' = [vm EXCEPT !.claw = v, !.scripts = @ \ {s}]
    /\ UNCHANGED <<rec, bundle, pc, job, ret, asked>>

\* A command dies between two steps, or while its script runs.
Crash(a) ==
    /\ "crash" \in Faults
    /\ pc[a] # "idle"
    /\ End(a, "none")
    /\ UNCHANGED vm \/ (pc[a] \in {"i_script", "u_script"} /\ CanExec /\ LivesOn(a))
    /\ UNCHANGED <<rec, bundle>>

----------------------------------------------------------------------------
(* install *)

InstallFind(a) ==
    /\ pc[a] = "i_find"
    /\ IF rec = NoRec THEN Goto(a, "i_create") /\ UNCHANGED job ELSE End(a, "err")
    /\ UNCHANGED <<vm, rec, bundle>>

\* create(): nothing to do for an instance that is present; otherwise the
\* backend's tool is started, and stops with an error if the name is taken.
InstallCreate(a) ==
    /\ pc[a] = "i_create"
    /\ \/ /\ TRUE \in IsPresent
          /\ Goto(a, "i_verify")
          /\ UNCHANGED <<vm, job>>
       \/ /\ FALSE \in IsPresent
          /\ vm # NoVM
          /\ End(a, "err")
          /\ UNCHANGED vm
       \/ /\ vm = NoVM
          /\ vm' = IF Backend = "podman" THEN NoVM ELSE Registered
          /\ Goto(a, "i_creating")
          /\ UNCHANGED job
    /\ UNCHANGED <<rec, bundle>>

\* The tool comes back: done; or failed, with what it had registered left.
InstallCreated(a) ==
    /\ pc[a] = "i_creating"
    /\ \/ /\ (vm = NoVM) <=> (Backend = "podman")
          /\ vm' = IF vm = NoVM THEN Provisioned
                   ELSE [vm EXCEPT !.provisioned = TRUE, !.up = TRUE]
          /\ Goto(a, "i_verify")
          /\ UNCHANGED job
       \/ /\ Backend = "podman" /\ vm = NoVM /\ "step" \in Faults
          /\ vm' \in {NoVM, Registered}
          /\ End(a, "err")
       \/ /\ Backend # "podman" /\ vm # NoVM /\ "step" \in Faults
          /\ vm' \in {AfterExec, Off}
          /\ End(a, "err")
       \/ /\ (vm = NoVM) <=> (Backend # "podman")
          /\ End(a, "err")
          /\ UNCHANGED vm
    /\ UNCHANGED <<rec, bundle>>

\* The post-boot probes, mirrors, proxy and extra packages.
InstallVerify(a) ==
    /\ pc[a] = "i_verify"
    /\ IF CanExec
       THEN vm' = AfterExec /\ Goto(a, "i_script") /\ UNCHANGED job
       ELSE End(a, "err") /\ UNCHANGED vm
    /\ UNCHANGED <<rec, bundle>>

\* Fault variant: an error of the script is logged and the install goes on.
InstallScriptUnchecked(a) ==
    /\ pc[a] = "i_script"
    /\ vm' \in IF CanExec THEN {[AfterExec EXCEPT !.claw = v] : v \in {job[a].claw, vm.claw}}
               ELSE {vm}
    /\ Goto(a, "i_probe")
    /\ job' = [job EXCEPT ![a].alone = TRUE]
    /\ UNCHANGED <<rec, bundle>>

InstallScript(a) ==
    /\ pc[a] = "i_script"
    /\ RunScript(a, "i_probe")
    /\ UNCHANGED <<rec, bundle>>

\* The version probe, then the seed of the configuration, the dashboard and
\* the plugins, which change nothing kept here.
Probe(a, next) ==
    IF CanExec /\ vm.claw # NoClaw
    THEN vm' = AfterExec /\ Goto(a, next) /\ UNCHANGED job
    ELSE End(a, "err") /\ UNCHANGED vm

InstallProbe(a) ==
    /\ pc[a] = "i_probe"
    /\ Probe(a, "i_insert")
    /\ UNCHANGED <<rec, bundle>>

\* Insert a record unless there is one.
Insert(a, version) ==
    IF rec = NoRec
    THEN /\ rec' = [created_at |-> job[a].id, claw_version |-> version, proxy |-> NoProxy]
         /\ End(a, "ok")
    ELSE End(a, "err") /\ UNCHANGED rec

InstallInsert(a) ==
    /\ pc[a] = "i_insert"
    /\ Insert(a, job[a].claw)
    /\ UNCHANGED <<vm, bundle>>

Install(a) ==
    \/ InstallFind(a) \/ InstallCreate(a) \/ InstallCreated(a) \/ InstallVerify(a)
    \/ InstallScript(a) \/ InstallProbe(a) \/ InstallInsert(a)

----------------------------------------------------------------------------
(* `instance create`: record a VM that is already running. *)

RegisterFind(a) ==
    /\ pc[a] = "c_find"
    /\ IF rec = NoRec THEN Goto(a, "c_check") /\ UNCHANGED job ELSE End(a, "err")
    /\ UNCHANGED <<vm, rec, bundle>>

\* Status and doctor, then the port forwards: each is a rewrite of the
\* instance's file and a restart of the VM.
RegisterCheck(a) ==
    /\ pc[a] = "c_check"
    /\ \/ IsUp /\ Goto(a, "c_insert") /\ UNCHANGED <<vm, job>>
       \/ ~IsUp /\ End(a, "err") /\ UNCHANGED vm
       \/ /\ Backend = "lima" /\ IsUp /\ "step" \in Faults
          /\ vm' = Off
          /\ End(a, "err")
    /\ UNCHANGED <<rec, bundle>>

RegisterInsert(a) ==
    /\ pc[a] = "c_insert"
    /\ Insert(a, NoClaw)
    /\ UNCHANGED <<vm, bundle>>

Register(a) == RegisterFind(a) \/ RegisterCheck(a) \/ RegisterInsert(a)

----------------------------------------------------------------------------
(* upgrade *)

\* The record is read once, here, and written back at the end.
UpgradeFind(a) ==
    /\ pc[a] = "u_find"
    /\ IF rec # NoRec
       THEN Goto(a, "u_start") /\ job' = [job EXCEPT ![a].inst = rec]
       ELSE End(a, "err")
    /\ UNCHANGED <<vm, rec, bundle>>

UpgradeStart(a) ==
    /\ pc[a] = "u_start"
    /\ \/ StartVM /\ Goto(a, "u_script") /\ UNCHANGED job
       \/ ~CanStart /\ End(a, "err") /\ UNCHANGED vm
    /\ UNCHANGED <<rec, bundle>>

UpgradeScript(a) ==
    /\ pc[a] = "u_script"
    /\ RunScript(a, "u_probe")
    /\ UNCHANGED <<rec, bundle>>

UpgradeProbe(a) ==
    /\ pc[a] = "u_probe"
    /\ Probe(a, "u_update")
    /\ UNCHANGED <<rec, bundle>>

\* Write a record over the one of the same name; an error if there is none.
Update(a, inst, next) ==
    IF rec # NoRec
    THEN rec' = inst /\ next
    ELSE End(a, "err") /\ UNCHANGED rec

\* The record read at the start, with a new updated_at (not kept here).
UpgradeUpdate(a) ==
    /\ pc[a] = "u_update"
    /\ Update(a, job[a].inst, End(a, "ok"))
    /\ UNCHANGED <<vm, bundle>>

Upgrade(a) ==
    UpgradeFind(a) \/ UpgradeStart(a) \/ UpgradeScript(a) \/ UpgradeProbe(a) \/ UpgradeUpdate(a)

----------------------------------------------------------------------------
(* uninstall and `instance destroy` *)

DestroyFind(a) ==
    /\ pc[a] = "d_find"
    /\ IF rec # NoRec
       THEN Goto(a, "d_ports") /\ job' = [job EXCEPT ![a].inst = rec]
       ELSE End(a, "err")
    /\ UNCHANGED <<vm, rec, bundle>>

\* Port forwards are dropped one by one, and every error ignored; each
\* rewrite restarts a VM that is up.
DestroyPorts(a) ==
    /\ pc[a] = "d_ports"
    /\ \/ UNCHANGED vm
       \/ Backend = "lima" /\ IsUp /\ "step" \in Faults /\ vm' = Off
    /\ Goto(a, "d_vm")
    /\ UNCHANGED <<job, rec, bundle>>

\* The failure of destroy() is logged, and the record is removed all the same.
DestroyVM(a) ==
    /\ pc[a] = "d_vm"
    /\ DestroyOk \/ DestroyErr
    /\ Goto(a, "d_remove")
    /\ UNCHANGED <<job, rec, bundle>>

DestroyRemove(a) ==
    /\ pc[a] = "d_remove"
    /\ rec' = NoRec
    /\ End(a, IF rec # NoRec THEN "ok" ELSE "err")
    /\ UNCHANGED <<vm, bundle>>

Destroy(a) == DestroyFind(a) \/ DestroyPorts(a) \/ DestroyVM(a) \/ DestroyRemove(a)

----------------------------------------------------------------------------
(* The GUI's delete_instance_with_progress, run outside the lock but for    *)
(* the stop.                                                               *)

DeleteFind(a) ==
    /\ pc[a] = "g_find"
    /\ IF rec # NoRec THEN Goto(a, "g_stop") /\ UNCHANGED job ELSE End(a, "err")
    /\ UNCHANGED <<vm, rec, bundle>>

DeleteStop(a) ==
    /\ pc[a] = "g_stop"
    /\ LockFree(a)
    /\ TryStopVM
    /\ Goto(a, "g_destroy")
    /\ UNCHANGED <<job, rec, bundle>>

\* Fault variant: out of retries, the handler goes on as destroy does.
DeleteDestroyGoesOn(a) ==
    /\ pc[a] = "g_destroy"
    /\ DestroyOk \/ DestroyErr
    /\ Goto(a, "g_remove")
    /\ UNCHANGED <<job, rec, bundle>>

\* Fault variant: the retries are not counted down to an end.
DeleteDestroyForever(a) ==
    /\ pc[a] = "g_destroy"
    /\ \/ DestroyOk /\ Goto(a, "g_remove") /\ UNCHANGED job
       \/ /\ DestroyErr
          /\ job' = [job EXCEPT ![a].retries = @ - 1]
          /\ Goto(a, "g_destroy")
    /\ UNCHANGED <<rec, bundle>>

\* Three retries, then the error is returned and the record kept.
DeleteDestroy(a) ==
    /\ pc[a] = "g_destroy"
    /\ \/ DestroyOk /\ Goto(a, "g_remove") /\ UNCHANGED job
       \/ /\ DestroyErr
          /\ job[a].retries > 0
          /\ job' = [job EXCEPT ![a].retries = @ - 1]
          /\ Goto(a, "g_destroy")
       \/ DestroyErr /\ job[a].retries = 0 /\ End(a, "err")
    /\ UNCHANGED <<rec, bundle>>

\* The error of the registry is ignored.
DeleteRemove(a) ==
    /\ pc[a] = "g_remove"
    /\ rec' = NoRec \/ ("step" \in Faults /\ UNCHANGED rec)
    /\ End(a, "ok")
    /\ UNCHANGED <<vm, bundle>>

Delete(a) == DeleteFind(a) \/ DeleteStop(a) \/ DeleteDestroy(a) \/ DeleteRemove(a)

----------------------------------------------------------------------------
(* The GUI's set_instance_proxy. *)

ProxyFind(a) ==
    /\ pc[a] = "p_find"
    /\ IF rec # NoRec
       THEN Goto(a, "p_update") /\ job' = [job EXCEPT ![a].inst = rec]
       ELSE End(a, "err")
    /\ UNCHANGED <<vm, rec, bundle>>

ProxyUpdate(a) ==
    /\ pc[a] = "p_update"
    /\ Update(a, [job[a].inst EXCEPT !.proxy = job[a].proxy],
              Goto(a, "p_apply") /\ UNCHANGED job)
    /\ UNCHANGED <<vm, bundle>>

\* Apply it inside, which needs the VM up, or try to clear it there.
ProxyApply(a) ==
    /\ pc[a] = "p_apply"
    /\ IF CanExec THEN vm' = AfterExec /\ End(a, "ok")
       ELSE UNCHANGED vm /\ \E r \in {"ok", "err"} : End(a, r)
    /\ UNCHANGED <<rec, bundle>>

SetProxy(a) == ProxyFind(a) \/ ProxyUpdate(a) \/ ProxyApply(a)

----------------------------------------------------------------------------
(* start, stop, export, import: they need no record. *)

Start(a) ==
    /\ pc[a] = "start"
    /\ \/ StartVM /\ End(a, "ok")
       \/ ~CanStart /\ UNCHANGED vm /\ End(a, "err")
    /\ UNCHANGED <<rec, bundle>>

Stop(a) ==
    /\ pc[a] = "stop"
    /\ IF vm # NoVM
       THEN vm' = Off /\ End(a, "ok")
       ELSE UNCHANGED vm /\ End(a, "err")
    /\ UNCHANGED <<rec, bundle>>

\* Fault variant: no stop before the image is taken, on any backend.
ExportUnstopped(a) ==
    /\ pc[a] = "e_image"
    /\ TRUE \in IsPresent
    /\ vm' \in {vm, IF CanExec THEN AfterExec ELSE vm}
    /\ bundle' = IF vm'.up /\ Backend # "podman" THEN "torn" ELSE "whole"
    /\ End(a, "ok")
    /\ UNCHANGED rec

\* The version probe wakes a wsl distribution.  The future that would stop
\* the VM is made and dropped; Lima's export_image stops it, and ignores a
\* failure.
Export(a) ==
    /\ pc[a] = "e_image"
    /\ \/ /\ TRUE \in IsPresent
          /\ IF Backend = "lima" THEN TryStopVM ELSE vm' \in {vm, IF CanExec THEN AfterExec ELSE vm}
          /\ \/ /\ vm.disk
                /\ bundle' = IF vm'.up /\ Backend # "podman" THEN "torn" ELSE "whole"
                /\ End(a, "ok")
             \/ (vm.disk => "step" \in Faults) /\ End(a, "err") /\ UNCHANGED bundle
       \/ /\ FALSE \in IsPresent
          /\ End(a, "err")
          /\ UNCHANGED <<vm, bundle>>
    /\ UNCHANGED rec

\* The import fails over a distribution that the probe has missed, and the
\* roll-back removes its directory, with the disk, unless it is in use.
RollBackDistro ==
    /\ Backend = "wsl2" /\ FALSE \in IsPresent
    /\ vm # NoVM /\ ~vm.up
    /\ vm' = [vm EXCEPT !.provisioned = FALSE, !.disk = FALSE, !.claw = NoClaw]

\* Lima and wsl unpack the image under the new name, unless it is taken;
\* podman loads it under the name it was saved with.
ImportImage(a) ==
    /\ pc[a] = "m_image"
    /\ \/ /\ Backend # "podman" /\ vm = NoVM
          /\ vm' = Unpacked(job[a].claw)
          /\ Goto(a, "m_insert")
          /\ UNCHANGED job
       \/ /\ Backend # "podman" /\ vm # NoVM
          /\ End(a, "err")
          /\ UNCHANGED vm \/ RollBackDistro
       \/ /\ Backend = "podman"
          /\ Goto(a, "m_insert")
          /\ UNCHANGED <<vm, job>>
    /\ UNCHANGED <<rec, bundle>>

ImportInsert(a) ==
    /\ pc[a] = "m_insert"
    /\ Insert(a, job[a].claw)
    /\ UNCHANGED <<vm, bundle>>

Import(a) == ImportImage(a) \/ ImportInsert(a)

Step(a) ==
    \/ Install(a) \/ Register(a) \/ Upgrade(a) \/ Destroy(a) \/ Delete(a) \/ SetProxy(a)
    \/ Start(a) \/ Stop(a) \/ Export(a) \/ Import(a) \/ StepFails(a)

Next ==
    \/ \E a \in Actors : Request(a) \/ Step(a) \/ Crash(a)
    \/ ScriptEnds

Spec == Init /\ [][Next]_vars

----------------------------------------------------------------------------
(* Properties. *)

\* An install that succeeds leaves the VM up, and with the version it was
\* asked for if no script of an earlier command was living on in the VM when
\* it came to run its own: whatever installs, crashes and stops had left
\* behind.  The record is written last (orchestrator.rs, stages 3 to 8).
InstalledMeansRunningStep ==
    \A a \in Actors : (pc[a] = "i_insert" /\ ret'[a] = "ok") =>
        vm # NoVM /\ vm.up /\ (job[a].alone => vm.claw = job[a].claw)

\* The GUI's delete drops the record only when the VM is gone: a record is
\* the only handle a user has on a VM (ipc/instance.rs, stages 3 and 4).
DeleteLeavesNothingStep ==
    \A a \in Actors : (pc[a] = "g_remove" /\ ret'[a] = "ok") => vm = NoVM

\* What upgrade writes back is the record as it stands, but for the stamp:
\* it neither undoes a change made meanwhile nor brings back the record of
\* an instance that was destroyed (orchestrator.rs, upgrade).
UpgradeOnlyStampsStep ==
    \A a \in Actors : (pc[a] = "u_update" /\ ret'[a] = "ok") => rec' = rec

\* create() returns Ok for an instance that has been provisioned
\* (sandbox_backend/mod.rs, create; lima.rs, create).
CreateMeansProvisioned ==
    [][\A a \in Actors : (pc[a] \in {"i_create", "i_creating"} /\ pc'[a] = "i_verify") =>
         vm'.provisioned]_vars

\* When no command is under way there is a VM exactly when there is a
\* record of it, as long as nothing fails (orchestrator.rs, install and
\* destroy; cli_bridge.rs, the lock).
NothingLost ==
    (\A a \in Actors : pc[a] = "idle") => ((vm # NoVM) <=> (rec # NoRec))

\* An image is never taken of a running VM (verbs.rs, run_export).
ExportIsWhole == bundle # "torn"

=============================================================================
