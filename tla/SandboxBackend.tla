--------------------------- MODULE SandboxBackend ---------------------------
(***************************************************************************)
(* The three backends of the sandbox: what limactl, wsl and podman leave on *)
(* the host when a call is made up of several of their commands, each of    *)
(* which may fail, run out of time or be cut off.                           *)
(*                                                                         *)
(* Under each name there is a set of parts.  One of them is the mark by     *)
(* which is_present() tells an instance: lima's yaml file, wsl's            *)
(* registration, podman's container.  Lima's hostagent is a process on the  *)
(* host, found again by the pid in the instance's directory.                *)
(***************************************************************************)
EXTENDS Naturals

CONSTANTS
    Platform,   \* lima, wsl2 or podman
    Names,      \* instance names
    Callers,    \* where backend calls run
    Ops,        \* the calls that may be made
    Mishaps,    \* what may go wrong: step, timeout, probe, crash, reboot
    MaxOps,     \* bound on the calls of a behaviour
    NoPid,      \* no pid file
    StalePid    \* one that names a process of the past

AllOps == {"prereqs", "create", "export", "import", "destroy", "start", "stop", "rename"}

ASSUME BackendAssumption ==
    /\ Platform \in {"lima", "wsl2", "podman"}
    /\ Ops \subseteq AllOps
    /\ Mishaps \subseteq {"step", "timeout", "probe", "crash", "reboot"}
    /\ MaxOps \in Nat
    /\ NoPid \notin Names /\ StalePid \notin Names

VARIABLES
    tool,     \* limactl, podman, or Windows's features, on this host
    slot,     \* the parts there are under each name
    pidfile,  \* whose hostagent the ha.pid of each directory names
    image,    \* the last archive an export wrote
    missed,   \* the names whose agent a destroy has failed to end
    doing,    \* the call each caller makes
    outcome,  \* how its last one ended
    made      \* calls so far

backend == <<tool, slot, pidfile, image, missed, doing, outcome, made>>

Parts ==
    CASE Platform = "lima"   -> {"template", "dir", "yaml", "filled", "agent", "up"}
      [] Platform = "wsl2"   -> {"dir", "reg", "filled", "up"}
      [] Platform = "podman" -> {"context", "image", "container", "filled", "up"}

Mark == CASE Platform = "lima" -> "yaml" [] Platform = "wsl2" -> "reg" [] Platform = "podman" -> "container"

Stages == {"present", "probe", "fetch", "unpack", "hw", "running", "features", "running2",
           "elevate", "running3", "managers", "stage", "launch", "boot", "rootfs", "register",
           "provision", "context", "build", "run", "halt", "read", "reading", "fill", "rollback",
           "load", "kill", "delete", "tidy", "unregister", "remove", "untag", "power", "move"}
Call == [op : AllOps, at : Stages, name : Names, to : Names, left : 0..4]
Idle == [at |-> "idle"]

BackendTypeOK ==
    /\ tool \in {"none", "broken", "bare", "owed", "whole"}
    /\ slot \in [Names -> SUBSET Parts]
    /\ pidfile \in [Names -> Names \cup {NoPid, StalePid}]
    /\ image \in [is : {"none", "reading", "whole", "torn"}, of : Names, pid : Names \cup {NoPid, StalePid}]
    /\ missed \subseteq Names
    /\ doing \in [Callers -> Call \cup {Idle}]
    /\ outcome \in [Callers -> {"none", "ok", "err"}]
    /\ made \in 0..MaxOps

BackendInit ==
    /\ tool \in {"none", "whole"}
    /\ slot = [n \in Names |-> {}]
    /\ pidfile = [n \in Names |-> NoPid]
    /\ image \in [is : {"none"}, of : Names, pid : {NoPid}]
    /\ missed = {}
    /\ doing = [c \in Callers |-> Idle]
    /\ outcome = [c \in Callers |-> "none"]
    /\ made = 0

----------------------------------------------------------------------------
(* Control. *)

On(b) == Platform = b
At(c, s) == doing[c].at = s
Its(c) == doing[c].name

Proceed(c, s) ==
    /\ doing' = [doing EXCEPT ![c].at = s]
    /\ UNCHANGED <<outcome, made>>

Finish(c, r) ==
    /\ doing' = [doing EXCEPT ![c] = Idle]
    /\ outcome' = [outcome EXCEPT ![c] = r]
    /\ UNCHANGED made

\* An archive is being written of this instance; podman saves the image its
\* container was made from, which a running container does not change.
Reading(n) == ~On("podman") /\ \E c \in Callers : At(c, "reading") /\ Its(c) = n

\* The name holds these parts and this pid file from now on.  A pid file
\* that names an agent which has ended names nothing of ours any more.
HoldPid(n, p, pid) ==
    LET old(q) == IF q = n /\ "agent" \notin p THEN StalePid ELSE q IN
    /\ slot' = [slot EXCEPT ![n] = p]
    /\ pidfile' = [m \in Names |-> IF m = n THEN pid ELSE old(pidfile[m])]
    /\ image' = [image EXCEPT !.is = IF Reading(n) /\ "up" \in p THEN "torn" ELSE @, !.pid = old(@)]

Hold(n, p) == HoldPid(n, p, pidfile[n])

Same == UNCHANGED <<slot, pidfile, image>>
ToolWorks == tool = "whole"
Present(n) == Mark \in slot[n]

\* Answers of is_present().unwrap_or(false): a look at a file, or a command
\* that is given five seconds.
Probed(n) == {Present(n)} \cup IF ~On("lima") /\ "probe" \in Mishaps THEN {FALSE} ELSE {}

FirstStage(op) ==
    CASE op = "prereqs" -> "probe"
      [] op \in {"create", "export", "import", "destroy"} -> "present"
      [] op \in {"start", "stop"} -> "power"
      [] op = "rename" -> "halt"

\* One archive is written at a time, and there is one to import.
Ask(c) ==
    /\ doing[c] = Idle
    /\ made < MaxOps
    /\ \E op \in Ops, n \in Names, m \in Names :
        /\ (op = "rename") <=> (m # n)
        /\ op = "import" => image.is \in {"whole", "torn"}
        /\ op = "export" => \A d \in Callers : doing[d] # Idle => doing[d].op # "export"
        /\ doing' = [doing EXCEPT ![c] = [op |-> op, at |-> FirstStage(op), name |-> n, to |-> m, left |-> 4]]
    /\ made' = made + 1
    /\ outcome' = [outcome EXCEPT ![c] = "none"]
    /\ UNCHANGED <<tool, slot, pidfile, image>>

\* The caller dies between two commands.
Dies(c) ==
    /\ "crash" \in Mishaps
    /\ doing[c] # Idle
    /\ Finish(c, "none")
    /\ UNCHANGED <<tool, slot, pidfile>>
    /\ image' = IF At(c, "reading") THEN [image EXCEPT !.is = "torn"] ELSE image

\* A command fails with no effect, and its error is passed on.
GivesUp(c) ==
    /\ "step" \in Mishaps
    /\ \E s \in {"probe", "fetch", "running", "running2", "running3", "managers", "stage", "launch",
                 "rootfs", "register", "context", "build", "read", "load", "delete", "unregister",
                 "power", "move"} : At(c, s)
    /\ Finish(c, "err")
    /\ UNCHANGED <<tool, slot, pidfile, image>>

\* The host restarts: no VM, no agent and no caller survives, the files do.
Reboot ==
    /\ "reboot" \in Mishaps
    /\ tool' = IF tool = "owed" THEN "whole" ELSE tool
    /\ slot' = [n \in Names |-> slot[n] \ {"up", "agent"}]
    /\ pidfile' = [n \in Names |-> IF pidfile[n] = NoPid THEN NoPid ELSE StalePid]
    /\ image' = [image EXCEPT !.is = IF @ = "reading" THEN "torn" ELSE @,
                              !.pid = IF @ = NoPid THEN NoPid ELSE StalePid]
    /\ missed' = {}
    /\ doing' = [c \in Callers |-> Idle]
    /\ outcome' = [c \in Callers |-> "none"]
    /\ UNCHANGED made

----------------------------------------------------------------------------
(* ensure_prerequisites *)

\* `limactl --version` needs the binary alone.
ProbeTool(c) ==
    /\ At(c, "probe")
    /\ \/ On("wsl2") /\ Proceed(c, "hw")
       \/ On("lima") /\ tool \in {"bare", "whole"} /\ Finish(c, "ok")
       \/ On("podman") /\ tool = "whole" /\ Finish(c, "ok")
       \/ On("lima") /\ (tool \in {"none", "broken"} \/ "probe" \in Mishaps) /\ Proceed(c, "fetch")
       \/ On("podman") /\ (tool # "whole" \/ "probe" \in Mishaps) /\ Proceed(c, "managers")
    /\ UNCHANGED tool /\ Same

FetchTool(c) ==
    /\ At(c, "fetch")
    /\ Proceed(c, "unpack")
    /\ UNCHANGED tool /\ Same

\* Unpacked over what is there: cut short, the binary may be there or not.
UnpackTool(c) ==
    /\ At(c, "unpack")
    /\ \/ tool' = "whole" /\ Finish(c, "ok")
       \/ /\ tool' \in {"broken", "bare"}
          /\ \/ "step" \in Mishaps /\ Finish(c, "err")
             \/ "crash" \in Mishaps /\ Finish(c, "none")
    /\ Same

\* A VM must show nested virtualisation; a probe that fails shows none.
ProbeHardware(c) ==
    /\ At(c, "hw")
    /\ \/ Proceed(c, "running")
       \/ "probe" \in Mishaps /\ Finish(c, "err")
    /\ UNCHANGED tool /\ Same

\* is_available(): is the instance itself running?
AskRunning(c, s, next) ==
    /\ At(c, s)
    /\ IF "up" \in slot[Its(c)] THEN Finish(c, "ok") ELSE next
    /\ UNCHANGED tool /\ Same

\* With both features enabled: the default version and the kernel update.
ProbeFeatures(c) ==
    /\ At(c, "features")
    /\ \/ tool # "none" /\ Proceed(c, "running2")
       \/ (tool = "none" \/ "probe" \in Mishaps) /\ Proceed(c, "elevate")
    /\ UNCHANGED tool /\ Same

\* The user is asked for administrator rights, and may refuse.
Elevate(c) ==
    /\ At(c, "elevate")
    /\ \/ tool' = (IF tool = "none" THEN "owed" ELSE tool) /\ Proceed(c, "running3")
       \/ UNCHANGED tool /\ Finish(c, "err")
    /\ Same

\* apt-get, dnf, pacman, zypper: the first that gives a podman that answers.
TryManager(c) ==
    /\ At(c, "managers")
    /\ \/ doing[c].left > 0 /\ tool' = "whole" /\ Finish(c, "ok")
       \/ /\ doing[c].left > 0
          /\ doing' = [doing EXCEPT ![c].left = @ - 1]
          /\ UNCHANGED <<tool, outcome, made>>
       \/ doing[c].left = 0 /\ UNCHANGED tool /\ Finish(c, "err")
    /\ Same

Prerequisites(c) ==
    \/ ProbeTool(c) \/ FetchTool(c) \/ UnpackTool(c) \/ ProbeHardware(c)
    \/ AskRunning(c, "running", Proceed(c, "features"))
    \/ ProbeFeatures(c)
    \/ AskRunning(c, "running2", Proceed(c, "elevate"))
    \/ Elevate(c)
    \/ AskRunning(c, "running3", Finish(c, "err"))
    \/ TryManager(c)

----------------------------------------------------------------------------
(* create *)

ProbeFirst(c) ==
    /\ At(c, "present") /\ doing[c].op = "create"
    /\ \/ TRUE \in Probed(Its(c)) /\ Finish(c, "ok")
       \/ /\ FALSE \in Probed(Its(c))
          /\ Proceed(c, CASE On("lima") -> "stage" [] On("wsl2") -> "rootfs" [] On("podman") -> "context")
    /\ UNCHANGED tool /\ Same

\* The file or directory a later command reads: the template, the directory
\* of the distribution (once the root filesystem is fetched), the context.
Stage(c) ==
    /\ \/ At(c, "stage") /\ Hold(Its(c), slot[Its(c)] \cup {"template"}) /\ Proceed(c, "launch")
       \/ At(c, "rootfs") /\ Hold(Its(c), slot[Its(c)] \cup {"dir"}) /\ Proceed(c, "register")
       \/ At(c, "context") /\ Hold(Its(c), slot[Its(c)] \cup {"context"}) /\ Proceed(c, "build")
    /\ UNCHANGED tool

\* `limactl start --name`: a taken name is refused.
LaunchVM(c) ==
    /\ At(c, "launch")
    /\ IF ToolWorks /\ ~Present(Its(c))
       THEN Hold(Its(c), slot[Its(c)] \cup {"dir", "yaml"}) /\ Proceed(c, "boot")
       ELSE Same /\ Finish(c, "err")
    /\ UNCHANGED tool

\* The agent starts, the VM boots and runs its first-boot script; given up
\* after 20 minutes, or failed, it is left as far as it came.
BootVM(c) ==
    /\ At(c, "boot")
    /\ LET n == Its(c) IN
       \/ /\ Present(n)
          /\ HoldPid(n, slot[n] \cup {"agent", "up", "filled"}, n)
          /\ Finish(c, "ok")
       \/ /\ Present(n) /\ Mishaps \cap {"step", "timeout"} # {}
          /\ \E p \in {{}, {"agent", "up"}} :
                HoldPid(n, slot[n] \cup p, IF p = {} THEN pidfile[n] ELSE n)
          /\ Finish(c, "err")
       \/ ~Present(n) /\ Same /\ Finish(c, "err")
    /\ UNCHANGED tool

\* `wsl --import` of the root filesystem.
RegisterDistro(c) ==
    /\ At(c, "register")
    /\ IF ToolWorks /\ ~Present(Its(c))
       THEN Hold(Its(c), slot[Its(c)] \cup {"dir", "reg"}) /\ Proceed(c, "provision")
       ELSE Same /\ Finish(c, "err")
    /\ UNCHANGED tool

\* The provision script, run inside: that wakes the distribution.
ProvisionDistro(c) ==
    /\ At(c, "provision")
    /\ LET n == Its(c) IN
       \/ Present(n) /\ Hold(n, slot[n] \cup {"up", "filled"}) /\ Finish(c, "ok")
       \/ /\ Present(n) /\ Mishaps \cap {"step", "timeout"} # {}
          /\ \E p \in {{}, {"up"}} : Hold(n, slot[n] \cup p)
          /\ Finish(c, "err")
       \/ ~Present(n) /\ Same /\ Finish(c, "err")
    /\ UNCHANGED tool

BuildImage(c) ==
    /\ At(c, "build")
    /\ IF ToolWorks
       THEN Hold(Its(c), slot[Its(c)] \cup {"image"}) /\ Proceed(c, "run")
       ELSE Same /\ Finish(c, "err")
    /\ UNCHANGED tool

\* `podman run -d`: made from the image, then started, which may fail.
RunContainer(c) ==
    /\ At(c, "run")
    /\ LET n == Its(c) IN
       \/ /\ ~Present(n) /\ "image" \in slot[n]
          /\ Hold(n, slot[n] \cup {"container", "filled", "up"})
          /\ Finish(c, "ok")
       \/ /\ ~Present(n) /\ "image" \in slot[n] /\ Mishaps \cap {"step", "timeout"} # {}
          /\ \E p \in {{}, {"container", "filled"}} : Hold(n, slot[n] \cup p)
          /\ Finish(c, "err")
       \/ (Present(n) \/ "image" \notin slot[n]) /\ Same /\ Finish(c, "err")
    /\ UNCHANGED tool

CreateInstance(c) ==
    \/ ProbeFirst(c) \/ Stage(c) \/ LaunchVM(c) \/ BootVM(c) \/ RegisterDistro(c)
    \/ ProvisionDistro(c) \/ BuildImage(c) \/ RunContainer(c)

----------------------------------------------------------------------------
(* start, stop, rename *)

Powers(c, op, b) == At(c, "power") /\ doing[c].op = op /\ On(b) /\ UNCHANGED tool
Works(c) == Present(Its(c)) /\ ToolWorks
Fails(c) == ~Works(c) /\ Same /\ Finish(c, "err")

LimaStart(c) ==
    /\ Powers(c, "start", "lima")
    /\ \/ Works(c) /\ HoldPid(Its(c), slot[Its(c)] \cup {"up", "agent"}, Its(c)) /\ Finish(c, "ok")
       \/ Fails(c)

\* Any command starts a distribution; this one is `true`.
WslStart(c) ==
    /\ Powers(c, "start", "wsl2")
    /\ \/ Works(c) /\ Hold(Its(c), slot[Its(c)] \cup {"up"}) /\ Finish(c, "ok")
       \/ Fails(c)

PodmanStart(c) ==
    /\ Powers(c, "start", "podman")
    /\ \/ Works(c) /\ Hold(Its(c), slot[Its(c)] \cup {"up"}) /\ Finish(c, "ok")
       \/ Fails(c)

\* The VM ends, and Lima's agent with it; the agent removes its pid file.
Down(n) == HoldPid(n, slot[n] \ {"up", "agent"}, NoPid)

LimaStop(c) ==
    /\ Powers(c, "stop", "lima")
    /\ \/ Works(c) /\ Down(Its(c)) /\ Finish(c, "ok")
       \/ Fails(c)

WslStop(c) ==
    /\ Powers(c, "stop", "wsl2")
    /\ \/ Works(c) /\ Down(Its(c)) /\ Finish(c, "ok")
       \/ Fails(c)

PodmanStop(c) ==
    /\ Powers(c, "stop", "podman")
    /\ \/ Works(c) /\ Down(Its(c)) /\ Finish(c, "ok")
       \/ Fails(c)

\* A stop whose failure is ignored, before a rename and before an export.
Halt(c) ==
    /\ At(c, "halt") /\ On("lima")
    /\ \/ Works(c) /\ Down(Its(c))
       \/ (~Works(c) \/ Mishaps \cap {"step", "timeout"} # {}) /\ Same
    /\ Proceed(c, IF doing[c].op = "rename" THEN "move" ELSE "read")
    /\ UNCHANGED tool

\* The other backends know no rename.
NoRename(c) ==
    /\ At(c, "halt") /\ ~On("lima")
    /\ Finish(c, "err")
    /\ UNCHANGED tool /\ Same

\* `limactl rename` moves the directory; the template keeps the old name, and
\* so does an agent that a destroy has failed to end.
Move(c) ==
    /\ At(c, "move")
    /\ LET n == Its(c) m == doing[c].to IN
       IF Works(c) /\ "up" \notin slot[n] /\ "dir" \notin slot[m]
       THEN /\ slot' = [slot EXCEPT ![n] = @ \cap {"template", "agent"},
                                    ![m] = @ \cup (slot[n] \ {"template", "agent"})]
            /\ pidfile' = [pidfile EXCEPT ![n] = NoPid, ![m] = pidfile[n]]
            /\ Finish(c, "ok")
       ELSE UNCHANGED <<slot, pidfile>> /\ Finish(c, "err")
    /\ UNCHANGED <<tool, image>>

Power(c) ==
    \/ LimaStart(c) \/ WslStart(c) \/ PodmanStart(c) \/ LimaStop(c) \/ WslStop(c) \/ PodmanStop(c)
    \/ Halt(c) \/ NoRename(c) \/ Move(c)

----------------------------------------------------------------------------
(* export_image and import_image *)

\* Fault variant: Lima's export trusts that its caller has stopped the VM.
ProbeExportUnstopped(c) ==
    /\ At(c, "present") /\ doing[c].op = "export"
    /\ \/ TRUE \in Probed(Its(c)) /\ Proceed(c, "read")
       \/ FALSE \in Probed(Its(c)) /\ Finish(c, "err")
    /\ UNCHANGED tool /\ Same

ProbeExport(c) ==
    /\ At(c, "present") /\ doing[c].op = "export"
    /\ \/ TRUE \in Probed(Its(c)) /\ Proceed(c, IF On("lima") THEN "halt" ELSE "read")
       \/ FALSE \in Probed(Its(c)) /\ Finish(c, "err")
    /\ UNCHANGED tool /\ Same

\* The archive takes the whole directory, a pid file in it included.
OpenArchive(c) ==
    /\ At(c, "read")
    /\ LET n == Its(c) IN
       IF Present(n) /\ ToolWorks
       THEN /\ image' = [is |-> IF "up" \in slot[n] /\ ~On("podman") THEN "torn" ELSE "reading",
                         of |-> n, pid |-> pidfile[n]]
            /\ Proceed(c, "reading")
       ELSE UNCHANGED image /\ Finish(c, "err")
    /\ UNCHANGED <<tool, slot, pidfile>>

\* An export that fails leaves the file it was writing.
CloseArchive(c) ==
    /\ At(c, "reading")
    /\ \/ image' = [image EXCEPT !.is = IF @ = "reading" THEN "whole" ELSE @] /\ Finish(c, "ok")
       \/ /\ Mishaps \cap {"step", "timeout"} # {}
          /\ image' = [image EXCEPT !.is = "torn"]
          /\ Finish(c, "err")
    /\ UNCHANGED <<tool, slot, pidfile>>

\* Fault variant: an import goes on over an instance that is present.
ProbeImportAnyway(c) ==
    /\ At(c, "present") /\ doing[c].op = "import"
    /\ \/ On("podman") /\ Same /\ Proceed(c, "load")
       \/ ~On("podman") /\ Hold(Its(c), slot[Its(c)] \cup {"dir"}) /\ Proceed(c, "fill")
    /\ UNCHANGED tool

\* Present: refused; else its directory is made.  Podman loads unasked.
ProbeImport(c) ==
    /\ At(c, "present") /\ doing[c].op = "import"
    /\ \/ On("podman") /\ Same /\ Proceed(c, "load")
       \/ ~On("podman") /\ TRUE \in Probed(Its(c)) /\ Same /\ Finish(c, "err")
       \/ /\ ~On("podman") /\ FALSE \in Probed(Its(c))
          /\ Hold(Its(c), slot[Its(c)] \cup {"dir"})
          /\ Proceed(c, "fill")
    /\ UNCHANGED tool

\* tar unpacks over whatever is there.  A tar that fails is rolled back, one
\* that runs out of time is not.
FillVM(c) ==
    /\ At(c, "fill") /\ On("lima")
    /\ LET n == Its(c) IN
       \/ /\ HoldPid(n, slot[n] \cup {"dir", "yaml", "filled"}, image.pid)
          /\ Finish(c, "ok")
       \/ \E p \in {{}, {"yaml"}}, q \in {pidfile[n], image.pid} :
          /\ HoldPid(n, slot[n] \cup {"dir"} \cup p, q)
          /\ \/ "step" \in Mishaps /\ Proceed(c, "rollback")
             \/ "timeout" \in Mishaps /\ Finish(c, "err")
    /\ UNCHANGED tool

\* `wsl --import` fails when the name is taken.
FillDistro(c) ==
    /\ At(c, "fill") /\ On("wsl2")
    /\ LET n == Its(c) IN
       \/ ~Present(n) /\ ToolWorks /\ Hold(n, slot[n] \cup {"dir", "reg", "filled"}) /\ Finish(c, "ok")
       \/ (Present(n) \/ ~ToolWorks \/ "step" \in Mishaps) /\ Same /\ Proceed(c, "rollback")
       \/ "timeout" \in Mishaps /\ Same /\ Finish(c, "err")
    /\ UNCHANGED tool

\* The directory is removed, unless a running distribution holds its disk
\* open or the removal fails; either way the import has failed.
RollBack(c) ==
    /\ At(c, "rollback")
    /\ LET n == Its(c) IN
       \/ /\ ~(On("wsl2") /\ "up" \in slot[n])
          /\ HoldPid(n, slot[n] \ {"dir", "yaml", "filled"}, NoPid)
       \/ ((On("wsl2") /\ "up" \in slot[n]) \/ "step" \in Mishaps) /\ Same
    /\ Finish(c, "err")
    /\ UNCHANGED tool

\* `podman load` gives the image the name it was saved with.
LoadImage(c) ==
    /\ At(c, "load")
    /\ IF ToolWorks
       THEN Hold(image.of, slot[image.of] \cup {"image"}) /\ Finish(c, "ok")
       ELSE Same /\ Finish(c, "err")
    /\ UNCHANGED tool

Images(c) ==
    \/ ProbeExport(c) \/ OpenArchive(c) \/ CloseArchive(c)
    \/ ProbeImport(c) \/ FillVM(c) \/ FillDistro(c) \/ RollBack(c) \/ LoadImage(c)

----------------------------------------------------------------------------
(* destroy *)

\* Fault variant: wsl2's directory goes before the registration.
ProbeDestroyTidyFirst(c) ==
    /\ At(c, "present") /\ doing[c].op = "destroy"
    /\ \/ FALSE \in Probed(Its(c)) /\ Same /\ Finish(c, "ok")
       \/ /\ TRUE \in Probed(Its(c))
          /\ Hold(Its(c), slot[Its(c)] \ IF On("wsl2") THEN {"dir", "filled"} ELSE {})
          /\ Proceed(c, CASE On("lima") -> "kill" [] On("wsl2") -> "unregister" [] On("podman") -> "remove")
    /\ UNCHANGED tool

\* Fault variant: Lima's delete is trusted to end the agent.
ProbeDestroyNoKill(c) ==
    /\ At(c, "present") /\ doing[c].op = "destroy"
    /\ \/ FALSE \in Probed(Its(c)) /\ Finish(c, "ok")
       \/ /\ TRUE \in Probed(Its(c))
          /\ Proceed(c, CASE On("lima") -> "delete" [] On("wsl2") -> "unregister" [] On("podman") -> "remove")
    /\ UNCHANGED tool /\ Same

ProbeDestroy(c) ==
    /\ At(c, "present") /\ doing[c].op = "destroy"
    /\ \/ FALSE \in Probed(Its(c)) /\ Finish(c, "ok")
       \/ /\ TRUE \in Probed(Its(c))
          /\ Proceed(c, CASE On("lima") -> "kill" [] On("wsl2") -> "unregister" [] On("podman") -> "remove")
    /\ UNCHANGED tool /\ Same

\* SIGTERM to the process the pid file names: it ends, and its VM with it.
KillAgent(c) ==
    /\ At(c, "kill")
    /\ LET p == pidfile[Its(c)] IN
       IF p \in Names THEN HoldPid(p, slot[p] \ {"agent", "up"}, NoPid) ELSE Same
    /\ Proceed(c, "delete")
    /\ UNCHANGED tool

\* The pid file could not be read, or the kill failed: either is ignored, and
\* the agent lives on when the directory and its pid file are gone.
KillFails(c) ==
    /\ At(c, "kill")
    /\ "step" \in Mishaps /\ pidfile[Its(c)] \in Names
    /\ missed' = missed \cup {Its(c)}
    /\ Proceed(c, "delete")
    /\ UNCHANGED tool /\ Same

\* `limactl delete --force` removes the directory, and no agent.
DeleteVM(c) ==
    /\ At(c, "delete")
    /\ IF ToolWorks
       THEN /\ HoldPid(Its(c), slot[Its(c)] \ {"dir", "yaml", "filled", "up"}, NoPid)
            /\ Proceed(c, "tidy")
       ELSE Same /\ Finish(c, "err")
    /\ UNCHANGED tool

\* `wsl --unregister` removes the disk with the registration.
UnregisterDistro(c) ==
    /\ At(c, "unregister")
    /\ IF Present(Its(c)) /\ ToolWorks
       THEN Hold(Its(c), slot[Its(c)] \ {"reg", "filled", "up"}) /\ Proceed(c, "tidy")
       ELSE Same /\ Finish(c, "err")
    /\ UNCHANGED tool

\* `podman rm -f`, whose failure is ignored.
RemoveContainer(c) ==
    /\ At(c, "remove")
    /\ \/ ToolWorks /\ Hold(Its(c), slot[Its(c)] \ {"container", "filled", "up"})
       \/ (~ToolWorks \/ Mishaps \cap {"step", "timeout"} # {}) /\ Same
    /\ Proceed(c, "untag")
    /\ UNCHANGED tool

\* `podman rmi -f`, ignored too: it takes containers of the image along.
RemoveImage(c) ==
    /\ At(c, "untag")
    /\ \/ ToolWorks /\ Hold(Its(c), slot[Its(c)] \ {"image", "container", "filled", "up"})
       \/ (~ToolWorks \/ Mishaps \cap {"step", "timeout"} # {}) /\ Same
    /\ Proceed(c, "tidy")
    /\ UNCHANGED tool

\* The template, the directory or the context, if it can be removed.
Tidy(c) ==
    /\ At(c, "tidy")
    /\ \/ Hold(Its(c), slot[Its(c)] \ CASE On("lima") -> {"template"} [] On("wsl2") -> {"dir"}
                                        [] On("podman") -> {"context"})
       \/ "step" \in Mishaps /\ Same
    /\ Finish(c, "ok")
    /\ UNCHANGED tool

DestroyInstance(c) ==
    \/ ProbeDestroy(c) \/ KillAgent(c) \/ DeleteVM(c) \/ UnregisterDistro(c) \/ RemoveContainer(c)
    \/ RemoveImage(c) \/ Tidy(c)

BackendNext ==
    \/ \E c \in Callers :
        /\ \/ Ask(c) \/ Dies(c) \/ GivesUp(c)
           \/ Prerequisites(c) \/ CreateInstance(c) \/ Power(c) \/ Images(c) \/ DestroyInstance(c)
        /\ UNCHANGED missed
    \/ \E c \in Callers : KillFails(c)
    \/ Reboot

BackendSpec == BackendInit /\ [][BackendNext]_backend

----------------------------------------------------------------------------
(* Properties. *)

\* A running hostagent can be found: the pid file of its own directory names
\* it.  Otherwise nothing of clawenv ends it, and it keeps the host port of
\* the instance (lima.rs, destroy: "multi-hour orphan hostagents").  A name
\* is left out once a destroy of it has failed to read the pid file or to
\* kill, which leaves the very orphan the kill is there against.
AgentsReachable ==
    On("lima") => \A n \in Names \ missed : "agent" \in slot[n] => pidfile[n] = n /\ Present(n)

\* An archive that is whole names no running agent: the destroy of what is
\* imported from it cannot end the agent of the instance it was taken of
\* (lima.rs, export_image and destroy).
WholeNamesNoAgent == image.is = "whole" => image.pid \notin Names

\* A provisioned instance is lost to its own destroy or rename only: never
\* to an import, whatever it runs into (lima.rs:219, "Refuse to overwrite a
\* present instance"; wsl.rs, import_image).
Intact(n) == Present(n) /\ "filled" \in slot[n]
OnlyDestroyTakesStep ==
    \A n \in Names : Intact(n) /\ ~Intact(n)' =>
        \E c \in Callers : doing[c] # Idle /\ Its(c) = n /\ doing[c].op \in {"destroy", "rename"}
OnlyDestroyTakes == [][OnlyDestroyTakesStep]_backend

\* The parts amount to one machine under each name, as the callers of a
\* backend take it (sandbox_backend/mod.rs, SandboxBackend).
Machines == [n \in Names |-> [there |-> Present(n), whole |-> Intact(n), up |-> Present(n) /\ "up" \in slot[n]]]
Slot == INSTANCE BackendSlot WITH machine <- Machines
IsOneMachine == Slot!SlotSpec

=============================================================================
