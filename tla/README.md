# ClawEnv: a verification development in TLA+

ClawEnv installs AI "claw" agents into sandboxes (Lima, WSL2, Podman) or on the
host itself, and gives them a bridge to the host. This directory holds TLA+
modules of the parts of it whose behaviour depends on order, failure and
concurrency, TLC configurations that check them on small instances, and proofs
of the central facts for every value of the constants.

Contents: [1 the system](#1-the-system) · [2 modules](#2-the-modules) ·
[3 runs](#3-the-runs) · [4 fairness](#4-fairness) · [5 proofs](#5-the-proofs) ·
[6 divergences](#6-where-the-code-and-its-words-part) ·
[7 not modelled](#7-what-is-not-modelled) · [8 plan](#8-plan) ·
[9 running it](#9-running-it)

## 1. The system

Four programs share one core library (`src/core`):

- **clawcli** (`src/cli`): one process per command; does all the work.
- **the GUI** (`src/tauri`, Tauri + SolidJS): starts a clawcli child for most
  commands and reads its JSON events; a few handlers call the core directly.
- **the bridge server** (`src/tauri/src/bridge_server`): an axum server inside
  the GUI that agents and hardware devices talk to.
- **what runs in the sandbox**: the provisioning scripts and the claw itself.

They share no memory beyond one process. What they have in common is files
under `~/.clawenv` (the registry `instances.toml`, `config.toml`, the download
cache, the native components) and the VMs the backend keeps.

| Part | State | Operations | Hard behaviour | What makes it correct |
|---|---|---|---|---|
| Instance registry, `core/src/instance/config.rs` | `instances.toml`, `instances.tmp` | list, find, insert, update, remove | load-edit-rename without a lock, from several processes; kills | every call takes effect at one instant; the file never vanishes, never holds half a write |
| Orchestrator, `core/src/instance/orchestrator.rs` | record, VM | install, create, upgrade, destroy, launch | steps that fail with no rollback; kills; records read minutes before they are written | success means what it says; a VM goes only with its record, a record comes only with its VM |
| Sandbox backends, `core/src/sandbox_backend` | VM directory, run state, ports | create, start, stop, destroy, exec, export, import, ports | half-made VMs; failing probes; three different meanings of "exists" | create means provisioned; destroy means gone |
| Background script, `core/src/provisioning/background.rs` | log file, done file, heartbeat in the guest; poll counters on the host | run, poll, give up | fixed paths reused by a retry; idle timeout against a silent command; VM that dies | the code returned is the command's own; the wait ends |
| Process runners, `core/src/runners` | child, readers, event channel | exec, exec_streaming, cancel, timeout | helper processes on inherited pipes; bounded channel; dropped receivers | output whole, Completed last, a cancelled call answers |
| Cancellation token, `core/src/common/cancel.rs` | flag, Notify | cancel, cancelled | cancel between a check and the registration of the waiter | no wake-up is lost, none is spurious |
| Bridge: HIL and approval, `bridge_server/server.rs` 183-467 | RwLock, Notify permits, one slot each | hil request/status/complete, exec, file access, approve, deny | guards held across awaits; fair lock queue; clients that go away | every request is answered; the lock and the waiters stay consistent |
| Bridge: hardware devices, `server.rs` 470-777 | device table, socket ids, two broadcast channels | register, unregister, connect, notify, callback | reconnects; receivers that lag; expiry | a device gets a notification once; what its socket's queue holds reaches it or is overrun |
| Native components, `core/src/native_ops/default.rs`, `extract.rs` | target, `.staging`, `.backup` directories | install, upgrade, reinstall | kills between two renames; failing removals; guards that clean up | never half a version in use; an old version survives a failed upgrade |
| Download cache, `core/src/download_ops/default.rs` | cache file per artifact | fetch, verify, prune | partial files; two processes; prune under an open handle | Ok means the whole artifact; a fetch ends unless the body does not |
| Guest set-up, `core/src/provisioning` (post_boot, mirrors, mcp, dashboard), `claw_ops` | packages, proxy files, claw and plugins in the VM | gate, mirrors, proxy, install, deploy | SSH that comes and goes after boot; answers lost with the connection; what an earlier run left | the gate blames what is wrong; success means everything asked for is there |
| Native instances, `orchestrator.rs` 557-725, 842-1235 | npm prefix, record, gateway processes nobody holds | install, upgrade, launch, start, stop, destroy | a port answered by an older gateway; npm failing half way; the GUI's diagnostic fix | a record stands for a binary; what answers is what was installed |
| Port forwards, `sandbox_ops`, `lima.rs` 336-355 | `lima.yaml`, netsh's table, the record's ports | add, remove, edit, create, doctor, repair | read-modify-write without a lock; swallowed restarts | an edit changes what it names and nothing else, and is in force |
| Proxy and `config.toml`, `core/src/proxy`, `config_loader`, `tauri/src/main.rs` | sections of the file, the GUI's environment, two files in each VM | save, set, apply, resolve, watch | settings from four places; a file truncated in place; a watcher | a section holds what it was last given; the VM gets an address it can reach |
| Browser and human, `core/src/browser`, `SandboxPage.tsx`, `hil-skill.mjs` | processes in the VM, the bridge's permit, the page's panel | take over, hand back, complete | chains of commands nobody serialises; permits kept | a chain that ends well converts the browser; what is left over is seen |
| GUI to clawcli bridge, `tauri/src/cli_bridge.rs` | lock per instance, children | spawn, stream, idle kill | silent children, helpers that keep or fill the pipes, a GUI that quits | one child per instance; Ok means all was read; every call answers |
| Install wizard, `ipc/install.rs`, `StepProgress.tsx` | running flag, listeners, timer | start, probe, forward, retry | listeners attached one await at a time; retries beside a task that lives | one task; a verdict is the last word and a true one |
| Main window and monitor, `MainLayout.tsx`, `ClawPage`, `ipc/emit.rs`, `main.rs` | list, health, token, tabs | refresh, poll, handle events | snapshots overtaken by later ones | at rest the window shows what is there |
| Bundles, `export/manifest.rs`, `ipc/export.rs`, `verbs.rs` | bundle files, one slot for the running child, the dialog | export, cancel, import | orphaned tar; crossing cancel and start; a file read twice | done means whole; Cancel kills the right child; every export is told of |

How they interact: the GUI calls clawcli (child process, JSON lines on stdout,
`channel(64)`), clawcli calls the orchestrator, the orchestrator calls a
backend, the provisioner and the registry; the provisioner runs its scripts
through the backend's `exec`, which goes through a process runner and listens
to a cancellation token. Agents call the bridge over HTTP, devices over HTTP
and WebSockets, and the GUI front end answers the bridge's requests over
HTTP.

`PROJECT.json` lists every part with its sources and whether it is modelled,
and the hazards, each at its line with the properties aimed at it.

## 2. The modules

```
MCHostFiles  -> MCInstanceRegistry -> InstanceRegistry --implements--> AtomicRegistry
             -> PortForwards, ProxySettings
MCMachines   -> InstanceLifecycle, GuestSetup, HwDevices
             -> SandboxBackend --implements--> BackendSlot
MCClawcli    -> ComponentInstall, DownloadCache, Daemons, ExportBundle
MCServices   -> BackgroundScript, BridgeServer, BrowserHil
MCProcessRunner -> ProcessRunner -> CancellationToken
MCGui        -> InstallWizard -> CliBridge ; GuiSync

HostFilesProofs  (InstanceRegistry, ProxySettings, PortForwards)
SandboxProofs    (InstanceLifecycle, SandboxBackend)
MachinesProofs   (MCMachines, from six instances of SandboxProofs)
GuestProofs      (CancellationToken, ProcessRunner, GuestSetup, HwDevices)
DownloadsProofs  (ComponentInstall, DownloadCache)
ClawcliProofs    (Daemons, ExportBundle, and MCClawcli, from three instances of DownloadsProofs)
ServicesProofs   (BackgroundScript, BridgeServer, BrowserHil, MCServices)
GuiProofs        (CliBridge, InstallWizard, GuiSync, MCGui)
```

(`->` is EXTENDS.) The MC modules put side by side the parts that meet at one
place of the system: the host's files, a VM, a clawcli, what serves a VM, a
child process, the desktop application.

Each module takes its parts as CONSTANTS, has one action per step of the code
between two points where another process, task, message or kill can come in,
and names its bounds. `Faults` is the set of things that may go wrong in an
instance; leaving one out of the set says that a property is stated without
it (BackgroundScript draws its set, `faults`, from `FaultSets` in the initial
state, so that one specification has calm behaviours and others). "Fault variant" operators are changed forms of an action (a dropped
guard, a swapped order); no action of a specification uses them, and each
breaks one property, so that we know the property can fail.

**InstanceRegistry** (`config.rs` 95-185). `path` and `tmp` are the contents of
`instances.toml` and of the one temporary name every process uses; `fd[p]` says
which of the two the inode is that `p` has open, so that a rename by one process
moves the file under another's handle. `fs::write` is two steps (create and
truncate; write), `fs::rename` a third, and a kill may come between any two.
`file[p]` is the copy that was loaded and edited. Records are values; a write
over a longer text leaves its tail and no longer parses (`Torn`).
**AtomicRegistry** is the promise: a table, with Call, one atomic effect or a
failure without effect, and Return.

**InstanceLifecycle** (`orchestrator.rs`, the three backends, `verbs.rs`,
`tauri/src/ipc/instance.rs`). One instance: `vm` (provisioned, running, the claw
version inside), `rec`, `bundle` (the exported image), and for each actor the
step `pc` of its command and `job`, its arguments with the record it has read.
A step is a stage of install, create (here `register`), upgrade, destroy, the
GUI's four-stage delete, set-proxy, start, stop, export or import. The backend
is a constant, since what exists, what a stopped VM answers, and which errors
are swallowed differ (`IsPresent`, `CanExec`, `DestroyOk`, `DestroyErr`).
`LockFree` is the per-instance lock, taken by the commands that go through
`cli_bridge.rs` and by no other. `vm.scripts` are the provisioning scripts that
live on in the VM after their command was killed or took them for stalled: each
ends some time, and installs its version then, unless the VM goes down before;
a later command may read its exit code. Any call whose error is passed on may
fail, the registry's save included. Here the registry is atomic, a backend call
a step or two and a script that is awaited one; the other modules look inside.

**BackgroundScript** (`background.rs`). The host's setup, poll and judgement
beside the guest's command, `echo $? > done` and heartbeat loop. Time is
counted in polls. The log is what the host has not counted yet, in lines that
are text or blank, because the code reads `tail -n +k | head -50` and drops the
blank lines before it counts. A second run uses the files of the first.

**CancellationToken** (`cancel.rs`). Every atomic access of `cancel()` (swap,
notify_waiters) and `cancelled()` (load, `notified()`, load, await), and futures
dropped by a `select!`.

**ProcessRunner** (`local.rs`, `sandbox.rs`) extends it: each run is one of the
token's waiters. The run's task (`rpc`), the tasks that read each pipe and write
stdin, the bounded channel, the child and a helper it may leave on its pipes,
and the caller, who collects (`exec`) or holds the receiver
(`exec_streaming`), or drops it. In a sandbox the child cannot be killed and
its output comes whole. `WaitFails` is the wait for the child that fails
(`local.rs:131`): the run returns, and its readers go on by themselves.

**BridgeServer** (`server.rs` 183-467, 780-839). `queue` is tokio's fair lock
queue, `readers` the handlers that hold a read guard across an await, `slot`
the one pending request of each kind, `permit`, `waiters` and `woken` the state
of each Notify. The permission table's answer is a choice (its patterns are a
pure function): a command that needs approval is an `exec`, one that is allowed
outright a `run`, which nothing has to end.

**HwDevices** (`server.rs` 470-777). The handlers take the lock once each and
are one step; a socket's task takes it at its start and at its end.
`inbox[c]` holds what c's two receivers have not read, at most `BUS_CAPACITY` per
channel, the oldest lost first. A device may connect again while the server
still has its last socket; `early` remembers those that did.

**ComponentInstall** (`native_ops/default.rs` 89-193, 378-408; `extract.rs`).
The three directories as functions from entries to the version each file is of,
so that a half-unpacked directory and a mix of two can be told from a whole one;
recursive removal is one entry at a time; the drop guards run on every early
return and not on a kill.

**DownloadCache** (`download_ops/default.rs`). One artifact: the cache file in
chunks, each good, bad or missing; open handles that outlive the name (`orphan`);
the attempt counter; the checksum, which is taken of what was received. A body
may be wrong, end early or never end, and a write may fail; `torn` remembers
that the file was left by a failed write, a kill or an early end.

**SandboxBackend** (`sandbox_backend/{lima,wsl,podman}.rs`, `sandbox_ops`'
rename, `cmd/sandbox.rs`). Under each name a set of parts: lima's yaml file,
disk, run state and hostagent; wsl's directory, registration and contents;
podman's image and container. One part is the mark `is_present()` looks for.
`tool` is limactl itself, which prerequisites download and unpack; `pidfile[n]`
says whose agent the `ha.pid` in n's directory names, which an import takes
from the archive and a restart of the host makes stale. Each command of a call
is a step that may fail, run out of time (`timeout`: the result is an error and
the command has or has not been done) or be cut off (`crash`, `reboot`); a
probe may be wrong (`probe`). A destroy that cannot read the pid file or whose
kill fails goes on (`KillFails`), and `missed` has the name. **BackendSlot** is the promise its callers rely
on: nothing, or one machine, whole or begun, up or down, under each name.

**GuestSetup** (`post_boot.rs`, `mirrors.rs`, `dashboard.rs`, `mcp.rs`,
`claw_ops/provisioning.rs`, `orchestrator.rs` 448-527, `exec_argv_with_retry`).
Steps of an install in a VM that warms up: `quiet` is the seconds until SSH
answers again, a retried call pauses 0, 1, 3, 9, 30 of them. A lost answer says
nothing about the command, so a retried one may run twice (`Interrupted`). What
earlier runs left stays in `guest`.

**Daemons** (`orchestrator.rs` 557-725, 842-1235, `verbs.rs`, `ipc/settings.rs`).
npm prefixes (`tree`), records with their ports, VMs, and gateways as processes
of the host that nobody keeps a handle of; launch takes whoever listens on the
port for its own.

**ExportBundle** (`verbs.rs` 1266-1450, `manifest.rs`, `ipc/export.rs`,
`SandboxPage.tsx`, `ExportProgress.tsx`). For each export its driver in the GUI,
its clawcli and the helper that outlives a kill; the one slot; the dialog;
the files, with tars that write and an import that reads at once.

**BrowserHil** (`chromium.rs`, `cmd/browser.rs`, `ipc/sandbox.rs`,
`SandboxPage.tsx`, `VmCard.tsx`, `hil-skill.mjs`). Takeovers and returns as
chains of commands in the VM, with the bridge's permit and its waiting agents,
the page's panel and the monitor that opens it, until a change of health ends
its task (`MonitorEnds`).

**PortForwards** (`lima.rs` 336-420, `wsl.rs` 432-480, `sandbox_ops`,
`cmd/sandbox.rs`, `ipc/instance.rs` 266-307, `orchestrator.rs` 215-226).
An editor reads the rules, merges, truncates, writes, probes, stops and starts.
netsh's table is one for all VMs, and each of its rules names the VM it leads
to. Reads, the opening of the file and the write behind the truncation may fail.
`spoiled` remembers where two editors met or one was cut off in its write,
`missed` where a failed show, probe, stop or reset was passed over, since nothing
is promised after that.

**ProxySettings** (`config_loader/mod.rs`, `proxy/`, `cmd/proxy.rs`,
`cmd/config.rs`, `ipc/settings.rs`, `ipc/instance.rs` 338-426, `main.rs` 29-133).
`config.toml` with its truncate and write as two steps, the GUI's environment
with the watcher, the instance's override, the two files in the VM; resolution
is an operator over the four sources. `WriteFails` leaves the file cut. An
address is on the loopback by number, by name, in a spelling that
`rewrite_loopback` does not look for (`odd`), or elsewhere.

**CliBridge** (`cli_bridge.rs`, `cli/src/main.rs`, `output.rs`): calls, locks,
children, pipes, and a GUI that quits under them. `side[c]` is what else there is
on a call's pipes: a process clawcli started that keeps its stdout, one that
writes lines (or clawcli itself on stderr), or progress without end. A call's
stdout ends when all of them have let go of it, and its ten minutes begin again
with each line. **InstallWizard** extends it:
attempt k is call k, with the backend's task and flag, the page's listeners and
timer and the events between them. **GuiSync** is the main window beside a
world that commands change: events, handlers, polls, the monitor, and the
requests for the gateway's token, oldest first, which may answer, fail and be
shown in any order.

`map` in `PROJECT.json` gives each definition's source lines. What runs outside
the repository is marked external there: tokio's RwLock and Notify, the file
system's rename and unlink, the device at the other end, kills.

## 3. The runs

A behaviour of an MC module is of one of several *scenarios*, chosen in its
initial state. They let one run ask a question of several instances.

| Run | Scenarios | What it shows |
|---|---|---|
| `process` | *run*: one command of 8 jobs (local or sandbox, exec or stream, with and without input and limit), a user who cancels, a channel of one event; *token*: two other waiters, two cancellers | `Inv`, `NoLostCancel`, `CancelReachesWaiters`: no wake-up lost or spurious; `RunnerHolds`: a run that is over leaves no local child of its own and, unless its wait failed, no reader, so that Completed is last (without input); output is whole; `ExecAnswers`: a cancelled or timed-out exec answers though a helper holds the pipes |
| `services` | BackgroundScript: *retry*, two runs, execs that answer; *lone*, one run, blank lines, every fault. BridgeServer: *bridge*, three clients ({status, file, hil}, {status, exec, run, complete}, {status, hil, complete}), a run that may never end. BrowserHil: *agents*, two takeovers or returns beside an agent that waits; *turns*, without agents, with a VM that stops or a browser that crashes | `BrowserAndScriptsHold`: the exit code is the run's own, a heartbeat keeps a silent command from being given up, a browser is taken over once; `FirstRunReturns`: once the command has ended or died the host returns; `ServerInv`: lock queue and waiters are what the handlers say, through time-outs and disconnects; `RequestsAnswered` unless a command waits for approval or a run never ends; `ApprovalUnreached`: no such command ever reaches the user; `MCLeftoversSurface`: what a chain leaves over is seen as long as the monitor runs |
| `host_files` | InstanceRegistry: *registry*, with one writer that fails and is killed beside a reader, and with two writers that do. PortForwards: *ports*, one VM, or two over netsh's one table, two editors, three host ports. ProxySettings: *config*, two commands; *environ*, the watcher beside one command and a host's proxy that turns | with one writer `Inv` (the file parses, holds what was meant, the temporary file is the writer's) and `RegistryIsAtomic`; `FileStaysWithTwo`: the file never vanishes, with one writer and with two; `PortsInv`, `EditsKeepRules`: an edit, failing or not, leaves the rules it does not name, a successful one has made its own and is in force; `ProxyInv`: a section holds what it was last given, a VM is told of an address it can reach, but for the spellings that are not looked for; `MCEnvCatchesUp` |
| `clawcli` | DownloadCache: *pinned*, one process, every fault; *unpinned*, no checksum, every fault but wrong bytes; *shared*, two processes and a prune. ComponentInstall, two versions of three entries: *upgrade*, installs, kills, every fault but the second rename; *wild*, reinstalls too, every fault; *orderly*, no kill, removals work. Daemons: *native*, *boxed*, *lone*. ExportBundle: *bundles*, two exports and an import | `CacheIsWholeAlone`: Ok means the whole artifact, a failed fetch leaves no part, but without a checksum after a failed write, a kill or an early end; `NeverBroken`, `KeepsAVersion`: never half a version in use, a whole one survives every step; `InstallHolds`: Ok means installed, nothing left behind in *orderly*; `DaemonsInv`, `ReadyRunsInstalled`: a record stands for a binary, what answers is what was installed; `BundleInv`, `ExportIsTold`: done means whole, Cancel finds the right child, every export is told of; `FetchesAndCommandsEnd` |
| `machines` | InstanceLifecycle: *lima*, *wsl2*, *podman*, one caller, four commands of ten kinds, every fault; *locked*, two handlers under the lock with failing steps and kills; *calm*, three handlers, no fault. SandboxBackend, two names: *lima vm*, *distribution*, *container*, one caller, every call and mishap (wrong probes on lima only); *two callers*, no mishap; *sure stops*, one caller, no command fails or runs out of time; *no imports*, two callers and every mishap. GuestSetup: *gate*. HwDevices, two sockets, channels of one: *device*, a device with a callback and two notifications, the second of which overruns; *devices*, another without a callback beside it, and one. Either may reconnect early | `SandboxesHold`: without faults VM and record come and go together, no image is taken of a running VM, a running hostagent can be found unless its kill failed, a whole archive names no running agent; `CommandsKeepTheirWord`: install that succeeds leaves the VM up, with its version unless it met a script that lived on, on Lima delete drops the record only when the VM is gone; `MCUpgradeOnlyStamps`; `MCOnlyDestroyTakes`, `MCIsOneMachine`: a backend implements BackendSlot, and loses a machine to its own destroy or rename; `SetupInv`, `GateBlames`: success means everything is in the guest, a failure names what is not ready; `HwInv`, `TargetReached`: a device is told once at most, twice of a note to all if it came back early; a note for a device on a socket is queued there, and leaves the queue only by being given, by the device's end or by overrun |
| `gui` | CliBridge: *calls*, two calls of three pairs of jobs, helpers that keep the pipes or talk, a GUI that may quit. InstallWizard: *wizard*, an install and a retry, with the same. GuiSync: *window*, two commands without polls; *polls*, one command, with or without the monitor | `MCGuiInv`: one child per instance, Ok means all was read, one task under the flag, a verdict is true; `CliCallAnswers`, unless lines keep coming for ever on the pipes of some call, `WizardSettles`, `MCHealthCatchesUp` |
| `registry_gui_locks` | two writers, never both on one name | **violated**: the GUI's per-instance lock does not make the registry atomic |
| `background_retry` | two runs whose execs may fail | **violated**: a run given up on goes on, and its exit code is read as the retry's |
| `bridge_exec_stuck` | two clients, commands only | **violated**: a command that needs approval is never answered |
| `lifecycle_leftover` | one caller, failing steps | **violated**: create returns Ok for a VM that was never provisioned |
| `hil_permit` | one agent and the page | **violated**: a completion nobody waits for lets the next request return at once |
| `wsl_import` | one caller, probes that fail | **violated**: an import over a distribution its probe missed deletes it |

Why the bounds are enough. Two processes already give every race on one
temporary name. Two names and two values let one update overwrite another's. In
*retry* and *lone* the idle limit is 3 polls and the heartbeat 2, the smallest values
with "heartbeat shorter than limit", and `head -50` is a `head -2`, so that the
window overflows (`MaxUnread` 3). A channel of one event makes every send of a
run wait. Three bridge clients are the fewest with a reader that holds, a writer
that waits and a reader behind it. Four or five commands of a lifecycle are
enough to install, fail, install over what was left, upgrade and delete. Three
entries tell "nothing", "some" and "all" unpacked, and a mix of two versions from
either. A broadcast channel of one message overruns with the second
notification. Two token requests (`MaxAsks`) let the older answer last.

No run checks for deadlock: in each a behaviour may properly end, when the
bounded requests have been made, every run has been answered, or nobody has
anything to ask. That nothing is stuck before is the business of the liveness
properties.

Properties that are stated for a part of the scenarios say so in the name
(`…Alone`, `First…`), in its antecedents (`scenario = …`) and in the comment
above them: outside that part they are known not to hold, and section 6 says
why.

## 4. Fairness

Weak fairness, and only of what the runtime drives:

- tokio polls a task that can go on: the waiters and the notifying canceller of
  a token, a run's task and its readers, a bridge handler (with its timers),
  a fetch;
- the host's poll loop has no exit but those modelled; the guest's shell goes
  on to the line after a command that has ended, and its heartbeat loop goes on;
- `exec`'s caller awaits it; a command that is under way goes on, for each of
  its waits is bounded; the GUI's driver of an export reads its child's output;
- in the window, the bridge's loop, the page's steps and the delivery of events
  go on. Strong fairness of one action: the window's timer polls each instance
  again and again while what it polls comes and goes.

- the monitor comes round to every instance as long as it runs; the first change
  of an instance's health may end it, and nothing is promised from then on.

Nothing is assumed of what the program does not control: no command has to end,
print or survive, not even one the bridge runs under its guard; nobody has to
stop talking on a pipe or let it go (in *wizard*, strong fairness of the silence
limit says only that a talk that ceases again and again for long enough is cut
off); no user has to answer; no client has to stay; no receiver of
a stream has to read; no VM has to come back; no one has to start a call. One
assumption is about a remote side: a download server answers a request it
accepted, because the code puts no time limit on the response headers
(`download_ops/default.rs` 83). It need not end the body: a body without end is
received for ever (99-162), and `FetchEnds` says so.

## 5. The proofs

TLAPS checks these for any sets of processes, names, values and so on, under
the ASSUMEs of the modules (distinct special values, subsets, finite `Names`).

**Registry** (HostFilesProofs). `TypeCorrect` needs `OpenFilesExist` (a
handle's file exists under its name) because a write goes to whichever name
the inode has. From it, `FileNeverVanishes`: the registry file is
replaced and never removed, with any number of writers. For one writer,
`SoleWriterSafe` proves the inductive `Inv`: between the open and the rename
the temporary file belongs to that writer, what it renames is its own edit, and
the edit is of the table as it still stands. The last part is what makes the
rename the linearization point, and `SoleWriterIsAtomic` proves the step
simulation of AtomicRegistry from it: a rename maps to the effect, a return of
an error to a failure, the rest to stutters. The assumption `Writers = {w}` is
what the code lacks; `registry_gui_locks` shows it cannot be dropped.

**Host files** (HostFilesProofs). `ProxyHolds`: as long as no two saves met
(`clash`), at most one job is between its read and its write, what it has read
is the file with its own section changed, and the file is what was last written
whenever it is not truncated (`SaveInv`); a save that was killed or failed behind
its truncation counts as one that met another. What is resolved never names the host's
loopback but in a spelling `rewrite_loopback` does not look for, whatever the four
sources say (`Reachable`, by cases of `Rewrite` and `FromOs`). In a calm (nothing but one dialog's command
since the last change) each stage of that command has done its part
(`CalmInv`).

**Ports** (HostFilesProofs). `PortsHold` and `EditsKeep` are for any VMs,
editors, ports and tasks, on each backend. What a task makes of the rules is followed
from its first command to its last: the rules its current command leads to
(`Reach`) are those it found, but for the ports it names (`KeepsOthers`), and each
port it was given leads where it should or is still to come and not taken back
by what is left of the chain (`Settled`, `Settles`). The first half is promised of
edits that fail as well. With netsh each successful edit has led every rule there
is to its own VM (`Turned`), as the code does. In between, `Underway` says
where the rules are while netsh's table is being filled again: what is not back
yet is in `left`. This is promised of an editor alone on its place (`Bound`), and
two that meet spoil it for good (`Meetings`). A VM that runs has its file's rules
unless an edit is between the file and the restart, or a resize holds them while
the file is empty (`LoadedRules`). A step is looked at once, as what it does to
the VM and the task of its own editor (`Before`, `After`), everything else being
framed (`Frame`); the dialog's two replacements and the ports of `create` are the
chains whose ends are computed (`ConfigureTaken`, `CreateTaken`). The dialog that
gives the gateway the terminal's old port is excluded (`Crossed`): that is the
divergence of section 6.

**Token and runners** (GuestProofs). `TokenSafe`: the first swap's
caller is the only one that notifies, a set flag means that the notification
has been or is about to be sent, and a waiter goes to sleep only with a ticket
from before it. `NoCancelIsLost` follows. `RunnersHold` is about every run at
once: a step of a run, its tasks, its child or its caller leaves the other runs
alone (`OneRun`), so the invariant is one of a single run. `Course` ties the
task's place to the outcome, the child, the pipes and the caller; `Over` says
that readers end before the report; `Said` that the events sent tell, of each
stream, exactly the lines that its task has delivered (`Delivered`), in order
and once; `Closed` that Completed is sent last, by a run that is then done, unless its
wait failed, when Completed is the only one and readers may send behind it. It
is needed because `OutputWhole` speaks of the caller's end only: the lines were
sent by other tasks, over a channel that may have been full, long before.
`Tells` is a statement about positions, and not a filtered sequence, because
nothing can be proved of `SelectSeq`.

**Bridge, script, browser** (ServicesProofs). `ApprovalNeverReached`: with kinds
and program counters in their ranges, "a handler of a command that queues to
store its approval holds a read guard" is inductive, and a writer needs that
there are none; so the store never happens. `ServerHolds` adds that a handler
that asks is of a channel's kind and that nobody waits twice (`Asking`,
`Listed`): then each step takes from the queue and the lists of waiters what it
takes from the handlers' states. A future that is dropped leaves a list by its
own node (`Leave`).

`ScriptHolds`: while execs answer, a live run is the one that is watched, in a
VM that is up (`OnlyWatchedLive`), so what is in the done file and what the host
has read of it is that run's own (`OwnCode`). A silent poll is one since the last
heartbeat, or there is a line to be read (`HeartHeard`): the idle count cannot
pass the heartbeat's interval while the command lives, hence the assumption
`HbPolls < IdlePolls`, the "MUST be shorter" of `background.rs`. The premise
(`Calm`) is what the code lacks: `background_retry` drops it.

`HilHolds`: two chains under way on one box have met, both of them (`Apart`); a
chain that met nothing has by its k-th command brought about what the first k-1
are for (`Brought`, `Progress`), and its sixth place is the conversion. Answers
are counted against clicks, and clicks against returns that came through, one of
which each click consumes (`ClickInv`). Nothing restricts the boxes, the number
of chains or what else goes on. `ServicesHold` says both of the composition.

**Lifecycle** (SandboxProofs). `LifecycleTypes`: types, with `JobInv`
(a running command is a job, and one in the stages that write back a record has
read one). The others are for commands that run one at a time (`Exclusive`: there
is one caller, or every caller is the GUI's and every command takes the lock, so
neither delete nor set-proxy); then at most one actor is not idle (`Alone`) and
each invariant is about the one that moves.

- `LockedUpgradeOnlyStamps`: the record an upgrade has read is still the record
  when it writes (`StampInv`).
- `InstallKeepsItsWord`: from its script to its record an install has the VM up,
  and with its version if no script of an earlier command was in the VM when it
  came to its own (`job.alone`, `ReadyInv`), on every backend and with every fault.
  The condition is where `background_retry` bites: an earlier script writes its
  version over the later one's.
- `DeleteKeepsItsWord`: at the step that drops the record the VM is gone
  (`GoneInv`), where the backend's destroy tells of its failure
  (`ReportsDestroy`: neither podman's, nor one the probe of wsl2 or podman ends).
- `NothingIsLost`: what a command has done of its work by each of its steps
  (`Stage`); without faults every command that starts with a VM and its record,
  or with neither, ends with both or neither.
- `VMsGoBeforeTheirRecords`: with every failing call of backend and registry,
  missed probe, surviving script and kill, only a destroy takes a VM, at the step
  before the one that drops its record (`OnlyDestroyTakesVM`), and only a command
  that has the VM inserts a record (`InsertsWhatItHas`). A record without a VM is
  left, then, only by a destroy that is killed, or whose save fails, between the
  two; a VM without a record is what other failures leave (section 6). "VM" is
  what the backend holds under the name: wsl2's roll-back of an import takes the
  disk and leaves the registration. Podman's import, whose container has not its
  record's name, is left out (`ImportsUnderItsName`). No run states this one by
  itself.
- `ExportsAreWhole`: on podman, and on Lima if the stop works, no image is of a
  running VM, whoever else runs.

**Components** (DownloadsProofs). `ComponentTypes` for any number of
installers. For one installer, installs and reinstalls alike, `OkIsInstalled`:
every entry already unpacked is of the wanted version, so an empty rest means a
whole staging directory, which is the only thing ever renamed to the target
(`StagedInv`). `GuardsLeaveNothing`: where removals work and nothing is killed, a
staging directory is there only from the unpacking to the commit and a backup only
under an armed guard (`OwnDirs`). If it only installs, `SoleInstallerSafe`: the
component in use is never half a version (`SoleInv`).
`SoleInstallerKeeps`: unless the second rename fails, the old version is in the
target until it is the backup, and the backup stays until the new one is in.

**Bundles, gateways, cache** (ClawcliProofs, DownloadsProofs). `BundleHolds`: while no two
drivers met (`overlap`) and no two tars wrote one file (`met`), the open dialog is
that of the one driver under way, and the bundle is its own from the opening of
the file on (`Alone`, `BundleOwn`); the slot holds the child that runs
(`SlotOwn`) in any case. `DaemonsHold` and `ReadyRunsWhatIsInstalled`: what a
tree holds and what every live gateway runs was installed since the instance's
last good stop (`Versed`), and an install that is about to write its record has
a binary (`Backed`). `PinnedFetchIsWhole` and `UnpinnedFetchIsWhole` are about one
process: what has been received is in the file (`Arrived`); without a checksum a
file is whole, or gone, or torn by a failed write, a kill or an early end
(`WholeOrGone`). `CacheTyped` is for
any number of fetches and prunes that meet.

**Backends and guests** (SandboxProofs, GuestProofs). Every step of a backend's call is one of six
effects on the parts (`Effect`: still, grown, halted, taken, rolled back, moved)
and one turn of its call (`Turn`), so that each later invariant is proved against
six cases and not against forty steps. `DestroyTakes` and `BackendIsOneMachine` (the
step simulation of BackendSlot) rest on `Marked`, what is filled bears the mark
`is_present` looks for, and, for one caller, on `AloneInv`: an import fills, and
rolls back, only a name under which nothing was; a running hostagent has its pid
in its own directory. The conditions are where the code leaves gaps: on wsl2 a
probe that is wrong makes import destroy a machine (`wsl_import`); on Lima a tar
that fails rolls back what another caller has meanwhile made. `AgentsFound` is
for one caller, since two may start and destroy one name at once, and for names
whose agent no destroy has failed to kill: `lima.rs` 266-275 ignores that failure
and removes the directory with the pid file.
`WholeArchivesNameNone` is for callers that do not import, or for one whose stops
work: a torn archive holds a running agent's pid, and an import and an export that
meet can make a whole one of it. `SetupHolds` and `GateBlamesTheGuest` are for any
pauses, spells and numbers of installs; the second needs that the pauses
together outlast a spell (`SpellsAreOutlasted`), as the code's 43 seconds do the
ones of its comment. `DevicesHold` and `NotesReachTheSocket` are for any devices
and sockets. What is in a queue was not given before, and what was called back
went to none (`HwIInv`); for a device that has reconnected early they say less,
and say what: a note to all may come twice, and one to itself may be left out
(section 6). The second theorem follows a note to the end of the queue: it is
given, the device is gone, or as many later ones wait as the channel holds.

**GUI** (GuiProofs). `CliHolds`: a call that is past its lock is at the head of
the queue of its instance's lock, in which every call stands once (`Queues`,
`Holding`), so two such calls of one instance are the same; and what a call has
read is what its clawcli has said, up to what is still in the pipe (`CallOK`),
whoever else holds the pipe.
An installation (`WizardIInv`): a verdict on its way to the window is of a task
that has given it (`WireOK`), so nothing of that task can come behind it, and it
is one of completion only if clawcli's own had come and it had exited 0; the
answer of a call never changes, hence still holds when the page hears of it.
`SyncHolds`: a snapshot as old as the set of instances is that set
(`SnapsAreOfTheirAge`, `ShownIsOfItsAge`); while the list shown is older, an event
is still to be sent or handled, or a handler is at its list call or holds an
answer that is not old (`OldListIsDue`): this is what a handler that shows the
list discharges, and what an answer overtaken by a newer one breaks. The newest
request for the token, or the token shown when there is none, is of the last
start, unless that start is still to be handled (`OldTokenIsDue`). The proof of
the last part failed at first, for a good reason: the property had been stated
of the instance selected, which held within the run's bounds only. A start that is
handled while nothing is selected asks for no token, and of two requests the
older may answer last; both are excuses now, the model keeps the requests in
order and lets them fail, and the property is of whatever instance the token
shown is of. `GuiHolds` says the three of the composition.

**The scenarios** (MachinesProofs, ClawcliProofs). The theorems above are about
one component, each under the assumptions it needs: callers that come one at a
time, a backend, the faults there may be. A run composes several scenarios, each
a component with constants of its own. That its properties hold of the
composition is proved as well, from instances of those theorems: one INSTANCE of
SandboxProofs for each pair of a scenario of commands and one of backend calls
(six in all), and one of DownloadsProofs for each copy of the installer's state
(three). Of each instance three things are shown. Its constants meet what the
theorems assume (`LimaSound`, `WslSound` and so on). The module that the MC
module instantiates and the one that the proof module instantiates are the same
formulas (`LimaCommands`, `LimaCalls`, `WildIsOne` ...), action by action, since
TLAPS knows the two only as different names. And a step of the composition in
that scenario is a step of the instance or leaves it alone, while the scenario
never changes (`CommandSteps`, `CallSteps`, `ScenarioStays`). From these, temporal
logic makes a behaviour of the composition that starts in the scenario one of
the instance, so the instance's theorem applies (`LimaCommanded`, `LimaCalled`
...); a behaviour of another scenario never meets the antecedent.

- `SandboxesKeep`, `WordsAreKept`, `UpgradesOnlyStamp`: the promises of the commands,
  on each backend with one caller, and under the GUI's lock with two handlers or
  three, and what the backends' calls keep beneath.
- `NothingElseTakes`, `EachIsOneMachine`: in each of the six scenarios of the calls,
  with the faults that it has, the backend implements BackendSlot.
- `InstallsHold`, `CacheWhole`: the same for installs and fetches. The first is for
  a single installer (`Installers = {GuiCli}`), as its scenarios are; with two,
  section 6.

What a scenario fixes stays fixed: its callers, its backend, which faults there
are; the scenarios of backend calls that name no backend are on Lima
(`MCMachinesAssumption`). Names, records, versions, proxies, artifacts and the bounds
on requests are any that the modules' ASSUMEs allow, except where a scenario
gives the number itself. As the scenarios bound their requests differently,
`NoneAssumption` of InstanceLifecycle says that the missing record and the missing
VM are told from records of any stamp and from VMs with any scripts, and not only
from those up to one bound.

So every invariant and every action property that a passing run checks is also
the statement of a theorem; `FileStaysWithTwo`, which puts two instances of
`FileStays` together, is `FileNeverVanishes` for any number of writers. Only
model-checked:

- the eleven liveness properties: `CancelReachesWaiters`, `ExecAnswers`,
  `FirstRunReturns`, `RequestsAnswered`, `MCLeftoversSurface`, `MCEnvCatchesUp`,
  `FetchesAndCommandsEnd`, `ExportIsTold`, `CliCallAnswers`, `WizardSettles`,
  `MCHealthCatchesUp`. Fairness is a matter of ENABLED, which the proof system
  does not reason about;
- what a recursive definition or a fold computes for every input: induction
  over data is out of reach, too. No module that is proved about uses a RECURSIVE
  operator, and where a statement could be made of positions instead of a
  filtered sequence (`Tells`) it has been;
- the six violations, which are counterexamples by nature.

## 6. Where the code and its words part

Shown by a run, each against a sentence of the repository:

1. `registry_gui_locks`: "Read/write is atomic via temp-file + rename"
   (`config.rs:103`). Two commands for different instances hold different
   locks; the second rename drops the first's record.
2. `background_retry`: idle_timeout is to "kill the script" (`background.rs:60`).
   It returns an error and kills nothing (169-176); the script's exit code later
   lands in the retry's done file.
3. `bridge_exec_stuck`: "Block until user approves/denies (60s timeout)"
   (`server.rs:309`). The handler asks for the write guard (300) with its read
   guard alive (285): no timeout starts, and every later writer, and every
   reader behind it, waits too.
4. `lifecycle_leftover`: "a pre-existing instance directory means Lima has
   already provisioned this VM" (`lima.rs:130`). limactl makes the directory
   before it provisions.
5. `hil_permit`: "Blocks until user completes intervention" (`server.rs:360`).
   A completion nobody waits for (a second click, or one after the request's ten
   minutes) is kept by the Notify (428), and the next request returns at once.
6. `wsl_import`: "Refuse to overwrite a present instance" (`lima.rs:219`, the
   same guard as `wsl.rs:331`). A `wsl -l -q` that times out or fails reads as
   absent (`unwrap_or(false)`); `wsl --import` then refuses the name, and the
   rollback (347) removes the directory of the distribution that is there.

Known from the code and visible in the models, without a run of their own:

- *Registry*: `instances.tmp` is shared, so that a process may rename another's
  half-written file.
- *Lifecycle*: destroy goes on when the backend fails, and the VM stays without
  a record (`orchestrator.rs:304`); on podman delete cannot tell
  (`podman.rs:239`); upgrade records the version of the install
  (`orchestrator.rs:827`); an import whose insert fails leaves an instance that
  is not listed (`verbs.rs:1433`); export's stop is a future nobody awaits
  (`verbs.rs:1309`), and Lima's own `export_image` saves it; the script of a
  command that was killed or gave up lives on in the VM (`background.rs:169`) and
  installs its version over that of a later install, which has returned Ok.
- *Backends*: a start races the tar of an export (`lima.rs:205`) or the window
  between the kill of a hostagent and the delete (264-277); a half-extracted
  limactl that answers `--version` is taken for whole (75-82); a tar that times
  out skips the rollback of an import (235); after a restart of the host
  `ha.pid` may name a stranger, which destroy then ends (263-268); a pid file that
  cannot be read, or a kill that fails, is ignored, and the directory goes, so
  that the agent is orphaned, as the comment above it fears (257-276); wsl's
  prerequisites ask for elevation again (`wsl.rs:149`); `rename` leaves the old
  template and a registry that names the old VM.
- *Guest set-up*: a command whose answer is lost is run again
  (`sandbox_backend/mod.rs:157`); git does not clone over the checkout of a
  failed install, so hermes cannot be installed again
  (`claw_ops/provisioning.rs:173`); the fallback release may not be the
  image's (`mirrors.rs:110`); an npm registry once set is never reset to the
  default (95); `register_plugins` (`mcp.rs:101`) is called by its test only,
  against "Then registered with the claw" (1-9).
- *Native instances*: two instances may share a port, and a launch is answered
  by whoever listens; a native instance cannot be stopped, so its old gateway
  answers after an upgrade (`orchestrator.rs:951`, against 848-849); an npm that
  fails on an upgrade leaves a record over a broken prefix (1064); the
  diagnostic's fix removes a prefix an install is filling (`settings.rs:159`);
  `has_upgrade("latest", x)` is always true.
- *Ports*: two editors of one VM lose each other's rules (`lima.rs:343`); a write
  that fails behind its truncation leaves `lima.yaml` cut (345); on wsl2 each edit
  adds every rule of netsh's table again with the address of the VM it is for, and
  so leads the other VMs' ports to that one (`wsl.rs:448-466`), and a `netsh show`
  that fails reads as no rules, which loses all of them (`sandbox_ops/wsl.rs:107`);
  a failed stop is swallowed and the rules are not in force (351); `netsh reset`
  may fail unseen (`wsl.rs:443`); in the dialog a gateway moved to the old
  terminal port is removed again by the second step
  (`ipc/instance.rs:290-295`); the dialog never writes the record it takes the
  old ports from (276), so a second edit leaves the ports of the first, against
  "no more accumulation" (`docs/v2/RELEASE-NOTES.md:20`); `create` stops at the first rule that fails.
- *Proxy and configuration*: `config.toml` is truncated in place, so that a save
  that reads meanwhile loses the other sections, and a write that fails leaves it cut
  (`config_loader/mod.rs:183`); `proxy set` and `apply` ignore an instance's override; `rewrite_loopback`
  does not find `user:pw@localhost`, a `localhost:7890` without a scheme, nor
  `[::1]` (`resolver.rs:206`), and the VM is told of itself; a PAC script leaves the environment as it
  was; the watcher compares with what it last saw itself, so a host's proxy
  that turns twice between two ticks with a start in between leaves a stale
  environment (`main.rs:111-133`); the order of `main.rs:31` is not the
  watcher's (126).
- *Browser*: the chain's commands end in `&` and report success whatever happens;
  two chains may cross; the page may complete twice; a record's `vnc_ws_port` of
  0 starts websockify on port 0 (`orchestrator.rs:433`, `config.rs:58`);
  `sandbox_vm_action` takes no lock.
- *GUI*: an event before the window listens is lost; `list_instances` answers may
  overtake each other, and so may tokens (`ClawPage/index.tsx:113`); a start
  handled while no instance is selected asks for no token, and the selection that
  heals later asks for none either (44-54, 110); `exit_app` leaves clawcli children; the connectivity
  probe ignores the proxy chosen in the wizard (`ipc/install.rs:118`); the idle
  limits of page and backend are 22 and 10 minutes where the comment says 20
  (`StepProgress.tsx:83`); `refresh_tray` calls `block_on` inside an async task
  (`tray.rs:135`, `main.rs:226`): the runtime panics and the monitor ends at the
  first change of health.
- *GUI to clawcli*: a process that clawcli leaves on its stdout makes a call that
  has ended well answer, after ten minutes, that it timed out (`cli_bridge.rs:205`);
  lines that never cease, on stderr too, keep the call, and the instance's lock,
  for ever.
- *Bundles*: the tar of a killed clawcli goes on writing the bundle
  (`verbs.rs:1334`), and a second export to the same file mixes with it; the
  first of two exports to settle empties the slot of both (`export.rs:119-136`);
  an import reads the manifest and the payload at different times
  (`verbs.rs:1366`, 1385); the dialog that opens after the failure event stays
  (`SandboxPage.tsx:127-141`).
- *Background*: blank lines are dropped before they are counted
  (`background.rs:131`), so the window stands still while they last; `truncate`
  cuts a line at a byte (204).
- *Runners*: when the wait for the child fails its readers are left to themselves
  and may send behind Completed (`local.rs:131`, against `runner.rs:44`); a failed write of stdin may be reported after Completed
  (`local.rs:59`, against `runner.rs:44`); once a child has ended by itself,
  neither the timeout nor the token reaches the wait for its pipes
  (`local.rs:153`); a cancelled sandbox stream ends without the sentinel line
  (`sandbox.rs:148-176`, against `runner.rs:45`); the command itself goes on in
  the sandbox (documented, `sandbox.rs:6`).
- *Bridge*: two interventions share one slot and status (`server.rs:389`, 404); a
  command that is allowed outright runs under the read guard and without a limit
  (329), so one that never ends stops every writer and what queues behind it.
- *Devices*: a device that reconnects before its old socket's cleanup is taken
  for one without a socket (`server.rs:773`): what is posted to it alone may be
  left out, and with a URL it is told twice of what is for all; pings do not touch `last_seen` (758).
- *Components*: when the second rename fails the guard deletes the old version
  (`native_ops/default.rs:153`); two installers share a staging directory (120).
- *Cache*: after a kill, a failed write or flush (`download_ops/default.rs:129`, 164)
  or a body that ends early where its length was not announced (121), the partial
  file of an artifact without a checksum is a hit (317); a body has no limit of
  size or of time, and the floor of throughput is of the bytes since the beginning
  (132), so that a server can keep a fetch for ever; two fetches of one file truncate each
  other (91).

## 7. What is not modelled

- *Permission patterns, provisioning templates, claw metadata, wire types,
  version comparison, the catalog's lookup*: pure tables and text; where a
  module depends on the outcome it is a choice.
- *Input and screen tools, MCP dispatch, the keychain, autostart, the lite
  installer, the launcher's detection*: single calls of host interfaces without
  state of their own.
- *Commands that only report* (status, doctor, list, logs, stats, connectivity
  tests), the tray's menu and colours, layout and wording.
- *e2e tests, scripts, packaging*: read for intent only.
- In the modelled parts: record fields other than the ones named, progress
  percentages, checks that end a request before it changes anything (the
  bridge's token), and real durations. Clawcli's exit codes and the keys of its
  events are those of `output.rs`, taken as values.
- *What joins the modules.* Each module takes the others' outcomes as choices or
  as single steps: a provisioning script in InstanceLifecycle, clawcli in
  CliBridge's callers, the bridge's slot in BrowserHil. Their products are beyond
  TLC.

## 8. Plan

The safety properties of the passing runs are proved. What could follow:

1. Two fetches of one artifact at once. An Ok may then be of a file the other is
   writing (section 6); a theorem would have to say which of two Oks to believe.
2. A run for what is proved beyond the runs' bounds: `VMsGoBeforeTheirRecords`.
3. What section 7 leaves out.

New parts join the MC module they meet in; a run stays one question, or several
questions of one place.

## 9. Running it

```
tlc -workers 2 -config host_files.cfg MCHostFiles.tla        # and so on, see PROJECT.json
tlapm HostFilesProofs.tla                                    # and the other *Proofs
```

Each passing run ends in one to four minutes on two cores; the
largest, `machines`, has about 1.53 million distinct states.
