------------------------------- MODULE Daemons -------------------------------
(***************************************************************************)
(* The gateways of instances and what is installed for the native ones:    *)
(* `clawcli install`, `instance create`, `upgrade`, `launch`, `start`,     *)
(* `stop`, `stop --all` and `uninstall` (core/src/instance/orchestrator.rs,*)
(* cli/src/cmd/verbs.rs), beside the GUI's diagnosis of the host           *)
(* (tauri/src/ipc/settings.rs).                                            *)
(*                                                                         *)
(* A native instance is an npm prefix and a record; its gateway is a       *)
(* process of the host that nobody keeps a handle of.  The gateway of a    *)
(* sandboxed instance runs in its VM and ends with it.  Processes of       *)
(* clawcli are the tasks: those of the GUI hold its lock on the instance,  *)
(* the others nothing.  What `install` does for a sandbox is in            *)
(* InstanceLifecycle; here the sandboxes are there from the start.         *)
(***************************************************************************)
EXTENDS Naturals, FiniteSets, Functions

CONSTANTS
  Native, Boxed,  \* names of instances, on the host and in a VM
  Tasks,          \* processes of clawcli
  Gui,            \* those run by the GUI
  Ports,          \* gateway ports
  DEFAULT_PORT,   \* the claw's own port
  Vers,           \* versions of the claw
  MaxDaemons,     \* bound: gateways ever spawned
  MaxAsked        \* bound: commands given

ASSUME DaemonAssumption ==
  /\ Native \intersect Boxed = {} /\ Gui \subseteq Tasks
  /\ DEFAULT_PORT \in Ports /\ 0 \notin Ports
  /\ MaxDaemons \in Nat \ {0} /\ MaxAsked \in Nat
  /\ Vers \intersect {"none", "empty"} = {}

VARIABLES
  node,      \* the host's node: "none", "bare" (without npm), "npm"
  tree,      \* tree[n]: the version installed for n, "none" or "empty"
  port,      \* port[n]: the port of n's record, 0 if there is no record
  up,        \* up[b]: the VM of b runs
  daemon,    \* daemon[d]: the d-th gateway spawned
  spawned,   \* gateways spawned so far
  task,      \* task[p]: what process p is doing
  asked,     \* bound: commands given so far
  diagnosed, \* the issues the GUI shows
  excused,   \* history: names whose tree has been spoilt
  since      \* history: versions n had since its last good stop

daemons == <<node, tree, port, up, daemon, spawned, task, asked, diagnosed, excused, since>>

Names == Native \union Boxed
Daemons == 1..MaxDaemons
Unspawned == [of |-> "", ver |-> "none", port |-> 0, at |-> "none"]
Alive == {d \in Daemons : daemon[d].at \in {"starting", "serving"}}
NoTask == [kind |-> "", of |-> "", ver |-> "none", port |-> 0, at |-> "idle", left |-> {}, ready |-> 0]
Pending(p) == task[p].at \notin {"idle", "ok", "err"}
At(p, kinds, step) == task[p].kind \in kinds /\ task[p].at = step
To(p, step) == task' = [task EXCEPT ![p].at = step]
Own(n) == {d \in Alive : daemon[d].of = n}
NativeDir == \E n \in Native : tree[n] # "none"
Recorded == {n \in Names : port[n] # 0}

\* The trees of these names are spoilt under a record, or one to come.
Spoil(names, others) ==
  excused' = excused \union
    {n \in names : port[n] # 0 \/ \E q \in others : Pending(q) /\ task[q].of = n}

\* The gateways of n end with its VM.
Killed(n) == [d \in Daemons |-> IF d \in Own(n) THEN [daemon[d] EXCEPT !.at = "gone"] ELSE daemon[d]]

DaemonInit ==
  /\ node \in {"none", "bare", "npm"}
  /\ tree \in [Names -> Vers \union {"none"}]
  /\ port \in [Names -> {0, DEFAULT_PORT}]
  /\ \A n \in Names : port[n] # 0 <=> tree[n] # "none"
  /\ up = [b \in Boxed |-> FALSE]
  /\ daemon = [d \in Daemons |-> Unspawned]
  /\ spawned = 0 /\ asked = 0
  /\ task = [p \in Tasks |-> NoTask]
  /\ diagnosed = {} /\ excused = {}
  /\ since = [n \in Names |-> {tree[n]}]

-----------------------------------------------------------------------------
(* A command is given.                                                      *)
Commands == {"install", "create", "upgrade", "launch", "start", "stop", "stopall", "uninstall"}
Lookups == Commands \ {"start", "stop", "stopall"}

\* The GUI's handlers run clawcli one at a time for an instance.
Admitted(p, n) == p \in Gui => \A q \in Gui \ {p} : Pending(q) => task[q].of # n

Ask(p) ==
  /\ ~Pending(p) /\ asked < MaxAsked
  /\ asked' = asked + 1
  /\ \E k \in Commands, n \in Names, v \in Vers, h \in Ports :
       /\ k \in {"install", "create"} => n \in Native
       /\ k \notin {"install", "upgrade"} => v = CHOOSE x \in Vers : TRUE
       /\ k # "install" => h = DEFAULT_PORT
       /\ k = "launch" => spawned + Cardinality({q \in Tasks : Pending(q) /\ task[q].kind = k}) < MaxDaemons
       /\ Admitted(p, n)
       /\ task' = [task EXCEPT ![p] = [NoTask EXCEPT !.kind = k, !.of = n, !.ver = v, !.port = h,
                                         !.at = IF k \in Lookups THEN "lookup" ELSE k]]
  /\ UNCHANGED <<node, tree, port, up, daemon, spawned, diagnosed, excused, since>>

\* registry.find: install and create want no record ...
FindFree(p) ==
  /\ At(p, {"install", "create"}, "lookup")
  /\ To(p, IF port[task[p].of] = 0 THEN "preflight" ELSE "err")
  /\ UNCHANGED <<node, tree, port, up, daemon, spawned, asked, diagnosed, excused, since>>

\* ... the others take the port of the one there is, and go their ways.
Then(kind, n) ==
  CASE kind = "launch" -> IF n \in Boxed THEN "boot" ELSE "spawn"
    [] kind = "uninstall" -> IF n \in Boxed THEN "destroy" ELSE "record"
    [] kind = "upgrade" -> IF n \in Boxed THEN "boot" ELSE "preflight"

Find(p) ==
  LET n == task[p].of
  IN /\ At(p, {"upgrade", "launch", "uninstall"}, "lookup")
     /\ task' = IF port[n] = 0 THEN [task EXCEPT ![p].at = "err"]
                ELSE [task EXCEPT ![p].at = Then(task[p].kind, n), ![p].port = port[n]]
     /\ UNCHANGED <<node, tree, port, up, daemon, spawned, asked, diagnosed, excused, since>>

-----------------------------------------------------------------------------
(* install, create and upgrade of a native instance.                        *)
HasNode == node # "none"
HasNpm == node = "npm"

\* install and create fetch node when told to and when it is missing.
Bootstrap(p) ==
  /\ At(p, {"install", "create"}, "preflight") /\ ~HasNode
  /\ node' = "npm"
  /\ UNCHANGED <<tree, port, up, daemon, spawned, task, asked, diagnosed, excused, since>>

\* install needs npm beside it; a preflight may fail at any probe.
CheckInstall(p) ==
  /\ At(p, {"install"}, "preflight")
  /\ (HasNpm /\ To(p, "npm")) \/ To(p, "err")
  /\ UNCHANGED <<node, tree, port, up, daemon, spawned, asked, diagnosed, excused, since>>

\* create does no more than record the instance, with no port.
CheckCreate(p) ==
  /\ At(p, {"create"}, "preflight")
  /\ (HasNode /\ To(p, "record")) \/ To(p, "err")
  /\ UNCHANGED <<node, tree, port, up, daemon, spawned, asked, diagnosed, excused, since>>

\* upgrade fetches nothing, and finds npm missing when it runs it.
CheckUpgrade(p) ==
  /\ At(p, {"upgrade"}, "preflight")
  /\ (HasNpm /\ To(p, "npm")) \/ To(p, "err")
  /\ UNCHANGED <<node, tree, port, up, daemon, spawned, asked, diagnosed, excused, since>>

\* npm install -g --prefix: it succeeds, though perhaps with no binary where
\* one is looked for, or fails or runs out of time over what was there.
Npm(p) ==
  LET n == task[p].of
  IN /\ At(p, {"install", "upgrade"}, "npm")
     /\ \/ /\ tree' = [tree EXCEPT ![n] = task[p].ver] /\ To(p, "verify")
           /\ excused' = excused \ {n}
           /\ since' = [since EXCEPT ![n] = @ \union {task[p].ver}]
        \/ /\ tree' = [tree EXCEPT ![n] = "empty"]
           /\ To(p, "verify") \/ To(p, "err")
           /\ Spoil({n}, Tasks \ {p})
           /\ UNCHANGED since
        \/ To(p, "err") /\ UNCHANGED <<tree, excused, since>>
     /\ UNCHANGED <<node, port, up, daemon, spawned, asked, diagnosed>>

\* Fault variant: an installation is recorded without a look at its binary.
VerifyUnchecked(p) ==
  /\ At(p, {"install"}, "verify")
  /\ To(p, "record")
  /\ UNCHANGED <<node, tree, port, up, daemon, spawned, asked, diagnosed, excused, since>>

\* The binary must be in <prefix>/bin; what it says of its version is not
\* looked at.
Verify(p) ==
  /\ At(p, {"install"}, "verify")
  /\ \/ tree[task[p].of] \in Vers /\ To(p, "record")
     \/ To(p, "err")
  /\ UNCHANGED <<node, tree, port, up, daemon, spawned, asked, diagnosed, excused, since>>

\* upgrade runs the binary: its absence shows as a failure to spawn.
VerifyUpgrade(p) ==
  /\ At(p, {"upgrade"}, "verify")
  /\ \/ tree[task[p].of] \in Vers /\ To(p, "record")
     \/ To(p, "err")
  /\ UNCHANGED <<node, tree, port, up, daemon, spawned, asked, diagnosed, excused, since>>

\* registry.insert, update or remove: the second and the third want a record,
\* the first wants none.  An update writes back the record as it was found.
Commit(p) ==
  LET n == task[p].of  k == task[p].kind
  IN /\ At(p, {"install", "create", "upgrade", "uninstall"}, "record")
     /\ IF k \in {"install", "create"} <=> port[n] = 0
        THEN /\ port' = [port EXCEPT ![n] = IF k = "uninstall" THEN 0 ELSE task[p].port]
             /\ excused' = IF k = "create" /\ tree[n] \notin Vers THEN excused \union {n} ELSE excused
             /\ To(p, "ok")
        ELSE To(p, "err") /\ UNCHANGED <<port, excused>>
     /\ UNCHANGED <<node, tree, up, daemon, spawned, asked, diagnosed, since>>

-----------------------------------------------------------------------------
(* launch.                                                                  *)

\* backend.start.  An upgrade in a VM then changes what is installed there,
\* or fails; how, InstanceLifecycle says.
Boot(p) ==
  LET n == task[p].of
  IN /\ At(p, {"launch", "upgrade"}, "boot")
     /\ \/ /\ tree[n] # "none" /\ up' = [up EXCEPT ![n] = TRUE]
           /\ To(p, IF task[p].kind = "launch" THEN "spawn" ELSE "npm in the VM")
        \/ To(p, "err") /\ UNCHANGED up
     /\ UNCHANGED <<node, tree, port, daemon, spawned, asked, diagnosed, excused, since>>

NpmInVm(p) ==
  LET n == task[p].of
  IN /\ At(p, {"upgrade"}, "npm in the VM")
     /\ \/ /\ up[n]
           /\ tree' = [tree EXCEPT ![n] = task[p].ver]
           /\ since' = [since EXCEPT ![n] = @ \union {task[p].ver}]
           /\ To(p, "record")
        \/ To(p, "err") /\ UNCHANGED <<tree, since>>
     /\ UNCHANGED <<node, port, up, daemon, spawned, asked, diagnosed, excused>>

\* spawn_native_daemon makes the directory of its log before it finds that
\* there is no binary.  In a VM `nohup` answers whatever becomes of the
\* gateway, as long as the VM is there.
Spawn(p) ==
  LET n == task[p].of
      there == IF n \in Boxed THEN up[n] ELSE tree[n] \in Vers
  IN /\ At(p, {"launch"}, "spawn")
     /\ IF there
        THEN /\ spawned < MaxDaemons
             /\ spawned' = spawned + 1
             /\ daemon' = [daemon EXCEPT ![spawned + 1] =
                             [of |-> n, ver |-> tree[n], port |-> task[p].port, at |-> "starting"]]
             /\ To(p, "probe")
        ELSE To(p, "err") /\ UNCHANGED <<daemon, spawned>>
     /\ tree' = IF n \in Native /\ tree[n] = "none" THEN [tree EXCEPT ![n] = "empty"] ELSE tree
     /\ UNCHANGED <<node, port, up, asked, diagnosed, excused, since>>

\* Whoever listens on the port answers the probe.
ProbeAnswered(p) ==
  /\ At(p, {"launch"}, "probe")
  /\ \E d \in Alive :
       /\ daemon[d].at = "serving" /\ daemon[d].port = task[p].port
       /\ task' = [task EXCEPT ![p].at = "ok", ![p].ready = d]
  /\ UNCHANGED <<node, tree, port, up, daemon, spawned, asked, diagnosed, excused, since>>

\* Fault variant: the probe is repeated until something answers.
ProbeForever(p) == ProbeAnswered(p)

\* Two minutes, or --no-probe: the launch is good all the same.
Probe(p) ==
  \/ ProbeAnswered(p)
  \/ /\ At(p, {"launch"}, "probe") /\ To(p, "ok")
     /\ UNCHANGED <<node, tree, port, up, daemon, spawned, asked, diagnosed, excused, since>>

\* A gateway opens its port, or finds it taken and ends; it ends at any time.
Bind(d) ==
  /\ daemon[d].at = "starting"
  /\ daemon' = [daemon EXCEPT ![d].at =
                  IF \E e \in Alive : daemon[e].at = "serving" /\ daemon[e].port = daemon[d].port
                  THEN "gone" ELSE "serving"]
  /\ UNCHANGED <<node, tree, port, up, spawned, task, asked, diagnosed, excused, since>>

Die(d) ==
  /\ d \in Alive
  /\ daemon' = [daemon EXCEPT ![d].at = "gone"]
  /\ UNCHANGED <<node, tree, port, up, spawned, task, asked, diagnosed, excused, since>>

-----------------------------------------------------------------------------
(* start, stop, stop --all, uninstall.                                      *)

\* Of a name without a record clawcli makes up a sandbox, whose VM is missing;
\* a native instance has none.
Start(p) ==
  LET n == task[p].of
  IN /\ At(p, {"start"}, "start")
     /\ \/ /\ n \in Boxed /\ tree[n] # "none" /\ up' = [up EXCEPT ![n] = TRUE] /\ To(p, "ok")
        \/ To(p, "err") /\ UNCHANGED up
     /\ UNCHANGED <<node, tree, port, daemon, spawned, asked, diagnosed, excused, since>>

Down(n) ==
  /\ up' = [up EXCEPT ![n] = FALSE]
  /\ daemon' = Killed(n)

Halt(n) == Down(n) /\ since' = [since EXCEPT ![n] = {tree[n]}]

\* A call of the backend that fails or runs out of time may have stopped the
\* VM all the same.
HaltFails(n) == (Down(n) \/ UNCHANGED <<up, daemon>>) /\ UNCHANGED since

\* Fault variant: a stop that failed or timed out is reported as done.
StopOkAnyway(p) ==
  LET n == task[p].of
  IN /\ At(p, {"stop"}, "stop")
     /\ since' = [since EXCEPT ![n] = {tree[n]}]
     /\ To(p, "ok")
     /\ IF n \in Boxed /\ tree[n] # "none"
        THEN Halt(n) \/ UNCHANGED <<up, daemon>> ELSE UNCHANGED <<up, daemon>>
     /\ UNCHANGED <<node, tree, port, spawned, asked, diagnosed, excused>>

Stop(p) ==
  LET n == task[p].of
  IN /\ At(p, {"stop"}, "stop")
     /\ \/ n \in Boxed /\ tree[n] # "none" /\ Halt(n) /\ To(p, "ok")
        \/ n \in Boxed /\ tree[n] # "none" /\ HaltFails(n) /\ To(p, "err")
        \/ To(p, "err") /\ UNCHANGED <<up, daemon, since>>
     /\ UNCHANGED <<node, tree, port, spawned, asked, diagnosed, excused>>

\* `stop --all` skips native instances and goes on after a failure.
StopAll(p) ==
  /\ At(p, {"stopall"}, "stopall")
  /\ task' = [task EXCEPT ![p].at = "stopping", ![p].left = Recorded \intersect Boxed]
  /\ UNCHANGED <<node, tree, port, up, daemon, spawned, asked, diagnosed, excused, since>>

StopNext(p) ==
  /\ At(p, {"stopall"}, "stopping")
  /\ IF task[p].left = {} THEN To(p, "ok") /\ UNCHANGED <<up, daemon, since>>
     ELSE \E n \in task[p].left :
            /\ task' = [task EXCEPT ![p].left = @ \ {n}]
            /\ \/ tree[n] # "none" /\ (Halt(n) \/ HaltFails(n))
               \/ UNCHANGED <<up, daemon, since>>
  /\ UNCHANGED <<node, tree, port, spawned, asked, diagnosed, excused>>

\* backend.destroy, whose failure is passed over; of a native instance the
\* record goes, its prefix and its gateway stay.
Destroy(p) ==
  LET n == task[p].of
  IN /\ At(p, {"uninstall"}, "destroy") /\ To(p, "record")
     /\ \/ /\ Halt(n) /\ tree' = [tree EXCEPT ![n] = "none"]
        \/ HaltFails(n) /\ UNCHANGED tree
     /\ UNCHANGED <<node, port, spawned, asked, diagnosed, excused>>

-----------------------------------------------------------------------------
(* The GUI's diagnosis.  The user repairs what was found, when he likes.    *)
Issue(type, n) == [type |-> type, of |-> n]
Issues ==
  (IF NativeDir THEN {} ELSE {Issue("missing_dir", n) : n \in Recorded \intersect Native})
    \union (IF NativeDir /\ Recorded \intersect Native = {} THEN {Issue("orphan_native", "")} ELSE {})

Diagnose ==
  /\ diagnosed # Issues
  /\ diagnosed' = Issues
  /\ UNCHANGED <<node, tree, port, up, daemon, spawned, task, asked, excused, since>>

\* The directory of all native instances is removed, whoever has installed
\* since; or the record, whose removal may fail unseen.
Fix(i) ==
  /\ i \in diagnosed
  /\ CASE i.type = "orphan_native" ->
            /\ tree' = [n \in Names |-> IF n \in Native THEN "none" ELSE tree[n]]
            /\ Spoil(Native, Tasks)
            /\ UNCHANGED port
       [] i.type = "missing_dir" ->
            port' = [port EXCEPT ![i.of] = 0] /\ UNCHANGED <<tree, excused>>
  /\ UNCHANGED <<node, up, daemon, spawned, task, asked, diagnosed, since>>

-----------------------------------------------------------------------------
Progress(p) ==
  \/ FindFree(p) \/ Find(p) \/ Bootstrap(p) \/ CheckInstall(p) \/ CheckCreate(p) \/ CheckUpgrade(p)
  \/ Npm(p) \/ Verify(p) \/ VerifyUpgrade(p) \/ Commit(p)
  \/ Boot(p) \/ NpmInVm(p) \/ Spawn(p) \/ Probe(p)
  \/ Start(p) \/ Stop(p) \/ StopAll(p) \/ StopNext(p) \/ Destroy(p)

DaemonNext ==
  \/ \E p \in Tasks : Ask(p) \/ Progress(p)
  \/ \E d \in Daemons : Bind(d) \/ Die(d)
  \/ Diagnose \/ \E i \in diagnosed : Fix(i)

\* Each process runs; every wait of its steps has a time limit.
DaemonFairness == \A p \in Tasks : WF_daemons(Progress(p))

DaemonSpec == DaemonInit /\ [][DaemonNext]_daemons /\ DaemonFairness

-----------------------------------------------------------------------------
(* Correctness.                                                             *)
DaemonTypeOK ==
  /\ node \in {"none", "bare", "npm"}
  /\ tree \in [Names -> Vers \union {"none", "empty"}]
  /\ port \in [Names -> Ports \union {0}]
  /\ up \in [Boxed -> BOOLEAN]
  /\ spawned \in 0..MaxDaemons
  /\ \A d \in Daemons : daemon[d].at \in {"none", "starting", "serving", "gone"}
  /\ \A p \in Tasks : task[p].port \in Ports \union {0} /\ task[p].ready \in 0..MaxDaemons

\* A record of a native instance stands for a binary, whatever commands met
\* over it, unless `create` recorded it bare, a second npm or an upgrade
\* wrecked the prefix, or a repair removed the prefix meanwhile
\* (install_native, upgrade_native, fix_diagnostic_issue).
RecordedIsInstalled ==
  \A n \in Native : port[n] # 0 /\ n \notin excused => tree[n] \in Vers

\* A gateway in a VM never outlives the VM's run, whatever starts, stops and
\* launches cross (launch_with_probe, run_stop).
NoGatewayWithoutVm == \A n \in Boxed : Own(n) # {} => up[n]

DaemonsInv == DaemonTypeOK /\ RecordedIsInstalled /\ NoGatewayWithoutVm

\* A launch that is answered by a gateway of its own instance is answered by
\* a version installed since the last stop that was reported good: after
\* upgrade, stop and launch it is the new one (orchestrator.rs:848-849).  A
\* native instance has no good stop, so for it this promises little.
ReadyRunsInstalled ==
  [][\A p \in Tasks :
       LET d == task'[p].ready
       IN d # 0 /\ d # task[p].ready /\ daemon[d].of = task[p].of
            => daemon[d].ver \in since[task[p].of]]_daemons

\* Every command comes to an end: each of its waits is bounded
\* (orchestrator.rs:655, 937; verbs.rs:264).
CommandsEnd == \A p \in Tasks : Pending(p) ~> ~Pending(p)
=============================================================================
