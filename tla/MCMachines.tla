----------------------------- MODULE MCMachines -----------------------------
(***************************************************************************)
(* Small instances, for TLC, of what is done to a VM: the commands of      *)
(* clawcli on an instance, the backends' calls below them, the set-up of   *)
(* the guest, and the hardware devices that notify it.  A behaviour is of  *)
(* one scenario, in which one part moves and the others stand at an        *)
(* initial state.                                                          *)
(*                                                                         *)
(* InstanceLifecycle:                                                      *)
(*   lima, wsl2, podman  every command, one caller, every fault;           *)
(*   locked              two handlers of the GUI under the instance's      *)
(*                       lock, with failing steps and crashes;             *)
(*   calm                three handlers under the lock, and no fault.      *)
(* The constants of the module itself are the widest of these.             *)
(* SandboxBackend, of two names, so that one is renamed or imported over   *)
(* the other:                                                              *)
(*   lima vm             one caller, every call and every mishap;          *)
(*   distribution, container  the same on wsl2 and podman, where no probe  *)
(*                       is wrong;                                         *)
(*   two callers         two callers on lima, and no mishap;               *)
(*   sure stops          one caller on lima, every call, and no command    *)
(*                       that fails or runs out of time;                   *)
(*   no imports          two callers on lima, and every mishap.            *)
(*   gate                GuestSetup: an install in a VM that warms up, and *)
(*                       a repeated one;                                   *)
(* HwDevices, with two sockets and channels of one message:                *)
(*   device              a device with a callback URL, two notifications,  *)
(*                       so that the second overruns a receiver that lags; *)
(*   devices             that one and another without a URL, and one       *)
(*                       notification.                                     *)
(***************************************************************************)
EXTENDS InstanceLifecycle, SandboxBackend, GuestSetup, HwDevices, TLC

CONSTANTS g1, g2, g3, v1, v2, lamp, badge, c1, c2

ASSUME MCMachinesAssumption ==
    /\ v1 \in Versions
    /\ Platform = "lima"

VARIABLE scenario

\* The commands clawcli runs under the lock.
Locked == {"install", "upgrade", "uninstall", "start", "stop", "export", "import"}

One(b) == INSTANCE InstanceLifecycle WITH Actors <- {g1}, Gui <- {g1}, Backend <- b, MaxRequests <- 4
Two == INSTANCE InstanceLifecycle
         WITH Actors <- {g1, g2}, Gui <- {g1, g2}, Backend <- "lima", Faults <- {"step", "crash"},
              Kinds <- Locked \ {"export", "import"}
Three == INSTANCE InstanceLifecycle
           WITH Actors <- {g1, g2, g3}, Gui <- {g1, g2, g3}, Backend <- "lima", Faults <- {},
                Kinds <- Locked, Versions <- {v1}, MaxRequests <- 4

Lima == INSTANCE SandboxBackend WITH Callers <- {1}
Boxy(p) == INSTANCE SandboxBackend WITH Platform <- p, Callers <- {1}, Mishaps <- Mishaps \ {"probe"}
Pair == INSTANCE SandboxBackend WITH Ops <- Ops \ {"prereqs", "rename"}, Mishaps <- {}
Sure == INSTANCE SandboxBackend WITH Callers <- {1}, Mishaps <- Mishaps \ {"step", "timeout"}
Pure == INSTANCE SandboxBackend WITH Ops <- {"create", "export", "destroy", "start"}

\* The two sockets are alike, and no liveness is checked here.
Sockets == Permutations({c1, c2})

\* The pauses of a retried call, in seconds (sandbox_backend/mod.rs:148).
MCDelays == <<0, 1, 3, 9, 30>>

OneActor == {"lima", "wsl2", "podman"}
Commands == OneActor \cup {"locked", "calm"}
OneLima == {"lima vm", "sure stops"}
Pairs == {"two callers", "no imports"}
Calls == OneLima \cup Pairs \cup {"distribution", "container"}
mcvars == <<vars, backend, setup, hw, scenario>>

MCInit ==
    /\ scenario \in Commands \cup Calls \cup {"gate", "device", "devices"}
    /\ IF scenario \in OneActor THEN One("lima")!Init
       ELSE IF scenario = "locked" THEN Two!Init ELSE IF scenario = "calm" THEN Three!Init ELSE Init
    /\ IF scenario = "distribution" THEN Boxy("wsl2")!BackendInit
       ELSE IF scenario = "container" THEN Boxy("podman")!BackendInit
       ELSE IF scenario \in OneLima THEN Lima!BackendInit ELSE BackendInit
    /\ scenario \notin Calls => tool = "whole" /\ image.of = "a"
    /\ SetupInit
    /\ scenario # "gate" =>
          /\ guest.dns /\ guest.fs /\ guest.shell = "sound" /\ guest.release = Fallback
          /\ install.claw = "openclaw"
    /\ HwInit

Commanded(s, A) == scenario = s /\ A /\ UNCHANGED <<backend, setup, hw, scenario>>
Called(s, A) == scenario = s /\ A /\ UNCHANGED <<vars, setup, hw, scenario>>

MCNext ==
    \/ \E b \in OneActor : Commanded(b, One(b)!Next)
    \/ Commanded("locked", Two!Next)
    \/ Commanded("calm", Three!Next)
    \/ Called("lima vm", Lima!BackendNext)
    \/ Called("distribution", Boxy("wsl2")!BackendNext)
    \/ Called("container", Boxy("podman")!BackendNext)
    \/ Called("two callers", Pair!BackendNext)
    \/ Called("sure stops", Sure!BackendNext)
    \/ Called("no imports", Pure!BackendNext)
    \/ scenario = "gate" /\ SetupNext /\ UNCHANGED <<vars, backend, hw, scenario>>
    \/ /\ HwNext
       /\ \/ scenario = "device" /\ badge \notin known'
          \/ scenario = "devices" /\ target'[2] = NoId
       /\ UNCHANGED <<vars, backend, setup, scenario>>

MCSpec == MCInit /\ [][MCNext]_mcvars

----------------------------------------------------------------------------
\* Types.  When nothing fails and the GUI's lock serialises the commands, at
\* rest there is a VM exactly when there is a record (orchestrator.rs,
\* install and destroy; cli_bridge.rs:51); and an image is never taken of a
\* running Lima VM, as long as its stop works: the stop of export_image, not
\* the one of run_export, sees to it (lima.rs, export_image; verbs.rs:1309).
LifecycleHolds ==
    CASE scenario \in OneActor -> One("lima")!TypeOK
      [] scenario = "locked" -> Two!TypeOK
      [] scenario = "calm" -> Three!TypeOK /\ Three!NothingLost /\ Three!ExportIsWhole
      [] OTHER -> TypeOK

\* An install that succeeds leaves the VM up, and with the version it was asked
\* for unless it met a script that an earlier command had left running: so
\* whatever else installs, crashes and stops had left behind; and the GUI's
\* delete drops the record only when the VM is gone, where the
\* backend reports a destroy that failed: not on podman, nor on a wsl2
\* distribution the probe has missed (orchestrator.rs, stages 3 to 8;
\* ipc/instance.rs, stages 3 and 4).
CommandsKeepTheirWord ==
    [][ /\ scenario \in OneActor => One("lima")!InstalledMeansRunningStep
        /\ scenario = "locked" => Two!InstalledMeansRunningStep
        /\ scenario = "calm" => Three!InstalledMeansRunningStep
        /\ scenario = "lima" => One("lima")!DeleteLeavesNothingStep]_mcvars

\* One command at a time, for there is one caller or the GUI's lock keeps
\* them apart: upgrade writes the record back as it stands, but for the stamp
\* (orchestrator.rs, upgrade; cli_bridge.rs:51).
MCUpgradeOnlyStamps ==
    [][ /\ scenario \in OneActor => One("lima")!UpgradeOnlyStampsStep
        /\ scenario = "locked" => Two!UpgradeOnlyStampsStep
        /\ scenario = "calm" => Three!UpgradeOnlyStampsStep]_mcvars

\* Types, on each backend; on lima a running hostagent can be found, whatever
\* goes wrong, unless a destroy has failed to kill it and removed its
\* directory all the same; and an archive that is whole names no running agent, where one
\* caller's stops work or nothing is imported: of a torn archive, which names
\* one, a whole one can be made by an import and an export that meet
\* (lima.rs, export_image, import_image and destroy).
BackendHolds ==
    CASE scenario = "lima vm" -> Lima!BackendTypeOK /\ Lima!AgentsReachable
      [] scenario = "distribution" -> Boxy("wsl2")!BackendTypeOK
      [] scenario = "container" -> Boxy("podman")!BackendTypeOK
      [] scenario = "two callers" -> Pair!BackendTypeOK
      [] scenario = "sure stops" -> Sure!BackendTypeOK /\ Sure!AgentsReachable /\ Sure!WholeNamesNoAgent
      [] scenario = "no imports" -> Pure!BackendTypeOK /\ Pure!WholeNamesNoAgent
      [] OTHER -> TRUE

\* A provisioned instance is lost to its own destroy or rename only, on every
\* backend whose probes are not wrong (lima.rs:219, wsl.rs import_image).
MCOnlyDestroyTakes ==
    [][CASE scenario \in OneLima -> Lima!OnlyDestroyTakesStep
         [] scenario \in Pairs -> OnlyDestroyTakesStep
         [] scenario = "distribution" -> Boxy("wsl2")!OnlyDestroyTakesStep
         [] scenario = "container" -> Boxy("podman")!OnlyDestroyTakesStep
         [] OTHER -> TRUE]_mcvars

\* The parts amount to one machine under each name, as the callers of a
\* backend take it (sandbox_backend/mod.rs, SandboxBackend).
MCMachine ==
    CASE scenario = "distribution" -> Boxy("wsl2")!Machines
      [] scenario = "container" -> Boxy("podman")!Machines
      [] scenario \in OneLima \cup Pairs -> Machines
      [] OTHER -> [n \in Names |-> [there |-> FALSE, whole |-> FALSE, up |-> FALSE]]
MCSlot == INSTANCE BackendSlot WITH machine <- MCMachine
MCIsOneMachine == MCSlot!SlotSpec

\* What the commands over an instance and the calls of its backend keep
\* (orchestrator.rs and sandbox_backend/, as above).
SandboxesHold == LifecycleHolds /\ BackendHolds

=============================================================================
