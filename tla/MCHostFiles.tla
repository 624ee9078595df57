---------------------------- MODULE MCHostFiles ----------------------------
(***************************************************************************)
(* The state that several programs of the host rewrite, for TLC.  A        *)
(* behaviour is of one scenario:                                           *)
(*   registry  instances.toml, as in MCInstanceRegistry;                   *)
(*   ports     the dialog edits the forwards of a VM, with wsl2 of either  *)
(*             of two, over three host ports; the record of the first VM   *)
(*             names the forwards it has, or there are none yet; a second  *)
(*             editor is there to meet the dialog on the first VM.         *)
(*             Nothing more is followed once two have met, or one was      *)
(*             stopped on its way;                                         *)
(*   config    the GUI is up or starts first; two commands write           *)
(*             config.toml and a VM's files, the host's proxy stays;       *)
(*   environ   the host's proxy changes, the watcher sees each change      *)
(*             before the next, and one command configures a proxy.        *)
(***************************************************************************)
EXTENDS MCInstanceRegistry, PortForwards, ProxySettings

CONSTANTS h1, h2, h3

VARIABLE scenario

hostFiles == <<mcvars, portVars, proxyVars, scenario>>

\* The host ports are alike, so the first in use are h1 and h2.
PortsStart ==
  /\ record["v1"] \in {<<>>, [gateway |-> h1], [gateway |-> h1, ttyd |-> h2]}
  /\ DOMAIN live["v1"] \subseteq (IF record["v1"] = <<>> THEN {} ELSE {h1, h2})
  /\ record["v2"] = (IF backend = "wsl2" THEN [gateway |-> h3] ELSE <<>>) /\ running["v2"]
  /\ DOMAIN live["v2"] = Range(record["v2"])
  /\ backend = "wsl2" => DOMAIN live["v1"] = Range(record["v1"]) /\ running["v1"] /\ foreign = {}
  /\ foreign \subseteq {h1}
  /\ foreign # {} => record["v1"] = <<>>

\* Of the parts that stand still, one initial state.
PortsRest == /\ backend = "lima" /\ foreign = {} /\ \A v \in Vms : running[v] /\ record[v] = <<>>
ProxyRest == cfg = Empty /\ os = "none" /\ env = "none"
RegistryRest == host = "sole"

FilesInit ==
  /\ scenario \in {"registry", "ports", "config", "environ"}
  /\ IF scenario = "registry" THEN MCInit ELSE MCInit /\ RegistryRest
  /\ PortsInit /\ PortsStart /\ (scenario # "ports" => PortsRest)
  /\ ProxyInit
  /\ CASE scenario = "config" -> os = "none"
       [] scenario = "environ" -> ~cfg.proxy.auth
       [] OTHER -> ProxyRest

\* The other editor is there to meet the first.
PortsGo ==
  /\ scenario = "ports" /\ spoiled = {} /\ PortsNext
  /\ \A a \in Editors \ {Dialog} : ed'[a] # ed[a] => Busy(Dialog) /\ ed'[a].kind = "add"
  /\ \A a \in Editors : ed'[a].vm = "v2" => backend = "wsl2" /\ a = Dialog

ConfigGo ==
  /\ scenario = "config" /\ ~clash /\ ProxyNext
  /\ <<os, seen>>' = <<os, seen>>
  /\ up' # up => runs = 0 /\ Enabled
  /\ \A j \in Jobs : (j # 1 /\ ~JobRunning(j) /\ job'[j] # job[j]) => JobRunning(1)

EnvironGo ==
  /\ scenario = "environ" /\ ProxyNext
  /\ \A j \in Jobs : job'[j].kind # "" => j = 1 /\ job'[j].kind = "config"
  /\ os' # os /\ up => seen = os
  /\ runs' <= 1

FilesNext ==
  /\ UNCHANGED scenario
  /\ \/ scenario = "registry" /\ (SoleNext \/ BothNext) /\ UNCHANGED <<portVars, proxyVars>>
     \/ PortsGo /\ UNCHANGED <<mcvars, proxyVars>>
     \/ (ConfigGo \/ EnvironGo) /\ UNCHANGED <<mcvars, portVars>>

\* The watcher's thread keeps ticking.
FilesSpec ==
  /\ FilesInit /\ [][FilesNext]_hostFiles
  /\ WF_hostFiles(scenario = "environ" /\ Watch /\ UNCHANGED <<mcvars, portVars, scenario>>)

\* EnvCatchesUp, where each setting of the host outlasts the watcher's period.
MCEnvCatchesUp == scenario = "environ" => EnvCatchesUp

=============================================================================
