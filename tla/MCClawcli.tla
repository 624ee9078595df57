----------------------------- MODULE MCClawcli -----------------------------
(***************************************************************************)
(* Small instances, for TLC, of what clawcli does on the host: downloads,  *)
(* the installation of components, gateways, and bundles.  A behaviour is  *)
(* of one scenario, in which one part moves and the others stand at an     *)
(* initial state.                                                          *)
(*                                                                         *)
(* DownloadCache:                                                          *)
(*   pinned    one process fetches an artifact with a pinned checksum,     *)
(*             while streams, bodies and writes fail and it is killed;     *)
(*   unpinned  one process, no checksum, and the same but for wrong bytes; *)
(*   shared    two processes fetch the same pinned artifact, a third       *)
(*             prunes, and everything fails.                               *)
(* ComponentInstall, of two versions and archives of three entries, enough *)
(* for a half-unpacked and for a mixed directory:                          *)
(*   upgrade   one installer that installs, killed at any step, while      *)
(*             downloads, removals, unpacking and the first rename fail;   *)
(*   wild      installs and reinstalls, and every fault;                   *)
(*   orderly   installs and reinstalls, where removals work and nothing is *)
(*             killed.                                                     *)
(* The first runs on the variables of the module, and its properties are   *)
(* the ones proved for every number of entries and versions; the others    *)
(* run on a second copy of the variables.                                  *)
(* Daemons:                                                                *)
(*   native    two processes of clawcli, one of them the GUI's, and the    *)
(*             diagnosis, over a native instance and one gateway;          *)
(*   boxed     the same over a sandboxed one;                              *)
(*   lone      one process, in which each command comes to its end.        *)
(* ExportBundle:                                                           *)
(*   bundles   two exports, the second of the same machine or not, to the  *)
(*             same file or not, and an import.                            *)
(***************************************************************************)
EXTENDS ComponentInstall, DownloadCache, Daemons, ExportBundle

CONSTANTS NodeBin, NpmLib, Include, V20, V22, GuiCli, Terminal

\* Of artifacts of three chunks too, a file that is not there is none of them.
ASSUME MCClawcliAssumption == NoFile \notin [1..3 -> {"none", "good", "bad"}]

VARIABLES scenario, target2, staging2, backup2, pc2, version2, left2, armed2

AllFaults == {"fetch", "unpack", "remove", "moveOld", "moveNew", "crash"}

Wild == INSTANCE ComponentInstall
          WITH Kinds <- {"install", "reinstall"}, Faults <- AllFaults,
               target <- target2, staging <- staging2, backup <- backup2,
               pc <- pc2, version <- version2, left <- left2, armed <- armed2
Orderly == INSTANCE ComponentInstall
             WITH Kinds <- {"install", "reinstall"}, Faults <- AllFaults \ {"remove", "crash"},
                  target <- target2, staging <- staging2, backup <- backup2,
                  pc <- pc2, version <- version2, left <- left2, armed <- armed2

Pin == INSTANCE DownloadCache
         WITH Fetchers <- {GuiCli}, Chunks <- 3, Pinned <- TRUE,
              CacheFaults <- FaultKinds \ {"prune"}
Unp == INSTANCE DownloadCache
         WITH Fetchers <- {GuiCli}, Chunks <- 3, Pinned <- FALSE,
              CacheFaults <- FaultKinds \ {"prune", "body"}

vars2 == <<target2, staging2, backup2, pc2, version2, left2, armed2>>
mcvars == <<vars, vars2, cache, daemons, exporting, scenario>>

\* The names a scenario of the gateways is about.
Used == IF scenario = "boxed" THEN Boxed ELSE Native

DaemonStart ==
    /\ DaemonInit
    /\ \A n \in Names : tree[n] \in {"none", "v1"} /\ (n \notin Used => tree[n] = "none")
    /\ scenario = "native" => node # "bare"
    /\ scenario = "boxed" => node = "none" /\ \A n \in Used : tree[n] # "none"
    /\ scenario \notin {"native", "boxed", "lone"} => node = "none" /\ \A n \in Names : tree[n] = "none"

\* Where nothing is installed, the version an installer was last asked for is
\* of no account, and only one is taken.
AnyVersion == CHOOSE v \in Versions : TRUE

MCInit ==
    /\ scenario \in {"pinned", "unpinned", "shared", "upgrade", "wild", "orderly", "native", "boxed", "lone", "bundles"}
    /\ Init /\ Wild!Init
    /\ scenario # "upgrade" => version = [p \in Installers |-> AnyVersion]
    /\ scenario \notin {"wild", "orderly"} => version2 = [p \in Installers |-> AnyVersion]
    /\ IF scenario = "pinned" THEN Pin!CacheInit ELSE IF scenario = "unpinned" THEN Unp!CacheInit ELSE CacheInit
    /\ DaemonStart
    /\ BundleInit

\* The commands of a scenario.  Start and stop refuse a native instance, as
\* "lone" has it; two processes install a version each; a lone process is
\* given two commands.
Given ==
    /\ \A p \in Tasks : task'[p].kind # "" => task'[p].of \in Used
    /\ scenario = "boxed" => \A p \in Tasks : task'[p].kind \notin {"install", "create"}
    /\ scenario = "native" =>
          /\ spawned' <= 1
          /\ \A p \in Tasks :
                /\ task'[p].kind \notin {"start", "stop", "stopall"}
                /\ task'[p].kind \in {"install", "upgrade"} => task'[p].ver = IF p \in Gui THEN "v1" ELSE "v2"
    /\ scenario = "lone" => asked' < MaxAsked /\ \A p \in Tasks \ Gui : task'[p] = task[p]

Fetches(s, A) == scenario = s /\ A /\ UNCHANGED <<vars, vars2, daemons, exporting, scenario>>
Installs(s, A) == scenario = s /\ A /\ UNCHANGED <<cache, daemons, exporting, scenario>>
Commanded(A) ==
    /\ scenario \in {"native", "boxed", "lone"} /\ A
    /\ UNCHANGED <<vars, vars2, cache, exporting, scenario>>
Bundled(A) == scenario = "bundles" /\ A /\ UNCHANGED <<vars, vars2, cache, daemons, scenario>>

MCNext ==
    \/ Fetches("pinned", Pin!CacheNext)
    \/ Fetches("unpinned", Unp!CacheNext)
    \/ Fetches("shared", CacheNext)
    \/ Installs("upgrade", Next /\ UNCHANGED vars2)
    \/ Installs("wild", Wild!Next /\ UNCHANGED vars)
    \/ Installs("orderly", Orderly!Next /\ UNCHANGED vars)
    \/ Commanded(DaemonNext /\ Given)
    \/ Bundled(BundleNext) /\ order'[1] \in {NoOrder, [of |-> "m1", to |-> "f1"]}

\* The fairness of DownloadCache, of Daemons and of ExportBundle, in the
\* scenarios whose liveness is checked.
MCFairness ==
    /\ WF_mcvars(Fetches("pinned", Pin!Advancing(GuiCli)))
    /\ WF_mcvars(Fetches("unpinned", Unp!Advancing(GuiCli)))
    /\ \A p \in Gui : WF_mcvars(scenario = "lone" /\ Commanded(Progress(p)))
    /\ \A e \in Exports : WF_mcvars(Bundled(Run(e) \/ ReadOutput(e) \/ Settle(e)))

MCSpec == MCInit /\ [][MCNext]_mcvars /\ MCFairness

----------------------------------------------------------------------------
\* Types and the fate of open handles, in every scenario.
CacheHolds ==
    CASE scenario = "pinned" -> Pin!CacheTypeOK
      [] scenario = "unpinned" -> Unp!CacheTypeOK
      [] OTHER -> CacheTypeOK

\* One process at a time, a pinned checksum: Ok means the file is the whole,
\* right artifact, whatever was left behind by kills, failed writes and
\* bodies that ended early.  Without a checksum these are what makes a part
\* of a file a hit for every later fetch, and nothing else does: a fetch whose
\* stream fails removes its partial file (download_ops/default.rs:80-205).
CacheIsWholeAlone ==
    [][ /\ scenario = "pinned" => Pin!OkIsWholeStep
        /\ scenario = "unpinned" => Unp!OkIsWholeStep /\ Unp!ErrLeavesNothingStep]_mcvars

\* Types, of the cache too; Ok is returned only with the requested version whole in its place,
\* for installs and reinstalls and whatever fails; while removals work and
\* nothing is killed, no call leaves its staging or its backup directory
\* behind (native_ops/default.rs:151-170 and DirGuard).
InstallHolds ==
    /\ TypeOK /\ CacheHolds
    /\ Wild!OkMeansInstalled
    /\ scenario = "orderly" => Orderly!GuardsClean

\* A fetch of one process ends, for its attempts are counted, unless it is sent
\* a body that has no end (default.rs:99-205); and every command comes to an
\* end, for each of its waits is bounded (orchestrator.rs:655, 951; verbs.rs:264).
FetchesAndCommandsEnd ==
    /\ scenario \in {"pinned", "unpinned"} => Pin!FetchEnds
    /\ scenario = "lone" => \A p \in Gui : Pending(p) ~> ~Pending(p)

=============================================================================
