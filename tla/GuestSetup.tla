----------------------------- MODULE GuestSetup -----------------------------
(***************************************************************************)
(* What an install does inside a VM that has just booted: the three-probe   *)
(* gate, the mirrors, the proxy files, the packages, the claw and its MCP   *)
(* plugins.  A VM that reports "Running" is still warming up: for a while   *)
(* SSH may be unreachable, names may not resolve and the disk may be        *)
(* read-only.  Some calls are made again after an SSH error, with growing   *)
(* pauses, the others fail at the first; and an SSH error does not say      *)
(* whether the command was run.  A user may repeat an install that failed,  *)
(* on the VM it left.                                                       *)
(***************************************************************************)
EXTENDS Naturals, Sequences

CONSTANTS
    Claws,        \* openclaw, hermes
    Releases,     \* Alpine releases of the VM's image
    Fallback,     \* the release assumed when it cannot be read
    Delays,       \* pauses before the attempts of a retried call, in seconds
    Spells,       \* how long a spell without SSH may last, in seconds
    MaxSpells,    \* bound on the spells of a behaviour
    MaxFaults,    \* bound on commands that fail of their own
    MaxRuns       \* bound on installs

ASSUME GuestSetupAssumption ==
    /\ Claws \subseteq {"openclaw", "hermes"}
    /\ Fallback \in Releases
    /\ Delays \in Seq(0..30) /\ Delays # << >>
    /\ Spells \cup {MaxSpells, MaxFaults, MaxRuns} \subseteq Nat

VARIABLES
    guest,    \* the VM
    quiet,    \* seconds until SSH answers again
    install,  \* the install: what is asked, what is left to do
    verdict,  \* none, ok, or the step that failed
    spells, faults, runs

setup == <<guest, quiet, install, verdict, spells, faults, runs>>

Mirrors == {"default", "custom"}
ProxyChoices == {"none", "proxy"}
PluginSeq == <<"mcp-bridge", "hil-skill", "hw-notify">>
Plugins == {PluginSeq[i] : i \in DOMAIN PluginSeq}

Probes == {"alive", "dns", "fs"}
Retried == Probes \cup {"repos", "npm", "environment", "profile"}
BestEffort == {"release", "config", "pip", "build", "sdk"}
SetupKinds == Retried \cup BestEffort \cup {"packages", "install", "version", "api", "chown", "mkdir", "put"}

SetupTypeOK ==
    /\ guest \in [dns : BOOLEAN, fs : BOOLEAN, shell : {"sound", "odd"}, release : Releases,
                  repos : [mirror : Mirrors \cup {"image"}, of : Releases], npm : Mirrors,
                  environment : ProxyChoices, profile : ProxyChoices, claw : {"none", "begun", "whole"},
                  dirs : SUBSET Plugins, plugins : SUBSET Plugins]
    /\ quiet \in Nat
    /\ install \in [claw : Claws, mirror : Mirrors, npm : Mirrors, proxy : ProxyChoices, release : Releases,
                todo : Seq(SetupKinds \X (Plugins \cup {""})), try : 1..Len(Delays), met : BOOLEAN, clean : BOOLEAN]
    /\ verdict \in SetupKinds \cup {"none", "ok"}
    /\ spells \in 0..MaxSpells /\ faults \in 0..MaxFaults /\ runs \in 0..MaxRuns

----------------------------------------------------------------------------
(* The steps of an install. *)

If(b, steps) == IF b THEN steps ELSE << >>
Do(kind) == <<kind, "">>

PostBoot == <<Do("alive"), Do("dns"), Do("fs")>>
ApplyMirrors(npm) == <<Do("release"), Do("repos")>> \o If(npm # "default", <<Do("npm")>>)
ApplyProxy == <<Do("environment"), Do("profile")>>
PreBuildDashboard == <<Do("api"), Do("pip"), Do("chown"), Do("build")>>
DeployPlugins(claw) ==
    <<<<"mkdir", PluginSeq[1]>>, <<"put", PluginSeq[1]>>, <<"mkdir", PluginSeq[2]>>,
      <<"put", PluginSeq[2]>>, <<"mkdir", PluginSeq[3]>>, <<"put", PluginSeq[3]>>>>
    \o If(claw = "hermes", <<Do("sdk")>>)

InstallSteps(claw, npm, proxy) ==
    PostBoot \o ApplyMirrors(npm) \o If(proxy # "none", ApplyProxy)
    \o If(claw = "hermes", <<Do("packages")>>)
    \o <<Do("install"), Do("version")>>
    \o If(claw = "openclaw", <<Do("config")>>)
    \o If(claw = "hermes", PreBuildDashboard)
    \o DeployPlugins(claw)

\* A run of the install: create() has returned, or found the VM of an
\* earlier run present.
Begin(c, m, r, p) ==
    /\ verdict # "ok" /\ install.todo = << >>
    /\ runs < MaxRuns
    /\ runs > 0 => c = install.claw
    /\ install' = [install EXCEPT !.claw = c, !.mirror = m, !.npm = r, !.proxy = p, !.try = 1, !.met = FALSE,
                          !.clean = (quiet = 0), !.todo = InstallSteps(c, r, p)]
    /\ verdict' = "none"
    /\ runs' = runs + 1
    /\ UNCHANGED <<guest, quiet, spells, faults>>

SetupInit ==
    /\ guest \in [dns : BOOLEAN, fs : BOOLEAN, shell : {"sound", "odd"}, release : Releases,
                  repos : [mirror : {"image"}, of : {Fallback}], npm : {"default"},
                  environment : {"none"}, profile : {"none"}, claw : {"none"}, dirs : {{}}, plugins : {{}}]
    /\ quiet = 0
    /\ install \in [claw : Claws, mirror : {"default"}, npm : {"default"}, proxy : {"none"}, release : {Fallback},
                todo : {<< >>}, try : {1}, met : {FALSE}, clean : {TRUE}]
    /\ verdict = "none"
    /\ spells = 0 /\ faults = 0 /\ runs = 0

----------------------------------------------------------------------------
(* One call of the install. *)

Now == Head(install.todo)[1]
What == Head(install.todo)[2]
Working == install.todo # << >>

\* The VM once the command has run.  Every file is written whole.
Done(g) ==
    CASE Now = "repos" -> [g EXCEPT !.repos = [mirror |-> install.mirror, of |-> install.release]]
      [] Now = "npm" -> [g EXCEPT !.npm = install.npm]
      [] Now = "environment" -> [g EXCEPT !.environment = install.proxy]
      [] Now = "profile" -> [g EXCEPT !.profile = install.proxy]
      [] Now = "install" -> [g EXCEPT !.claw = "whole"]
      [] Now = "mkdir" -> [g EXCEPT !.dirs = @ \cup {What}]
      [] Now = "put" -> [g EXCEPT !.plugins = @ \cup {What}]
      [] OTHER -> g

\* git clones into a directory of its own; npm installs over what is there.
ClonesOver == Now = "install" /\ install.claw = "hermes" /\ guest.claw # "none"

\* A probe finds the VM not ready.
NotReady ==
    \/ Now = "alive" /\ guest.shell = "odd"
    \/ Now = "dns" /\ ~guest.dns
    \/ Now = "fs" /\ ~guest.fs

\* Fault variant: mkdir without -p.
UnfitNoParents == NotReady \/ ClonesOver \/ (Now = "mkdir" /\ What \in guest.dirs)

\* The command cannot succeed as the VM is.
Unfit == NotReady \/ ClonesOver

Onward(j) == [j EXCEPT !.todo = Tail(@), !.try = 1, !.met = FALSE]

\* The call has succeeded, with the release it has read.
Answered ==
    /\ Working /\ quiet = 0 /\ ~Unfit
    /\ guest' = Done(guest)
    /\ install' = Onward(IF Now = "release" THEN [install EXCEPT !.release = guest.release] ELSE install)
    /\ verdict' = IF Len(install.todo) = 1 THEN "ok" ELSE verdict
    /\ UNCHANGED <<quiet, spells, faults, runs>>

\* The call has failed for good: ignored by some steps, the end of the
\* install at the others.
GoesOn(j) ==
    IF Now \in BestEffort
    THEN /\ install' = Onward(IF Now = "release" THEN [j EXCEPT !.release = Fallback] ELSE j)
         /\ verdict' = IF Len(install.todo) = 1 THEN "ok" ELSE verdict
    ELSE /\ install' = [j EXCEPT !.todo = << >>, !.try = 1, !.met = FALSE]
         /\ verdict' = Now

\* The command was run and has failed: no SSH error, so never tried again.
Refused ==
    /\ Working /\ quiet = 0
    /\ \/ Unfit /\ UNCHANGED faults /\ GoesOn([install EXCEPT !.clean = @ /\ ~NotReady])
       \/ /\ faults < MaxFaults /\ Now \notin Probes /\ ~Unfit
          /\ faults' = faults + 1
          /\ GoesOn([install EXCEPT !.clean = FALSE])
    /\ guest' = IF Now = "install" /\ guest.claw = "none" THEN [guest EXCEPT !.claw = "begun"] ELSE guest
    /\ UNCHANGED <<quiet, spells, runs>>

Less(n, d) == IF n > d THEN n - d ELSE 0

\* Fault variant: the schedule of v1, four attempts in 13 seconds.
AgainV1(q) ==
    IF Now \in Retried /\ install.try < Len(Delays) - 1
    THEN /\ install' = [install EXCEPT !.try = @ + 1, !.met = TRUE, !.clean = FALSE]
         /\ quiet' = Less(q, Delays[install.try + 1])
         /\ UNCHANGED verdict
    ELSE quiet' = q /\ GoesOn([install EXCEPT !.clean = FALSE])

\* An SSH error: after a pause the call is made again, the last time it fails.
Again(q) ==
    IF Now \in Retried /\ install.try < Len(Delays)
    THEN /\ install' = [install EXCEPT !.try = @ + 1, !.met = TRUE, !.clean = FALSE]
         /\ quiet' = Less(q, Delays[install.try + 1])
         /\ UNCHANGED verdict
    ELSE quiet' = q /\ GoesOn([install EXCEPT !.clean = FALSE])

Unreachable ==
    /\ Working /\ quiet > 0
    /\ Again(quiet)
    /\ UNCHANGED <<guest, spells, faults, runs>>

\* A spell begins, before the command is run or before it has answered; the
\* spells are far enough apart for a call to meet one at most.
Interrupted(q) ==
    /\ Working /\ quiet = 0 /\ ~install.met
    /\ spells < MaxSpells
    /\ spells' = spells + 1
    /\ guest' \in {guest} \cup IF Unfit THEN {} ELSE {Done(guest)}
    /\ Again(q)
    /\ UNCHANGED <<faults, runs>>

\* The VM warms up, or time passes before the next run.
Warm ==
    /\ guest.dns = FALSE \/ guest.fs = FALSE
    /\ \/ guest' = [guest EXCEPT !.dns = TRUE]
       \/ guest' = [guest EXCEPT !.fs = TRUE]
    /\ UNCHANGED <<quiet, install, verdict, spells, faults, runs>>

Calm ==
    /\ ~Working /\ quiet > 0
    /\ quiet' = 0
    /\ UNCHANGED <<guest, install, verdict, spells, faults, runs>>

SetupNext ==
    \/ \E c \in Claws, m \in Mirrors, r \in Mirrors, p \in ProxyChoices : Begin(c, m, r, p)
    \/ Answered \/ Refused \/ Unreachable
    \/ \E q \in Spells : Interrupted(q)
    \/ Warm \/ Calm

SetupSpec == SetupInit /\ [][SetupNext]_setup

----------------------------------------------------------------------------
(* Properties. *)

\* A probe of the gate that fails names what is not ready, whatever SSH does
\* meanwhile (post_boot.rs:15-20; mod.rs:138-144, the pauses outlast a spell).
GateBlames ==
    [][\A p \in Probes : verdict' = p /\ verdict # p =>
          CASE p = "alive" -> guest.shell = "odd" [] p = "dns" -> ~guest.dns [] p = "fs" -> ~guest.fs]_setup

\* An install that reports success has left what it was asked for, however
\* often a command was run: the mirrors, the proxy in both files, the claw and
\* every plugin.  (The release is that of the image unless it could not be
\* read; a registry is set only when it is not the default.)
InstalledAsAsked ==
    verdict = "ok" =>
        /\ guest.repos.mirror = install.mirror /\ guest.repos.of \in {guest.release, Fallback}
        /\ install.npm # "default" => guest.npm = install.npm
        /\ install.proxy # "none" => guest.environment = install.proxy /\ guest.profile = install.proxy
        /\ guest.claw = "whole" /\ guest.plugins = Plugins

\* What an earlier run left does not make one fail in which nothing goes
\* wrong, save that git does not clone over a checkout.
LeftoversHarmless ==
    verdict \notin {"none", "ok"} /\ install.clean => verdict = "install" /\ install.claw = "hermes" /\ guest.claw # "none"

SetupInv == SetupTypeOK /\ InstalledAsAsked /\ LeftoversHarmless

=============================================================================
