---------------------------- MODULE ProxySettings ----------------------------
(***************************************************************************)
(* The proxy: where it is configured, and where it ends up.                *)
(*                                                                         *)
(* config.toml has sections that the GUI's settings and `clawcli config`,  *)
(* `proxy set` and the bridge's page replace one at a time: the file is    *)
(* read, one section is replaced, and the file is truncated and written.   *)
(* The environment of the GUI gets the configured proxy when it starts,    *)
(* and after that the host's, whenever a watcher sees it change or an      *)
(* instance is started.  A VM has the proxy in two files, written one      *)
(* after the other with what its scope resolves to at that time.           *)
(***************************************************************************)
EXTENDS Naturals, FiniteSets

CONSTANTS
  Jobs,       \* commands of the GUI and clawcli processes that run at once
  MaxRuns,    \* bound: commands run
  MaxTurns    \* bound: changes of the host's own proxy

ASSUME ProxyAssumption == MaxRuns \in Nat /\ MaxTurns \in Nat

\* Proxies a user may write: on the loopback by number, by name, or as neither
\* (a `localhost` without a scheme, `[::1]`), or elsewhere.
Urls == {"127", "localhost", "odd", "far"}
Off == [url |-> "", auth |-> FALSE]
Proxies == [url : Urls, auth : BOOLEAN] \union {Off}      \* auth: with a user
Plain(u) == [url |-> u, auth |-> FALSE]

VARIABLES
  cfg,        \* config.toml: the sections [proxy] and [bridge]
  written,    \* history: what each section was last given
  clash,      \* history: a save was read in the middle, or ended there
  os,         \* the host's own proxy: a URL, "none", or "pac"
  seen,       \* what the watcher saw last
  env,        \* the GUI's environment: a URL or "none"
  up,         \* the GUI has started
  override,   \* the instance's own choice in instances.toml
  baked,      \* what is in the VM's two files
  job,        \* job[j]: a command
  calm,       \* history: since the dialog was confirmed nothing else was run,
              \* failed or changed
  runs, turns \* bounds
proxyVars == <<cfg, written, clash, os, seen, env, up, override, baked, job, calm, runs, turns>>
hostVars == <<os, seen, env, up, turns>>
cfgVars == <<cfg, written, clash>>

Sections == {"proxy", "bridge"}
Empty == [proxy |-> Off, bridge |-> "default"]     \* an empty file is the defaults
Overrides == {"inherit", "none", "sync-host"} \union Urls
VmFiles == {"environment", "profile"}
NoJob == [pc |-> "idle", kind |-> "", section |-> "proxy", value |-> Off,
          root |-> Empty, want |-> Off, env |-> "none"]

ProxyInit ==
  /\ cfg \in {Empty, [Empty EXCEPT !.proxy = [url |-> "localhost", auth |-> TRUE]],
              [Empty EXCEPT !.proxy = Plain("far")]}
  /\ written = cfg /\ clash = FALSE
  /\ os \in {"none", "far"} /\ seen = "nothing"
  /\ env \in {"none", "127"}                       \* the shell's
  /\ up = FALSE
  /\ override = "inherit"
  /\ baked = [f \in VmFiles |-> Off]
  /\ job = [j \in Jobs |-> NoJob]
  /\ calm = FALSE /\ runs = 0 /\ turns = 0

-----------------------------------------------------------------------------
(* The GUI's environment. *)

Enabled == cfg.proxy.url # ""
\* What detect_system_proxy_native_only reports: a host with a script has a
\* proxy, but one without a URL.
Detected == [found |-> os # "none", url |-> IF os \in {"none", "pac"} THEN "" ELSE os]

\* What the environment becomes then: without a URL it is left alone.
FromOs(current) ==
  IF ~Detected.found THEN "none" ELSE IF Detected.url = "" THEN current ELSE Detected.url

\* main: the configured proxy; else, if the shell set none, the host's.
GuiStarts ==
  /\ ~up /\ up' = TRUE
  /\ env' = IF Enabled THEN cfg.proxy.url
            ELSE IF env = "none" THEN FromOs(env) ELSE env
  /\ calm' = FALSE
  /\ UNCHANGED <<cfgVars, os, seen, override, baked, job, runs, turns>>

\* Fault variant: a host that lost its proxy leaves the old one in place.
WatchKeepsStale ==
  /\ up /\ os # seen
  /\ seen' = os /\ env' = IF os = "none" THEN env ELSE FromOs(env)
  /\ calm' = FALSE
  /\ UNCHANGED <<cfgVars, os, up, override, baked, job, runs, turns>>

\* The watcher's thread, every 30 seconds.
Watch ==
  /\ up /\ os # seen
  /\ seen' = os /\ env' = FromOs(env)
  /\ calm' = FALSE
  /\ UNCHANGED <<cfgVars, os, up, override, baked, job, runs, turns>>

\* refresh_system_proxy_env, when an instance is started.
StartInstance ==
  /\ up
  /\ env' = IF Enabled THEN env ELSE FromOs("none")
  /\ calm' = FALSE
  /\ UNCHANGED <<cfgVars, os, seen, up, override, baked, job, runs, turns>>

OsTurns ==
  /\ turns < MaxTurns /\ turns' = turns + 1
  /\ os' \in {"none", "far", "127", "pac"} \ {os}
  /\ UNCHANGED <<cfgVars, seen, env, up, override, baked, job, calm, runs>>

-----------------------------------------------------------------------------
(* Resolution, for the inside of a VM. *)

\* rewrite_loopback looks for 127.0.0.1 anywhere and for "://localhost": it
\* finds no localhost behind a user's name and password, none without a scheme,
\* and no [::1].
Rewrite(p) == IF p.url = "127" \/ p = Plain("localhost") THEN [p EXCEPT !.url = "host"] ELSE p

\* triple_from_config, read_env_triple.
FromConfig(proxy) == IF proxy.url = "" THEN Off ELSE Rewrite(proxy)
FromEnviron(environ) == IF environ = "none" THEN Off ELSE Rewrite(Plain(environ))

\* resolve_runtime_sandbox: the instance's own choice, the configuration, the
\* environment of the process that asks.
Resolve(own, proxy, environ) ==
  CASE own = "none" -> Off
    [] own \in Urls -> Rewrite(Plain(own))
    [] own \in {"inherit", "sync-host"} ->
         IF FromConfig(proxy) # Off THEN FromConfig(proxy) ELSE FromEnviron(environ)

-----------------------------------------------------------------------------
(* Commands. *)

JobRunning(j) == job[j].pc # "idle"
JobAt(j, pc) == job[j].pc = pc
JobGoto(j, pc) == job' = [job EXCEPT ![j] = IF pc = "idle" THEN NoJob ELSE [@ EXCEPT !.pc = pc]]
Saving(j) == job[j].pc \in {"truncate", "write"}

LaunchJob(j, kind, section, value, pc) ==
  /\ ~JobRunning(j) /\ runs < MaxRuns /\ runs' = runs + 1
  /\ \E e \in {env, "none"} :                     \* of the GUI, or of a shell without one
       job' = [job EXCEPT ![j] = [NoJob EXCEPT !.pc = pc, !.kind = kind, !.section = section,
                                    !.value = value, !.env = e]]

\* The settings page gives the whole section; `clawcli config set proxy.*`
\* one field of it; `config set bridge.*` and the bridge's page the other.
SaveSettings(j) ==
  /\ \E p \in Proxies : LaunchJob(j, "config", "proxy", p, "read")
  /\ UNCHANGED <<cfgVars, hostVars, override, baked>> /\ calm' = FALSE
ConfigSet(j) ==
  /\ \E p \in Proxies :
       /\ p.url = cfg.proxy.url \/ p.auth = cfg.proxy.auth
       /\ LaunchJob(j, "config", "proxy", p, "read")
  /\ UNCHANGED <<cfgVars, hostVars, override, baked>> /\ calm' = FALSE
SaveBridge(j) ==
  /\ LaunchJob(j, "config", "bridge", "own", "read")
  /\ UNCHANGED <<cfgVars, hostVars, override, baked>> /\ calm' = FALSE

\* `clawcli proxy set NAME --url`: the section is saved, then the VM is told.
ProxySet(j) ==
  /\ \/ \E u \in Urls : LaunchJob(j, "set", "proxy", [cfg.proxy EXCEPT !.url = u], "read")
     \/ LaunchJob(j, "set", "proxy", Off, "read")
  /\ UNCHANGED <<cfgVars, hostVars, override, baked>> /\ calm' = FALSE

\* `clawcli proxy apply`: the environment only.  `clawcli proxy clear`.
ProxyApply(j) ==
  /\ LaunchJob(j, "apply", "proxy", Off, "resolve")
  /\ UNCHANGED <<cfgVars, hostVars, override, baked>> /\ calm' = FALSE
ProxyClear(j) ==
  /\ LaunchJob(j, "clear", "proxy", Off, "environment")
  /\ UNCHANGED <<cfgVars, hostVars, override, baked>> /\ calm' = FALSE

\* set_instance_proxy: the choice is recorded before anything is resolved.
SetInstanceProxy(j) ==
  /\ up
  /\ \E o \in Overrides :
       LaunchJob(j, "dialog", "proxy", Off, "resolve") /\ override' = o
  /\ calm' = \A k \in Jobs \ {j} : ~JobRunning(k)
  /\ UNCHANGED <<cfgVars, hostVars, baked>>

\* mutate_clawenv_section: the whole file is read, one section is replaced, and
\* the file is truncated and written.
ReadConfig(j) ==
  /\ JobAt(j, "read")
  /\ job' = [job EXCEPT ![j].pc = "truncate", ![j].root = [cfg EXCEPT ![job[j].section] = job[j].value]]
  /\ clash' = (clash \/ \E k \in Jobs \ {j} : Saving(k))
  /\ UNCHANGED <<cfg, written, hostVars, override, baked, calm, runs>>
TruncateConfig(j) ==
  /\ JobAt(j, "truncate") /\ JobGoto(j, "write")
  /\ cfg' = Empty
  /\ UNCHANGED <<written, clash, hostVars, override, baked, calm, runs>>
WriteConfig(j) ==
  /\ JobAt(j, "write")
  /\ cfg' = job[j].root
  /\ written' = [written EXCEPT ![job[j].section] = job[j].value]
  /\ JobGoto(j, IF job[j].kind = "set" THEN "resolve" ELSE "idle")
  /\ calm' = FALSE
  /\ UNCHANGED <<clash, hostVars, override, baked, runs>>

\* The write fails behind the truncation.
WriteFails(j) ==
  /\ JobAt(j, "write") /\ JobGoto(j, "idle")
  /\ clash' = TRUE /\ calm' = FALSE
  /\ UNCHANGED <<cfg, written, hostVars, override, baked, runs>>

\* Fault variant: the dialog resolves without the choice it has just recorded.
WantInherited(j) ==
  CASE job[j].kind = "dialog" -> Resolve("inherit", cfg.proxy, env)
    [] job[j].kind = "set" -> Resolve("inherit", job[j].value, job[j].env)
    [] job[j].kind = "apply" -> Resolve("inherit", Off, job[j].env)

\* Whose choice, which configuration and which environment a command asks; a
\* command of the shell knows nothing of the instance's own choice.  With
\* nothing to apply, the dialog removes the files and `proxy set` fails.
Want(j) == CASE job[j].kind = "dialog" -> Resolve(override, cfg.proxy, env)
             [] job[j].kind = "set" -> Resolve("inherit", job[j].value, job[j].env)
             [] job[j].kind = "apply" -> Resolve("inherit", Off, job[j].env)

ResolveIt(j) ==
  /\ JobAt(j, "resolve")
  /\ IF Want(j) = Off /\ job[j].kind \in {"set", "apply"}
       THEN JobGoto(j, "idle")
       ELSE job' = [job EXCEPT ![j].want = Want(j), ![j].pc = "environment"]
  /\ UNCHANGED <<cfgVars, hostVars, override, baked, calm, runs>>

\* /etc/environment, then /etc/profile.d/proxy.sh.  A file that cannot be
\* written or removed ends the command; the dialog does not mind a removal.
WriteSandboxFile(file, triple) == baked' = [baked EXCEPT ![file] = triple]

Bake(j, file, next) ==
  /\ JobAt(j, file)
  /\ \/ WriteSandboxFile(file, job[j].want) /\ JobGoto(j, next)
        /\ UNCHANGED calm
     \/ baked' = baked /\ JobGoto(j, "idle") /\ calm' = FALSE
  /\ UNCHANGED <<cfgVars, hostVars, override, runs>>

\* The command is killed, or fails in a step that changes nothing.
JobDies(j) ==
  /\ JobRunning(j) /\ JobGoto(j, "idle")
  /\ clash' = (clash \/ JobAt(j, "write")) /\ calm' = FALSE
  /\ UNCHANGED <<cfg, written, hostVars, override, baked, runs>>

Job(j) == \/ SaveSettings(j) \/ ConfigSet(j) \/ SaveBridge(j)
          \/ ProxySet(j) \/ ProxyApply(j) \/ ProxyClear(j) \/ SetInstanceProxy(j)
          \/ ReadConfig(j) \/ TruncateConfig(j) \/ WriteConfig(j) \/ WriteFails(j) \/ ResolveIt(j)
          \/ Bake(j, "environment", "profile") \/ Bake(j, "profile", "idle") \/ JobDies(j)
ProxyNext == GuiStarts \/ Watch \/ StartInstance \/ OsTurns \/ \E j \in Jobs : Job(j)
ProxySpec == ProxyInit /\ [][ProxyNext]_proxyVars /\ WF_proxyVars(Watch)

-----------------------------------------------------------------------------
(* Correctness. *)

ProxyTypeOK ==
  /\ cfg.proxy \in Proxies /\ cfg.bridge \in {"default", "own"}
  /\ env \in Urls \union {"none"} /\ override \in Overrides
  /\ \A f \in VmFiles : baked[f].url \in Urls \union {"", "host"}

\* config.toml holds what each section was last given, whoever wrote it, as
\* long as no two saves met and none was killed or failed between truncate and
\* write: settings.rs replaces sections so that edits made elsewhere are not
\* rolled back.
SectionsKept == (~clash /\ \A j \in Jobs : ~JobAt(j, "write")) => cfg = written

\* No VM is given the host's loopback by number, nor by a plain http://localhost,
\* whichever of the settings, the instance or the environment it comes from.
\* The spellings that rewrite_loopback does not find do reach the VM: a name
\* behind a password, one without a scheme, and [::1].
BakedReachable ==
  \A f \in VmFiles : /\ baked[f].url # "127"
                   /\ baked[f].url = "localhost" => baked[f].auth

\* After set_instance_proxy, with nothing else in between, both files of the VM
\* say what the instance's choice, the configuration and the environment mean.
DialogApplied ==
  (calm /\ \A j \in Jobs : ~JobRunning(j)) =>
    \A f \in VmFiles : baked[f] = Resolve(override, cfg.proxy, env)

ProxyInv == ProxyTypeOK /\ SectionsKept /\ BakedReachable /\ DialogApplied

\* Without a configured proxy, the GUI's environment ends up with the host's,
\* or without one, once the host's settings stay; not on a host with a script.
EnvCatchesUp == <>[](~up \/ Enabled \/ os = "pac" \/ env = os)

=============================================================================
