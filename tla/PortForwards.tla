---------------------------- MODULE PortForwards ----------------------------
(***************************************************************************)
(* Port forwards of sandboxed instances: `clawcli sandbox port`, the GUI's *)
(* "Configure" dialog, `instance create` and the doctor that reads them.   *)
(*                                                                         *)
(* Nothing locks the place the rules live in.  With lima it is the VM's    *)
(* lima.yaml, which `sandbox edit` rewrites as well: every editor reads    *)
(* the file, reads it again, truncates it and writes it back, and a        *)
(* running VM sees the rules only when it is stopped and started.  With    *)
(* wsl2 it is netsh's table, one for the whole machine, which is emptied   *)
(* and filled again, every rule pointed at the VM that is edited.  With    *)
(* podman the rules are fixed when the container is made.                  *)
(***************************************************************************)
EXTENDS Naturals, Sequences, SequencesExt, FiniteSets, Functions

CONSTANTS
  Vms,        \* instances of the backend
  Editors,    \* clawcli processes and dialogs that run at the same time
  Dialog,     \* the editor that is the GUI's dialog: it is modal, there is one
  Hosts,      \* host ports
  NoHost,     \* of a command that names no port
  MaxTasks    \* bound: dialogs and commands submitted

ASSUME PortsAssumption == MaxTasks \in Nat /\ NoHost \notin Hosts /\ Dialog \in Editors

VARIABLES
  backend,    \* "lima", "wsl2" or "podman": the host's
  yaml,       \* yaml[v]: lima.yaml, the size of the VM and its rules
  netsh,      \* wsl2: host port -> the guest port and the VM it leads to
  running,    \* running[v]: the VM is up
  live,       \* live[v]: the rules a running VM was started with
  record,     \* record[v]: label -> host port, the `ports` of instances.toml
  foreign,    \* host ports another program of the host listens on
  ed,         \* ed[a]: what editor a is doing
  tasks,      \* bound: tasks submitted so far
  spoiled,    \* history: VMs whose rules two editors met on, or one died or could not write on
  missed      \* history: VMs whose last edit passed over a failed show, probe, stop or reset
portVars == <<backend, yaml, netsh, running, live, record, foreign, ed, tasks, spoiled, missed>>

Guests == {"web", "tty"}              \* 3000 and 7681
GuestOf == [gateway |-> "web", ttyd |-> "tty"]
RuleSets == UNION {[S -> Guests] : S \in SUBSET Hosts}
Tables == UNION {[S -> [guest : Guests, to : Vms]] : S \in SUBSET Hosts}
\* The rules with the one of host port h, which replaces what h had.
With(rules, h, rule) == [k \in DOMAIN rules \union {h} |-> IF k = h THEN rule ELSE rules[k]]
Without(rules, h) == Restrict(rules, DOMAIN rules \ {h})
PortLists == UNION {[S -> Hosts] : S \in SUBSET DOMAIN GuestOf}

\* A file between truncate and write, or after a crash there: no size, no rules.
Emptied == [size |-> "none", rules |-> <<>>]

\* A command of `clawcli sandbox`: on a host port, and whether the chain that
\* runs it stops when it fails.
Command(op, h, g, must) == [op |-> op, host |-> h, guest |-> g, must |-> must]
Add(h, g) == Command("add", h, g, TRUE)
Drop(h) == Command("remove", h, "web", FALSE)

Idle == [pc |-> "idle", vm |-> "", kind |-> "", todo |-> <<>>, goal |-> <<>>,
         seen |-> <<>>, body |-> "none", left |-> <<>>, was |-> <<>>]
Busy(a) == ed[a].pc \notin {"idle", "ok", "err"}
Free(a) == ~Busy(a)
Now(a) == Head(ed[a].todo)

\* list_ports: what the backend says the rules of v are.  It reads them from
\* lima.yaml, from netsh, which does not say whose they are, or from a
\* container that runs.
LimaRules(v) == yaml[v].rules
NetshRules == [h \in DOMAIN netsh |-> netsh[h].guest]
PodmanRules(v) == IF running[v] THEN live[v] ELSE <<>>
Rules(v) == IF backend = "lima" THEN LimaRules(v)
            ELSE IF backend = "wsl2" THEN NetshRules ELSE PodmanRules(v)

\* The rules of v and of w live in the same place.
SamePlace(v, w) == v = w \/ backend = "wsl2"
Spoil(v) == spoiled' = spoiled \union {w \in Vms : SamePlace(v, w)}
Lone(v) == v \notin spoiled
\* An edit of v goes on after a failure, if there was one.
Pass(v, failed) == missed' = IF failed THEN missed \union {v} ELSE missed

PortsInit ==
  /\ backend \in {"lima", "wsl2", "podman"}
  /\ record \in [Vms -> PortLists]
  /\ \A v \in Vms : IsInjective(record[v])
  /\ \A v, w \in Vms : v # w => Range(record[v]) \intersect Range(record[w]) = {}
  /\ LET made(v) == [h \in Range(record[v]) |->
                       GuestOf[CHOOSE l \in DOMAIN record[v] : record[v][l] = h]]
         all == UNION {Range(record[v]) : v \in Vms}
     IN /\ live \in [Vms -> RuleSets]
        /\ \A v \in Vms : \A h \in DOMAIN made(v) : h \in DOMAIN live[v] /\ live[v][h] = made(v)[h]
        /\ yaml = [v \in Vms |-> [size |-> "old", rules |-> live[v]]]
        /\ netsh = IF backend = "wsl2"
                     THEN [h \in all |-> LET v == CHOOSE w \in Vms : h \in Range(record[w])
                                         IN [guest |-> made(v)[h], to |-> v]]
                     ELSE <<>>
  /\ running \in [Vms -> BOOLEAN]
  /\ foreign \in SUBSET Hosts
  /\ ed = [a \in Editors |-> Idle]
  /\ tasks = 0 /\ spoiled = {} /\ missed = {}

-----------------------------------------------------------------------------
(* What an editor is asked to do. *)

Take(a, v, kind, todo, goal, pc) ==
  /\ Free(a) /\ tasks < MaxTasks
  /\ tasks' = tasks + 1
  /\ ed' = [ed EXCEPT ![a] = [Idle EXCEPT !.pc = pc, !.vm = v, !.kind = kind,
                                !.todo = todo, !.goal = goal, !.was = Rules(v)]]
  /\ IF \E b \in Editors \ {a} : Busy(b) /\ SamePlace(v, ed[b].vm)
       THEN Spoil(v) ELSE UNCHANGED spoiled
  /\ UNCHANGED <<backend, yaml, netsh, running, live, record, foreign, missed>>

\* `clawcli sandbox port add|remove`.
PortCommand(a, v) ==
  \E h \in Hosts, op \in {"add", "remove"} :
    Take(a, v, op, <<Command(op, h, "web", TRUE)>>, <<>>, "begin")

\* `clawcli sandbox start|stop|restart`, and `sandbox repair vm-not-running`.
PowerCommand(a, v) ==
  \E op \in {"start", "stop", "restart"} :
    Take(a, v, op, <<Command(op, NoHost, "web", TRUE)>>, <<>>, "begin")

\* dispatch_repair knows one ailment; the id of any other ends it with an error.
Repair == Command("start", NoHost, "web", FALSE)

\* `clawcli doctor --fix`, when the doctor finds the VM down or its probe fails:
\* whatever the repair answers, the doctor looks again and reports.
FixCommand(a, v) == Take(a, v, "fix", <<Repair>>, <<>>, "begin")

\* `clawcli sandbox edit`: only lima's file can be edited.
SizeCommand(a, v) ==
  backend = "lima" /\ Take(a, v, "size", <<Command("size", NoHost, "web", TRUE)>>, <<>>, "begin")

\* edit_instance_ports: for the gateway and then the terminal, the forward the
\* record names is removed if it differs, whatever comes of it, and the one the
\* user chose is added.  The record is left as it was.
Replace(v, label, h) ==
  (IF label \in DOMAIN record[v] /\ record[v][label] # h
     THEN <<Drop(record[v][label])>> ELSE <<>>) \o <<Add(h, GuestOf[label])>>

\* The dialog looks at the ports of the other instances' records.
PortConflict(v, gw, tty) ==
  gw = tty \/ \E w \in Vms \ {v} : {gw, tty} \intersect Range(record[w]) # {}

Configure(a, v) ==
  \E gw, tty \in Hosts :
    /\ a = Dialog /\ ~PortConflict(v, gw, tty)
    /\ Take(a, v, "configure", Replace(v, "gateway", gw) \o Replace(v, "ttyd", tty),
            [gateway |-> gw, ttyd |-> tty], "begin")

\* InstanceOrchestrator::create over a VM that runs: the doctor must be content,
\* then the ports are added one at a time, and only then is the record written.
\* Podman cannot edit ports: the record is written without them.
Forwarded == IF backend = "wsl2" THEN DOMAIN netsh
             ELSE UNION {DOMAIN live[w] : w \in {x \in Vms : running[x]}}
Conflicts(v) == DOMAIN Rules(v) \intersect (foreign \union Forwarded)
VmUp(v) == running[v]
PortsFixed == backend = "podman"    \* the container would have to be made anew
ShowFails == backend = "wsl2"       \* `netsh show` may fail, which reads as no rules
Healthy(v) == VmUp(v) /\ (Conflicts(v) = {} \/ ShowFails)

Create(a, v) ==
  \E ports \in PortLists :
    /\ record[v] = <<>> /\ ports # <<>> /\ IsInjective(ports)
    /\ Healthy(v)
    /\ Take(a, v, "create",
            IF PortsFixed THEN <<>>
            ELSE [i \in 1..Cardinality(DOMAIN ports) |->
                    LET l == SetToSeq(DOMAIN ports)[i] IN Add(ports[l], GuestOf[l])],
            ports, IF PortsFixed THEN "record" ELSE "begin")

-----------------------------------------------------------------------------
(* One command. *)

At(a, pc) == ed[a].pc = pc
EdGoto(a, pc) == ed' = [ed EXCEPT ![a].pc = pc]

\* The command returns: the chain goes on unless it failed and had to succeed.
Returned(a, e, ok) ==
  ed' = [ed EXCEPT ![a] =
           IF ~ok /\ Now(a).must THEN [e EXCEPT !.pc = "err"]
           ELSE [e EXCEPT !.todo = Tail(@), !.seen = <<>>, !.left = <<>>, !.body = "none",
                          !.pc = IF Len(e.todo) > 1 THEN "begin"
                                 ELSE IF e.kind = "create" THEN "record" ELSE "ok"]]

\* An edit begins with the rules as they are listed, merged or filtered; what
\* is done with them is up to the backend.
SetRules(a, rules) ==
  ed' = [ed EXCEPT ![a].pc = IF backend = "lima" THEN "load" ELSE "reset", ![a].seen = rules]
Unmoved == <<backend, yaml, netsh, running, live, record, foreign, tasks, spoiled, missed>>

\* Fault variant: the new rule replaces the VM's rules instead of joining them.
AddPortAlone(a) ==
  LET c == Now(a)
  IN /\ At(a, "begin") /\ c.op = "add"
     /\ IF PortsFixed THEN Returned(a, ed[a], FALSE)
        ELSE SetRules(a, With(<<>>, c.host, c.guest))
     /\ UNCHANGED Unmoved

\* add_port merges the rule into those that are listed; a `netsh show` that
\* fails lists none, and the edit goes on.
AddPort(a) ==
  LET c == Now(a)  v == ed[a].vm
  IN /\ At(a, "begin") /\ c.op = "add"
     /\ \/ PortsFixed /\ Returned(a, ed[a], FALSE) /\ UNCHANGED missed
        \/ ~PortsFixed /\ SetRules(a, With(Rules(v), c.host, c.guest)) /\ UNCHANGED missed
        \/ ShowFails /\ SetRules(a, With(<<>>, c.host, c.guest)) /\ Pass(v, TRUE)
     /\ UNCHANGED <<backend, yaml, netsh, running, live, record, foreign, tasks, spoiled>>

\* remove_port: a port without a rule is an error.
RemovePort(a) ==
  LET h == Now(a).host  old == Rules(ed[a].vm)
  IN /\ At(a, "begin") /\ Now(a).op = "remove"
     /\ IF PortsFixed \/ h \notin DOMAIN old THEN Returned(a, ed[a], FALSE)
        ELSE SetRules(a, Without(old, h))
     /\ UNCHANGED Unmoved

BeginPower(a) ==
  /\ At(a, "begin") /\ Now(a).op \in {"start", "stop", "restart"}
  /\ EdGoto(a, IF Now(a).op = "start" THEN "start" ELSE "stop")
  /\ UNCHANGED Unmoved

\* `sandbox edit` keeps all of the file but the size.
LoadSize(a) ==
  /\ At(a, "begin") /\ Now(a).op = "size"
  /\ ed' = [ed EXCEPT ![a].pc = "truncate", ![a].body = "new", ![a].seen = yaml[ed[a].vm].rules]
  /\ UNCHANGED Unmoved

\* edit_port_forwards reads lima.yaml once more and keeps all of it but the
\* rules.
Load(a) ==
  /\ At(a, "load")
  /\ ed' = [ed EXCEPT ![a].pc = "truncate", ![a].body = yaml[ed[a].vm].size]
  /\ UNCHANGED Unmoved

\* What is read before anything is written cannot be read, or the file not be
\* opened: the rules are as they were.
EditFails(a) ==
  /\ \/ At(a, "begin") /\ Now(a).op \in {"add", "remove", "size"}
     \/ ed[a].pc \in {"load", "truncate"}
  /\ Returned(a, ed[a], FALSE)
  /\ UNCHANGED Unmoved

Truncate(a) ==
  /\ At(a, "truncate") /\ EdGoto(a, "fill")
  /\ yaml' = [yaml EXCEPT ![ed[a].vm] = Emptied]
  /\ UNCHANGED <<backend, netsh, running, live, record, foreign, tasks, spoiled, missed>>

\* Fault variant: the rules are saved and the VM is not restarted.
FillNoRestart(a) ==
  /\ At(a, "fill")
  /\ yaml' = [yaml EXCEPT ![ed[a].vm] = [size |-> ed[a].body, rules |-> ed[a].seen]]
  /\ Returned(a, ed[a], TRUE)
  /\ UNCHANGED <<backend, netsh, running, live, record, foreign, tasks, spoiled, missed>>

Fill(a) ==
  /\ At(a, "fill")
  /\ yaml' = [yaml EXCEPT ![ed[a].vm] = [size |-> ed[a].body, rules |-> ed[a].seen]]
  /\ IF Now(a).op = "size" THEN Returned(a, ed[a], TRUE) ELSE EdGoto(a, "probe")
  /\ UNCHANGED <<backend, netsh, running, live, record, foreign, tasks, spoiled, missed>>

\* The write fails behind the truncation: the file is left cut.
FillFails(a) ==
  /\ At(a, "fill") /\ Returned(a, ed[a], FALSE) /\ Spoil(ed[a].vm)
  /\ UNCHANGED <<backend, yaml, netsh, running, live, record, foreign, tasks, missed>>

\* A VM that runs is restarted; a probe that fails counts as a VM that is down.
Probe(a) ==
  LET v == ed[a].vm
  IN /\ At(a, "probe")
     /\ \/ running[v] /\ EdGoto(a, "stop") /\ UNCHANGED missed
        \/ Returned(a, ed[a], TRUE) /\ Pass(v, running[v])
     /\ UNCHANGED <<backend, yaml, netsh, running, live, record, foreign, tasks, spoiled>>

\* edit_port_forwards ignores a stop that fails; `stop` and `restart` report it.
Stop(a) ==
  LET v == ed[a].vm  edit == Now(a).op \in {"add", "remove"}
  IN /\ At(a, "stop")
     /\ \/ /\ running' = [running EXCEPT ![v] = FALSE]
           /\ missed' = missed \ {v}
           /\ IF Now(a).op = "stop" THEN Returned(a, ed[a], TRUE) ELSE EdGoto(a, "start")
        \/ /\ UNCHANGED running
           /\ Pass(v, edit /\ running[v])
           /\ IF edit THEN EdGoto(a, "start") ELSE Returned(a, ed[a], FALSE)
     /\ UNCHANGED <<backend, yaml, netsh, live, record, foreign, tasks, spoiled>>

\* limactl reads the file again only when the VM was down, and fails on an
\* empty one.
Start(a) ==
  LET v == ed[a].vm
  IN /\ At(a, "start")
     /\ \/ /\ backend = "lima" => yaml[v].size # "none"
           /\ running' = [running EXCEPT ![v] = TRUE]
           /\ live' = IF running[v] \/ backend # "lima" THEN live
                      ELSE [live EXCEPT ![v] = yaml[v].rules]
           /\ Returned(a, ed[a], TRUE)
        \/ UNCHANGED <<running, live>> /\ Returned(a, ed[a], FALSE)
     /\ UNCHANGED <<backend, yaml, netsh, record, foreign, tasks, spoiled, missed>>

\* `netsh interface portproxy reset`, its failure ignored.
Reset(a) ==
  /\ At(a, "reset")
  /\ ed' = [ed EXCEPT ![a].pc = "forward", ![a].left = ed[a].seen]
  /\ \/ netsh' = <<>> /\ UNCHANGED missed
     \/ UNCHANGED netsh /\ Pass(ed[a].vm, TRUE)
  /\ UNCHANGED <<backend, yaml, running, live, record, foreign, tasks, spoiled>>

\* One rule, led to the VM's address of now; asking for the address wakes it.
Forward(a) ==
  LET v == ed[a].vm  left == ed[a].left
  IN /\ At(a, "forward")
     /\ \/ left = <<>> /\ Returned(a, ed[a], TRUE) /\ UNCHANGED <<netsh, running, missed>>
        \/ \E h \in DOMAIN left :
             /\ UNCHANGED missed
             /\ running' = [running EXCEPT ![v] = TRUE]
             /\ netsh' = With(netsh, h, [guest |-> left[h], to |-> v])
             /\ ed' = [ed EXCEPT ![a].left = Without(left, h)]
        \/ /\ left # <<>> /\ Returned(a, ed[a], FALSE) /\ Pass(v, TRUE)
           /\ UNCHANGED <<netsh, running>>
     /\ UNCHANGED <<backend, yaml, live, record, foreign, tasks, spoiled>>

\* create's last step.
Record(a) ==
  /\ At(a, "record") /\ EdGoto(a, "ok")
  /\ record' = [record EXCEPT ![ed[a].vm] = ed[a].goal]
  /\ UNCHANGED <<backend, yaml, netsh, running, live, foreign, tasks, spoiled, missed>>

\* The process is killed.
Die(a) ==
  /\ Busy(a) /\ EdGoto(a, "err") /\ Spoil(ed[a].vm)
  /\ UNCHANGED <<backend, yaml, netsh, running, live, record, foreign, tasks, missed>>

Edit(a) == \/ AddPort(a) \/ RemovePort(a) \/ BeginPower(a) \/ LoadSize(a) \/ Load(a) \/ Truncate(a) \/ Fill(a) \/ Probe(a) \/ Stop(a)
           \/ Start(a) \/ Reset(a) \/ Forward(a) \/ Record(a) \/ EditFails(a) \/ FillFails(a)
PortsNext == \E a \in Editors :
               \/ \E v \in Vms : PortCommand(a, v) \/ PowerCommand(a, v) \/ SizeCommand(a, v)
                                 \/ FixCommand(a, v) \/ Configure(a, v) \/ Create(a, v)
               \/ Edit(a) \/ Die(a)
PortsSpec == PortsInit /\ [][PortsNext]_portVars

-----------------------------------------------------------------------------
(* Correctness. *)

PortsTypeOK ==
  /\ yaml \in [Vms -> [size : {"old", "new", "none"}, rules : RuleSets]]
  /\ netsh \in Tables
  /\ running \in [Vms -> BOOLEAN] /\ live \in [Vms -> RuleSets]
  /\ record \in [Vms -> PortLists]
  /\ \A a \in Editors : ed[a].seen \in RuleSets /\ ed[a].left \in RuleSets

\* lima.yaml is whole whenever nobody writes it, whatever else failed, as long
\* as no two editors of the VM ever met and none was killed or failed between
\* truncate and write (edit_port_forwards, `sandbox edit`).
FileWhole ==
  \A v \in Vms : (Lone(v) /\ \A a \in Editors : ~(Busy(a) /\ ed[a].vm = v))
                   => yaml[v].size # "none"

\* A VM that runs while nobody edits it has the rules of its file: every edit
\* restarted it, unless a failure was passed over.
RulesLoaded ==
  \A v \in Vms :
    (/\ backend = "lima" /\ running[v] /\ Lone(v) /\ v \notin missed
     /\ \A a \in Editors : ~(Busy(a) /\ ed[a].vm = v))
      => live[v] = yaml[v].rules

PortsInv == PortsTypeOK /\ FileWhole /\ RulesLoaded

\* What a task does to the rules (add_port, remove_port: "merge with existing
\* so we don't clobber prior rules"; the dialog; create).  The rules it does not
\* name are as they were when it ends, in success or failure: of a create that
\* fails only forwards it was asked for are left behind.  A task that succeeds
\* has done what it was asked; of the dialog this holds unless the gateway is
\* given the terminal's old port: the second step then removes it again.
\* With wsl2 a rule is kept as a guest port only: every successful edit leads
\* the rules of all VMs to the VM that was edited.  Nothing is promised when
\* two editors met or one was stopped (spoiled), or when a failure was passed
\* over (missed): the rules may then be lost.
Named(a) == LET e == ed[a]
            IN IF e.kind \in {"add", "remove"} THEN {Now(a).host}
               ELSE Range(e.goal) \union
                    IF e.kind = "configure" THEN Range(record[e.vm]) ELSE {}
Crossed(a) == LET e == ed[a]
              IN /\ e.kind = "configure" /\ "ttyd" \in DOMAIN record[e.vm]
                 /\ e.goal["gateway"] = record[e.vm]["ttyd"]

OthersStay(a, rules) ==
  LET others == DOMAIN ed[a].was \ Named(a)
  IN DOMAIN rules \ Named(a) = others /\ \A h \in others : rules[h] = ed[a].was[h]

Promise(a, rules) ==
  LET e == ed[a]
  IN /\ e.kind = "add" => Now(a).host \in DOMAIN rules
     /\ e.kind = "remove" => Now(a).host \notin DOMAIN rules
     /\ e.kind \in {"configure", "create"} /\ backend # "podman" /\ ~Crossed(a) =>
          \A l \in DOMAIN e.goal : /\ e.goal[l] \in DOMAIN rules
                                   /\ rules[e.goal[l]] = GuestOf[l]

\* Each rule of netsh's leads to the VM of a.
Turned(a) == backend = "wsl2" => \A h \in DOMAIN netsh : netsh[h].to = ed[a].vm

EditKinds == {"add", "remove", "configure", "create"}

EndsLone(a) == /\ Busy(a) /\ ed'[a].pc \in {"ok", "err"} /\ backend # "podman"
               /\ ed[a].vm \notin spoiled' \union missed'
Outcome(a) == /\ OthersStay(a, Rules(ed[a].vm)')
              /\ ed'[a].pc = "ok" => Promise(a, Rules(ed[a].vm)')
              /\ ed'[a].pc = "ok" /\ ed[a].kind \in EditKinds => Turned(a)'
EditsKeepRules == [][\A a \in Editors : EndsLone(a) => Outcome(a)]_portVars

=============================================================================
