------------------------------- MODULE GuiSync -------------------------------
(***************************************************************************)
(* What the main window shows against what is there (src/App.tsx,          *)
(* src/layouts/MainLayout.tsx, src/pages/ClawPage/index.tsx,               *)
(* tauri/src/ipc/instance.rs, ipc/emit.rs, the monitor of main.rs).        *)
(*                                                                         *)
(* A command changes the world through clawcli, then emits                 *)
(* instance-changed; the window's one listener starts a handler per event, *)
(* which asks for the list, for the target's health, and does the rest     *)
(* when these have answered.  Answers are snapshots and may be overtaken   *)
(* by later ones.  Health comes also from polls of the window and of the   *)
(* monitor.  All instances are of the claw the page shows.                 *)
(***************************************************************************)
EXTENDS Naturals, Sequences, FiniteSets

CONSTANTS
    Instances,      \* instance names, numbers: the list is shown in this order
    MaxOps,         \* bound on the commands the user gives
    MaxReaders,     \* bound on the handlers and refreshes under way at once
    MaxPolls,       \* bound on the health requests under way at once
    MaxAsks         \* bound on the token requests under way when the user selects

ASSUME SyncAssumption ==
    /\ Instances \subseteq Nat \ {0}
    /\ MaxOps \in Nat /\ MaxReaders \in Nat \ {0} /\ MaxPolls \in Nat \ {0}
    /\ MaxAsks \in Nat

VARIABLES
    world,          \* world[i]: what clawcli would say of i now
    gen,            \* gen[i]: gateway token of i, renewed when it starts
    age,            \* changes of the set of instances so far
    op,             \* op[o]: a command
    events,         \* instance-changed events emitted and not delivered
    stage,          \* how far the window is
    reader,         \* reader[r]: a handler of an event, or a plain refresh
    shown,          \* the list the window shows, with the age of its snapshot
    healths,        \* healths[i]: the window's idea of i's health
    polls,          \* health requests under way: [of, says], says "" until answered
    tab,            \* the instance selected, 0 if none
    token,          \* the gateway token shown: [of, gen], or NoToken
    asks,           \* token requests under way, oldest first: [of, gen], gen 0 until answered
    monitor,        \* the health monitor, "off" when the GUI runs without one
    before,         \* before[i]: the monitor's last reading, "" if none
    excuses         \* reasons the list may be out of date (history)

sync == <<world, gen, age, op, events, stage, reader, shown, healths, polls, tab,
          token, asks, monitor, before, excuses>>

Ops == 1..MaxOps
Readers == 1..MaxReaders
NoToken == [of |-> 0, gen |-> 0]
Ask(i) == [of |-> i, gen |-> 0]
NoOp == [at |-> "new", verb |-> "none", of |-> 0]
NoReader == [at |-> "free", of |-> 0, verb |-> "none", snap |-> {}, age |-> 0]
Healths == {"running", "stopped", "unreachable"}
There(w) == {i \in Instances : w[i] # "absent"}
Reading(i) == IF world[i] = "absent" THEN "unreachable" ELSE world[i]
First(s) == IF s = {} THEN 0 ELSE CHOOSE i \in s : \A j \in s : i <= j

\* The self-heal effect of ClawPage: a selection that is not in the list moves
\* to the first of the list.
Heal(sel, list) == IF sel \notin list /\ list # {} THEN First(list) ELSE sel

SyncInit ==
    /\ world \in [Instances -> {"absent", "stopped"}]
    /\ gen = [i \in Instances |-> 1]
    /\ age = 0
    /\ op = [o \in Ops |-> NoOp]
    /\ events = <<>>
    /\ stage = "launch"
    /\ reader = [r \in Readers |-> NoReader]
    /\ shown = [list |-> {}, age |-> 0]
    /\ healths = [i \in Instances |-> "unreachable"]
    /\ polls = {}
    /\ tab = 0
    /\ token = NoToken
    /\ asks = <<>>
    /\ monitor \in {"alive", "off"}
    /\ before = [i \in Instances |-> ""]
    /\ excuses = {}

-----------------------------------------------------------------------------
(* The window starts: App asks for the list and shows MainLayout, which    *)
(* listens after it has asked for the claw types.                          *)
Mount ==
    /\ stage = "launch"
    /\ stage' = "mounted"
    /\ shown' = [list |-> There(world), age |-> age]
    /\ tab' = First(There(world))
    /\ asks' = IF tab' = 0 THEN <<>> ELSE <<Ask(tab')>>
    /\ UNCHANGED <<world, gen, age, op, events, reader, healths, polls, token, monitor, before, excuses>>

Listen ==
    /\ stage = "mounted"
    /\ stage' = "listening"
    /\ UNCHANGED <<world, gen, age, op, events, reader, shown, healths, polls, tab, token, asks,
                   monitor, before, excuses>>

-----------------------------------------------------------------------------
(* Commands.                                                                *)
Free(r) == reader[r] = NoReader /\ \A q \in 1..(r - 1) : reader[q] # NoReader
Busy(i) == \E o \in Ops : op[o].of = i /\ op[o].at \notin {"new", "done"}

\* The buttons of the selected instance; the install window, for a name that
\* is free.
Offered(verb, i) ==
    CASE verb = "start" -> i = tab /\ healths[i] # "running"
      [] verb = "stop" -> i = tab /\ healths[i] = "running"
      [] verb = "delete" -> i = tab
      [] verb = "install" -> world[i] = "absent"

Command(o) ==
    /\ op[o].at = "new"
    /\ \A earlier \in 1..(o - 1) : op[earlier].at # "new"
    /\ stage # "launch"
    /\ \E i \in Instances, verb \in {"start", "stop", "delete", "install"} :
          /\ ~Busy(i)
          /\ Offered(verb, i)
          /\ op' = [op EXCEPT ![o] = [at |-> "run", verb |-> verb, of |-> i]]
    /\ UNCHANGED <<world, gen, age, events, stage, reader, shown, healths, polls, tab, token, asks,
                   monitor, before, excuses>>

After(verb) == CASE verb = "start" -> "running" [] verb = "delete" -> "absent" [] OTHER -> "stopped"

\* clawcli has done it; or has failed, and the command returns with an error.
Effect(o) ==
    /\ op[o].at = "run"
    /\ op[o].verb = "install" <=> world[op[o].of] = "absent"
    /\ LET i == op[o].of
           v == op[o].verb
       IN  /\ world' = [world EXCEPT ![i] = After(v)]
           /\ gen' = IF v = "start" THEN [gen EXCEPT ![i] = @ + 1] ELSE gen
           /\ age' = IF v \in {"delete", "install"} THEN age + 1 ELSE age
           /\ op' = [op EXCEPT ![o].at = "emit"]
    /\ UNCHANGED <<events, stage, reader, shown, healths, polls, tab, token, asks, monitor, before, excuses>>

Fails(o) ==
    /\ op[o].at = "run"
    /\ op' = [op EXCEPT ![o].at = "done"]
    /\ UNCHANGED <<world, gen, age, events, stage, reader, shown, healths, polls, tab, token, asks,
                   monitor, before, excuses>>

\* emit_instance_changed; nobody hears it before the window listens.
Announce(o) ==
    /\ op[o].at = "emit"
    /\ IF stage = "listening"
       THEN events' = Append(events, [verb |-> op[o].verb, of |-> op[o].of]) /\ UNCHANGED excuses
       ELSE excuses' = excuses \union {"missed"} /\ UNCHANGED events
    /\ op' = [op EXCEPT ![o].at = IF op[o].verb = "install" THEN "done" ELSE "refresh"]
    /\ UNCHANGED <<world, gen, age, stage, reader, shown, healths, polls, tab, token, asks,
                   monitor, before>>

\* The page refreshes by itself when its command has returned; after a deletion
\* it first moves the selection.
Refresh(o, r) ==
    /\ op[o].at = "refresh"
    /\ Free(r)
    /\ op' = [op EXCEPT ![o].at = "done"]
    /\ reader' = [reader EXCEPT ![r].at = "list"]
    /\ tab' = IF op[o].verb = "delete"
              THEN Heal(First(shown.list \ {op[o].of}), shown.list) ELSE tab
    /\ UNCHANGED <<world, gen, age, events, stage, shown, healths, polls, token, asks, monitor,
                   before, excuses>>

-----------------------------------------------------------------------------
(* Readers: list, then for a handler the target's health, then the rest.    *)
Handle(r) ==
    /\ events # <<>>
    /\ Free(r)
    /\ events' = Tail(events)
    /\ reader' = [reader EXCEPT ![r] = [NoReader EXCEPT !.at = "list", !.of = Head(events).of,
                                                        !.verb = Head(events).verb]]
    /\ UNCHANGED <<world, gen, age, op, stage, shown, healths, polls, tab, token, asks, monitor,
                   before, excuses>>

ListAnswers(r) ==
    /\ reader[r].at = "list"
    /\ reader' = [reader EXCEPT ![r].at = "listed", ![r].snap = There(world), ![r].age = age]
    /\ UNCHANGED <<world, gen, age, op, events, stage, shown, healths, polls, tab, token, asks,
                   monitor, before, excuses>>

Past(r) == IF reader[r].of = 0 THEN NoReader ELSE [reader[r] EXCEPT !.at = "health", !.snap = {}, !.age = 0]

\* Fault variant: the selection stays where it was.
ShowNoHeal(r) ==
    /\ reader[r].at = "listed"
    /\ shown' = [list |-> reader[r].snap, age |-> reader[r].age]
    /\ excuses' = IF reader[r].age < shown.age THEN excuses \union {"overtaken"} ELSE excuses
    /\ reader' = [reader EXCEPT ![r] = Past(r)]
    /\ UNCHANGED <<world, gen, age, op, events, stage, tab, healths, polls, token, asks, monitor, before>>

Show(r) ==
    /\ reader[r].at = "listed"
    /\ shown' = [list |-> reader[r].snap, age |-> reader[r].age]
    /\ excuses' = IF reader[r].age < shown.age THEN excuses \union {"overtaken"} ELSE excuses
    /\ tab' = Heal(tab, reader[r].snap)
    /\ reader' = [reader EXCEPT ![r] = Past(r)]
    /\ UNCHANGED <<world, gen, age, op, events, stage, healths, polls, token, asks, monitor, before>>

\* The call fails: the window keeps what it has.
ListFails(r) ==
    /\ reader[r].at = "list"
    /\ reader' = [reader EXCEPT ![r] = Past(r)]
    /\ excuses' = excuses \union {"refused"}
    /\ UNCHANGED <<world, gen, age, op, events, stage, shown, healths, polls, tab, token, asks,
                   monitor, before>>

\* A start makes the page ask for the token of the instance it shows; no
\* instance, no request.
FinishHandler(r) ==
    /\ reader[r].at = "health"
    /\ healths' = [healths EXCEPT ![reader[r].of] = Reading(reader[r].of)]
    /\ IF reader[r].verb # "start" THEN UNCHANGED <<asks, excuses>>
       ELSE IF tab = 0 THEN excuses' = excuses \union {"none selected"} /\ UNCHANGED asks
       ELSE asks' = Append(asks, Ask(tab)) /\ UNCHANGED excuses
    /\ reader' = [reader EXCEPT ![r] = NoReader]
    /\ UNCHANGED <<world, gen, age, op, events, stage, shown, polls, tab, token, monitor, before>>

-----------------------------------------------------------------------------
(* The token.                                                               *)
Select(i) ==
    /\ i \in shown.list \ {tab}
    /\ Len(asks) < MaxAsks
    /\ tab' = i
    /\ asks' = Append(asks, Ask(i))
    /\ UNCHANGED <<world, gen, age, op, events, stage, reader, shown, healths, polls, token,
                   monitor, before, excuses>>

TokenAnswers(k) ==
    /\ asks[k].gen = 0
    /\ asks' = [asks EXCEPT ![k].gen = gen[asks[k].of]]
    /\ UNCHANGED <<world, gen, age, op, events, stage, reader, shown, healths, polls, tab, token,
                   monitor, before, excuses>>

\* The page shows what it gets, a token or, of a call that failed, nothing;
\* older requests are still under way if it is not the first.
Gets(k, t) ==
    /\ asks' = SubSeq(asks, 1, k - 1) \o SubSeq(asks, k + 1, Len(asks))
    /\ token' = t
    /\ excuses' = IF k = 1 THEN excuses ELSE excuses \union {"token overtaken"}
    /\ UNCHANGED <<world, gen, age, op, events, stage, reader, shown, healths, polls, tab, monitor,
                   before>>

TokenShown(k) == asks[k].gen # 0 /\ Gets(k, asks[k])
TokenFails(k) == asks[k].gen = 0 /\ Gets(k, NoToken)

-----------------------------------------------------------------------------
(* Health.                                                                  *)

\* Fault variant: the instance on the page only.
PollSelected(i) ==
    /\ stage # "launch"
    /\ i \in shown.list
    /\ i = tab
    /\ Cardinality(polls) < MaxPolls
    /\ \A p \in polls : p.of # i
    /\ polls' = polls \union {[of |-> i, says |-> ""]}
    /\ UNCHANGED <<world, gen, age, op, events, stage, reader, shown, healths, tab, token, asks,
                   monitor, before, excuses>>

\* refreshHealths: every ten seconds, and after every list.
Poll(i) ==
    /\ stage # "launch"
    /\ i \in shown.list
    /\ Cardinality(polls) < MaxPolls
    /\ \A p \in polls : p.of # i
    /\ polls' = polls \union {[of |-> i, says |-> ""]}
    /\ UNCHANGED <<world, gen, age, op, events, stage, reader, shown, healths, tab, token, asks,
                   monitor, before, excuses>>

PollAnswers(p) ==
    /\ p.says = ""
    /\ polls' = (polls \ {p}) \union {[p EXCEPT !.says = Reading(p.of)]}
    /\ UNCHANGED <<world, gen, age, op, events, stage, reader, shown, healths, tab, token, asks,
                   monitor, before, excuses>>

PollShown(p) ==
    /\ p.says # ""
    /\ polls' = polls \ {p}
    /\ healths' = [healths EXCEPT ![p.of] = p.says]
    /\ UNCHANGED <<world, gen, age, op, events, stage, reader, shown, tab, token, asks, monitor,
                   before, excuses>>

\* refresh_tray, in a task of the runtime: block_on panics there, and the task
\* is gone.
RefreshTray == "dead"

\* The monitor reads an instance, tells the window, and refreshes the tray when
\* the reading has changed.
Monitor(i) ==
    /\ monitor = "alive"
    /\ world[i] # "absent"
    /\ before' = [before EXCEPT ![i] = world[i]]
    /\ healths' = IF stage = "listening" THEN [healths EXCEPT ![i] = world[i]] ELSE healths
    /\ monitor' = IF before[i] \notin {"", world[i]} THEN RefreshTray ELSE "alive"
    /\ UNCHANGED <<world, gen, age, op, events, stage, reader, shown, polls, tab, token, asks, excuses>>

-----------------------------------------------------------------------------
Reader(r) == ListAnswers(r) \/ Show(r) \/ FinishHandler(r)

Polled == \E p \in polls : PollAnswers(p) \/ PollShown(p)

SyncNext ==
    \/ Mount \/ Listen
    \/ \E o \in Ops : Command(o) \/ Effect(o) \/ Fails(o) \/ Announce(o)
                      \/ \E r \in Readers : Refresh(o, r)
    \/ \E r \in Readers : Handle(r) \/ Reader(r) \/ ListFails(r)
    \/ \E i \in Instances : Select(i) \/ Poll(i) \/ Monitor(i)
    \/ \E k \in 1..Len(asks) : TokenAnswers(k) \/ TokenShown(k) \/ TokenFails(k)
    \/ Polled

\* Answers come, events are handled, the window polls each instance for ever.
Underway ==
    \/ Mount \/ Listen
    \/ \E o \in Ops : Announce(o) \/ \E r \in Readers : Refresh(o, r)
    \/ \E r \in Readers : Handle(r) \/ Reader(r)
    \/ \E k \in 1..Len(asks) : TokenAnswers(k) \/ TokenShown(k)

SyncFairness == WF_sync(Underway) /\ WF_sync(Polled) /\ \A i \in Instances : SF_sync(Poll(i))

SyncSpec == SyncInit /\ [][SyncNext]_sync /\ SyncFairness

-----------------------------------------------------------------------------
(* Properties.                                                              *)
SyncTypeOK ==
    /\ world \in [Instances -> {"absent", "stopped", "running"}]
    /\ op \in [Ops -> [at : {"new", "run", "emit", "refresh", "done"}, of : Instances \union {0},
                       verb : {"none", "start", "stop", "delete", "install"}]]
    /\ stage \in {"launch", "mounted", "listening"}
    /\ shown.list \subseteq Instances
    /\ healths \in [Instances -> Healths]
    /\ tab \in Instances \union {0}
    /\ monitor \in {"alive", "off", "dead"}

\* The page never shows the empty page, or a gone instance, while the list has
\* an instance (ClawPage/index.tsx:44-54, 153-161).
TabIsListed == (stage # "launch" /\ shown.list # {}) => tab \in shown.list

\* When every command, event and answer has been dealt with, the window lists
\* what is there, unless a list call failed, an event came before the window
\* listened, or an answer was overtaken by a newer one: nothing else can leave
\* it wrong (MainLayout.tsx:96-105, emit.rs:97-101).
Settled ==
    /\ stage = "listening" /\ events = <<>>
    /\ \A o \in Ops : op[o].at \in {"new", "done"}
    /\ \A r \in Readers : reader[r] = NoReader
ListIsTrue ==
    (Settled /\ excuses \cap {"missed", "refused", "overtaken"} = {}) => shown.list = There(world)

\* By then the token shown is the one its gateway made at its last start,
\* unless an event came before the window listened, tokens were overtaken, or
\* a start was handled while no instance was selected: nothing else can leave
\* it stale (MainLayout.tsx:111-117, ClawPage/index.tsx:108-123).
TokenIsFresh ==
    (/\ Settled /\ asks = <<>> /\ token.of # 0
     /\ excuses \cap {"missed", "token overtaken", "none selected"} = {}) => token.gen = gen[token.of]

SyncInv == SyncTypeOK /\ TabIsListed /\ ListIsTrue /\ TokenIsFresh

\* The window's idea of a listed instance's health never stays wrong: polls
\* catch up with whatever overtook them (MainLayout.tsx:56-69, 149).
Right(i) == i \notin shown.list \/ healths[i] = Reading(i)
HealthCatchesUp == \A i \in Instances : <>[]Right(i)

=============================================================================
