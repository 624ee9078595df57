---------------------------- MODULE InstallWizard ----------------------------
(***************************************************************************)
(* An installation from the GUI: the progress page of the install wizard   *)
(* (src/pages/Install/StepProgress.tsx) and the task behind install_openclaw *)
(* (tauri/src/ipc/install.rs), which runs clawcli through CliBridge and    *)
(* turns its events into window events.                                    *)
(*                                                                         *)
(* Attempt k is call k of the bridge.  The page registers its three        *)
(* listeners one at a time, each registration answering later than it      *)
(* takes effect, then invokes; its timer gives up after 22 minutes without *)
(* an event (the bridge's own limit is ten).  INSTALL_RUNNING lets one     *)
(* backend task live.                                                      *)
(***************************************************************************)
EXTENDS CliBridge

CONSTANT MaxAttempts

ASSUME WizardAssumption == MaxAttempts \in Nat \ {0} /\ Calls = 1..MaxAttempts

VARIABLES
    running,        \* INSTALL_RUNNING
    task,           \* task[k]: the backend task of attempt k
    sent,           \* sent[k]: events of the bridge forwarded to the window
    wire,           \* window events emitted and not yet delivered
    hooks,          \* listeners in force: <<kind, attempt>>
    owned,          \* owned[kind]: attempt whose unlisten function the page holds
    armed,          \* steps of the page's registrations, two per listener
    page,           \* page[k]: what the code of attempt k is doing
    finished,       \* attempts whose `done` is set
    timer,          \* attempt whose timer is armed, 0 if none
    view            \* what the user sees

wizard == <<running, task, sent, wire, hooks, owned, armed, page, finished, timer, view>>

Kinds == <<"progress", "complete", "failed">>
Listeners == {"progress", "complete", "failed"}
Attempts == 1..MaxAttempts

WizardInit ==
    /\ running = FALSE
    /\ task = [k \in Attempts |-> "none"]
    /\ sent = [k \in Attempts |-> 0]
    /\ wire = <<>>
    /\ hooks = {}
    /\ owned = [x \in Listeners |-> 0]
    /\ armed = [k \in Attempts |-> 0]
    /\ page = [k \in Attempts |-> "idle"]
    /\ finished = {}
    /\ timer = 0
    /\ view = "idle"

-----------------------------------------------------------------------------
(* The page.                                                                *)

\* detachAll: the listeners whose unlisten function has been assigned, and the
\* timer.
DetachAll ==
    /\ hooks' = hooks \ {<<x, owned[x]>> : x \in Listeners}
    /\ owned' = [x \in Listeners |-> 0]
    /\ timer' = 0

Finish(k, seen) ==
    /\ DetachAll
    /\ finished' = finished \union {k}
    /\ view' = seen

\* The first run, or the Retry button, shown once the page has an error.
Start(k) ==
    /\ page[k] = "idle"
    /\ IF k = 1 THEN view = "idle" ELSE page[k - 1] # "idle" /\ view \in {"error", "stalled"}
    /\ hooks' = hooks \ {<<x, owned[x]>> : x \in Listeners}
    /\ owned' = [x \in Listeners |-> 0]
    /\ timer' = k
    /\ view' = "installing"
    /\ page' = [page EXCEPT ![k] = "listen"]
    /\ UNCHANGED <<running, task, sent, wire, armed, finished>>
    /\ UNCHANGED cli

Hooked(k) == Kinds[armed[k] \div 2 + 1]

\* The event loop has the listener, the page does not know yet.
Register(k) ==
    /\ page[k] = "listen"
    /\ armed[k] % 2 = 0
    /\ armed[k] < 6
    /\ hooks' = hooks \union {<<Hooked(k), k>>}
    /\ armed' = [armed EXCEPT ![k] = @ + 1]
    /\ UNCHANGED <<running, task, sent, wire, owned, page, finished, timer, view>>
    /\ UNCHANGED cli

Registered(k) ==
    /\ page[k] = "listen"
    /\ armed[k] % 2 = 1
    /\ owned' = [owned EXCEPT ![Hooked(k)] = k]
    /\ armed' = [armed EXCEPT ![k] = @ + 1]
    /\ UNCHANGED <<running, task, sent, wire, hooks, page, finished, timer, view>>
    /\ UNCHANGED cli

\* install_openclaw up to its spawn; a call refused because another task lives
\* throws in the page.
Invoke(k) ==
    /\ page[k] = "listen"
    /\ armed[k] = 6
    /\ page' = [page EXCEPT ![k] = "invoked"]
    /\ running' = TRUE
    /\ IF running
       THEN Finish(k, "error") /\ UNCHANGED task
       ELSE task' = [task EXCEPT ![k] = "probe"] /\ UNCHANGED <<hooks, owned, finished, timer, view>>
    /\ UNCHANGED <<sent, wire, armed>>
    /\ UNCHANGED cli

\* The next event reaches every listener of its kind.
Deliver ==
    /\ wire # <<>>
    /\ wire' = Tail(wire)
    /\ LET e == Head(wire)
           ears == {k \in Attempts : <<e.kind, k>> \in hooks}
       IN  IF ears = {} THEN UNCHANGED <<hooks, owned, finished, timer, view>>
           ELSE IF e.kind = "progress"
           THEN /\ \E k \in ears : timer' = k
                /\ UNCHANGED <<hooks, owned, finished, view>>
           ELSE /\ DetachAll
                /\ finished' = finished \union ears
                /\ view' = IF e.kind = "complete" THEN "complete" ELSE "error"
    /\ UNCHANGED <<running, task, sent, armed, page>>
    /\ UNCHANGED cli

\* Lines that are no events keep the bridge's timer from running out and send
\* the page nothing, with clawcli or without.
Mute(k) ==
    /\ task[k] = "cli" /\ cpc[k] = "loop"
    /\ pipe[k] = <<>> /\ sent[k] = Len(out[k])
    /\ ~Reports(k)
    /\ kid[k] = "running" \/ side[k] # "none"

Stall ==
    /\ timer # 0
    /\ timer \notin finished
    /\ page[timer] = "invoked"
    /\ wire = <<>>
    /\ \A k \in Attempts : task[k] \in {"none", "done"} \/ Mute(k)
    /\ DetachAll
    /\ view' = "stalled"
    /\ UNCHANGED <<running, task, sent, wire, armed, page, finished>>
    /\ UNCHANGED cli

-----------------------------------------------------------------------------
(* The task.                                                                *)
Tell(kind, k) == wire' = Append(wire, [kind |-> kind, from |-> k])
Task(k, step) == task' = [task EXCEPT ![k] = step]

\* The probes pass, or none are asked for.
ProbeOk(k) ==
    /\ task[k] = "probe"
    /\ Task(k, "cli")
    /\ Begin(k)
    /\ UNCHANGED <<running, sent, wire, hooks, owned, armed, page, finished, timer, view>>

\* Fault variant: the task returns and the flag stays.
ProbeFailsKeepsFlag(k) ==
    /\ task[k] = "probe"
    /\ Task(k, "done")
    /\ Tell("failed", k)
    /\ UNCHANGED <<running, sent, hooks, owned, armed, page, finished, timer, view>>
    /\ UNCHANGED cli

ProbeFails(k) ==
    /\ task[k] = "probe"
    /\ Task(k, "drop")
    /\ Tell("failed", k)
    /\ UNCHANGED <<running, sent, hooks, owned, armed, page, finished, timer, view>>
    /\ UNCHANGED cli

\* fwd_task: whatever clawcli says is progress to the window, its verdict too.
Forward(k) ==
    /\ task[k] = "cli"
    /\ sent[k] < Len(out[k])
    /\ sent' = [sent EXCEPT ![k] = @ + 1]
    /\ Tell("progress", k)
    /\ UNCHANGED <<running, task, hooks, owned, armed, page, finished, timer, view>>
    /\ UNCHANGED cli

\* Fault variant: no word of a failure.
VerdictSilent(k) ==
    /\ task[k] = "cli"
    /\ cpc[k] = "done"
    /\ sent[k] = Len(out[k])
    /\ Task(k, "drop")
    /\ IF answer[k] = "ok" THEN Tell("complete", k) ELSE UNCHANGED wire
    /\ UNCHANGED <<running, sent, hooks, owned, armed, page, finished, timer, view>>
    /\ UNCHANGED cli

Verdict(k) ==
    /\ task[k] = "cli"
    /\ cpc[k] = "done"
    /\ sent[k] = Len(out[k])
    /\ Task(k, "drop")
    /\ Tell(IF answer[k] = "ok" THEN "complete" ELSE "failed", k)
    /\ UNCHANGED <<running, sent, hooks, owned, armed, page, finished, timer, view>>
    /\ UNCHANGED cli

\* InstallRunningGuard.
DropGuard(k) ==
    /\ task[k] = "drop"
    /\ Task(k, "done")
    /\ running' = FALSE
    /\ UNCHANGED <<sent, wire, hooks, owned, armed, page, finished, timer, view>>
    /\ UNCHANGED cli

Child(k) == (Kids(k) \/ Bridge(k)) /\ UNCHANGED wizard

Page(k) == Register(k) \/ Registered(k) \/ Invoke(k)
TaskStep(k) == ProbeOk(k) \/ ProbeFails(k) \/ Forward(k) \/ Verdict(k) \/ DropGuard(k)

WizardNext ==
    \/ Deliver
    \/ Stall
    \/ \E k \in Attempts : Start(k) \/ Page(k) \/ TaskStep(k) \/ Child(k)

-----------------------------------------------------------------------------
(* Properties.                                                              *)
Live(k) == task[k] \in {"probe", "cli", "drop"}

WizardTypeOK ==
    /\ running \in BOOLEAN
    /\ task \in [Attempts -> {"none", "probe", "cli", "drop", "done"}]
    /\ hooks \subseteq (Listeners \X Attempts)
    /\ owned \in [Listeners -> 0..MaxAttempts]
    /\ armed \in [Attempts -> 0..6]
    /\ page \in [Attempts -> {"idle", "listen", "invoked"}]
    /\ timer \in 0..MaxAttempts
    /\ view \in {"idle", "installing", "complete", "error", "stalled"}

\* The flag is up exactly while one task lives, so a retry after any ending is
\* let through and two tasks never run (install.rs:12-26, 51-53).
FlagIsOneTask ==
    /\ running <=> \E k \in Attempts : Live(k)
    /\ \A j, k \in Attempts : (Live(j) /\ Live(k)) => j = k

\* The window shows a finished installation only if clawcli exited 0, having
\* said that it is complete (install.rs:190-210, StepProgress.tsx:119-125).
CompleteIsReal ==
    view = "complete" => \E k \in Attempts : answer[k] = "ok" /\ Contains(out[k], "complete")

\* No progress of a task is on its way behind its verdict: the page would show
\* an installation that moves on after it has ended (install.rs:188).
VerdictIsLast ==
    \A i, j \in 1..Len(wire) :
        (i < j /\ wire[i].kind # "progress" /\ wire[j].kind = "progress") => wire[i].from # wire[j].from

WizardInv == WizardTypeOK /\ FlagIsOneTask /\ CompleteIsReal /\ VerdictIsLast

\* The page never waits for ever: every attempt it shows ends in a verdict, a
\* refusal or, where a task only talks past the bridge, the timer's message;
\* unless clawcli reports progress for ever (StepProgress.tsx:73-162,
\* install.rs:124-228).
WizardSettles ==
    (<>[](\A k \in Attempts : ~Reports(k))) => (view = "installing" ~> view # "installing")

=============================================================================
