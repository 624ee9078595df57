-------------------------------- MODULE MCGui --------------------------------
(***************************************************************************)
(* The GUI, for TLC.  A behaviour is of one mode, in which one part moves:  *)
(*   calls   two calls of clawcli, and a GUI that may quit; the first may   *)
(*           leave a helper or talk on, be it in events or not;             *)
(*   wizard  an installation with a retry;                                  *)
(*   window  the main window and two commands once it listens, with no      *)
(*           polls of the health and to the first excuse;                   *)
(*   polls   the same with one command, the polls, and with or without the  *)
(*           monitor.                                                       *)
(***************************************************************************)
EXTENDS InstallWizard, GuiSync

CONSTANTS n1, n2, none

VARIABLE mode

Job(verb, form, stream) == [verb |-> verb, form |-> form, name |-> n1, stream |-> stream]
Stop == Job("stop", "positional", FALSE)
Upgrade == Job("upgrade", "positional", TRUE)
Install == Job("install", "name_flag", TRUE)
Status == Job("status", "positional", FALSE)
MCJobs == {Stop, Upgrade, Install, Status}
Pairs == {<<Stop, Upgrade>>, <<Upgrade, Install>>, <<Status, Stop>>}

gui == <<cli, wizard, sync, mode>>

MCInit ==
    /\ CliInit /\ WizardInit /\ SyncInit
    /\ mode \in {"calls", "wizard", "window", "polls"}
    /\ IF mode = "calls" THEN cjob \in Pairs ELSE cjob = <<Install, Install>>
    /\ world = [i \in Instances |-> IF i = 1 /\ mode \in {"window", "polls"} THEN "stopped" ELSE "absent"]
    /\ mode # "polls" => monitor = "off"

Idle(part) == UNCHANGED part

MCNext ==
    \/ mode = "calls" /\ CliNext /\ ~Reports(1)' /\ side'[2] = "none" /\ Idle(<<wizard, sync, mode>>)
    \/ mode = "wizard" /\ WizardNext /\ Idle(<<sync, mode>>)
    \/ mode = "window" /\ SyncNext /\ polls' = {} /\ excuses = {}
                        /\ (op' # op => stage = "listening") /\ Idle(<<cli, wizard, mode>>)
    \/ mode = "polls" /\ SyncNext /\ op'[MaxOps].at = "new" /\ Idle(<<cli, wizard, mode>>)

\* What is under way goes on: the bridge's loop, a child whose last words are
\* out, the task and the page of an installation, the window's own steps; the
\* window's timer polls each instance; and the page's timer runs out on a task
\* whose pipe is held or talked on, however often the talk pauses.  A silent
\* clawcli alone is the bridge's to end, and the verdict the task's to send.
Ongoing ==
    \/ mode = "calls" /\ (\E c \in Calls : Bridge(c) \/ KidExits(c)) /\ Idle(<<wizard, sync, mode>>)
    \/ mode = "wizard" /\ (\E k \in Attempts : Page(k) \/ TaskStep(k)) /\ Idle(<<sync, mode>>)
    \/ mode = "wizard" /\ Deliver /\ Idle(<<sync, mode>>)
    \/ mode = "wizard" /\ (\E c \in Calls : Bridge(c) \/ KidExits(c)) /\ Idle(<<wizard, sync, mode>>)
    \/ mode = "polls" /\ Underway /\ Idle(<<cli, wizard, mode>>)

MCFairness ==
    /\ WF_gui(Ongoing)
    /\ SF_gui(mode = "wizard" /\ Stall /\ (\E k \in Attempts : side[k] # "none") /\ Idle(<<sync, mode>>))
    /\ WF_gui(mode = "polls" /\ Polled /\ Idle(<<cli, wizard, mode>>))
    /\ \A i \in Instances : SF_gui(mode = "polls" /\ Poll(i) /\ Idle(<<cli, wizard, mode>>))

MCSpec == MCInit /\ [][MCNext]_gui /\ MCFairness

\* The bridge's calls, the wizard and the window: types, and the invariants
\* of each (CliBridge, InstallWizard, GuiSync).
MCGuiInv == CliInv /\ WizardInv /\ SyncInv

\* The window's idea of a listed instance's health never stays wrong
\* (MainLayout.tsx:56-69, 149).
MCHealthCatchesUp == mode = "polls" => HealthCatchesUp

=============================================================================
