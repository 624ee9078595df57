----------------------------- MODULE MCServices -----------------------------
(***************************************************************************)
(* Small instances, for TLC, of the parts that serve a VM: the background  *)
(* script, the bridge server, and the browser that a human takes over.  A  *)
(* behaviour is of one scenario, in which one part moves and the others    *)
(* stand at their initial states:                                          *)
(*   retry    two background scripts, one after the other, of commands that *)
(*            print no blank lines, with execs that come back;              *)
(*   lone     one script, with blank lines and every fault;                 *)
(*   bridge   three clients of the bridge server, each with its own mix of  *)
(*            requests, so that a reader, a writer and a second reader, or  *)
(*            two interventions and a completion, meet in the queue;        *)
(*   agents   two takeovers or returns of one browser, and an agent that    *)
(*            waits for its user;                                           *)
(*   turns    the same without agents, beside a VM that stops or starts, or *)
(*            a browser that crashes.                                       *)
(***************************************************************************)
EXTENDS BackgroundScript, BridgeServer, BrowserHil

CONSTANTS agent, shell, gui

VARIABLE scenario

\* What each client sends: the HIL and file skills of an agent, commands
\* and status polls, the GUI's completions and a second intervention.
Sends == [c \in Handlers |-> CASE c = agent -> {"status", "file", "hil"}
                               [] c = shell -> {"status", "exec", "run", "complete"}
                               [] c = gui   -> {"status", "hil", "complete"}]

services == <<scripted, faults, server, hil, scenario>>

BrowserScenarios == {"agents", "turns"}

MCInit ==
    /\ scenario \in {"retry", "lone", "bridge"} \cup BrowserScenarios
    /\ ScriptInit /\ (Calm <=> scenario # "lone")
    /\ ServerInit
    /\ HilInit
    /\ scenario \notin BrowserScenarios => \A b \in Boxes : runs[b] /\ equipped[b]

In(s, A) == scenario = s /\ A /\ UNCHANGED <<scenario, faults>>
RunScript(s, A) == In(s, A) /\ (s = "lone" => attempt' <= 1) /\ UNCHANGED <<server, hil>>
Request(A) == In("bridge", A) /\ UNCHANGED <<scripted, hil>>
Browser(A) ==
    /\ scenario \in BrowserScenarios /\ A
    /\ UNCHANGED <<scripted, faults, server, scenario>>

MCNext ==
    \/ RunScript("retry", ScriptNext)
    \/ RunScript("lone", ScriptNext)
    \/ Request(ServerNext) /\ \A c \in Handlers : kind'[c] \in Sends[c]
    \/ /\ Browser(HilNext)
       /\ scenario = "agents" => turns' = 0
       /\ scenario = "turns" => UNCHANGED <<watch, request>>

\* The fairness of the parts, each in its scenario.
MCFairness ==
    /\ \A s \in {"retry", "lone"} :
          /\ WF_services(RunScript(s, HostStep))
          /\ \A r \in RunIds : WF_services(RunScript(s, WriteDone(r) \/ BeatCheck(r) \/ Beat(r)))
    /\ \A h \in Handlers : WF_services(Request(Served(h)))
    /\ \A b \in Boxes : SF_services(Browser(scenario = "agents" /\ Look(b)))
    /\ WF_services(Browser(scenario = "agents" /\ Raise))

MCSpec == MCInit /\ [][MCNext]_services /\ MCFairness

----------------------------------------------------------------------------
\* The browser (BrowserHil, HilInv).  Background scripts (BackgroundScript,
\* ScriptInv): types (idle never passes the timeout); a run that is retried
\* after the first has ended or died reports the exit code of its own command
\* (background.rs, the `rm -f` of the setup); while the execs of a poll come
\* back, the heartbeat keeps a silent command from being taken for stalled
\* (background.rs:24).
BrowserAndScriptsHold == HilInv /\ ScriptInv

\* Once the command of the first run has ended or died the host returns, in
\* either scenario (background.rs:114-178).
FirstRunReturns == (script[1] = "gone") ~> (result[1] # "none")

\* What chains that failed or crossed leave of noVNC does not stay unseen: as
\* long as the page is up, the monitor opens the panel for it, from which the
\* user can return (main.rs:241-258), until a change of any instance's health
\* ends the monitor (tray.rs:135).
MCLeftoversSurface == scenario = "agents" => LeftoversSurface

=============================================================================
