-------------------------- MODULE BackgroundScript --------------------------
(***************************************************************************)
(* A long command inside the sandbox VM, run detached and watched by        *)
(* polling (core/src/provisioning/background.rs).  The host writes a script *)
(* and starts it under a nohup wrapper; the wrapper logs to one file and    *)
(* writes the exit code to another; a heartbeat loop adds a log line while  *)
(* the command lives.  The host polls both files until it sees an exit code *)
(* or has seen nothing new for too long.  All paths are fixed, so a second  *)
(* run uses the files of the first.                                         *)
(*                                                                         *)
(* Time is counted in polls: HbPolls polls is the heartbeat interval,       *)
(* IdlePolls polls the idle timeout.                                        *)
(***************************************************************************)
EXTENDS Naturals, Sequences, FiniteSets

CONSTANTS
    Attempts,       \* how many times the host runs a script, one after another
    IdlePolls,  \* opts.idle_timeout / opts.poll_interval
    HbPolls,    \* HEARTBEAT_INTERVAL_SECS / opts.poll_interval
    Lines,      \* the `head -50` of a poll
    MaxUnread,  \* bound: log lines that wait for the host
    FaultSets   \* what may happen together: sets of "setup" and "exec" (an
                \* exec that fails), "cleanup" (its rm fails), "vm_down",
                \* "crash" and "blank" (the command prints blank lines)

ASSUME PollsAssumption ==
    /\ IdlePolls \in Nat /\ HbPolls \in Nat /\ 0 < HbPolls
    /\ HbPolls < IdlePolls      \* "MUST be shorter than `idle_timeout`"
ASSUME BoundsAssumption ==
    /\ Attempts \in Nat \ {0} /\ Lines \in Nat \ {0}
    /\ MaxUnread \in Nat /\ Lines < MaxUnread

VARIABLES
    faults,     \* what may happen in this behaviour
    attempt,        \* the number of the current run; 0 before the first
    hpc,         \* where the host is: idle, poll, tail, judge, cleanup
    result,     \* what each run returned: none, ok, failed, stalled, error
    doneVal,    \* the exit code the host has read, or NoMarker
    idle,       \* polls since the host last saw a log line
    vmUp,       \* the VM runs
    done,       \* contents of the done file: an exit code, or NoMarker
    unread,     \* the log after line `last_lines`: "text" and "blank" lines
    script,     \* the command of each run: unborn, running, exited, gone
    code,       \* the exit code of each run's command
    beat,       \* the heartbeat loop of each run: off, check, sleep
    sinceBeat   \* polls since the current run's last heartbeat

host == <<attempt, hpc, result, doneVal, idle>>
guest == <<vmUp, done, unread, script, code, beat, sinceBeat>>
scripted == <<host, guest>>

RunIds == 1 .. Attempts
ExitCodes == {0, 1}
NoMarker == 99

ScriptTypeOK ==
    /\ attempt \in 0 .. Attempts
    /\ hpc \in {"idle", "poll", "tail", "judge", "cleanup"}
    /\ result \in [RunIds -> {"none", "ok", "failed", "stalled", "error"}]
    /\ doneVal \in ExitCodes \cup {NoMarker}
    /\ idle \in 0 .. IdlePolls
    /\ vmUp \in BOOLEAN
    /\ done \in ExitCodes \cup {NoMarker}
    /\ unread \in Seq({"text", "blank"})
    /\ script \in [RunIds -> {"unborn", "running", "exited", "gone"}]
    /\ code \in [RunIds -> ExitCodes \cup {NoMarker}]
    /\ beat \in [RunIds -> {"off", "check", "sleep"}]
    /\ sinceBeat \in 0 .. HbPolls

ScriptInit ==
    /\ faults \in FaultSets
    /\ attempt = 0
    /\ hpc = "idle"
    /\ result = [r \in RunIds |-> "none"]
    /\ doneVal = NoMarker
    /\ idle = 0
    /\ vmUp = TRUE
    /\ done = NoMarker
    /\ unread = <<>>
    /\ script = [r \in RunIds |-> "unborn"]
    /\ code = [r \in RunIds |-> NoMarker]
    /\ beat = [r \in RunIds |-> "off"]
    /\ sinceBeat = 0

-----------------------------------------------------------------------------
(* The host *)

\* An exec in the VM fails when the VM is down, or on a transport error.
ExecFails == ~vmUp \/ "exec" \in faults

ScriptFinish(r, res) ==
    /\ result' = [result EXCEPT ![r] = res]
    /\ hpc' = "idle"

\* Fault variant: the setup script leaves the old done file in place.
StartScriptKeepsDone(r) ==
    /\ unread' = <<>>
    /\ script' = [script EXCEPT ![r] = "running"]
    /\ beat' = [beat EXCEPT ![r] = "check"]
    /\ sinceBeat' = 0
    /\ UNCHANGED <<vmUp, done, code>>

(* The setup script ran: it removed the three files of the run before, wrote *)
(* the new script and started the wrapper.                                   *)
StartScript(r) ==
    /\ done' = NoMarker
    /\ unread' = <<>>
    /\ script' = [script EXCEPT ![r] = "running"]
    /\ beat' = [beat EXCEPT ![r] = "check"]
    /\ sinceBeat' = 0
    /\ UNCHANGED <<vmUp, code>>

Setup ==
    /\ hpc = "idle" /\ attempt < Attempts
    /\ vmUp
    /\ attempt' = attempt + 1
    /\ StartScript(attempt + 1)
    /\ hpc' = "poll"
    /\ idle' = 0
    /\ doneVal' = NoMarker
    /\ UNCHANGED result

(* The exec of the setup script fails: before it did anything, or after the  *)
(* wrapper was started.                                                      *)
SetupFails ==
    /\ hpc = "idle" /\ attempt < Attempts
    /\ ~vmUp \/ "setup" \in faults
    /\ attempt' = attempt + 1
    /\ \/ vmUp /\ StartScript(attempt + 1)
       \/ UNCHANGED guest
    /\ ScriptFinish(attempt + 1, "error")
    /\ UNCHANGED <<doneVal, idle>>

\* Time passes between polls; a heartbeat is due every HbPolls of them.
PollTick ==
    /\ beat[attempt] # "off" => sinceBeat < HbPolls
    /\ sinceBeat' = IF beat[attempt] # "off" THEN sinceBeat + 1 ELSE 0

(* Poll, first exec: read the done file. *)
ReadDone ==
    /\ hpc = "poll"
    /\ PollTick
    /\ \/ vmUp /\ doneVal' = done
       \/ ExecFails /\ doneVal' = NoMarker
    /\ hpc' = "tail"
    /\ UNCHANGED <<attempt, result, idle, vmUp, done, unread, script, code, beat>>

Min2(a, b) == IF a < b THEN a ELSE b
Window == SubSeq(unread, 1, Min2(Lines, Len(unread)))
NewLines == Cardinality({i \in 1..Len(Window) : Window[i] = "text"})

(* Poll, second exec: `tail -n +(last_lines+1) | head`.  Blank lines are not *)
(* counted, so last_lines moves by the text lines of the window only.        *)
ReadTail ==
    /\ hpc = "tail"
    /\ vmUp
    /\ idle' = IF NewLines = 0 THEN idle + 1 ELSE 0
    /\ unread' = SubSeq(unread, NewLines + 1, Len(unread))
    /\ hpc' = "judge"
    /\ UNCHANGED <<attempt, result, doneVal, vmUp, done, script, code, beat, sinceBeat>>

\* Fault variant: a tail that fails is not counted as a silent poll.
TailFailsUncounted ==
    /\ hpc = "tail"
    /\ ExecFails
    /\ hpc' = "judge"
    /\ UNCHANGED <<attempt, result, doneVal, idle, guest>>

(* A tail that fails reads as no output. *)
TailFails ==
    /\ hpc = "tail"
    /\ ExecFails
    /\ idle' = idle + 1
    /\ hpc' = "judge"
    /\ UNCHANGED <<attempt, result, doneVal, guest>>

(* The exit code was there: clean up, then return it. *)
SeeDone ==
    /\ hpc = "judge"
    /\ doneVal # NoMarker
    /\ hpc' = "cleanup"
    /\ UNCHANGED <<attempt, result, doneVal, idle, guest>>

ScriptCleanup ==
    /\ hpc = "cleanup"
    /\ \/ vmUp /\ done' = NoMarker /\ unread' = <<>>
       \/ (~vmUp \/ "cleanup" \in faults) /\ UNCHANGED <<done, unread>>
    /\ ScriptFinish(attempt, IF doneVal = 0 THEN "ok" ELSE "failed")
    /\ UNCHANGED <<attempt, doneVal, idle, vmUp, script, code, beat, sinceBeat>>

(* Idle for too long: return an error.  The script is left as it is. *)
Stall ==
    /\ hpc = "judge"
    /\ doneVal = NoMarker
    /\ idle >= IdlePolls
    /\ ScriptFinish(attempt, "stalled")
    /\ UNCHANGED <<attempt, doneVal, idle, guest>>

\* Fault variant: gives up one poll too late.
PollAgainOffByOne ==
    /\ hpc = "judge"
    /\ doneVal = NoMarker
    /\ idle <= IdlePolls
    /\ hpc' = "poll"
    /\ UNCHANGED <<attempt, result, doneVal, idle, guest>>

PollAgain ==
    /\ hpc = "judge"
    /\ doneVal = NoMarker
    /\ idle < IdlePolls
    /\ hpc' = "poll"
    /\ UNCHANGED <<attempt, result, doneVal, idle, guest>>

(* clawcli is killed, or panics, while it watches. *)
HostCrash ==
    /\ "crash" \in faults
    /\ hpc # "idle"
    /\ ScriptFinish(attempt, "error")
    /\ UNCHANGED <<attempt, doneVal, idle, guest>>

-----------------------------------------------------------------------------
(* The VM *)

Append1(l) == unread' = IF Len(unread) < MaxUnread THEN Append(unread, l)
                                                   ELSE unread

(* The command prints a line.  Only the log of the latest run has a name.    *)
CommandPrints ==
    /\ attempt > 0 /\ script[attempt] = "running"
    /\ Len(unread) < MaxUnread
    /\ \E l \in {"text"} \cup (IF "blank" \in faults THEN {"blank"} ELSE {}) : Append1(l)
    /\ UNCHANGED <<host, vmUp, done, script, code, beat, sinceBeat>>

(* The command ends ... *)
CommandExits(r) ==
    /\ script[r] = "running"
    /\ \E c \in ExitCodes : code' = [code EXCEPT ![r] = c]
    /\ script' = [script EXCEPT ![r] = "exited"]
    /\ UNCHANGED <<host, vmUp, done, unread, beat, sinceBeat>>

(* ... and the wrapper writes its exit code to the done file. *)
WriteDone(r) ==
    /\ script[r] = "exited"
    /\ done' = code[r]
    /\ script' = [script EXCEPT ![r] = "gone"]
    /\ UNCHANGED <<host, vmUp, unread, code, beat, sinceBeat>>

(* Heartbeat loop: test that the command is alive, sleep, append a line.     *)
BeatCheck(r) ==
    /\ beat[r] = "check"
    /\ beat' = [beat EXCEPT ![r] = IF script[r] # "gone" THEN "sleep"
                                                         ELSE "off"]
    /\ UNCHANGED <<host, vmUp, done, unread, script, code, sinceBeat>>

\* Fault variant: the heartbeat does not reach the log.
BeatUnlogged(r) ==
    /\ beat[r] = "sleep"
    /\ beat' = [beat EXCEPT ![r] = "check"]
    /\ sinceBeat' = IF r = attempt THEN 0 ELSE sinceBeat
    /\ UNCHANGED <<host, vmUp, done, unread, script, code>>

Beat(r) ==
    /\ beat[r] = "sleep"
    /\ Append1("text")
    /\ beat' = [beat EXCEPT ![r] = "check"]
    /\ sinceBeat' = IF r = attempt THEN 0 ELSE sinceBeat
    /\ UNCHANGED <<host, vmUp, done, script, code>>

(* The VM stops, with everything that runs in it, and comes back. *)
VmDown ==
    /\ "vm_down" \in faults
    /\ vmUp
    /\ vmUp' = FALSE
    /\ script' = [r \in RunIds |-> IF script[r] = "unborn" THEN "unborn" ELSE "gone"]
    /\ beat' = [r \in RunIds |-> "off"]
    /\ UNCHANGED <<host, done, unread, code, sinceBeat>>

VmUp ==
    /\ ~vmUp
    /\ vmUp' = TRUE
    /\ UNCHANGED <<host, done, unread, script, code, beat, sinceBeat>>

HostStep ==
    \/ Setup
    \/ SetupFails
    \/ ReadDone
    \/ ReadTail
    \/ TailFails
    \/ SeeDone
    \/ ScriptCleanup
    \/ Stall
    \/ PollAgain

Guest(r) == \/ CommandExits(r)
            \/ WriteDone(r)
            \/ BeatCheck(r)
            \/ Beat(r)

ScriptNext ==
    /\ \/ HostStep
       \/ HostCrash
       \/ CommandPrints
       \/ \E r \in RunIds : Guest(r)
       \/ VmDown
       \/ VmUp
    /\ UNCHANGED faults

(* The host's poll loop never stops polling and the guest's shell keeps      *)
(* running; nothing says the command ends, prints or survives.               *)
ScriptFairness ==
    /\ WF_scripted(HostStep)
    /\ \A r \in RunIds : WF_scripted(WriteDone(r) \/ BeatCheck(r) \/ Beat(r))

ScriptSpec == ScriptInit /\ [][ScriptNext]_<<scripted, faults>> /\ ScriptFairness

-----------------------------------------------------------------------------
(* Properties *)

(* The exit code a run reports is the one its own command ended with: not    *)
(* what an earlier run left in the done file.                                *)
ResultIsOwn ==
    \A r \in RunIds :
        /\ result[r] = "ok" => code[r] = 0
        /\ result[r] = "failed" => code[r] = 1

(* "Keeps the idle-kill path from tripping on commands that are alive but    *)
(* silent" (background.rs:24): a run is not given up as stalled while its    *)
(* command runs.                                                             *)
NoFalseStall ==
    \A r \in RunIds : result[r] = "stalled" => script[r] # "running"

(* Once the command has ended or died the host returns, marker or no marker, *)
(* even when nothing it asks the VM gets an answer.                          *)
HostReturns ==
    \A r \in RunIds :
        (script[r] = "gone") ~> (result[r] # "none")

(* Types; and as long as the execs of a poll come back, clawcli is not       *)
(* killed and the command prints no blank lines, the two above.              *)
Calm == faults \subseteq {"cleanup", "vm_down"}
ScriptInv == ScriptTypeOK /\ (Calm => ResultIsOwn /\ NoFalseStall)

=============================================================================
