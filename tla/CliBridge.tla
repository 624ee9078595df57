------------------------------ MODULE CliBridge ------------------------------
(***************************************************************************)
(* How the GUI runs clawcli (tauri/src/cli_bridge.rs, cli/src/main.rs,     *)
(* cli/src/output.rs): one `clawcli --json` child per call, under the lock *)
(* of the instance the arguments name, if they name one the bridge knows   *)
(* how to find; events read from its stdout until every process that has   *)
(* it open has closed it; ten minutes without a line on stdout or stderr,  *)
(* an error event (for a call that is not streamed) or the end of stdout   *)
(* and the child's exit end the call.                                      *)
(*                                                                         *)
(* clawcli prints progress and data, then `complete` and exits 0, or       *)
(* `error` and exits 1, or dies without a word.  The GUI may quit: its     *)
(* locks and calls are gone, its children are not, and an orphan panics    *)
(* when it next prints, its stdout being a pipe nobody reads.              *)
(***************************************************************************)
EXTENDS Naturals, Sequences, FiniteSets

CONSTANTS
    Calls,          \* calls of the bridge, each made once
    Jobs,           \* what they run, a set of [verb, form, name, stream]
    Names,          \* instance names
    NoName,         \* no lock is taken
    MaxEvents,      \* bound on the events of a child that are followed one by one
    MaxQuits        \* bound on how often the GUI quits

ASSUME CliAssumption ==
    /\ NoName \notin Names
    /\ Jobs \subseteq [verb : STRING, form : {"name_flag", "positional", "instance_flag", "none"},
                       name : Names, stream : BOOLEAN]
    /\ MaxEvents \in Nat
    /\ MaxQuits \in Nat

VARIABLES
    cjob,           \* cjob[c]: what call c runs
    cpc,            \* cpc[c]: where it is
    lockq,          \* lockq[n]: calls that hold (first) or wait for n's lock
    kid,            \* kid[c]: its clawcli
    pipe,           \* pipe[c]: events printed and not yet read
    got,            \* got[c]: events read
    out,            \* out[c]: events sent to the receiver of a streamed call
    side,           \* side[c]: what else there is on the pipes the call reads
    answer,         \* answer[c]: what the call returned
    quits           \* times the GUI has quit

cli == <<cjob, cpc, lockq, kid, pipe, got, out, side, answer, quits>>

Events == {"progress", "data", "complete", "error", "stalled"}
Last == {"complete", "error"}

Contains(s, x) == \E i \in 1..Len(s) : s[i] = x

CliInit ==
    /\ cjob \in [Calls -> Jobs]
    /\ cpc = [c \in Calls |-> "new"]
    /\ lockq = [n \in Names |-> <<>>]
    /\ kid = [c \in Calls |-> "none"]
    /\ pipe = [c \in Calls |-> <<>>]
    /\ got = [c \in Calls |-> <<>>]
    /\ out = [c \in Calls |-> <<>>]
    /\ side = [c \in Calls |-> "none"]
    /\ answer = [c \in Calls |-> "none"]
    /\ quits = 0

-----------------------------------------------------------------------------
(* The lock.  `--name n` is found anywhere; a bare name only after six     *)
(* verbs; `--instance n sandbox ...` and `status n` lock nothing.          *)
PositionalVerbs == {"start", "stop", "restart", "uninstall", "upgrade", "export"}

LockName(j) ==
    IF j.form = "name_flag" \/ (j.form = "positional" /\ j.verb \in PositionalVerbs)
    THEN j.name ELSE NoName

Locks(c) == LockName(cjob[c]) # NoName
Lock(c) == LockName(cjob[c])
Holds(c) == Locks(c) /\ lockq[Lock(c)] # <<>> /\ Head(lockq[Lock(c)]) = c

Goto(c, step) == cpc' = [cpc EXCEPT ![c] = step]

\* The guard is dropped with the call.
Unlock(c) == lockq' = IF Holds(c) THEN [lockq EXCEPT ![Lock(c)] = Tail(@)] ELSE lockq

Begin(c) ==
    /\ cpc[c] = "new"
    /\ Goto(c, "lock")
    /\ lockq' = IF Locks(c) THEN [lockq EXCEPT ![Lock(c)] = Append(@, c)] ELSE lockq
    /\ UNCHANGED <<cjob, kid, pipe, got, out, side, answer, quits>>

Return(c, result) ==
    /\ Goto(c, "done")
    /\ answer' = [answer EXCEPT ![c] = result]
    /\ side' = [side EXCEPT ![c] = "none"]
    /\ Unlock(c)

Spawn(c) ==
    /\ cpc[c] = "lock"
    /\ Locks(c) => Holds(c)
    /\ Goto(c, "loop")
    /\ kid' = [kid EXCEPT ![c] = "running"]
    /\ UNCHANGED <<cjob, lockq, pipe, got, out, side, answer, quits>>

\* No clawcli binary.
SpawnFails(c) ==
    /\ cpc[c] = "lock"
    /\ Locks(c) => Holds(c)
    /\ Return(c, "err")
    /\ UNCHANGED <<cjob, kid, pipe, got, out, quits>>

-----------------------------------------------------------------------------
(* The child (cli/src/main.rs:187-221).                                     *)
Alive == {"running", "ok", "failed"}        \* ok, failed: it has printed its last event
Say(c, e) == pipe' = [pipe EXCEPT ![c] = Append(@, e)]
Printed(c) == got[c] \o pipe[c]

Emit(c) ==
    /\ kid[c] = "running"
    /\ Len(Printed(c)) < MaxEvents
    /\ \E e \in {"progress", "data"} : Say(c, e)
    /\ UNCHANGED <<cjob, cpc, lockq, kid, got, out, side, answer, quits>>

Conclude(c) ==
    /\ kid[c] = "running"
    /\ \E ok \in BOOLEAN :
          /\ Say(c, IF ok THEN "complete" ELSE "error")
          /\ kid' = [kid EXCEPT ![c] = IF ok THEN "ok" ELSE "failed"]
    /\ UNCHANGED <<cjob, cpc, lockq, got, out, side, answer, quits>>

KidExits(c) ==
    /\ kid[c] \in {"ok", "failed"}
    /\ kid' = [kid EXCEPT ![c] = IF @ = "ok" THEN "exit0" ELSE "exit1"]
    /\ UNCHANGED <<cjob, cpc, lockq, pipe, got, out, side, answer, quits>>

\* Killed by somebody, or a panic.
KidDies(c) ==
    /\ kid[c] = "running"
    /\ kid' = [kid EXCEPT ![c] = "exit1"]
    /\ UNCHANGED <<cjob, cpc, lockq, pipe, got, out, side, answer, quits>>

\* println! into a pipe without a reader panics: the child of a GUI that has
\* quit ends when it next has something to say.
OrphanPrints(c) ==
    /\ kid[c] = "orphan"
    /\ kid' = [kid EXCEPT ![c] = "exit1"]
    /\ UNCHANGED <<cjob, cpc, lockq, pipe, got, out, side, answer, quits>>

\* What the pipes carry besides those events.  "holds": a process clawcli has
\* started keeps its stdout; "talks": that process, or clawcli on stderr, writes
\* lines that are no events; "reports": so many progress events that the next
\* always comes in time.  Each may go on for ever, past clawcli's own end too
\* but for the last, or cease at any time.
Besides == {"none", "holds", "talks", "reports"}

Others(c) ==
    /\ cpc[c] = "loop"
    /\ side[c] = "none" => kid[c] = "running"
    /\ \E s \in Besides \ {side[c]} : side' = [side EXCEPT ![c] = s]
    /\ UNCHANGED <<cjob, cpc, lockq, kid, pipe, got, out, answer, quits>>

Exited(c) == kid[c] \in {"exit0", "exit1"}
Talks(c) == side[c] \in {"talks", "reports"}
Reports(c) == side[c] = "reports" /\ kid[c] = "running"

-----------------------------------------------------------------------------
(* The loop.                                                                *)
Kill(c) == IF kid[c] \in Alive THEN [kid EXCEPT ![c] = "killed"] ELSE kid

\* run_cli leaves at the first error event, and drops the child, which kills
\* it; run_cli_streaming passes the event on and goes on reading.
Read(c) ==
    /\ cpc[c] = "loop"
    /\ pipe[c] # <<>>
    /\ got' = [got EXCEPT ![c] = Append(@, Head(pipe[c]))]
    /\ pipe' = [pipe EXCEPT ![c] = Tail(@)]
    /\ IF cjob[c].stream
       THEN /\ out' = [out EXCEPT ![c] = Append(@, Head(pipe[c]))]
            /\ UNCHANGED <<cpc, answer, lockq, kid, side>>
       ELSE /\ UNCHANGED out
            /\ IF Head(pipe[c]) = "error"
               THEN Return(c, "err") /\ kid' = Kill(c)
               ELSE UNCHANGED <<cpc, answer, lockq, kid, side>>
    /\ UNCHANGED <<cjob, quits>>

\* Ten minutes without a line on stdout or stderr: of a clawcli that runs, or
\* of what holds the pipe of one that has exited.
Silent(c) ==
    /\ cpc[c] = "loop"
    /\ pipe[c] = <<>>
    /\ ~Talks(c)
    /\ kid[c] = "running" \/ (Exited(c) /\ side[c] = "holds")

\* Fault variant: the child is left to run.
SilenceNoKill(c) ==
    /\ Silent(c)
    /\ Return(c, "err")
    /\ out' = IF cjob[c].stream THEN [out EXCEPT ![c] = Append(@, "stalled")] ELSE out
    /\ UNCHANGED <<cjob, pipe, got, kid, quits>>

Silence(c) ==
    /\ Silent(c)
    /\ kid' = Kill(c)
    /\ Return(c, "err")
    /\ out' = IF cjob[c].stream THEN [out EXCEPT ![c] = Append(@, "stalled")] ELSE out
    /\ UNCHANGED <<cjob, pipe, got, quits>>

\* stdout has been read to its end: nobody has it open.
Closed(c) ==
    /\ cpc[c] = "loop"
    /\ Exited(c)
    /\ side[c] = "none"
    /\ pipe[c] = <<>>
    /\ Goto(c, "reap")
    /\ UNCHANGED <<cjob, lockq, kid, pipe, got, out, side, answer, quits>>

\* Fault variant: the guard outlives the call.
ReapLocked(c) ==
    /\ cpc[c] = "reap"
    /\ Goto(c, "done")
    /\ UNCHANGED side
    /\ answer' = [answer EXCEPT ![c] = IF kid[c] = "exit0" THEN "ok" ELSE "err"]
    /\ UNCHANGED <<cjob, lockq, kid, pipe, got, out, quits>>

Reap(c) ==
    /\ cpc[c] = "reap"
    /\ Return(c, IF kid[c] = "exit0" THEN "ok" ELSE "err")
    /\ UNCHANGED <<cjob, kid, pipe, got, out, quits>>

\* exit_app: the process ends at once; nothing is dropped, nobody is killed.
Active(c) == cpc[c] \in {"lock", "loop", "reap"}
Quit ==
    /\ quits < MaxQuits
    /\ \E c \in Calls : Active(c)
    /\ quits' = quits + 1
    /\ cpc' = [c \in Calls |-> IF Active(c) THEN "gone" ELSE cpc[c]]
    /\ lockq' = [n \in Names |-> <<>>]
    /\ kid' = [c \in Calls |-> IF kid[c] \in Alive THEN "orphan" ELSE kid[c]]
    /\ pipe' = [c \in Calls |-> IF Active(c) THEN <<>> ELSE pipe[c]]
    /\ side' = [c \in Calls |-> "none"]
    /\ UNCHANGED <<cjob, got, out, answer>>

Kids(c) == Emit(c) \/ Conclude(c) \/ KidExits(c) \/ KidDies(c) \/ OrphanPrints(c) \/ Others(c)
Bridge(c) == Spawn(c) \/ SpawnFails(c) \/ Read(c) \/ Silence(c) \/ Closed(c) \/ Reap(c)

CliNext == Quit \/ \E c \in Calls : Begin(c) \/ Kids(c) \/ Bridge(c)

\* The runtime runs the loop, its silence limit included, and a child whose
\* last words are out exits.  Nobody has to stop talking, nor let the pipe go.
CliFairness == \A c \in Calls : WF_cli(Bridge(c)) /\ WF_cli(KidExits(c))

CliSpec == CliInit /\ [][CliNext]_cli /\ CliFairness

-----------------------------------------------------------------------------
(* Properties.                                                              *)
CliTypeOK ==
    /\ cjob \in [Calls -> Jobs]
    /\ cpc \in [Calls -> {"new", "lock", "loop", "reap", "done", "gone"}]
    /\ lockq \in [Names -> Seq(Calls)]
    /\ kid \in [Calls -> {"none", "orphan", "exit0", "exit1", "killed"} \union Alive]
    /\ pipe \in [Calls -> Seq(Events)]
    /\ got \in [Calls -> Seq(Events)]
    /\ out \in [Calls -> Seq(Events)]
    /\ side \in [Calls -> Besides]
    /\ answer \in [Calls -> {"none", "ok", "err"}]
    /\ quits \in 0..MaxQuits

\* Two calls that name the same instance in a way the bridge knows never have
\* a clawcli running at once, while the GUI lives (cli_bridge.rs:24-58,
\* kill_on_drop).
OneCliPerInstance ==
    \A c, d \in Calls :
        (c # d /\ kid[c] \in Alive /\ kid[d] \in Alive /\ Locks(c)) => Lock(c) # Lock(d)

\* A call that has returned has left no clawcli behind, whichever way it went;
\* so the lock is never released over a running one (cli_bridge.rs:205-228).
NoKidOutlivesCall == \A c \in Calls : cpc[c] = "done" => kid[c] \notin Alive

\* Ok means that clawcli exited 0 and that every event it printed was read,
\* and for a streamed call handed on, in order (cli_bridge.rs:185-230).
OkIsWhole ==
    \A c \in Calls : answer[c] = "ok" =>
        /\ kid[c] = "exit0"
        /\ pipe[c] = <<>>
        /\ Contains(got[c], "complete")
        /\ cjob[c].stream => out[c] = got[c]

CliInv == CliTypeOK /\ OneCliPerInstance /\ NoKidOutlivesCall /\ OkIsWhole

\* A call that waits for its lock gets it, and every call returns or dies with
\* the GUI, though a helper of clawcli keeps its stdout for ever: unless lines
\* keep coming for ever on the pipes of some call, which no limit ends
\* (cli_bridge.rs:185-230).
CliCallAnswers ==
    (<>[](\A c \in Calls : ~Talks(c)))
        => \A c \in Calls : cpc[c] = "lock" ~> cpc[c] \in {"done", "gone"}

=============================================================================
