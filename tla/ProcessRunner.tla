---------------------------- MODULE ProcessRunner ----------------------------
(***************************************************************************)
(* Running a command (core/src/runners/local.rs, runners/sandbox.rs): the  *)
(* task that waits for the child, its token or its timeout, whichever is   *)
(* first; the tasks that read stdout and stderr and write stdin; the       *)
(* channel of events they share; and the caller, which collects the events *)
(* (exec) or is handed the receiver (exec_streaming).                      *)
(*                                                                         *)
(* A local child may leave a helper behind, a process that inherited its   *)
(* pipes and keeps them open.  In a sandbox the child runs in the guest,   *)
(* nobody can kill it, and its output comes in one piece when it has       *)
(* ended.  A line is the number it has in its stream.                      *)
(*                                                                         *)
(* Every run is one of the tasks that wait on the token; others, a         *)
(* download for one, wait on it too.                                       *)
(***************************************************************************)
EXTENDS CancellationToken, Sequences, FiniteSets

CONSTANTS
    Runs,           \* commands, each run once
    Jobs,           \* what the callers ask for, a set of [mode, place, ...]
    MaxLines,       \* bound on the lines a child prints on each stream
    CAPACITY        \* of the event channel (256)

ASSUME RunnerAssumption ==
    /\ Runs \subseteq Waiters
    /\ Jobs \subseteq [mode : {"exec", "stream"}, place : {"local", "sandbox"},
                       stdin : BOOLEAN, limit : BOOLEAN]
    /\ MaxLines \in Nat
    /\ CAPACITY \in Nat \ {0}

VARIABLES
    job,            \* job[r]: what r's caller asked for
    rpc,            \* rpc[r]: the task that runs r
    outcome,        \* outcome[r]: how its wait ended
    child,          \* child[r]: "none", "running", "exited", "killed"
    helper,         \* helper[r]: a helper of the child holds its pipes
    wrote,          \* wrote[r][s]: lines printed on stream s
    taken,          \* taken[r][s]: lines read from it
    reader,         \* reader[r][s]: the task that reads s
    writer,         \* writer[r]: the task that writes stdin
    chan,           \* chan[r]: events in the channel
    seen,           \* seen[r]: events received
    rx              \* rx[r]: the caller: "open", "dropped", "ended"

run == <<rpc, outcome>>
procs == <<child, helper, wrote>>
tasks == <<taken, reader, writer>>
ends == <<chan, seen, rx>>
runner == <<job, run, procs, tasks, ends>>
allvars == <<vars, runner>>

Streams == {"out", "err"}
Zero == [s \in Streams |-> 0]
Each(x) == [s \in Streams |-> x]

Line(s, n) == <<s, n>>
Note == <<"note", 0>>           \* stdin write failed
Sentinel == <<"sentinel", 0>>   \* cancelled, timed out, spawn failed
Completed(c) == <<"completed", c>>

Local(r) == job[r].place = "local"
Streaming(r) == job[r].mode = "stream"

RunnerInit ==
    /\ Init
    /\ job \in [Runs -> Jobs]
    /\ rpc = [r \in Runs |-> "new"]
    /\ outcome = [r \in Runs |-> "none"]
    /\ child = [r \in Runs |-> "none"]
    /\ helper = [r \in Runs |-> FALSE]
    /\ wrote = [r \in Runs |-> Zero]
    /\ taken = [r \in Runs |-> Zero]
    /\ reader = [r \in Runs |-> Each("none")]
    /\ writer = [r \in Runs |-> "none"]
    /\ chan = [r \in Runs |-> <<>>]
    /\ seen = [r \in Runs |-> <<>>]
    /\ rx = [r \in Runs |-> "open"]

Goto(r, step) == rpc' = [rpc EXCEPT ![r] = step]

-----------------------------------------------------------------------------
(* The channel.  A send waits for room, and fails at once when the receiver *)
(* has been dropped.                                                        *)
Room(r) == rx[r] = "dropped" \/ Len(chan[r]) < CAPACITY

Send(r, e) ==
    /\ Room(r)
    /\ chan' = IF rx[r] = "dropped" THEN chan ELSE [chan EXCEPT ![r] = Append(@, e)]
    /\ UNCHANGED <<seen, rx>>

\* The tasks that still hold a sender.
ReaderEnded(r, s) == reader[r][s] \in {"none", "done"}
Senders(r) ==
    \/ rpc[r] # "done"
    \/ \E s \in Streams : ~ReaderEnded(r, s)
    \/ writer[r] \in {"writing", "failed"}

Receive(r) ==
    /\ rx[r] = "open"
    /\ chan[r] # <<>>
    /\ seen' = [seen EXCEPT ![r] = Append(@, Head(chan[r]))]
    /\ chan' = [chan EXCEPT ![r] = Tail(@)]
    /\ UNCHANGED <<rx, job, run, procs, tasks, vars>>

\* recv() returns None, and exec joins the task and answers.
ReceiveEnd(r) ==
    /\ rx[r] = "open"
    /\ chan[r] = <<>>
    /\ ~Senders(r)
    /\ rx' = [rx EXCEPT ![r] = "ended"]
    /\ UNCHANGED <<chan, seen, job, run, procs, tasks, vars>>

\* The caller's future, or the receiver it was given, is dropped.  The run
\* has a task of its own, but for exec in a sandbox, which ends with it.
DropRx(r) ==
    /\ rx[r] = "open"
    /\ rpc[r] # "new"
    /\ rx' = [rx EXCEPT ![r] = "dropped"]
    /\ chan' = [chan EXCEPT ![r] = <<>>]
    /\ IF Local(r) \/ Streaming(r)
       THEN UNCHANGED <<rpc, vars>>
       ELSE /\ Goto(r, "done")
            /\ IF rpc[r] = "select" /\ wpc[r] # "returned" THEN DropFuture(r) ELSE UNCHANGED vars
    /\ UNCHANGED <<seen, outcome, job, procs, tasks>>

-----------------------------------------------------------------------------
(* The child, its helper and the tasks on its pipes.                        *)
Holds(r) == child[r] = "running" \/ helper[r]

PrintLine(r, s) ==
    /\ child[r] = "running"
    /\ wrote[r][s] < MaxLines
    /\ Local(r) \/ s = "out"
    /\ wrote' = [wrote EXCEPT ![r][s] = @ + 1]
    /\ UNCHANGED <<child, helper, job, run, tasks, ends, vars>>

Fork(r) ==
    /\ Local(r)
    /\ child[r] = "running"
    /\ ~helper[r]
    /\ helper' = [helper EXCEPT ![r] = TRUE]
    /\ UNCHANGED <<child, wrote, job, run, tasks, ends, vars>>

Exit(r) ==
    /\ child[r] = "running"
    /\ child' = [child EXCEPT ![r] = "exited"]
    /\ UNCHANGED <<helper, wrote, job, run, tasks, ends, vars>>

HelperEnds(r) ==
    /\ helper[r]
    /\ helper' = [helper EXCEPT ![r] = FALSE]
    /\ UNCHANGED <<child, wrote, job, run, tasks, ends, vars>>

Reader(r, s, step) == reader' = [reader EXCEPT ![r][s] = step]

ReadLine(r, s) ==
    /\ reader[r][s] = "reading"
    /\ taken[r][s] < wrote[r][s]
    /\ taken' = [taken EXCEPT ![r][s] = @ + 1]
    /\ Reader(r, s, "sending")
    /\ UNCHANGED <<writer, job, run, procs, ends, vars>>

SendLine(r, s) ==
    /\ reader[r][s] = "sending"
    /\ Send(r, Line(s, taken[r][s]))
    /\ Reader(r, s, IF rx[r] = "dropped" THEN "done" ELSE "reading")
    /\ UNCHANGED <<taken, writer, job, run, procs, vars>>

\* The end of the pipe is seen when nobody holds its other end.
ReadEnd(r, s) ==
    /\ reader[r][s] = "reading"
    /\ taken[r][s] = wrote[r][s]
    /\ ~Holds(r)
    /\ Reader(r, s, "done")
    /\ UNCHANGED <<taken, writer, job, run, procs, ends, vars>>

Writer(r, step) == writer' = [writer EXCEPT ![r] = step]

\* The input is taken, or fits the pipe.
WriteInput(r) ==
    /\ writer[r] = "writing"
    /\ Writer(r, IF Holds(r) THEN "done" ELSE "failed")
    /\ UNCHANGED <<taken, reader, job, run, procs, ends, vars>>

WriteFailed(r) ==
    /\ writer[r] = "failed"
    /\ Send(r, Note)
    /\ Writer(r, "done")
    /\ UNCHANGED <<taken, reader, job, run, procs, vars>>

-----------------------------------------------------------------------------
(* The task of a run.                                                       *)
Ended(r, step, how) ==
    /\ Goto(r, step)
    /\ outcome' = [outcome EXCEPT ![r] = how]

AfterWait(r) == IF Streaming(r) THEN "report" ELSE "done"

Spawn(r) ==
    /\ rpc[r] = "new"
    /\ Local(r) \/ ~job[r].stdin
    /\ Goto(r, "select")
    /\ child' = [child EXCEPT ![r] = "running"]
    /\ reader' = IF Local(r) THEN [reader EXCEPT ![r] = Each("reading")] ELSE reader
    /\ writer' = IF job[r].stdin THEN [writer EXCEPT ![r] = "writing"] ELSE writer
    /\ Enter(r)
    /\ UNCHANGED <<outcome, job, helper, wrote, taken, ends>>

\* No such binary; in a sandbox, an input, which it cannot pass on.
SpawnFails(r) ==
    /\ rpc[r] = "new"
    /\ Local(r) \/ job[r].stdin
    /\ Ended(r, AfterWait(r), "no_spawn")
    /\ UNCHANGED <<job, procs, tasks, ends, vars>>

\* The select!: the child has ended ...
SeeExit(r) ==
    /\ rpc[r] = "select"
    /\ child[r] = "exited"
    /\ IF Local(r)
       THEN Ended(r, "drain", "exited")
       ELSE Ended(r, "blob", "exited") \/ Ended(r, AfterWait(r), "failed")
    /\ DropFuture(r)
    /\ UNCHANGED <<job, procs, tasks, ends>>

\* ... or the token is cancelled ...
SeeCancel(r) ==
    /\ rpc[r] = "select"
    /\ wpc[r] = "returned"
    /\ Ended(r, IF Local(r) THEN "kill" ELSE AfterWait(r), "cancelled")
    /\ UNCHANGED <<job, procs, tasks, ends, vars>>

\* ... or the time is over.
SeeTimeout(r) ==
    /\ rpc[r] = "select"
    /\ job[r].limit
    /\ Ended(r, IF Local(r) THEN "kill" ELSE AfterWait(r), "timed_out")
    /\ DropFuture(r)
    /\ UNCHANGED <<job, procs, tasks, ends>>

\* The wait itself fails (local.rs:131): run() returns at once and drops its
\* child, which is killed; the readers are neither awaited nor aborted.
WaitFails(r) ==
    /\ rpc[r] = "select"
    /\ Local(r)
    /\ Ended(r, AfterWait(r), "wait_failed")
    /\ child' = [child EXCEPT ![r] = IF @ = "running" THEN "killed" ELSE @]
    /\ DropFuture(r)
    /\ UNCHANGED <<job, helper, wrote, tasks, ends>>

\* Fault variant: the child is only asked to end.
KillPolitely(r) ==
    /\ rpc[r] = "kill"
    /\ Goto(r, "abort")
    /\ UNCHANGED <<outcome, job, procs, tasks, ends, vars>>

\* start_kill and wait: a child that has just exited by itself is reaped.
Kill(r) ==
    /\ rpc[r] = "kill"
    /\ child' = [child EXCEPT ![r] = IF @ = "running" THEN "killed" ELSE @]
    /\ Goto(r, "abort")
    /\ UNCHANGED <<outcome, helper, wrote, job, tasks, ends, vars>>

\* Fault variant: the readers of a killed child are awaited.
AbortAwaits(r) ==
    /\ rpc[r] = "abort"
    /\ \A s \in Streams : ReaderEnded(r, s)
    /\ Goto(r, AfterWait(r))
    /\ UNCHANGED <<outcome, job, procs, tasks, ends, vars>>

\* The readers of a killed child are aborted: a helper may hold its pipes.
AbortReaders(r) ==
    /\ rpc[r] = "abort"
    /\ reader' = [reader EXCEPT ![r] = Each("done")]
    /\ Goto(r, AfterWait(r))
    /\ UNCHANGED <<outcome, taken, writer, job, procs, ends, vars>>

\* Fault variant: the readers are not awaited.
DrainNothing(r) ==
    /\ rpc[r] = "drain"
    /\ Goto(r, AfterWait(r))
    /\ UNCHANGED <<outcome, job, procs, tasks, ends, vars>>

\* Fault variant: the readers are aborted, as those of a killed child.
DrainAborts(r) ==
    /\ rpc[r] = "drain"
    /\ reader' = [reader EXCEPT ![r] = Each("done")]
    /\ Goto(r, AfterWait(r))
    /\ UNCHANGED <<outcome, taken, writer, job, procs, ends, vars>>

\* Those of a child that ended by itself are awaited.
DrainReaders(r) ==
    /\ rpc[r] = "drain"
    /\ \A s \in Streams : ReaderEnded(r, s)
    /\ Goto(r, AfterWait(r))
    /\ UNCHANGED <<outcome, job, procs, tasks, ends, vars>>

(* The output of a sandboxed command, in one piece: sent line by line to a  *)
(* stream, returned whole by exec.                                          *)
SendBlob(r) ==
    /\ rpc[r] = "blob"
    /\ Streaming(r)
    /\ taken[r]["out"] < wrote[r]["out"]
    /\ taken' = [taken EXCEPT ![r]["out"] = @ + 1]
    /\ Send(r, Line("out", taken'[r]["out"]))
    /\ IF rx[r] = "dropped" THEN Goto(r, "report") ELSE UNCHANGED rpc
    /\ UNCHANGED <<outcome, reader, writer, job, procs, vars>>

BlobDone(r) ==
    /\ rpc[r] = "blob"
    /\ Streaming(r) => taken[r]["out"] = wrote[r]["out"]
    /\ seen' = IF Streaming(r) THEN seen
               ELSE [seen EXCEPT ![r] = [n \in 1..wrote[r]["out"] |-> Line("out", n)]]
    /\ Goto(r, AfterWait(r))
    /\ UNCHANGED <<outcome, chan, rx, job, procs, tasks, vars>>

\* A stream is told how it ended: a local one that was cut short, and any
\* that failed, by a line on stderr first.
Told(r) == outcome[r] = "exited" \/ (~Local(r) /\ outcome[r] \in {"cancelled", "timed_out"})

Report(r) ==
    /\ rpc[r] = "report"
    /\ IF Told(r) THEN UNCHANGED ends ELSE Send(r, Sentinel)
    /\ Goto(r, "complete")
    /\ UNCHANGED <<outcome, job, procs, tasks, vars>>

Complete(r) ==
    /\ rpc[r] = "complete"
    /\ Send(r, Completed(IF outcome[r] \in {"exited", "failed"} THEN 1 ELSE 0))
    /\ Goto(r, "done")
    /\ UNCHANGED <<outcome, job, procs, tasks, vars>>

Wait(r) == SeeExit(r) \/ SeeCancel(r) \/ SeeTimeout(r)
RunTask(r) ==
    \/ Kill(r) \/ AbortReaders(r) \/ DrainReaders(r)
    \/ SendBlob(r) \/ BlobDone(r) \/ Report(r) \/ Complete(r)
PipeTask(r) ==
    \/ \E s \in Streams : ReadLine(r, s) \/ SendLine(r, s) \/ ReadEnd(r, s)
    \/ WriteInput(r) \/ WriteFailed(r)
Child(r) == (\E s \in Streams : PrintLine(r, s)) \/ Fork(r) \/ Exit(r) \/ HelperEnds(r)
Caller(r) == Receive(r) \/ ReceiveEnd(r) \/ DropRx(r)

\* The token's own steps: a run polls it in its select! only.
Polled(w) == (Check(w) \/ Create(w) \/ Recheck(w) \/ Wake(w)) /\ UNCHANGED runner
TokenNext ==
    \/ \E w \in Waiters : Polled(w)
    \/ \E w \in Waiters \ Runs : (Enter(w) \/ DropFuture(w)) /\ UNCHANGED runner
    \/ \E c \in Cancellers : Canceller(c) /\ UNCHANGED runner

RunnerNext ==
    \/ TokenNext
    \/ \E r \in Runs :
          \/ Spawn(r) \/ SpawnFails(r) \/ WaitFails(r)
          \/ Wait(r) \/ RunTask(r) \/ PipeTask(r)
          \/ Child(r) \/ Caller(r)

(***************************************************************************)
(* tokio runs every task that can go on, and exec's caller awaits it.  No  *)
(* child has to end and no receiver of a stream has to be read.            *)
(***************************************************************************)
RunnerFairness ==
    /\ \A w \in Waiters : WF_allvars(Polled(w))
    /\ \A c \in Cancellers : WF_allvars(NotifyWaiters(c) /\ UNCHANGED runner)
    /\ \A r \in Runs :
          /\ WF_allvars(Wait(r) \/ RunTask(r))
          /\ \A s \in Streams : WF_allvars(ReadLine(r, s) \/ SendLine(r, s) \/ ReadEnd(r, s))
          /\ WF_allvars((WriteInput(r) /\ ~Holds(r)) \/ WriteFailed(r))
          /\ WF_allvars(~Streaming(r) /\ (Receive(r) \/ ReceiveEnd(r)))

RunnerSpec == RunnerInit /\ [][RunnerNext]_allvars /\ RunnerFairness

-----------------------------------------------------------------------------
(***************************************************************************)
(* Types; the channel is never over its capacity; a reader lives no longer *)
(* than its run, so that the Completed of a stream finds none, unless the  *)
(* wait for the child failed, which leaves the readers to themselves       *)
(* (local.rs:131); a run that is over has no child of its own left on the  *)
(* host, and was cut short only by its token.                              *)
(***************************************************************************)
RunnerTypeOK ==
    /\ job \in [Runs -> Jobs]
    /\ rpc \in [Runs -> {"new", "select", "kill", "abort", "drain", "blob",
                         "report", "complete", "done"}]
    /\ outcome \in [Runs -> {"none", "no_spawn", "exited", "failed", "wait_failed", "cancelled", "timed_out"}]
    /\ child \in [Runs -> {"none", "running", "exited", "killed"}]
    /\ helper \in [Runs -> BOOLEAN]
    /\ wrote \in [Runs -> [Streams -> 0..MaxLines]]
    /\ \A r \in Runs, s \in Streams :
          /\ taken[r][s] \in 0..wrote[r][s]
          /\ reader[r][s] \in {"none", "reading", "sending", "done"}
    /\ writer \in [Runs -> {"none", "writing", "failed", "done"}]
    /\ rx \in [Runs -> {"open", "dropped", "ended"}]
    /\ \A r \in Runs : Len(chan[r]) <= CAPACITY

RunOverIsOver ==
    \A r \in Runs : rpc[r] \in {"report", "complete", "done"} =>
        /\ outcome[r] # "wait_failed" => \A s \in Streams : ReaderEnded(r, s)
        /\ Local(r) => child[r] # "running"
        /\ outcome[r] = "cancelled" => cancelled

RunnerInv == RunnerTypeOK /\ RunOverIsOver

Events(r) == seen[r] \o chan[r]
IsCompleted(e) == e[1] = "completed"

(***************************************************************************)
(* "events arrive in order, with `Completed` last" (common/runner.rs:44):  *)
(* nothing follows the Completed of a stream, and nothing can any more,    *)
(* as long as the command is given no input and its wait did not fail.     *)
(* What a failed wait leaves reading may go on sending after Completed,    *)
(* which is then the only one all the same and tells no exit code.         *)
(***************************************************************************)
CompletedLast ==
    \A r \in Runs : Streaming(r) /\ ~job[r].stdin =>
        \A i \in 1..Len(Events(r)) : IsCompleted(Events(r)[i]) =>
            IF outcome[r] = "wait_failed"
            THEN /\ Events(r)[i] = Completed(0)
                 /\ \A j \in 1..Len(Events(r)) : IsCompleted(Events(r)[j]) => j = i
            ELSE i = Len(Events(r)) /\ ~Senders(r)

(***************************************************************************)
(* A command that ended by itself has all its output in the result, each   *)
(* line once and each stream in its order: what exec answers, and what     *)
(* comes before the Completed of a stream.                                 *)
(***************************************************************************)
Tells(evs, s, n) ==     \* the lines of s in evs are the first n, in order
    /\ \A m \in 1..n : \E i \in 1..Len(evs) : evs[i] = Line(s, m)
    /\ \A i \in 1..Len(evs) : evs[i][1] = s => evs[i][2] \in 1..n
    /\ \A i, j \in 1..Len(evs) :
          i < j /\ evs[i][1] = s /\ evs[j][1] = s => evs[i][2] < evs[j][2]

OutputWhole ==
    \A r \in Runs : rx[r] = "ended" /\ outcome[r] = "exited" =>
        \A s \in Streams : Tells(seen[r], s, wrote[r][s])

\* The runner's own state; nothing follows Completed; and the output of a
\* command that ended by itself is whole (runners/local.rs, sandbox.rs).
RunnerHolds == RunnerInv /\ CompletedLast /\ OutputWhole

(***************************************************************************)
(* exec of a command that is cancelled or over its time answers, though a  *)
(* helper holds the pipes for ever (local.rs:4, "the grandchild-pipe-hang  *)
(* pitfall"), and so does exec of one that left no helper.                 *)
(***************************************************************************)
ExecAnswers ==
    \A r \in Runs :
        (/\ ~Streaming(r) /\ ~job[r].stdin
         /\ rpc[r] = "kill" \/ (child[r] = "exited" /\ ~helper[r])) ~> rx[r] # "open"

=============================================================================
