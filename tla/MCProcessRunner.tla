--------------------------- MODULE MCProcessRunner ---------------------------
(***************************************************************************)
(* A small instance of ProcessRunner for TLC.  A behaviour is of one       *)
(* scenario:                                                               *)
(*   run    one command, of any job, and a user who cancels it;            *)
(*   token  two other tasks wait on the token, and two cancel it.          *)
(***************************************************************************)
EXTENDS ProcessRunner

CONSTANTS cmd, fetch, update, user, quit

VARIABLE scenario

Job(mode, place, stdin, limit) ==
    [mode |-> mode, place |-> place, stdin |-> stdin, limit |-> limit]

\* Either mode at either place, with a time limit; with an input; and exec
\* without a limit.
MCJobs ==
    {Job(m, p, FALSE, TRUE) : m \in {"exec", "stream"}, p \in {"local", "sandbox"}}
      \union {Job(m, "local", TRUE, FALSE) : m \in {"exec", "stream"}}
      \union {Job("exec", "local", FALSE, FALSE), Job("stream", "sandbox", TRUE, FALSE)}

MCInit == RunnerInit /\ scenario \in {"run", "token"}

MCNext ==
    /\ RunnerNext
    /\ UNCHANGED scenario
    /\ scenario = "run" =>
          /\ \A w \in Waiters \ Runs : UNCHANGED wpc[w]
          /\ UNCHANGED cpc[quit]
    /\ scenario = "token" => UNCHANGED runner

MCSpec == MCInit /\ [][MCNext]_<<allvars, scenario>> /\ RunnerFairness

=============================================================================
