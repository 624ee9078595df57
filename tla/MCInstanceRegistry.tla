------------------------ MODULE MCInstanceRegistry ------------------------
(***************************************************************************)
(* Small instances of InstanceRegistry for TLC.  One run follows the file  *)
(* of a host where only clawcli writes (the variables of InstanceRegistry) *)
(* or the file of a host where the GUI writes too (the copies             *)
(* path2 .. file2); a behaviour is of the one or of the other.             *)
(***************************************************************************)
EXTENDS InstanceRegistry

CONSTANTS gui, cli, r1

VARIABLES
    host,   \* which of the two hosts this behaviour is of
    path2, tmp2, fd2, pc2, op2, file2

Both == INSTANCE InstanceRegistry
          WITH Writers <- Procs, Recs <- {r1}, path <- path2, tmp <- tmp2, fd <- fd2,
               pc <- pc2, op <- op2, file <- file2

mcvars == <<vars, host, path2, tmp2, fd2, pc2, op2, file2>>

MCInit == host \in {"sole", "both"} /\ Init /\ Both!Init

SoleNext == host = "sole" /\ Next /\ UNCHANGED <<host, path2, tmp2, fd2, pc2, op2, file2>>
BothNext == host = "both" /\ Both!Next /\ UNCHANGED <<host, vars>>

MCSpec == MCInit /\ [][SoleNext \/ BothNext]_mcvars

\* The file of one writer never vanishes, and that of two does not either: a
\* lost update may drop a record, but no save, crash or race over the one
\* temporary file leaves a moment when every instance looks uninstalled
\* (config.rs:123, load of a missing file).
FileStaysWithTwo == FileStays /\ Both!FileStays

(* cli_bridge's per-instance lock: two operations the GUI runs at the same  *)
(* time never name the same instance (tauri/src/cli_bridge.rs:51).          *)
LockHeld ==
    \A p, q \in Procs :
        p # q /\ pc[p] \in Calling /\ pc[q] \in Calling
              /\ op[p].kind # "list" /\ op[q].kind # "list"
          => op[p].name # op[q].name

LockedNext == Next /\ LockHeld' /\ UNCHANGED <<host, path2, tmp2, fd2, pc2, op2, file2>>
LockedSpec == MCInit /\ [][LockedNext]_mcvars

=============================================================================
