---------------------------- MODULE BackendSlot ----------------------------
(***************************************************************************)
(* What the callers of a sandbox backend rely on: under each name there is  *)
(* nothing, or one VM (or container) that is whole or only begun, and up or *)
(* down.  A VM is begun and completed by create, arrives complete and       *)
(* stopped by an import, and goes as a whole: it never loses what it was    *)
(* provisioned with and stays.  InstanceLifecycle keeps this much of a VM;  *)
(* SandboxBackend shows that the files, processes and registrations of      *)
(* lima, wsl2 and podman amount to it.                                      *)
(***************************************************************************)
CONSTANT Names

VARIABLE machine

Machine == [there : {TRUE}, whole : BOOLEAN, up : BOOLEAN]
Nothing == [there |-> FALSE, whole |-> FALSE, up |-> FALSE]

SlotInit == machine = [n \in Names |-> Nothing]

Becomes(n, m) == machine' = [machine EXCEPT ![n] = m]

\* create() has had the tool register the name, or an import has filled it.
Begun(n) == machine[n] = Nothing /\ \E m \in Machine : Becomes(n, m)

\* Provisioned, started or stopped.
Goes(n) ==
    /\ machine[n] # Nothing
    /\ \E m \in Machine : (machine[n].whole => m.whole) /\ Becomes(n, m)

Gone(n) == machine[n] # Nothing /\ Becomes(n, Nothing)

Moved(n, m) ==
    /\ machine[n] # Nothing /\ ~machine[n].up
    /\ machine[m] = Nothing
    /\ machine' = [machine EXCEPT ![n] = Nothing, ![m] = machine[n]]

\* The host restarts.
AllDown == machine' = [n \in Names |-> [machine[n] EXCEPT !.up = FALSE]]

SlotNext ==
    \/ AllDown
    \/ \E n \in Names : Begun(n) \/ Goes(n) \/ Gone(n) \/ \E m \in Names : Moved(n, m)

SlotSpec == SlotInit /\ [][SlotNext]_machine

=============================================================================
