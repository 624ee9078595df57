--------------------------- MODULE AtomicRegistry ---------------------------
(***************************************************************************)
(* What a caller of the instance registry counts on: between its call and   *)
(* its return an operation takes effect on the record table at one instant, *)
(* or fails and has no effect.                                              *)
(***************************************************************************)
CONSTANTS Procs, Names, Recs, NoRec

VARIABLES
    reg,     \* the record table
    phase,   \* idle, called, ok or err, for each process
    op,      \* the operation each process is in
    ret      \* the table that the last operation of a process returned

vars == <<reg, phase, op, ret>>

Table == [Names -> Recs \cup {NoRec}]
EmptyTable == [n \in Names |-> NoRec]

NoOp == [kind |-> "none"]
Ops == [kind : {"list"}]
         \cup [kind : {"insert", "update"}, name : Names, rec : Recs]
         \cup [kind : {"remove"}, name : Names]

Init ==
    /\ reg = EmptyTable
    /\ phase = [p \in Procs |-> "idle"]
    /\ op = [p \in Procs |-> NoOp]
    /\ ret = [p \in Procs |-> EmptyTable]

Call(p, o) ==
    /\ phase[p] # "called"
    /\ phase' = [phase EXCEPT ![p] = "called"]
    /\ op' = [op EXCEPT ![p] = o]
    /\ ret' = [ret EXCEPT ![p] = EmptyTable]
    /\ UNCHANGED reg

Return(p, s, t) ==
    /\ phase[p] = "called"
    /\ phase' = [phase EXCEPT ![p] = s]
    /\ op' = [op EXCEPT ![p] = NoOp]
    /\ ret' = [ret EXCEPT ![p] = t]

List(p) ==
    /\ op[p].kind = "list"
    /\ Return(p, "ok", reg)
    /\ UNCHANGED reg

Insert(p) ==
    /\ op[p].kind = "insert"
    /\ reg[op[p].name] = NoRec
    /\ reg' = [reg EXCEPT ![op[p].name] = op[p].rec]
    /\ Return(p, "ok", EmptyTable)

Update(p) ==
    /\ op[p].kind = "update"
    /\ reg[op[p].name] # NoRec
    /\ reg' = [reg EXCEPT ![op[p].name] = op[p].rec]
    /\ Return(p, "ok", EmptyTable)

Remove(p) ==
    /\ op[p].kind = "remove"
    /\ reg[op[p].name] # NoRec
    /\ reg' = [reg EXCEPT ![op[p].name] = NoRec]
    /\ Return(p, "ok", EmptyTable)

Fail(p) ==
    /\ Return(p, "err", EmptyTable)
    /\ UNCHANGED reg

Step(p) ==
    \/ \E o \in Ops : Call(p, o)
    \/ List(p)
    \/ Insert(p)
    \/ Update(p)
    \/ Remove(p)
    \/ Fail(p)

Next == \E p \in Procs : Step(p)

Spec == Init /\ [][Next]_vars

=============================================================================
