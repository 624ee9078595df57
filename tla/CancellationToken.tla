------------------------- MODULE CancellationToken -------------------------
(***************************************************************************)
(* The cancel signal every long operation takes (core/src/common/cancel.rs):*)
(* an atomic flag and a tokio Notify.  `cancel` swaps the flag and, if it   *)
(* was the first, wakes the waiters; `cancelled` returns once the flag is   *)
(* set.  Notify::notify_waiters stores nothing: it wakes the Notified       *)
(* futures that exist when it is called and is forgotten.                   *)
(***************************************************************************)
EXTENDS Naturals

CONSTANTS
    Waiters,    \* tasks that await `cancelled()`
    Cancellers  \* tasks that call `cancel()`

VARIABLES
    cancelled,  \* the flag
    calls,      \* notify_waiters calls so far
    wpc,        \* where a waiter is in `cancelled()`
    ticket,     \* calls when a waiter's Notified was created
    cpc         \* where a canceller is in `cancel()`

vars == <<cancelled, calls, wpc, ticket, cpc>>

TypeOK ==
    /\ cancelled \in BOOLEAN
    /\ calls \in 0 .. 1
    /\ wpc \in [Waiters -> {"out", "check", "create", "recheck", "await", "returned"}]
    /\ ticket \in [Waiters -> 0 .. 1]
    /\ cpc \in [Cancellers -> {"idle", "notify", "done"}]

Init ==
    /\ cancelled = FALSE
    /\ calls = 0
    /\ wpc = [w \in Waiters |-> "out"]
    /\ ticket = [w \in Waiters |-> 0]
    /\ cpc = [c \in Cancellers |-> "idle"]

-----------------------------------------------------------------------------
WGoto(w, s) == wpc' = [wpc EXCEPT ![w] = s]
CGoto(c, s) == cpc' = [cpc EXCEPT ![c] = s]

\* Fault variant: a plain store and a notify by every caller.
SwapAlwaysNotifies(c) ==
    /\ cpc[c] = "idle"
    /\ cancelled' = TRUE
    /\ CGoto(c, "notify")
    /\ UNCHANGED <<calls, wpc, ticket>>

(* cancel: `swap(true)`; only the first caller goes on to notify. *)
Swap(c) ==
    /\ cpc[c] = "idle"
    /\ cancelled' = TRUE
    /\ CGoto(c, IF cancelled THEN "done" ELSE "notify")
    /\ UNCHANGED <<calls, wpc, ticket>>

NotifyWaiters(c) ==
    /\ cpc[c] = "notify"
    /\ calls' = calls + 1
    /\ CGoto(c, "done")
    /\ UNCHANGED <<cancelled, wpc, ticket>>

(* A task calls cancelled(), also again after an earlier call was dropped   *)
(* by its select!.                                                          *)
Enter(w) ==
    /\ wpc[w] = "out"
    /\ WGoto(w, "check")
    /\ UNCHANGED <<cancelled, calls, ticket, cpc>>

Check(w) ==
    /\ wpc[w] = "check"
    /\ WGoto(w, IF cancelled THEN "returned" ELSE "create")
    /\ UNCHANGED <<cancelled, calls, ticket, cpc>>

(* `let notified = notify.notified()` *)
Create(w) ==
    /\ wpc[w] = "create"
    /\ ticket' = [ticket EXCEPT ![w] = calls]
    /\ WGoto(w, "recheck")
    /\ UNCHANGED <<cancelled, calls, cpc>>

\* Fault variant: goes straight to the await.
RecheckSkipped(w) ==
    /\ wpc[w] = "recheck"
    /\ WGoto(w, "await")
    /\ UNCHANGED <<cancelled, calls, ticket, cpc>>

(* The flag is read again after the Notified exists. *)
Recheck(w) ==
    /\ wpc[w] = "recheck"
    /\ WGoto(w, IF cancelled THEN "returned" ELSE "await")
    /\ UNCHANGED <<cancelled, calls, ticket, cpc>>

(* `notified.await`: ready when a notify_waiters came after the creation. *)
Wake(w) ==
    /\ wpc[w] = "await"
    /\ calls # ticket[w]
    /\ WGoto(w, "returned")
    /\ UNCHANGED <<cancelled, calls, ticket, cpc>>

(* Another branch of the caller's select! wins: the future is dropped. *)
DropFuture(w) ==
    /\ wpc[w] \in {"check", "create", "recheck", "await"}
    /\ WGoto(w, "out")
    /\ UNCHANGED <<cancelled, calls, ticket, cpc>>

Waiter(w) == Enter(w) \/ Check(w) \/ Create(w) \/ Recheck(w) \/ Wake(w)
Canceller(c) == Swap(c) \/ NotifyWaiters(c)

Next ==
    \/ \E w \in Waiters : Waiter(w) \/ DropFuture(w)
    \/ \E c \in Cancellers : Canceller(c)

(* tokio polls a task that can go on; nothing makes anyone start a call.     *)
Fairness ==
    /\ \A w \in Waiters : WF_vars(Check(w) \/ Create(w) \/ Recheck(w) \/ Wake(w))
    /\ \A c \in Cancellers : WF_vars(NotifyWaiters(c))

Spec == Init /\ [][Next]_vars /\ Fairness

-----------------------------------------------------------------------------
(* Properties *)

(* A task that sleeps in `cancelled()` after the token was cancelled has a   *)
(* wake-up coming: it can go on now, or a canceller is about to notify.      *)
NoLostCancel ==
    \A w \in Waiters :
        wpc[w] = "await" /\ cancelled =>
            \/ calls # ticket[w]
            \/ \E c \in Cancellers : cpc[c] = "notify"

(* `cancelled()` returns only on a cancelled token: an operation is never    *)
(* aborted by a spurious wake-up.                                            *)
ReturnsOnlyIfCancelled ==
    \A w \in Waiters : wpc[w] = "returned" => cancelled

(* What makes the two inductive: the one notify belongs to the one caller    *)
(* whose swap came first, and a ticket is never newer than the calls.        *)
OneNotify ==
    /\ calls = 1 => cancelled /\ \A c \in Cancellers : cpc[c] # "notify"
    /\ cancelled => calls = 1 \/ \E c \in Cancellers : cpc[c] = "notify"
    /\ \A c, d \in Cancellers :
          cpc[c] = "notify" /\ cpc[d] = "notify" => c = d
    /\ \A c \in Cancellers : cpc[c] # "idle" => cancelled
    /\ \A w \in Waiters : ticket[w] <= calls
    /\ \A w \in Waiters : wpc[w] = "await" => ticket[w] = 0

Inv == TypeOK /\ OneNotify /\ NoLostCancel /\ ReturnsOnlyIfCancelled

(* Every task that waits on a cancelled token stops waiting. *)
CancelReachesWaiters ==
    \A w \in Waiters :
        (cancelled /\ wpc[w] \in {"check", "create", "recheck", "await"})
          ~> (wpc[w] \in {"returned", "out"})

=============================================================================
