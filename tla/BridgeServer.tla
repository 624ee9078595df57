---------------------------- MODULE BridgeServer ----------------------------
(***************************************************************************)
(* The host bridge that agents in the sandbox call over HTTP                *)
(* (tauri/src/bridge_server/server.rs): file access, command execution with *)
(* the user's approval, and human-in-the-loop (HIL) requests.  All handlers *)
(* share one tokio RwLock and two tokio Notify objects.                     *)
(*                                                                         *)
(* A tokio RwLock is a FIFO queue: a reader behind a waiting writer waits.  *)
(* No handler awaits inside a write guard, nor inside the short read guards *)
(* of the status handlers, so those sections are single steps.  The file    *)
(* and exec handlers are different: `let perms = &state.read().await        *)
(* .permissions` keeps the guard alive to the end of the handler.           *)
(***************************************************************************)
EXTENDS Naturals, Sequences

CONSTANTS
    Handlers,   \* requests in flight at a time
    Kinds,      \* the requests that come in
    None        \* an empty slot

\* What can_exec says of a command is part of the request: "exec" asks for
\* one that needs the user's approval (the default), "run" for one that is
\* allowed outright.
AllKinds == {"status", "file", "exec", "run", "hil", "complete", "approve", "deny"}

ASSUME KindsAssumption == Kinds \subseteq AllKinds
ASSUME NoneAssumption == None \notin Handlers

VARIABLES
    kind,       \* the request each handler serves
    pc,         \* idle, lock, busy, store, poll, await, clear
    answer,     \* what it answered last
    readers,    \* handlers that hold a read guard across an await
    queue,      \* the lock's wait queue
    slot,       \* hil_pending and approval_pending
    decision,   \* approval_decision
    dialog,     \* the GUI shows the approval dialog
    permit,     \* the permit each Notify stores
    waiters,    \* its waiting Notified futures, first come first served
    woken       \* handlers whose Notified has fired

lock == <<readers, queue>>
notify == <<permit, waiters, woken>>
server == <<kind, pc, answer, lock, slot, decision, dialog, notify>>

Channels == {"hil", "exec"}

ServerTypeOK ==
    /\ kind \in [Handlers -> AllKinds]
    /\ pc \in [Handlers -> {"idle", "lock", "busy", "store", "poll", "await",
                            "clear"}]
    /\ answer \in [Handlers -> {"none", "ok", "forbidden", "timeout"}]
    /\ readers \subseteq Handlers
    /\ queue \in Seq(Handlers)
    /\ slot \in [Channels -> Handlers \cup {None}]
    /\ decision \in {"none", "approved", "denied"}
    /\ dialog \in BOOLEAN
    /\ permit \in [Channels -> BOOLEAN]
    /\ waiters \in [Channels -> Seq(Handlers)]
    /\ woken \subseteq Handlers

ServerInit ==
    /\ kind = [h \in Handlers |-> "status"]
    /\ pc = [h \in Handlers |-> "idle"]
    /\ answer = [h \in Handlers |-> "none"]
    /\ readers = {}
    /\ queue = <<>>
    /\ slot = [ch \in Channels |-> None]
    /\ decision = "none"
    /\ dialog = FALSE
    /\ permit = [ch \in Channels |-> FALSE]
    /\ waiters = [ch \in Channels |-> <<>>]
    /\ woken = {}

-----------------------------------------------------------------------------
Elements(s) == {s[i] : i \in 1 .. Len(s)}

\* A future that is dropped or has run out takes its one node out of a list.
Leave(s, h) ==
    IF h \in Elements(s)
      THEN LET i == CHOOSE i \in 1 .. Len(s) : s[i] = h
           IN SubSeq(s, 1, i - 1) \o SubSeq(s, i + 1, Len(s))
      ELSE s

ServerGoto(h, s) == pc' = [pc EXCEPT ![h] = s]

Reply(h, a) ==
    /\ ServerGoto(h, "idle")
    /\ answer' = [answer EXCEPT ![h] = a]

\* It is h's turn in the lock's queue, to read or to write.
MayRead(h) == queue # <<>> /\ Head(queue) = h
MayWrite(h) == MayRead(h) /\ readers = {}

(* A request arrives and queues for the lock.  The GUI posts approve or deny *)
(* from its dialog only; "complete" whenever the user ends an interactive    *)
(* browser session, whoever began it.                                        *)
Arrive(h, k) ==
    /\ pc[h] = "idle"
    /\ k \in {"approve", "deny"} => dialog
    /\ kind' = [kind EXCEPT ![h] = k]
    /\ ServerGoto(h, IF k = "hil" THEN "store" ELSE "lock")
    /\ answer' = [answer EXCEPT ![h] = "none"]
    /\ queue' = Append(queue, h)
    /\ UNCHANGED <<readers, slot, decision, dialog, notify>>

(* hil_status, exec_pending, permissions: read and answer. *)
Status(h) ==
    /\ pc[h] = "lock" /\ kind[h] = "status"
    /\ MayRead(h)
    /\ Reply(h, "ok")
    /\ queue' = Tail(queue)
    /\ UNCHANGED <<kind, readers, slot, decision, dialog, notify>>

(* Permission denied: the guard goes with the handler. *)
Forbid(h) ==
    /\ pc[h] = "lock" /\ kind[h] \in {"file", "exec", "run"}
    /\ MayRead(h)
    /\ Reply(h, "forbidden")
    /\ queue' = Tail(queue)
    /\ UNCHANGED <<kind, readers, slot, decision, dialog, notify>>

(* Permission granted: the I/O, or the command, runs under the guard. *)
Allow(h) ==
    /\ pc[h] = "lock" /\ kind[h] \in {"file", "run"}
    /\ MayRead(h)
    /\ ServerGoto(h, "busy")
    /\ readers' = readers \cup {h}
    /\ queue' = Tail(queue)
    /\ UNCHANGED <<kind, answer, slot, decision, dialog, notify>>

\* Fault variant: the guard is released before the approval is asked for.
AskApprovalUnlocked(h) ==
    /\ pc[h] = "lock" /\ kind[h] = "exec"
    /\ MayRead(h)
    /\ ServerGoto(h, "store")
    /\ queue' = Append(Tail(queue), h)
    /\ UNCHANGED <<kind, answer, readers, slot, decision, dialog, notify>>

(* exec needs the user: queue for the write guard, with the read guard held. *)
AskApproval(h) ==
    /\ pc[h] = "lock" /\ kind[h] = "exec"
    /\ MayRead(h)
    /\ ServerGoto(h, "store")
    /\ readers' = readers \cup {h}
    /\ queue' = Append(Tail(queue), h)
    /\ UNCHANGED <<kind, answer, slot, decision, dialog, notify>>

\* Fault variant: the read guard outlives the handler.
FinishLeaks(h) ==
    /\ pc[h] = "busy"
    /\ Reply(h, "ok")
    /\ UNCHANGED <<kind, lock, slot, decision, dialog, notify>>

Finish(h) ==
    /\ pc[h] = "busy"
    /\ Reply(h, "ok")
    /\ readers' = readers \ {h}
    /\ UNCHANGED <<kind, queue, slot, decision, dialog, notify>>

(* hil_request and exec: put the request in its slot and tell the frontend. *)
Store(h) ==
    /\ pc[h] = "store"
    /\ MayWrite(h)
    /\ slot' = [slot EXCEPT ![kind[h]] = h]
    /\ decision' = IF kind[h] = "exec" THEN "none" ELSE decision
    /\ dialog' = (dialog \/ kind[h] = "exec")
    /\ queue' = Tail(queue)
    /\ ServerGoto(h, "poll")
    /\ UNCHANGED <<kind, answer, readers, notify>>

(* First poll of notified(): a stored permit is taken, else h waits. *)
Poll(h) ==
    /\ pc[h] = "poll"
    /\ ServerGoto(h, "await")
    /\ IF permit[kind[h]]
         THEN /\ permit' = [permit EXCEPT ![kind[h]] = FALSE]
              /\ woken' = woken \cup {h}
              /\ UNCHANGED waiters
         ELSE /\ waiters' = [waiters EXCEPT ![kind[h]] = Append(@, h)]
              /\ UNCHANGED <<permit, woken>>
    /\ UNCHANGED <<kind, answer, lock, slot, decision, dialog>>

\* notify_one: wake the first waiter, or store a permit.
NotifyOne(ch, ws, wk) ==
    IF ws = <<>>
      THEN /\ permit' = [permit EXCEPT ![ch] = TRUE]
           /\ waiters' = [waiters EXCEPT ![ch] = ws]
           /\ woken' = wk
      ELSE /\ waiters' = [waiters EXCEPT ![ch] = Tail(ws)]
           /\ woken' = wk \cup {Head(ws)}
           /\ UNCHANGED permit

\* Fault variant: a wait that timed out stays in the Notify's list.
EndWaitStaysListed(h) ==
    /\ pc[h] = "await"
    /\ ServerGoto(h, "clear")
    /\ answer' = [answer EXCEPT ![h] = IF h \in woken THEN "ok" ELSE "timeout"]
    /\ woken' = woken \ {h}
    /\ queue' = Append(queue, h)
    /\ UNCHANGED <<kind, readers, slot, decision, dialog, permit, waiters>>

(* The wait ends, by a notification or by the timeout (60 s for an approval, *)
(* 600 s for HIL); either way the handler queues to clear its slot.          *)
EndWait(h) ==
    /\ pc[h] = "await"
    /\ ServerGoto(h, "clear")
    /\ answer' = [answer EXCEPT ![h] = IF h \in woken THEN "ok" ELSE "timeout"]
    /\ woken' = woken \ {h}
    /\ waiters' = [waiters EXCEPT ![kind[h]] = Leave(@, h)]
    /\ queue' = Append(queue, h)
    /\ UNCHANGED <<kind, readers, slot, decision, dialog, permit>>

(* The slot is cleared; hil answers, exec acts on the decision. *)
Clear(h) ==
    /\ pc[h] = "clear"
    /\ MayWrite(h)
    /\ slot' = [slot EXCEPT ![kind[h]] = None]
    /\ queue' = Tail(queue)
    /\ IF kind[h] = "hil"
         THEN Reply(h, answer[h]) /\ UNCHANGED <<decision, readers>>
         ELSE /\ decision' = "none"
              /\ IF answer[h] = "ok" /\ decision = "approved"
                   THEN ServerGoto(h, "busy") /\ UNCHANGED <<answer, readers>>
                   ELSE Reply(h, "forbidden") /\ readers' = readers \ {h}
    /\ UNCHANGED <<kind, dialog, notify>>

(* The user's answer: hil_complete under a read guard, approve and deny      *)
(* under a write guard.                                                      *)
UserAnswers(h) ==
    /\ pc[h] = "lock" /\ kind[h] \in {"complete", "approve", "deny"}
    /\ IF kind[h] = "complete" THEN MayRead(h) ELSE MayWrite(h)
    /\ LET ch == IF kind[h] = "complete" THEN "hil" ELSE "exec"
       IN NotifyOne(ch, waiters[ch], woken)
    /\ decision' = CASE kind[h] = "approve" -> "approved"
                     [] kind[h] = "deny"    -> "denied"
                     [] OTHER               -> decision
    /\ dialog' = (dialog /\ kind[h] = "complete")
    /\ queue' = Tail(queue)
    /\ Reply(h, "ok")
    /\ UNCHANGED <<kind, readers, slot>>

(* The client goes away (hil-skill gives up after its own 600 s): hyper      *)
(* drops the handler's future, its guard and its place in the queues; a      *)
(* notification it had been given passes to the next waiter.                 *)
Disconnect(h) ==
    /\ pc[h] # "idle"
    /\ Reply(h, "none")
    /\ readers' = readers \ {h}
    /\ queue' = Leave(queue, h)
    /\ IF h \in woken
         THEN NotifyOne(kind[h], waiters[kind[h]], woken \ {h})
         ELSE /\ waiters' = [ch \in Channels |-> Leave(waiters[ch], h)]
              /\ UNCHANGED <<permit, woken>>
    /\ UNCHANGED <<kind, slot, decision, dialog>>

Serve(h) ==
    \/ Status(h)
    \/ Forbid(h)
    \/ Allow(h)
    \/ AskApproval(h)
    \/ Finish(h)
    \/ Store(h)
    \/ Poll(h)
    \/ EndWait(h)
    \/ Clear(h)
    \/ UserAnswers(h)

ServerNext ==
    \E h \in Handlers :
        \/ \E k \in Kinds : Arrive(h, k)
        \/ Serve(h)
        \/ Disconnect(h)

\* A command that was allowed outright runs, without a limit on its time and
\* under the read guard (server.rs:329).
Running(h) == kind[h] = "run" /\ pc[h] = "busy"

(* tokio polls a handler that can go on, timers fire, and the file I/O under *)
(* a guard ends.  An allowed command need not end.                           *)
Served(h) == Serve(h) /\ ~Running(h)
ServerFairness == \A h \in Handlers : WF_server(Served(h))

ServerSpec == ServerInit /\ [][ServerNext]_server /\ ServerFairness

-----------------------------------------------------------------------------
(* Properties *)

\* An exec request waits for the write guard under its own read guard.
Stuck(h) == kind[h] = "exec" /\ pc[h] = "store" /\ h \in readers

(* Every request is answered in the end, whatever else the bridge serves,   *)
(* unless a command that needs approval is among them, or an allowed one    *)
(* never ends: nothing but those two handlers' guards (server.rs:285-300,   *)
(* 329) leaves a request in the queue for good.                             *)
RequestsAnswered ==
    (\A g \in Handlers : []<>~Running(g)) =>
        \A h \in Handlers :
            (pc[h] # "idle") ~> (pc[h] = "idle" \/ \E g \in Handlers : Stuck(g))

(* "Block until user approves/denies (60s timeout)" (server.rs:309): an exec *)
(* request that needs approval is answered, at the latest after the timeout. *)
ApprovalEnds ==
    \A h \in Handlers : (pc[h] # "idle" /\ kind[h] = "exec") ~> (pc[h] = "idle")

(* An exec request that asks for approval holds the read guard that keeps    *)
(* its own write guard from it: the approval dialog never opens, and no      *)
(* command that needs an approval runs, approved or not.                     *)
ApprovalUnreached ==
    /\ ~dialog
    /\ \A h \in Handlers : kind[h] = "exec" =>
          /\ pc[h] \notin {"poll", "await", "clear", "busy"}
          /\ pc[h] = "store" => h \in readers

(* A handler is in the lock's queue once, and only while it waits for the    *)
(* lock; a read guard is held across an await by the handlers whose `perms`  *)
(* borrows from it and by no other, and never after they answered.           *)
LockInv ==
    /\ \A i, j \in 1 .. Len(queue) : queue[i] = queue[j] => i = j
    /\ Elements(queue) = {h \in Handlers : pc[h] \in {"lock", "store", "clear"}}
    /\ readers = {h \in Handlers :
                    \/ pc[h] = "busy"
                    \/ kind[h] = "exec" /\ pc[h] \in {"store", "poll", "await", "clear"}}

(* A notification is for a request that waits now, or is kept as a permit    *)
(* because none does; one that ended, by timeout or disconnect, takes none.  *)
NotifyInv ==
    /\ woken \subseteq {h \in Handlers : pc[h] = "await"}
    /\ \A ch \in Channels :
          /\ Elements(waiters[ch]) =
                {h \in Handlers \ woken : pc[h] = "await" /\ kind[h] = ch}
          /\ permit[ch] => waiters[ch] = <<>>

ServerInv == ServerTypeOK /\ LockInv /\ NotifyInv

=============================================================================
