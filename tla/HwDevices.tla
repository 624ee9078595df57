------------------------------ MODULE HwDevices ------------------------------
(***************************************************************************)
(* The hardware devices of the bridge server (tauri/src/bridge_server/     *)
(* server.rs): they register over HTTP, hold a WebSocket open, and are     *)
(* sent notifications, over their socket or by a callback to their URL.    *)
(* Every handler takes the server's lock once for what it does, so it is   *)
(* one step; a WebSocket's task takes it when it starts and when it ends,  *)
(* and is interleaved with everything in between.                          *)
(*                                                                         *)
(* A device id is generated by a registration and never used again.  The   *)
(* token check, which ends a request before it changes anything, is left   *)
(* out; so are a device's pings, which are answered and change nothing.    *)
(***************************************************************************)
EXTENDS Naturals, FiniteSets, FiniteSetsExt

CONSTANTS
    Ids,            \* the device ids registrations will get
    Urls,           \* the devices that give a callback URL
    Conns,          \* WebSocket connections
    NoId,           \* a socket opened without a device_id
    All,            \* a notification's target "*"
    BUS_CAPACITY,       \* of the broadcast channels
    TTL,            \* HW_DEVICE_TTL_SECS, in ticks
    MaxNotes        \* bound on the notifications posted

ASSUME DevicesAssumption ==
    /\ Urls \subseteq Ids
    /\ NoId \notin Ids /\ All \notin Ids \union {NoId}
    /\ BUS_CAPACITY \in Nat \ {0}
    /\ TTL \in Nat \ {0}
    /\ MaxNotes \in Nat

VARIABLES
    devices,        \* hw_devices, by id
    age,            \* age[d]: time since d's last_seen
    known,          \* ids given out so far
    wsIds,          \* hw_ws_device_ids
    sock,           \* sock[c]: what c's task is at
    owner,          \* owner[c]: the device_id c was opened with
    alive,          \* alive[c]: the device's end of c is still there
    early,          \* devices that have at some time reconnected before the
                    \* server had seen their last socket close
    inbox,          \* inbox[c]: notifications its two receivers hold
    callbacks,      \* <<note, device>>: HTTP callbacks under way
    got,            \* got[n][d]: how many times device d was given note n
    target          \* target[n]: of notification n, NoId if not yet posted

reg == <<devices, age, known>>
net == <<sock, owner, alive, early>>
out == <<inbox, callbacks, got, target>>
hw == <<reg, wsIds, net, out>>

HwInit ==
    /\ devices = {}
    /\ age = [d \in Ids |-> 0]
    /\ known = {}
    /\ wsIds = {}
    /\ sock = [c \in Conns |-> "closed"]
    /\ owner = [c \in Conns |-> NoId]
    /\ alive = [c \in Conns |-> FALSE]
    /\ early = {}
    /\ inbox = [c \in Conns |-> {}]
    /\ callbacks = {}
    /\ got = [n \in 1..MaxNotes |-> [d \in Ids |-> 0]]
    /\ target = [n \in 1..MaxNotes |-> NoId]

Give(n, d) == got' = IF d \in Ids THEN [got EXCEPT ![n][d] = @ + 1] ELSE got

-----------------------------------------------------------------------------
\* A registration also drops the devices whose last_seen is too old.
Fresh(ds) == {d \in ds : age[d] < TTL}

RegisterDevice(d) ==
    /\ d \in Ids \ known
    /\ devices' = Fresh(devices) \union {d}
    /\ known' = known \union {d}
    /\ age' = [age EXCEPT ![d] = 0]
    /\ UNCHANGED <<wsIds, net, out>>

UnregisterDevice(d) ==
    /\ d \in known
    /\ devices' = devices \ {d}
    /\ wsIds' = wsIds \ {d}
    /\ UNCHANGED <<age, known, net, out>>

Subscribed == {c \in Conns : sock[c] \in {"open", "closing"}}

\* The part of a box that came over hw_notify_tx, or over hw_targeted_tx.
Channel(box, to) == {m \in box : (target[m] = All) <=> (to = All)}

\* A device opens a socket under its id, or without one.  It holds one at a
\* time, but may reconnect while the server still has its last one.
Open(c, d) ==
    /\ sock[c] = "closed"
    /\ d \in known \union {NoId}
    /\ \A b \in Conns : d \in Ids /\ owner[b] = d => ~alive[b]
    /\ early' = IF d \in Ids /\ \E b \in Conns : owner[b] = d THEN early \union {d} ELSE early
    /\ sock' = [sock EXCEPT ![c] = "opening"]
    /\ owner' = [owner EXCEPT ![c] = d]
    /\ alive' = [alive EXCEPT ![c] = TRUE]
    /\ UNCHANGED <<reg, wsIds, out>>

\* hw_ws_connection starts: the id is noted, last_seen touched, the two
\* channels are subscribed to.
Connect(c) ==
    /\ sock[c] = "opening"
    /\ sock' = [sock EXCEPT ![c] = "open"]
    /\ IF owner[c] = NoId
       THEN UNCHANGED <<wsIds, age>>
       ELSE /\ wsIds' = wsIds \union {owner[c]}
            /\ age' = IF owner[c] \in devices THEN [age EXCEPT ![owner[c]] = 0] ELSE age
    /\ UNCHANGED <<devices, known, owner, alive, early, out>>

\* The select loop takes the oldest of one of its receivers. A targeted one
\* for another device is passed over; a send that fails ends the loop, but
\* one to a socket whose end is gone need not fail.
ForUs(c, n) == target[n] \in {All, owner[c]}

Forward(c, n) ==
    /\ sock[c] = "open"
    /\ n \in inbox[c]
    /\ n = Min(Channel(inbox[c], target[n]))
    /\ inbox' = [inbox EXCEPT ![c] = @ \ {n}]
    /\ IF alive[c] /\ ForUs(c, n) THEN Give(n, owner[c]) ELSE UNCHANGED got
    /\ \/ UNCHANGED sock
       \/ ~alive[c] /\ ForUs(c, n) /\ sock' = [sock EXCEPT ![c] = "closing"]
    /\ UNCHANGED <<reg, wsIds, owner, alive, early, callbacks, target>>

\* The device's end goes away; the loop sees it later, or never.
Hangup(c) ==
    /\ sock[c] \in {"opening", "open"}
    /\ alive[c]
    /\ alive' = [alive EXCEPT ![c] = FALSE]
    /\ UNCHANGED <<reg, wsIds, sock, owner, early, out>>

\* Fault variant: a return where the loop is to be left, so that the task
\* never comes to its cleanup.
SeeHangupReturns(c) ==
    /\ sock[c] = "open"
    /\ ~alive[c]
    /\ sock' = [sock EXCEPT ![c] = "closed"]
    /\ UNCHANGED <<reg, wsIds, owner, alive, early, out>>

SeeHangup(c) ==
    /\ sock[c] = "open"
    /\ ~alive[c]
    /\ sock' = [sock EXCEPT ![c] = "closing"]
    /\ UNCHANGED <<reg, wsIds, owner, alive, early, out>>

\* Fault variant: the id stays noted when its socket is gone.
CleanupForgets(c) ==
    /\ sock[c] = "closing"
    /\ sock' = [sock EXCEPT ![c] = "closed"]
    /\ owner' = [owner EXCEPT ![c] = NoId]
    /\ inbox' = [inbox EXCEPT ![c] = {}]
    /\ UNCHANGED <<reg, wsIds, alive, early, callbacks, got, target>>

\* The task takes the lock once more and ends.
Cleanup(c) ==
    /\ sock[c] = "closing"
    /\ sock' = [sock EXCEPT ![c] = "closed"]
    /\ owner' = [owner EXCEPT ![c] = NoId]
    /\ inbox' = [inbox EXCEPT ![c] = {}]
    /\ wsIds' = wsIds \ {owner[c]}
    /\ UNCHANGED <<reg, alive, early, callbacks, got, target>>

-----------------------------------------------------------------------------
\* The devices that are called back: not those on a socket.
CallBack(ds) == {d \in ds \cap devices \cap Urls : d \notin wsIds}

\* Fault variant: every device with a URL is called back.
CallBackAll(n, ds) == callbacks' = callbacks \union {<<n, d>> : d \in ds \cap devices \cap Urls}

CallBackFrom(n, ds) == callbacks' = callbacks \union {<<n, d>> : d \in CallBack(ds)}

\* A broadcast: every receiver of n's channel gets n; one that is full loses
\* its oldest.
Full(box, to) == Cardinality(Channel(box, to)) >= BUS_CAPACITY

\* Fault variant: a full receiver refuses the new notification.
QueuedIfRoom(box, n, to) == IF Full(box, to) THEN box ELSE box \union {n}

Queued(box, n, to) ==
    IF Full(box, to) THEN (box \ {Min(Channel(box, to))}) \union {n} ELSE box \union {n}

\* hw_notify: to all over the one channel, or to a device on a socket over
\* the other, which every socket's task listens to; and the callbacks.
Notify(n, to) ==
    /\ target[n] = NoId
    /\ \A m \in 1..(n - 1) : target[m] # NoId
    /\ target' = [target EXCEPT ![n] = to]
    /\ inbox' = [c \in Conns |->
          IF c \in Subscribed /\ to \in wsIds \union {All}
          THEN Queued(inbox[c], n, to) ELSE inbox[c]]
    /\ CallBackFrom(n, IF to = All THEN Ids ELSE {to})
    /\ UNCHANGED <<reg, wsIds, net, got>>

\* A spawned callback arrives, or fails.
Callback(n, d) ==
    /\ <<n, d>> \in callbacks
    /\ callbacks' = callbacks \ {<<n, d>>}
    /\ Give(n, d) \/ UNCHANGED got
    /\ UNCHANGED <<reg, wsIds, net, inbox, target>>

\* Time passes. Registrations alone read it, so it stops with the last.
Tick ==
    /\ known # Ids
    /\ age' = [d \in Ids |-> IF age[d] < TTL THEN age[d] + 1 ELSE age[d]]
    /\ UNCHANGED <<devices, known, wsIds, net, out>>

HwNext ==
    \/ \E d \in Ids : RegisterDevice(d) \/ UnregisterDevice(d)
    \/ \E c \in Conns, d \in Ids \union {NoId} : Open(c, d)
    \/ \E c \in Conns :
          \/ Connect(c) \/ Hangup(c) \/ SeeHangup(c) \/ Cleanup(c)
          \/ \E n \in 1..MaxNotes : Forward(c, n)
    \/ \E n \in 1..MaxNotes, to \in known \union {All} : Notify(n, to)
    \/ \E n \in 1..MaxNotes, d \in Ids : Callback(n, d)
    \/ Tick

HwSpec == HwInit /\ [][HwNext]_hw

-----------------------------------------------------------------------------
(***************************************************************************)
(* Types; only ids that were given out are registered or on a socket, a    *)
(* socket that is closed holds nothing, and no receiver is over capacity.  *)
(***************************************************************************)
HwTypeOK ==
    /\ devices \subseteq known
    /\ wsIds \subseteq known
    /\ known \subseteq Ids
    /\ age \in [Ids -> 0..TTL]
    /\ sock \in [Conns -> {"closed", "opening", "open", "closing"}]
    /\ owner \in [Conns -> known \union {NoId}]
    /\ alive \in [Conns -> BOOLEAN]
    /\ early \subseteq known
    /\ inbox \in [Conns -> SUBSET {n \in 1..MaxNotes : target[n] # NoId}]
    /\ \A c \in Conns :
          /\ \A n \in inbox[c] : Cardinality(Channel(inbox[c], target[n])) <= BUS_CAPACITY
          /\ sock[c] = "closed" => owner[c] = NoId /\ inbox[c] = {}
    /\ callbacks \subseteq (1..MaxNotes) \X Urls
    /\ target \in [1..MaxNotes -> known \union {NoId, All}]

(***************************************************************************)
(* A device is given a notification once at most: on its socket, or by     *)
(* callback when it has none (hw_notify_handler: "HTTP callback only for   *)
(* non-WS devices").  A device that has reconnected early may get one to   *)
(* all both ways, since the end of its old socket takes its id out of the  *)
(* set under its new one (server.rs:770-774); one to itself it does not.   *)
(***************************************************************************)
Twofold(n, d) == target[n] = All /\ d \in early
AtMostOnce == \A n \in 1..MaxNotes, d \in Ids : got[n][d] <= IF Twofold(n, d) THEN 2 ELSE 1

(***************************************************************************)
(* A registered device is in the set of ids on a socket only while a task  *)
(* runs for it, and always then, unless it has reconnected early: what     *)
(* hw_notify_handler decides on agrees with the tasks that are running.    *)
(***************************************************************************)
OnSocket(d) == \E c \in Subscribed : owner[c] = d
WsIdsExact ==
    \A d \in devices : (d \in wsIds => OnSocket(d)) /\ (OnSocket(d) => d \in wsIds \union early)

\* Types, one delivery per device, and the ids on a socket: together they are
\* what hw_notify_handler relies on when it chooses between a device's socket
\* and its callback.
HwInv == HwTypeOK /\ AtMostOnce /\ WsIdsExact

(***************************************************************************)
(* A notification to a registered device that has a socket is put in that  *)
(* socket's queue, and what is there for the device leaves it only as it   *)
(* is given to it, when the device's end is gone, or as the oldest when as *)
(* many later ones as the channel holds are waiting (server.rs:659-663,    *)
(* 721-744).  A device that has reconnected early may be left out of what  *)
(* is posted to it alone.                                                  *)
(***************************************************************************)
QueuedStep ==
    \A d \in devices, c \in Conns, n \in 1..MaxNotes :
        /\ target[n] = NoId /\ (target'[n] = All \/ (target'[n] = d /\ d \notin early))
        /\ sock[c] = "open" /\ owner[c] = d
        => n \in inbox'[c]

Overrun(c, n) ==
    LET later == {m \in inbox'[c] : m > n /\ ((target'[m] = All) <=> (target[n] = All))} IN
    Cardinality(later) = BUS_CAPACITY

DrainedStep ==
    \A c \in Conns : \A n \in inbox[c] \ inbox'[c] :
        ForUs(c, n) /\ owner[c] \in Ids =>
            got'[n][owner[c]] = got[n][owner[c]] + 1 \/ ~alive[c] \/ Overrun(c, n)

TargetReached == [][QueuedStep /\ DrainedStep]_hw

=============================================================================
