---------------------------- MODULE GuestProofs ----------------------------
(***************************************************************************)
(* Proofs about what runs in a guest.  CancellationToken: for any number   *)
(* of waiters and cancellers no wake-up is lost and none is spurious.      *)
(* ProcessRunner, whose runs wait on the token: for any number of runs,    *)
(* lines and places in the channel, what a run leaves and what it answers. *)
(* GuestSetup: what an install in the guest has left when it succeeds, and *)
(* what its gate blames.  HwDevices: the devices that notify the guest,    *)
(* for any number of them, of sockets and of notifications.                *)
(***************************************************************************)
EXTENDS ProcessRunner, GuestSetup, HwDevices, SequenceTheorems, FiniteSetTheorems, TLAPS

(* The inductive invariant: a new token satisfies it ...                    *)
LEMMA InvInit == Init => Inv
<1> SUFFICES ASSUME Init PROVE Inv
  OBVIOUS
<1> USE DEF Init
<1>1. TypeOK
  <2>1. cancelled \in BOOLEAN
    BY Zenon
  <2>4. calls \in 0 .. 1
    BY SMT
  <2>2. ticket \in [Waiters -> 0 .. 1]
    OBVIOUS
  <2>3. /\ wpc \in [Waiters -> {"out", "check", "create", "recheck",
                                 "await", "returned"}]
        /\ cpc \in [Cancellers -> {"idle", "notify", "done"}]
    OBVIOUS
  <2> QED  BY <2>1, <2>2, <2>3, <2>4 DEF TypeOK
<1>2. OneNotify
  BY DEF OneNotify
<1>3. NoLostCancel /\ ReturnsOnlyIfCancelled
  BY DEF NoLostCancel, ReturnsOnlyIfCancelled
<1> QED  BY <1>1, <1>2, <1>3 DEF Inv

(* ... a canceller keeps it ...                                             *)
LEMMA CancellerStep ==
  ASSUME Inv, NEW c \in Cancellers, Canceller(c)
  PROVE  Inv'
<1> USE DEF Inv, TypeOK, OneNotify, NoLostCancel, ReturnsOnlyIfCancelled, CGoto
<1>1. CASE Swap(c)
  <2>1. CASE cancelled
    BY <1>1, <2>1 DEF Swap
  <2>2. CASE ~cancelled
    <3>1. calls = 0 /\ \A d \in Cancellers : cpc[d] = "idle"
      BY <2>2
    <3>2. cpc' = [cpc EXCEPT ![c] = "notify"] /\ cancelled' = TRUE
      BY <1>1, <2>2 DEF Swap
    <3>3. UNCHANGED <<calls, wpc, ticket>>
      BY <1>1 DEF Swap
    <3> QED  BY <3>1, <3>2, <3>3
  <2> QED  BY <2>1, <2>2
<1>2. CASE NotifyWaiters(c)
  <2>1. calls = 0 /\ cancelled
    BY <1>2 DEF NotifyWaiters
  <2>2. \A d \in Cancellers : cpc'[d] # "notify"
    BY <1>2 DEF NotifyWaiters
  <2>3. calls' = 1 /\ UNCHANGED <<cancelled, wpc, ticket>>
    BY <1>2, <2>1 DEF NotifyWaiters
  <2>4. cpc' = [cpc EXCEPT ![c] = "done"]
    BY <1>2 DEF NotifyWaiters
  <2> QED  BY <2>1, <2>2, <2>3, <2>4
<1> QED  BY <1>1, <1>2 DEF Canceller

(* ... and so does a waiter: the flag is read after the ticket was drawn,   *)
(* so a task that goes to sleep on an unset flag holds a ticket older than  *)
(* the notify to come.                                                      *)
LEMMA WaiterStep ==
  ASSUME Inv, NEW w \in Waiters, Waiter(w) \/ DropFuture(w)
  PROVE  Inv'
<1> USE DEF Inv, TypeOK, OneNotify, NoLostCancel, ReturnsOnlyIfCancelled, WGoto
<1>1. CASE Enter(w)
  BY <1>1 DEF Enter
<1>2. CASE Check(w)
  BY <1>2 DEF Check
<1>3. CASE Create(w)
  BY <1>3 DEF Create
<1>4. CASE Recheck(w)
  BY <1>4 DEF Recheck
<1>5. CASE Wake(w)
  <2>1. cancelled
    BY <1>5 DEF Wake
  <2> QED  BY <1>5, <2>1 DEF Wake
<1>6. CASE DropFuture(w)
  BY <1>6 DEF DropFuture
<1> QED  BY <1>1, <1>2, <1>3, <1>4, <1>5, <1>6 DEF Waiter

(* Inv holds for every set of waiters and cancellers.                       *)
THEOREM TokenSafe == Spec => []Inv
<1>1. Init => Inv
  BY InvInit
<1>2. Inv /\ [Next]_vars => Inv'
  <2> SUFFICES ASSUME Inv, [Next]_vars PROVE Inv'
    OBVIOUS
  <2>1. CASE \E w \in Waiters : Waiter(w) \/ DropFuture(w)
    BY <2>1, WaiterStep
  <2>2. CASE \E c \in Cancellers : Canceller(c)
    BY <2>2, CancellerStep
  <2>3. CASE UNCHANGED vars
    BY <2>3 DEF vars, Inv, TypeOK, OneNotify, NoLostCancel, ReturnsOnlyIfCancelled
  <2> QED  BY <2>1, <2>2, <2>3 DEF Next
<1> QED  BY <1>1, <1>2, PTL DEF Spec

(* A task asleep on a cancelled token always has its wake-up coming.        *)
THEOREM NoCancelIsLost == Spec => []NoLostCancel
<1>1. Inv => NoLostCancel
  BY DEF Inv
<1> QED  BY <1>1, TokenSafe, PTL

-----------------------------------------------------------------------------
(* The runs.                                                                *)

RunSteps == {"new", "select", "kill", "abort", "drain", "blob", "report", "complete", "done"}
EventSet == {"out", "err", "note", "sentinel", "completed"} \X Nat

RunnerTypes ==
  /\ job \in [Runs -> Jobs] /\ rpc \in [Runs -> RunSteps]
  /\ outcome \in [Runs -> {"none", "no_spawn", "exited", "failed", "wait_failed", "cancelled", "timed_out"}]
  /\ child \in [Runs -> {"none", "running", "exited", "killed"}] /\ helper \in [Runs -> BOOLEAN]
  /\ wrote \in [Runs -> [Streams -> 0 .. MaxLines]] /\ taken \in [Runs -> [Streams -> Nat]]
  /\ reader \in [Runs -> [Streams -> {"none", "reading", "sending", "done"}]]
  /\ writer \in [Runs -> {"none", "writing", "failed", "done"}]
  /\ rx \in [Runs -> {"open", "dropped", "ended"}]
  /\ chan \in [Runs -> Seq(EventSet)] /\ seen \in [Runs -> Seq(EventSet)]

\* How far a run is, what it knows of its child, and who holds its pipes.
Course(r) ==
  /\ rpc[r] = "new" => child[r] = "none" /\ outcome[r] = "none" /\ rx[r] = "open"
  /\ child[r] = "none" <=> rpc[r] = "new" \/ outcome[r] = "no_spawn"
  /\ rpc[r] = "select" => outcome[r] = "none"
  /\ outcome[r] = "none" /\ rpc[r] \notin {"new", "select"} => rx[r] = "dropped"
  /\ rpc[r] \in {"kill", "abort"} => Local(r) /\ outcome[r] \in {"cancelled", "timed_out"}
  /\ rpc[r] = "abort" => child[r] # "running"
  /\ rpc[r] = "drain" => Local(r) /\ outcome[r] = "exited"
  /\ rpc[r] = "blob" => ~Local(r) /\ outcome[r] = "exited"
  /\ rpc[r] \in {"report", "complete"} => Streaming(r)
  /\ outcome[r] = "wait_failed" => Local(r) /\ rpc[r] \in {"report", "complete", "done"}
  /\ outcome[r] = "exited" => child[r] = "exited"
  /\ outcome[r] = "cancelled" => cancelled
  /\ writer[r] # "none" => job[r].stdin /\ rpc[r] # "new"
  /\ ~Local(r) => writer[r] = "none" /\ ~helper[r] /\ wrote[r]["err"] = 0
  /\ \A s \in Streams :
        /\ reader[r][s] = "none" <=> ~Local(r) \/ child[r] = "none"
        /\ reader[r][s] = "sending" => taken[r][s] > 0
        /\ taken[r][s] <= wrote[r][s]
        /\ child[r] = "none" => wrote[r][s] = 0
  /\ ~Local(r) /\ (rpc[r] \in {"new", "select"} \/ ~Streaming(r)) => \A s \in Streams : taken[r][s] = 0
  /\ ~Local(r) /\ rpc[r] # "blob" /\ outcome[r] = "exited" /\ Streaming(r) /\ rx[r] # "dropped" =>
        taken[r]["out"] = wrote[r]["out"]
  /\ rx[r] # "dropped" /\ outcome[r] \in {"none", "exited"} =>
        \A s \in Streams : reader[r][s] = "done" => taken[r][s] = wrote[r][s] /\ child[r] # "running"
  /\ ~Local(r) /\ ~Streaming(r) => chan[r] = <<>>
  /\ rx[r] = "ended" => chan[r] = <<>> /\ ~Senders(r)

\* The lines of a stream that have been sent.
Delivered(r, s) ==
  IF Local(r) \/ Streaming(r)
  THEN IF reader[r][s] = "sending" THEN taken[r][s] - 1 ELSE taken[r][s]
  ELSE IF rpc[r] = "done" /\ outcome[r] = "exited" THEN wrote[r][s] ELSE 0

Said(r) == rx[r] # "dropped" /\ outcome[r] \in {"none", "exited"} => \A s \in Streams : Tells(Events(r), s, Delivered(r, s))

Closed(r) ==
  Streaming(r) /\ ~job[r].stdin =>
    \A i \in 1 .. Len(Events(r)) : IsCompleted(Events(r)[i]) =>
      /\ rpc[r] = "done"
      /\ IF outcome[r] = "wait_failed"
         THEN /\ Events(r)[i] = Completed(0)
              /\ \A j \in 1 .. Len(Events(r)) : IsCompleted(Events(r)[j]) => j = i
         ELSE i = Len(Events(r))

\* A run that is over, as RunOverIsOver has it.
Over(r) ==
  rpc[r] \in {"report", "complete", "done"} =>
    /\ outcome[r] # "wait_failed" => \A s \in Streams : ReaderEnded(r, s)
    /\ Local(r) => child[r] # "running"

RunInv(r) == Len(chan[r]) <= CAPACITY /\ Course(r) /\ Over(r) /\ Said(r) /\ Closed(r)

RunnerIInv == Inv /\ RunnerTypes /\ \A r \in Runs : RunInv(r)

LEMMA RunnerStart == RunnerInit => RunnerIInv
<1> SUFFICES ASSUME RunnerInit PROVE RunnerIInv
  OBVIOUS
<1> USE DEF RunnerInit, Zero, Each
<1>1. Inv
  BY InvInit
<1>2. <<>> \in Seq(EventSet) /\ Len(<<>>) = 0
  BY EmptySeq
<1>3. RunnerTypes
  <2>1. \A s \in Streams : 0 \in 0 .. MaxLines
    BY RunnerAssumption
  <2> QED  BY <1>2, <2>1 DEF RunnerTypes, RunSteps
<1>4. \A r \in Runs : Len(chan[r]) <= CAPACITY
  BY <1>2, RunnerAssumption
<1>5. \A r \in Runs : Course(r)
  BY DEF Course, Senders, Streams
<1>6. \A r \in Runs : Over(r)
  BY DEF Over
<1>7. \A r \in Runs : Events(r) = <<>>
  BY <1>2, ConcatEmptySeq DEF Events
<1>8. \A r \in Runs : Said(r)
  BY <1>2, <1>7 DEF Said, Tells, Delivered
<1>9. \A r \in Runs : Closed(r)
  BY <1>2, <1>7 DEF Closed
<1> QED  BY <1>1, <1>3, <1>4, <1>5, <1>6, <1>8, <1>9 DEF RunnerIInv, RunInv

-----------------------------------------------------------------------------
(* The token under the runs: every step of theirs is one of its own, or     *)
(* leaves it alone.                                                         *)

TokenStep ==
  \/ vars' = vars
  \/ \E w \in Waiters : Waiter(w) \/ DropFuture(w)
  \/ \E c \in Cancellers : Canceller(c)

LEMMA TokenKeeps == ASSUME Inv, TokenStep PROVE Inv' /\ (cancelled => cancelled')
<1>1. CASE vars' = vars
  BY <1>1 DEF vars, Inv, TypeOK, OneNotify, NoLostCancel, ReturnsOnlyIfCancelled
<1>2. ASSUME NEW w \in Waiters, Waiter(w) \/ DropFuture(w) PROVE Inv' /\ (cancelled => cancelled')
  <2>1. cancelled' = cancelled
    BY <1>2 DEF Waiter, Enter, Check, Create, Recheck, Wake, DropFuture
  <2> QED  BY <1>2, <2>1, WaiterStep
<1>3. ASSUME NEW c \in Cancellers, Canceller(c) PROVE Inv' /\ (cancelled => cancelled')
  <2>1. cancelled => cancelled'
    BY <1>3 DEF Canceller, Swap, NotifyWaiters
  <2> QED  BY <1>3, <2>1, CancellerStep
<1> QED  BY <1>1, <1>2, <1>3 DEF TokenStep

-----------------------------------------------------------------------------
(* The events of a run.                                                     *)

\* What is received moves from the channel to the caller.
LEMMA ReceiveMoves ==
  ASSUME NEW S, NEW a \in Seq(S), NEW b \in Seq(S), b # <<>>
  PROVE  /\ Append(a, Head(b)) \in Seq(S) /\ Tail(b) \in Seq(S) /\ Len(Tail(b)) = Len(b) - 1
         /\ Append(a, Head(b)) \o Tail(b) = a \o b
<1> DEFINE t == Tail(b)
           h == Head(b)
           l == Append(a, h) \o t
<1>1. /\ h \in S /\ t \in Seq(S) /\ Len(t) = Len(b) - 1 /\ Len(b) \in Nat \ {0} /\ Len(a) \in Nat
      /\ \A i \in 1 .. Len(t) : t[i] = b[i + 1]
  BY HeadTailProperties, EmptySeq, LenProperties
<1>2. h = b[1]
  BY <1>1 DEF Head
<1> HIDE DEF h, t
<1>3. /\ Append(a, h) \in Seq(S) /\ Len(Append(a, h)) = Len(a) + 1
      /\ \A i \in 1 .. Len(a) : Append(a, h)[i] = a[i]
      /\ Append(a, h)[Len(a) + 1] = h
  BY <1>1, AppendProperties
<1>4. /\ l \in Seq(S) /\ Len(l) = Len(a) + Len(b)
      /\ \A i \in 1 .. Len(a) + Len(b) :
            l[i] = IF i <= Len(a) + 1 THEN Append(a, h)[i] ELSE t[i - (Len(a) + 1)]
  <2>1. /\ l \in Seq(S) /\ Len(l) = Len(Append(a, h)) + Len(t)
        /\ \A i \in 1 .. Len(Append(a, h)) + Len(t) :
              l[i] = IF i <= Len(Append(a, h)) THEN Append(a, h)[i] ELSE t[i - Len(Append(a, h))]
    BY <1>1, <1>3, ConcatProperties
  <2> QED  BY <2>1, <1>1, <1>3
<1>5. /\ a \o b \in Seq(S) /\ Len(a \o b) = Len(a) + Len(b)
      /\ \A i \in 1 .. Len(a) + Len(b) : (a \o b)[i] = IF i <= Len(a) THEN a[i] ELSE b[i - Len(a)]
  BY ConcatProperties
<1> HIDE DEF l
<1>6. ASSUME NEW i \in 1 .. Len(a) + Len(b) PROVE l[i] = (a \o b)[i]
  <2>1. CASE i <= Len(a)
    BY <2>1, <1>1, <1>3, <1>4, <1>5
  <2>2. CASE i = Len(a) + 1
    <3>1. l[i] = h
      BY <2>2, <1>1, <1>3, <1>4
    <3>2. (a \o b)[i] = b[1]
      BY <2>2, <1>1, <1>5
    <3> QED  BY <3>1, <3>2, <1>2
  <2>3. CASE i > Len(a) + 1
    <3>1. i - (Len(a) + 1) \in 1 .. Len(t) /\ i - (Len(a) + 1) + 1 = i - Len(a)
      BY <2>3, <1>1
    <3>2. l[i] = t[i - (Len(a) + 1)]
      BY <2>3, <1>1, <1>4
    <3>3. (a \o b)[i] = b[i - Len(a)]
      BY <2>3, <1>1, <1>5
    <3> QED  BY <3>1, <3>2, <3>3, <1>1
  <2> QED  BY <2>1, <2>2, <2>3, <1>1
<1>7. l = a \o b
  BY <1>4, <1>5, <1>6, SeqEqual
<1> QED  BY <1>1, <1>3, <1>7 DEF l, t, h

\* A line that follows those that have been told, and an event that is none.
LEMMA TellsNext ==
  ASSUME NEW evs \in Seq(EventSet), NEW s \in Streams, NEW n \in Nat, Tells(evs, s, n),
         NEW e \in EventSet, NEW m \in Nat,
         (e = Line(s, n + 1) /\ m = n + 1) \/ (e[1] # s /\ m = n)
  PROVE  Tells(Append(evs, e), s, m)
<1> DEFINE l == Append(evs, e)
           k == Len(evs)
<1>1. /\ l \in Seq(EventSet) /\ k \in Nat /\ Len(l) = k + 1
      /\ \A i \in 1 .. k : l[i] = evs[i]
      /\ l[k + 1] = e
  BY AppendProperties, LenProperties
<1>2. \A i \in 1 .. Len(l) : i \in 1 .. k \/ i = k + 1
  BY <1>1
<1> HIDE DEF l
<1>3. CASE e = Line(s, n + 1) /\ m = n + 1
  <2>1. e[1] = s /\ e[2] = n + 1
    BY <1>3 DEF Line
  <2>2. ASSUME NEW j \in 1 .. m PROVE \E i \in 1 .. Len(l) : l[i] = Line(s, j)
    <3>1. CASE j = n + 1
      <4>1. k + 1 \in 1 .. Len(l) /\ l[k + 1] = Line(s, j)
        BY <1>1, <1>3, <3>1
      <4> QED  BY <4>1
    <3>2. CASE j # n + 1
      <4>1. j \in 1 .. n
        BY <3>2, <1>3
      <4>2. PICK i \in 1 .. k : evs[i] = Line(s, j)
        BY <4>1 DEF Tells
      <4>3. i \in 1 .. Len(l) /\ l[i] = Line(s, j)
        BY <4>2, <1>1
      <4> QED  BY <4>3
    <3> QED  BY <3>1, <3>2
  <2>3. ASSUME NEW i \in 1 .. Len(l), l[i][1] = s PROVE l[i][2] \in 1 .. m
    <3>1. CASE i = k + 1
      BY <3>1, <1>1, <1>3, <2>1
    <3>2. CASE i \in 1 .. k
      <4>1. evs[i][2] \in 1 .. n
        BY <3>2, <2>3, <1>1 DEF Tells
      <4> QED  BY <4>1, <3>2, <1>1, <1>3
    <3> QED  BY <1>2, <3>1, <3>2
  <2>4. ASSUME NEW i \in 1 .. Len(l), NEW j \in 1 .. Len(l), i < j, l[i][1] = s, l[j][1] = s
        PROVE  l[i][2] < l[j][2]
    <3>1. i \in 1 .. k
      BY <2>4, <1>1, <1>2
    <3>2. l[i] = evs[i] /\ evs[i][2] \in 1 .. n
      BY <3>1, <2>4, <1>1 DEF Tells
    <3>3. CASE j = k + 1
      BY <3>2, <3>3, <1>1, <2>1
    <3>4. CASE j \in 1 .. k
      BY <3>1, <3>2, <3>4, <2>4, <1>1 DEF Tells
    <3> QED  BY <1>2, <3>3, <3>4
  <2> QED  BY <2>2, <2>3, <2>4 DEF Tells, l
<1>4. CASE e[1] # s /\ m = n
  <2>1. ASSUME NEW j \in 1 .. n PROVE \E i \in 1 .. Len(l) : l[i] = Line(s, j)
    <3>1. PICK i \in 1 .. k : evs[i] = Line(s, j)
      BY DEF Tells
    <3>2. i \in 1 .. Len(l) /\ l[i] = Line(s, j)
      BY <3>1, <1>1
    <3> QED  BY <3>2
  <2>2. \A i \in 1 .. Len(l) : l[i][1] = s => i \in 1 .. k /\ l[i] = evs[i]
    BY <1>1, <1>2, <1>4
  <2> QED  BY <1>4, <2>1, <2>2 DEF Tells, l
<1> QED  BY <1>3, <1>4

\* A send appends the event, unless there is nobody to receive it.
LEMMA SendAppends ==
  ASSUME RunnerTypes, NEW r \in Runs, Len(chan[r]) <= CAPACITY, NEW e \in EventSet, Send(r, e)
  PROVE  /\ seen' = seen /\ rx' = rx /\ chan' \in [Runs -> Seq(EventSet)]
         /\ \A q \in Runs \ {r} : chan'[q] = chan[q]
         /\ Len(chan'[r]) <= CAPACITY
         /\ Events(r) \in Seq(EventSet)
         /\ Events(r)' = IF rx[r] = "dropped" THEN Events(r) ELSE Append(Events(r), e)
<1> DEFINE a == seen[r]
           b == chan[r]
<1>1. a \in Seq(EventSet) /\ b \in Seq(EventSet) /\ Len(b) \in Nat
  BY LenProperties DEF RunnerTypes
<1>2. a \o b \in Seq(EventSet)
  BY <1>1, ConcatProperties
<1>3. CASE rx[r] = "dropped"
  <2>1. seen' = seen /\ rx' = rx /\ chan' = chan
    BY <1>3 DEF Send
  <2> QED  BY <2>1, <1>2, <1>3 DEF RunnerTypes, Events
<1>4. CASE rx[r] # "dropped"
  <2>1. seen' = seen /\ rx' = rx /\ chan' = [chan EXCEPT ![r] = Append(b, e)] /\ Len(b) < CAPACITY
    BY <1>4 DEF Send, Room
  <2>2. Append(b, e) \in Seq(EventSet) /\ Len(Append(b, e)) = Len(b) + 1
    BY <1>1, AppendProperties
  <2>3. chan'[r] = Append(b, e)
    BY <2>1 DEF RunnerTypes
  <2>4. a \o Append(b, e) = Append(a \o b, e)
    <3>1. <<e>> \in Seq(EventSet)
      <4>1. <<>> \in Seq(EventSet)
        BY EmptySeq
      <4>2. Append(<<>>, e) \in Seq(EventSet) /\ Append(<<>>, e) = <<>> \o <<e>>
        BY <4>1, AppendProperties, AppendIsConcat
      <4> QED  BY <4>2
    <3>2. Append(b, e) = b \o <<e>> /\ Append(a \o b, e) = (a \o b) \o <<e>>
      BY <1>1, <1>2, AppendIsConcat
    <3>3. (a \o b) \o <<e>> = a \o (b \o <<e>>)
      <4>1. ASSUME NEW z \in Seq(EventSet) PROVE (a \o b) \o z = a \o (b \o z)
        <5> HIDE DEF a, b
        <5> QED  BY <1>1, ConcatAssociative
      <4> QED  BY <4>1, <3>1
    <3> QED  BY <3>2, <3>3
  <2>5. Events(r)' = a \o Append(b, e)
    BY <2>1, <2>3 DEF Events
  <2>6. chan' \in [Runs -> Seq(EventSet)] /\ \A q \in Runs \ {r} : chan'[q] = chan[q]
    BY <2>1, <2>2 DEF RunnerTypes
  <2>7. Len(chan'[r]) <= CAPACITY
    BY <2>1, <2>2, <2>3, <1>1, RunnerAssumption
  <2> QED  BY <2>1, <2>4, <2>5, <2>6, <2>7, <1>2, <1>4 DEF Events
<1> QED  BY <1>3, <1>4

-----------------------------------------------------------------------------
(* A step of one run.                                                       *)

Same(q) ==
  /\ rpc'[q] = rpc[q] /\ outcome'[q] = outcome[q] /\ child'[q] = child[q] /\ helper'[q] = helper[q]
  /\ wrote'[q] = wrote[q] /\ taken'[q] = taken[q] /\ reader'[q] = reader[q] /\ writer'[q] = writer[q]
  /\ chan'[q] = chan[q] /\ seen'[q] = seen[q] /\ rx'[q] = rx[q]

LEMMA OneRun ==
  ASSUME RunnerIInv, TokenStep, job' = job, RunnerTypes',
         NEW r \in Runs, \A q \in Runs \ {r} : Same(q), RunInv(r)'
  PROVE  RunnerIInv'
<1>1. Inv' /\ (cancelled => cancelled')
  BY TokenKeeps DEF RunnerIInv
<1>2. ASSUME NEW q \in Runs \ {r} PROVE RunInv(q)'
  <2>1. Same(q)
    OBVIOUS
  <2>2. RunInv(q)
    BY DEF RunnerIInv
  <2>3. Events(q)' = Events(q)
    BY <2>1 DEF Same, Events
  <2>4. Course(q)'
    BY <2>1, <2>2, <1>1 DEF Same, RunInv, Course, Local, Streaming, Senders, ReaderEnded
  <2>5. Over(q)'
    BY <2>1, <2>2 DEF Same, RunInv, Over, Local, ReaderEnded
  <2>6. \A s \in Streams : Delivered(q, s)' = Delivered(q, s)
    BY <2>1 DEF Same, Delivered, Local, Streaming
  <2>7. Said(q)'
    BY <2>1, <2>2, <2>3, <2>6 DEF Same, RunInv, Said, Tells
  <2>8. Closed(q)'
    BY <2>1, <2>2, <2>3 DEF Same, RunInv, Closed, Streaming
  <2>9. Len(chan'[q]) <= CAPACITY
    BY <2>1, <2>2 DEF Same, RunInv
  <2> QED  BY <2>4, <2>5, <2>7, <2>8, <2>9 DEF RunInv
<1> QED  BY <1>1, <1>2 DEF RunnerIInv

\* What is told stays told when no event comes and none was due ...
LEMMA Untold ==
  ASSUME NEW r \in Runs, job' = job, RunInv(r), Events(r)' = Events(r),
         rpc[r] = "done" => rpc'[r] = "done",
         rx'[r] # "dropped" => rx[r] # "dropped",
         outcome'[r] \in {"none", "exited"} => outcome[r] \in {"none", "exited"},
         rpc[r] = "done" => outcome'[r] = outcome[r],
         rx'[r] # "dropped" /\ outcome'[r] \in {"none", "exited"} =>
           \A s \in Streams : Delivered(r, s)' = Delivered(r, s)
  PROVE  Said(r)' /\ Closed(r)'
<1>1. Said(r)'
  BY DEF RunInv, Said, Tells
<1>2. Closed(r)'
  BY DEF RunInv, Closed, Streaming
<1> QED  BY <1>1, <1>2

\* ... and when the event that is due comes, before the run is done.
LEMMA ToldNext ==
  ASSUME RunnerTypes, NEW r \in Runs, job' = job, RunInv(r), NEW e \in EventSet,
         Events(r) \in Seq(EventSet), Events(r)' = Append(Events(r), e),
         rpc[r] # "done" \/ job[r].stdin \/ (outcome[r] = "wait_failed" /\ e[1] # "completed"),
         e[1] = "completed" => rpc'[r] = "done" /\ (outcome[r] = "wait_failed" => e = Completed(0)),
         rpc[r] = "done" => rpc'[r] = "done",
         rx'[r] = rx[r], outcome'[r] = outcome[r],
         \A s \in Streams : Delivered(r, s) \in Nat /\ Delivered(r, s)' \in Nat,
         \A s \in Streams : \/ e = Line(s, Delivered(r, s) + 1) /\ Delivered(r, s)' = Delivered(r, s) + 1
                            \/ e[1] # s /\ Delivered(r, s)' = Delivered(r, s)
  PROVE  Said(r)' /\ Closed(r)'
<1> DEFINE evs == Events(r)
<1>1. Said(r)'
  <2> SUFFICES ASSUME rx[r] # "dropped", outcome[r] \in {"none", "exited"}, NEW s \in Streams
               PROVE  Tells(Append(evs, e), s, Delivered(r, s)')
    BY DEF Said, Tells
  <2>1. Tells(evs, s, Delivered(r, s))
    BY DEF RunInv, Said
  <2> HIDE DEF evs
  <2> QED  BY <2>1, TellsNext DEF evs
<1>2. Closed(r)'
  <2> SUFFICES ASSUME Streaming(r), ~job[r].stdin, NEW i \in 1 .. Len(Append(evs, e)),
                      IsCompleted(Append(evs, e)[i])
               PROVE  /\ rpc'[r] = "done"
                      /\ IF outcome[r] = "wait_failed"
                         THEN /\ Append(evs, e)[i] = Completed(0)
                              /\ \A j \in 1 .. Len(Append(evs, e)) : IsCompleted(Append(evs, e)[j]) => j = i
                         ELSE i = Len(Append(evs, e))
    BY DEF Closed, Streaming
  <2>1. /\ Len(evs) \in Nat /\ Len(Append(evs, e)) = Len(evs) + 1
        /\ \A j \in 1 .. Len(evs) : Append(evs, e)[j] = evs[j]
        /\ Append(evs, e)[Len(evs) + 1] = e
    BY AppendProperties, LenProperties
  <2>2. ASSUME NEW j \in 1 .. Len(evs), IsCompleted(evs[j])
        PROVE  /\ rpc[r] = "done"
               /\ outcome[r] = "wait_failed" => evs[j] = Completed(0)
               /\ outcome[r] = "wait_failed" => \A k \in 1 .. Len(evs) : IsCompleted(evs[k]) => k = j
    BY <2>2 DEF RunInv, Closed
  <2> HIDE DEF evs
  <2>3. CASE rpc[r] # "done"
    <3>1. \A j \in 1 .. Len(Append(evs, e)) : IsCompleted(Append(evs, e)[j]) => j = Len(evs) + 1
      BY <2>1, <2>2, <2>3 DEF IsCompleted
    <3>2. i = Len(evs) + 1 /\ e[1] = "completed"
      BY <3>1, <2>1 DEF IsCompleted
    <3> QED  BY <3>1, <3>2, <2>1
  <2>4. CASE outcome[r] = "wait_failed" /\ e[1] # "completed"
    <3>1. \A j \in 1 .. Len(Append(evs, e)) : IsCompleted(Append(evs, e)[j]) => j \in 1 .. Len(evs) /\ IsCompleted(evs[j])
      BY <2>1, <2>4 DEF IsCompleted
    <3>2. i \in 1 .. Len(evs) /\ IsCompleted(evs[i])
      BY <3>1
    <3> QED  BY <3>1, <3>2, <2>1, <2>2, <2>4
  <2> QED  BY <2>3, <2>4
<1> QED  BY <1>1, <1>2

-----------------------------------------------------------------------------
(* The child and its helper.                                                *)

LEMMA ChildKeeps ==
  ASSUME RunnerIInv, NEW r \in Runs, Child(r)
  PROVE  RunnerIInv'
<1>1. RunnerTypes /\ RunInv(r)
  BY DEF RunnerIInv
<1>2. job' = job /\ vars' = vars /\ UNCHANGED <<rpc, outcome, taken, reader, writer, chan, seen, rx>>
  BY DEF Child, PrintLine, Fork, Exit, HelperEnds, run, tasks, ends
<1>3. cancelled' = cancelled /\ TokenStep
  BY <1>2 DEF vars, TokenStep
<1>4. Events(r)' = Events(r)
  BY <1>2 DEF Events
<1>5. SUFFICES /\ RunnerTypes' /\ \A q \in Runs \ {r} : Same(q)
               /\ Course(r)' /\ Over(r)' /\ \A s \in Streams : Delivered(r, s)' = Delivered(r, s)
  <2>1. Said(r)' /\ Closed(r)'
    BY <1>1, <1>2, <1>4, <1>5, Untold
  <2>2. RunInv(r)'
    BY <1>1, <1>2, <1>5, <2>1 DEF RunInv
  <2> QED  BY <1>2, <1>3, <1>5, <2>2, OneRun
<1> USE DEF Same, RunnerTypes, RunInv, Local, Streaming, ReaderEnded, Senders
<1>6. ASSUME NEW s \in Streams, PrintLine(r, s)
      PROVE  /\ RunnerTypes' /\ \A q \in Runs \ {r} : Same(q)
             /\ Course(r)' /\ Over(r)' /\ \A t \in Streams : Delivered(r, t)' = Delivered(r, t)
  <2>1. /\ child[r] = "running" /\ wrote[r][s] < MaxLines /\ (Local(r) \/ s = "out")
        /\ wrote' = [wrote EXCEPT ![r][s] = wrote[r][s] + 1]
        /\ UNCHANGED <<child, helper>>
    BY <1>6 DEF PrintLine
  <2>2. \A t \in Streams : wrote[r][t] \in 0 .. MaxLines /\ taken[r][t] \in Nat
    BY <1>1
  <2>3. /\ wrote' \in [Runs -> [Streams -> 0 .. MaxLines]]
        /\ \A t \in Streams : wrote'[r][t] = IF t = s THEN wrote[r][s] + 1 ELSE wrote[r][t]
        /\ \A q \in Runs \ {r} : wrote'[q] = wrote[q]
    BY <1>1, <2>1, <2>2, RunnerAssumption
  <2>4. RunnerTypes' /\ \A q \in Runs \ {r} : Same(q)
    BY <1>1, <1>2, <2>1, <2>3
  <2>5. Course(r)'
    BY <1>1, <1>2, <1>3, <2>1, <2>2, <2>3 DEF Course
  <2>6. Over(r)'
    BY <1>1, <1>2, <2>1 DEF Over
  <2>7. \A t \in Streams : Delivered(r, t)' = Delivered(r, t)
    BY <1>1, <1>2, <2>1, <2>3 DEF Delivered, Course
  <2> QED  BY <2>4, <2>5, <2>6, <2>7
<1>7. CASE Fork(r)
  <2>1. Local(r) /\ child[r] = "running" /\ helper' = [helper EXCEPT ![r] = TRUE] /\ UNCHANGED <<child, wrote>>
    BY <1>7 DEF Fork
  <2>2. RunnerTypes' /\ \A q \in Runs \ {r} : Same(q)
    BY <1>1, <1>2, <2>1
  <2>3. Course(r)' /\ Over(r)'
    BY <1>1, <1>2, <1>3, <2>1 DEF Course, Over
  <2> QED  BY <1>2, <2>1, <2>2, <2>3 DEF Delivered
<1>8. CASE HelperEnds(r)
  <2>1. helper' = [helper EXCEPT ![r] = FALSE] /\ UNCHANGED <<child, wrote>>
    BY <1>8 DEF HelperEnds
  <2>2. RunnerTypes' /\ \A q \in Runs \ {r} : Same(q)
    BY <1>1, <1>2, <2>1
  <2>3. Course(r)' /\ Over(r)'
    BY <1>1, <1>2, <1>3, <2>1 DEF Course, Over
  <2> QED  BY <1>2, <2>1, <2>2, <2>3 DEF Delivered
<1>9. CASE Exit(r)
  <2>1. child[r] = "running" /\ child' = [child EXCEPT ![r] = "exited"] /\ UNCHANGED <<helper, wrote>>
    BY <1>9 DEF Exit
  <2>2. RunnerTypes' /\ \A q \in Runs \ {r} : Same(q)
    BY <1>1, <1>2, <2>1
  <2>3. Course(r)' /\ Over(r)'
    BY <1>1, <1>2, <1>3, <2>1 DEF Course, Over
  <2> QED  BY <1>2, <2>1, <2>2, <2>3 DEF Delivered
<1> QED  BY <1>6, <1>7, <1>8, <1>9 DEF Child

-----------------------------------------------------------------------------
(* The task of a run, as far as nothing is said.                            *)

LEMMA SpawnKeeps ==
  ASSUME RunnerIInv, NEW r \in Runs, Spawn(r) \/ SpawnFails(r)
  PROVE  RunnerIInv'
<1>1. RunnerTypes /\ RunInv(r) /\ job[r] \in Jobs
  BY DEF RunnerIInv, RunnerTypes
<1>2. job' = job /\ rpc[r] = "new" /\ UNCHANGED <<helper, wrote, taken, chan, seen, rx>>
  BY DEF Spawn, SpawnFails, procs, tasks, ends
<1>3. Events(r)' = Events(r)
  BY <1>2 DEF Events
<1> USE DEF Same, RunnerTypes, RunInv, Local, Streaming, ReaderEnded, Senders
<1>4. child[r] = "none" /\ outcome[r] = "none" /\ rx[r] = "open" /\ writer[r] = "none"
      /\ \A s \in Streams : reader[r][s] = "none" /\ wrote[r][s] = 0 /\ taken[r][s] = 0
  <2>1. \A s \in Streams : wrote[r][s] = 0 /\ taken[r][s] <= wrote[r][s] /\ taken[r][s] \in Nat
    BY <1>1, <1>2 DEF Course
  <2>2. \A s \in Streams : taken[r][s] = 0
    BY <2>1
  <2> QED  BY <1>1, <1>2, <2>1, <2>2 DEF Course
<1>5. CASE Spawn(r)
  <2>1. /\ Local(r) \/ ~job[r].stdin
        /\ rpc' = [rpc EXCEPT ![r] = "select"] /\ child' = [child EXCEPT ![r] = "running"]
        /\ reader' = IF Local(r) THEN [reader EXCEPT ![r] = Each("reading")] ELSE reader
        /\ writer' = IF job[r].stdin THEN [writer EXCEPT ![r] = "writing"] ELSE writer
        /\ Enter(r) /\ UNCHANGED outcome
    BY <1>5 DEF Spawn, Goto
  <2>2. TokenStep /\ cancelled' = cancelled
    BY <2>1, RunnerAssumption DEF TokenStep, Waiter, Enter
  <2>3. /\ reader' \in [Runs -> [Streams -> {"none", "reading", "sending", "done"}]]
        /\ \A s \in Streams : reader'[r][s] = IF Local(r) THEN "reading" ELSE "none"
        /\ \A q \in Runs \ {r} : reader'[q] = reader[q]
    BY <1>1, <1>4, <2>1 DEF Each
  <2>4. RunnerTypes' /\ \A q \in Runs \ {r} : Same(q)
    BY <1>1, <1>2, <2>1, <2>3 DEF RunSteps
  <2>5. Course(r)'
    BY <1>1, <1>2, <1>4, <2>1, <2>2, <2>3 DEF Course
  <2>6. Over(r)'
    BY <1>1, <2>1 DEF Over
  <2>7. \A s \in Streams : Delivered(r, s)' = Delivered(r, s)
    BY <1>1, <1>2, <1>4, <2>1, <2>3 DEF Delivered
  <2>8. Said(r)' /\ Closed(r)'
    BY <1>1, <1>2, <1>3, <1>4, <2>1, <2>7, Untold
  <2>9. RunInv(r)'
    BY <1>1, <1>2, <2>5, <2>6, <2>8
  <2> QED  BY <1>2, <2>2, <2>4, <2>9, OneRun
<1>6. CASE SpawnFails(r)
  <2>1. /\ rpc' = [rpc EXCEPT ![r] = AfterWait(r)] /\ outcome' = [outcome EXCEPT ![r] = "no_spawn"]
        /\ UNCHANGED <<child, reader, writer>> /\ vars' = vars
    BY <1>6 DEF SpawnFails, Ended, Goto, procs, tasks
  <2>2. TokenStep /\ cancelled' = cancelled
    BY <2>1 DEF TokenStep, vars
  <2>3. RunnerTypes' /\ \A q \in Runs \ {r} : Same(q)
    BY <1>1, <1>2, <2>1 DEF RunSteps, AfterWait
  <2>4. Course(r)'
    BY <1>1, <1>2, <1>4, <2>1, <2>2 DEF Course, AfterWait
  <2>5. Over(r)'
    BY <1>1, <1>4, <2>1 DEF Over
  <2>6. Said(r)' /\ Closed(r)'
    BY <1>1, <1>2, <1>3, <2>1, Untold
  <2>7. RunInv(r)'
    BY <1>1, <1>2, <2>4, <2>5, <2>6
  <2> QED  BY <1>2, <2>2, <2>3, <2>7, OneRun
<1> QED  BY <1>5, <1>6

LEMMA WaitKeeps ==
  ASSUME RunnerIInv, NEW r \in Runs, Wait(r)
  PROVE  RunnerIInv'
<1>1. RunnerTypes /\ RunInv(r) /\ job[r] \in Jobs /\ Inv
  BY DEF RunnerIInv, RunnerTypes
<1>2. job' = job /\ rpc[r] = "select" /\ UNCHANGED <<child, helper, wrote, taken, reader, writer, chan, seen, rx>>
  BY DEF Wait, SeeExit, SeeCancel, SeeTimeout, procs, tasks, ends
<1>3. Events(r)' = Events(r)
  BY <1>2 DEF Events
<1> USE DEF Same, RunnerTypes, RunInv, Local, Streaming, ReaderEnded, Senders
<1>4. PICK step, how :
        /\ rpc' = [rpc EXCEPT ![r] = step] /\ outcome' = [outcome EXCEPT ![r] = how]
        /\ \/ step = "drain" /\ how = "exited" /\ Local(r) /\ child[r] = "exited"
           \/ step = "blob" /\ how = "exited" /\ ~Local(r) /\ child[r] = "exited"
           \/ step = AfterWait(r) /\ how = "failed" /\ ~Local(r)
           \/ step = "kill" /\ how = "cancelled" /\ Local(r) /\ cancelled
           \/ step = "kill" /\ how = "timed_out" /\ Local(r)
           \/ step = AfterWait(r) /\ how = "cancelled" /\ ~Local(r) /\ cancelled
           \/ step = AfterWait(r) /\ how = "timed_out" /\ ~Local(r)
  <2>1. wpc[r] = "returned" => cancelled
    BY <1>1, RunnerAssumption DEF Inv, ReturnsOnlyIfCancelled
  <2> QED  BY <2>1 DEF Wait, SeeExit, SeeCancel, SeeTimeout, Ended, Goto
<1>5. TokenStep /\ cancelled' = cancelled
  <2>1. DropFuture(r) \/ vars' = vars
    BY DEF Wait, SeeExit, SeeCancel, SeeTimeout
  <2> QED  BY <2>1, RunnerAssumption DEF TokenStep, DropFuture, vars
<1>6. /\ step \in RunSteps /\ rpc'[r] = step /\ outcome'[r] = how
      /\ how \in {"none", "no_spawn", "exited", "failed", "wait_failed", "cancelled", "timed_out"}
  BY <1>1, <1>4 DEF RunSteps, AfterWait
<1>7. RunnerTypes' /\ \A q \in Runs \ {r} : Same(q)
  BY <1>1, <1>2, <1>4, <1>6
<1>8. child[r] # "none" /\ outcome[r] = "none" /\ (~Local(r) => \A s \in Streams : reader[r][s] = "none" /\ taken[r][s] = 0)
  BY <1>1, <1>2 DEF Course
<1>9. Course(r)'
  BY <1>1, <1>2, <1>4, <1>5, <1>6, <1>8 DEF Course, AfterWait
<1>10. Over(r)'
  BY <1>1, <1>2, <1>4, <1>6, <1>8 DEF Over, AfterWait
<1>11. how \in {"none", "exited"} => \A s \in Streams : Delivered(r, s)' = Delivered(r, s)
  BY <1>1, <1>2, <1>4, <1>6, <1>8 DEF Delivered, AfterWait
<1>12. Said(r)' /\ Closed(r)'
  BY <1>1, <1>2, <1>3, <1>6, <1>8, <1>11, Untold
<1>13. RunInv(r)'
  BY <1>1, <1>2, <1>9, <1>10, <1>12
<1> QED  BY <1>2, <1>5, <1>7, <1>13, OneRun

\* A failed wait: the run goes on to report it, and its child is killed.
LEMMA WaitFailsKeeps ==
  ASSUME RunnerIInv, NEW r \in Runs, WaitFails(r)
  PROVE  RunnerIInv'
<1>1. RunnerTypes /\ RunInv(r) /\ job[r] \in Jobs
  BY DEF RunnerIInv, RunnerTypes
<1>2. /\ job' = job /\ rpc[r] = "select" /\ Local(r)
      /\ UNCHANGED <<helper, wrote, taken, reader, writer, chan, seen, rx>>
      /\ rpc' = [rpc EXCEPT ![r] = AfterWait(r)] /\ outcome' = [outcome EXCEPT ![r] = "wait_failed"]
      /\ child' = [child EXCEPT ![r] = IF child[r] = "running" THEN "killed" ELSE child[r]]
  BY DEF WaitFails, Ended, Goto, tasks, ends
<1>3. TokenStep /\ cancelled' = cancelled
  <2>1. DropFuture(r)
    BY DEF WaitFails
  <2> QED  BY <2>1, RunnerAssumption DEF TokenStep, DropFuture
<1>4. Events(r)' = Events(r)
  BY <1>2 DEF Events
<1> USE DEF Same, RunnerTypes, RunInv, Local, Streaming, ReaderEnded, Senders
<1>5. RunnerTypes' /\ \A q \in Runs \ {r} : Same(q)
  BY <1>1, <1>2 DEF RunSteps, AfterWait
<1>6. Course(r)'
  BY <1>1, <1>2, <1>3 DEF Course, AfterWait
<1>7. Over(r)'
  BY <1>1, <1>2 DEF Over, AfterWait
<1>8. Said(r)' /\ Closed(r)'
  BY <1>1, <1>2, <1>4, Untold
<1>9. RunInv(r)'
  BY <1>1, <1>2, <1>6, <1>7, <1>8
<1> QED  BY <1>2, <1>3, <1>5, <1>9, OneRun

LEMMA CutKeeps ==
  ASSUME RunnerIInv, NEW r \in Runs, Kill(r) \/ AbortReaders(r) \/ DrainReaders(r)
  PROVE  RunnerIInv'
<1>1. RunnerTypes /\ RunInv(r) /\ job[r] \in Jobs
  BY DEF RunnerIInv, RunnerTypes
<1>2. /\ job' = job /\ vars' = vars /\ rpc[r] \in {"kill", "abort", "drain"}
      /\ UNCHANGED <<outcome, helper, wrote, taken, writer, chan, seen, rx>>
  BY DEF Kill, AbortReaders, DrainReaders, procs, tasks, ends
<1>3. Events(r)' = Events(r)
  BY <1>2 DEF Events
<1>4. TokenStep /\ cancelled' = cancelled
  BY <1>2 DEF TokenStep, vars
<1> USE DEF Same, RunnerTypes, RunInv, Local, Streaming, ReaderEnded, Senders
<1>5. CASE Kill(r)
  <2>1. /\ rpc[r] = "kill" /\ child' = [child EXCEPT ![r] = IF child[r] = "running" THEN "killed" ELSE child[r]]
        /\ rpc' = [rpc EXCEPT ![r] = "abort"] /\ UNCHANGED reader
    BY <1>5 DEF Kill, Goto, tasks
  <2>2. RunnerTypes' /\ \A q \in Runs \ {r} : Same(q)
    BY <1>1, <1>2, <2>1 DEF RunSteps
  <2>3. Course(r)'
    BY <1>1, <1>2, <1>4, <2>1 DEF Course
  <2>4. Over(r)'
    BY <1>1, <2>1 DEF Over
  <2>5. outcome[r] \notin {"none", "exited"}
    BY <1>1, <2>1 DEF Course
  <2>6. Said(r)' /\ Closed(r)'
    BY <1>1, <1>2, <1>3, <2>1, <2>5, Untold
  <2>7. RunInv(r)'
    BY <1>1, <1>2, <2>3, <2>4, <2>6
  <2> QED  BY <1>2, <1>4, <2>2, <2>7, OneRun
<1>6. CASE AbortReaders(r)
  <2>1. /\ rpc[r] = "abort" /\ reader' = [reader EXCEPT ![r] = Each("done")]
        /\ rpc' = [rpc EXCEPT ![r] = AfterWait(r)] /\ UNCHANGED child
    BY <1>6 DEF AbortReaders, Goto, procs
  <2>2. Local(r) /\ outcome[r] \in {"cancelled", "timed_out"} /\ child[r] \notin {"running", "none"}
    BY <1>1, <2>1 DEF Course
  <2>3. /\ reader' \in [Runs -> [Streams -> {"none", "reading", "sending", "done"}]]
        /\ \A s \in Streams : reader'[r][s] = "done"
        /\ \A q \in Runs \ {r} : reader'[q] = reader[q]
    BY <1>1, <2>1 DEF Each
  <2>4. RunnerTypes' /\ \A q \in Runs \ {r} : Same(q)
    BY <1>1, <1>2, <2>1, <2>3 DEF RunSteps, AfterWait
  <2>5. Course(r)'
    BY <1>1, <1>2, <1>4, <2>1, <2>2, <2>3 DEF Course, AfterWait
  <2>6. Over(r)'
    BY <1>1, <1>2, <2>1, <2>2, <2>3 DEF Over
  <2>7. Said(r)' /\ Closed(r)'
    BY <1>1, <1>2, <1>3, <2>1, <2>2, Untold
  <2>8. RunInv(r)'
    BY <1>1, <1>2, <2>5, <2>6, <2>7
  <2> QED  BY <1>2, <1>4, <2>4, <2>8, OneRun
<1>7. CASE DrainReaders(r)
  <2>1. /\ rpc[r] = "drain" /\ \A s \in Streams : reader[r][s] \in {"none", "done"}
        /\ rpc' = [rpc EXCEPT ![r] = AfterWait(r)] /\ UNCHANGED <<child, reader>>
    BY <1>7 DEF DrainReaders, Goto, procs, tasks
  <2>2. Local(r) /\ outcome[r] = "exited" /\ child[r] = "exited"
    BY <1>1, <2>1 DEF Course
  <2>3. RunnerTypes' /\ \A q \in Runs \ {r} : Same(q)
    BY <1>1, <1>2, <2>1 DEF RunSteps, AfterWait
  <2>4. Course(r)'
    BY <1>1, <1>2, <1>4, <2>1, <2>2 DEF Course, AfterWait
  <2>5. Over(r)'
    BY <1>1, <1>2, <2>1, <2>2 DEF Over
  <2>6. \A s \in Streams : Delivered(r, s)' = Delivered(r, s)
    BY <1>2, <2>1, <2>2 DEF Delivered
  <2>7. Said(r)' /\ Closed(r)'
    BY <1>1, <1>2, <1>3, <2>1, <2>6, Untold
  <2>8. RunInv(r)'
    BY <1>1, <1>2, <2>4, <2>5, <2>7
  <2> QED  BY <1>2, <1>4, <2>3, <2>8, OneRun
<1> QED  BY <1>5, <1>6, <1>7

-----------------------------------------------------------------------------
(* The tasks on the pipes.                                                  *)

LEMMA ReaderKeeps ==
  ASSUME RunnerIInv, NEW r \in Runs, NEW s \in Streams, ReadLine(r, s) \/ SendLine(r, s) \/ ReadEnd(r, s)
  PROVE  RunnerIInv'
<1>1. RunnerTypes /\ RunInv(r) /\ job[r] \in Jobs
  BY DEF RunnerIInv, RunnerTypes
<1>2. /\ job' = job /\ vars' = vars /\ reader[r][s] \in {"reading", "sending"}
      /\ UNCHANGED <<rpc, outcome, child, helper, wrote, writer, rx>>
  BY DEF ReadLine, SendLine, ReadEnd, Send, run, procs, ends
<1>3. TokenStep /\ cancelled' = cancelled
  BY <1>2 DEF TokenStep, vars
<1> USE DEF Same, RunnerTypes, RunInv, Local, Streaming, ReaderEnded, Senders
<1>4. /\ Local(r) /\ rx[r] # "ended" /\ child[r] # "none"
      /\ rpc[r] \in {"report", "complete", "done"} => outcome[r] = "wait_failed" /\ child[r] # "running"
      /\ \A t \in Streams : taken[r][t] \in Nat /\ wrote[r][t] \in Nat
      /\ reader[r][s] = "sending" => taken[r][s] > 0
  BY <1>1, <1>2 DEF Course, Over
<1>5. CASE ReadLine(r, s)
  <2>1. /\ taken' = [taken EXCEPT ![r][s] = taken[r][s] + 1] /\ taken[r][s] < wrote[r][s] /\ reader[r][s] = "reading"
        /\ reader' = [reader EXCEPT ![r][s] = "sending"] /\ UNCHANGED <<chan, seen>>
    BY <1>5 DEF ReadLine, Reader, ends
  <2>2. /\ taken' \in [Runs -> [Streams -> Nat]]
        /\ \A t \in Streams : taken'[r][t] = IF t = s THEN taken[r][t] + 1 ELSE taken[r][t]
        /\ \A q \in Runs \ {r} : taken'[q] = taken[q]
    BY <1>1, <1>4, <2>1
  <2>3. /\ reader' \in [Runs -> [Streams -> {"none", "reading", "sending", "done"}]]
        /\ \A t \in Streams : reader'[r][t] = IF t = s THEN "sending" ELSE reader[r][t]
        /\ \A q \in Runs \ {r} : reader'[q] = reader[q]
    BY <1>1, <2>1
  <2>4. RunnerTypes' /\ \A q \in Runs \ {r} : Same(q)
    BY <1>1, <1>2, <2>1, <2>2, <2>3
  <2>5. Course(r)'
    BY <1>1, <1>2, <1>3, <1>4, <2>1, <2>2, <2>3 DEF Course
  <2>6. Over(r)'
    BY <1>2, <1>4 DEF Over
  <2>7. \A t \in Streams : Delivered(r, t)' = Delivered(r, t)
    BY <1>2, <1>4, <2>1, <2>2, <2>3 DEF Delivered
  <2>8. Events(r)' = Events(r)
    BY <2>1 DEF Events
  <2>9. Said(r)' /\ Closed(r)'
    BY <1>1, <1>2, <2>7, <2>8, Untold
  <2>10. RunInv(r)'
    BY <1>1, <2>1, <2>5, <2>6, <2>9
  <2> QED  BY <1>2, <1>3, <2>4, <2>10, OneRun
<1>6. CASE SendLine(r, s)
  <2>1. /\ reader[r][s] = "sending" /\ Send(r, Line(s, taken[r][s])) /\ UNCHANGED taken
        /\ reader' = [reader EXCEPT ![r][s] = IF rx[r] = "dropped" THEN "done" ELSE "reading"]
    BY <1>6 DEF SendLine, Reader
  <2>2. Line(s, taken[r][s]) \in EventSet /\ Line(s, taken[r][s])[1] = s
    BY <1>4 DEF EventSet, Line, Streams
  <2>3. /\ seen' = seen /\ chan' \in [Runs -> Seq(EventSet)] /\ \A q \in Runs \ {r} : chan'[q] = chan[q]
        /\ Len(chan'[r]) <= CAPACITY /\ Events(r) \in Seq(EventSet)
        /\ Events(r)' = IF rx[r] = "dropped" THEN Events(r) ELSE Append(Events(r), Line(s, taken[r][s]))
    BY <1>1, <2>1, <2>2, SendAppends
  <2>4. /\ reader' \in [Runs -> [Streams -> {"none", "reading", "sending", "done"}]]
        /\ \A t \in Streams : reader'[r][t] = IF t # s THEN reader[r][t] ELSE IF rx[r] = "dropped" THEN "done" ELSE "reading"
        /\ \A q \in Runs \ {r} : reader'[q] = reader[q]
    BY <1>1, <2>1
  <2>5. RunnerTypes' /\ \A q \in Runs \ {r} : Same(q)
    BY <1>1, <1>2, <2>1, <2>3, <2>4
  <2>6. Course(r)'
    BY <1>1, <1>2, <1>3, <1>4, <2>1, <2>4 DEF Course
  <2>7. Over(r)'
    BY <1>2, <1>4 DEF Over
  <2>8. Said(r)' /\ Closed(r)'
    <3>1. CASE rx[r] = "dropped"
      BY <3>1, <1>1, <1>2, <2>3, Untold
    <3>2. CASE rx[r] # "dropped"
      <4>1. \A t \in Streams : Delivered(r, t) \in Nat /\ Delivered(r, t)' \in Nat
        BY <3>2, <1>1, <1>2, <1>4, <2>1, <2>4 DEF Delivered, Course
      <4>2. Delivered(r, s) + 1 = taken[r][s] /\ Delivered(r, s)' = Delivered(r, s) + 1
        BY <3>2, <1>2, <1>4, <2>1, <2>4 DEF Delivered
      <4>3. \A t \in Streams \ {s} : Delivered(r, t)' = Delivered(r, t)
        BY <1>2, <1>4, <2>1, <2>4 DEF Delivered
      <4>4. Line(s, taken[r][s])[1] # "completed"
        BY <2>2 DEF Streams
      <4>5. Line(s, taken[r][s]) = Line(s, Delivered(r, s) + 1)
        BY <4>2
      <4>6. \A t \in Streams : \/ Line(s, taken[r][s]) = Line(t, Delivered(r, t) + 1) /\ Delivered(r, t)' = Delivered(r, t) + 1
                               \/ Line(s, taken[r][s])[1] # t /\ Delivered(r, t)' = Delivered(r, t)
        BY <4>2, <4>3, <4>5, <2>2
      <4>7. /\ Events(r)' = Append(Events(r), Line(s, taken[r][s])) /\ rx'[r] = rx[r] /\ outcome'[r] = outcome[r]
            /\ rpc'[r] = rpc[r] /\ (rpc[r] = "done" => outcome[r] = "wait_failed")
        BY <3>2, <2>3, <1>2, <1>4
      <4> HIDE DEF RunnerTypes, RunInv
      <4> QED  BY <4>1, <4>4, <4>6, <4>7, <1>1, <1>2, <2>2, <2>3, ToldNext
    <3> QED  BY <3>1, <3>2
  <2>9. RunInv(r)'
    BY <2>3, <2>6, <2>7, <2>8
  <2> QED  BY <1>2, <1>3, <2>5, <2>9, OneRun
<1>7. CASE ReadEnd(r, s)
  <2>1. /\ reader[r][s] = "reading" /\ taken[r][s] = wrote[r][s] /\ child[r] # "running" /\ UNCHANGED <<taken, chan, seen>>
        /\ reader' = [reader EXCEPT ![r][s] = "done"]
    BY <1>7 DEF ReadEnd, Reader, Holds, ends
  <2>2. /\ reader' \in [Runs -> [Streams -> {"none", "reading", "sending", "done"}]]
        /\ \A t \in Streams : reader'[r][t] = IF t = s THEN "done" ELSE reader[r][t]
        /\ \A q \in Runs \ {r} : reader'[q] = reader[q]
    BY <1>1, <2>1
  <2>3. RunnerTypes' /\ \A q \in Runs \ {r} : Same(q)
    BY <1>1, <1>2, <2>1, <2>2
  <2>4. Course(r)'
    BY <1>1, <1>2, <1>3, <1>4, <2>1, <2>2 DEF Course
  <2>5. Over(r)'
    BY <1>2, <1>4 DEF Over
  <2>6. \A t \in Streams : Delivered(r, t)' = Delivered(r, t)
    BY <1>2, <1>4, <2>1, <2>2 DEF Delivered
  <2>7. Events(r)' = Events(r)
    BY <2>1 DEF Events
  <2>8. Said(r)' /\ Closed(r)'
    BY <1>1, <1>2, <2>6, <2>7, Untold
  <2>9. RunInv(r)'
    BY <1>1, <2>1, <2>4, <2>5, <2>8
  <2> QED  BY <1>2, <1>3, <2>3, <2>9, OneRun
<1> QED  BY <1>5, <1>6, <1>7

LEMMA WriterKeeps ==
  ASSUME RunnerIInv, NEW r \in Runs, WriteInput(r) \/ WriteFailed(r)
  PROVE  RunnerIInv'
<1>1. RunnerTypes /\ RunInv(r) /\ job[r] \in Jobs
  BY DEF RunnerIInv, RunnerTypes
<1>2. /\ job' = job /\ vars' = vars /\ writer[r] \in {"writing", "failed"}
      /\ UNCHANGED <<rpc, outcome, child, helper, wrote, taken, reader, rx>>
  BY DEF WriteInput, WriteFailed, Send, run, procs, ends
<1>3. TokenStep /\ cancelled' = cancelled
  BY <1>2 DEF TokenStep, vars
<1> USE DEF Same, RunnerTypes, RunInv, Local, Streaming, ReaderEnded, Senders
<1>4. Local(r) /\ rx[r] # "ended" /\ job[r].stdin /\ rpc[r] # "new"
  BY <1>1, <1>2 DEF Course
<1>5. PICK step \in {"failed", "done"} : writer' = [writer EXCEPT ![r] = step]
  BY DEF WriteInput, WriteFailed, Writer
<1>6. Course(r)'
  BY <1>1, <1>2, <1>3, <1>4, <1>5 DEF Course
<1>7. Over(r)'
  BY <1>1, <1>2 DEF Over
<1>8. \A t \in Streams : Delivered(r, t)' = Delivered(r, t)
  BY <1>2 DEF Delivered
<1>9. CASE WriteInput(r)
  <2>1. UNCHANGED <<chan, seen>>
    BY <1>9 DEF WriteInput, ends
  <2>2. RunnerTypes' /\ \A q \in Runs \ {r} : Same(q)
    BY <1>1, <1>2, <1>5, <2>1
  <2>3. Events(r)' = Events(r)
    BY <2>1 DEF Events
  <2>4. Said(r)' /\ Closed(r)'
    BY <1>1, <1>2, <1>8, <2>3, Untold
  <2>5. RunInv(r)'
    BY <1>1, <1>6, <1>7, <2>1, <2>4
  <2> QED  BY <1>2, <1>3, <2>2, <2>5, OneRun
<1>10. CASE WriteFailed(r)
  <2>1. Send(r, Note) /\ Note \in EventSet /\ Note[1] = "note"
    BY <1>10 DEF WriteFailed, Note, EventSet
  <2>2. /\ seen' = seen /\ chan' \in [Runs -> Seq(EventSet)] /\ \A q \in Runs \ {r} : chan'[q] = chan[q]
        /\ Len(chan'[r]) <= CAPACITY /\ Events(r) \in Seq(EventSet)
        /\ Events(r)' = IF rx[r] = "dropped" THEN Events(r) ELSE Append(Events(r), Note)
    BY <1>1, <2>1, SendAppends
  <2>3. RunnerTypes' /\ \A q \in Runs \ {r} : Same(q)
    BY <1>1, <1>2, <1>5, <2>2
  <2>4. Said(r)' /\ Closed(r)'
    <3>1. CASE rx[r] = "dropped"
      BY <3>1, <1>1, <1>2, <1>8, <2>2, Untold
    <3>2. CASE rx[r] # "dropped"
      <4>1. \A t \in Streams : Delivered(r, t) \in Nat
        BY <1>1, <1>4 DEF Delivered, Course
      <4>2. \A t \in Streams : Note[1] # t
        BY <2>1 DEF Streams
      <4>3. Note[1] # "completed" /\ Events(r)' = Append(Events(r), Note) /\ rx'[r] = rx[r] /\ outcome'[r] = outcome[r] /\ rpc'[r] = rpc[r]
        BY <3>2, <2>1, <2>2, <1>2
      <4>4. \A t \in Streams : /\ Delivered(r, t) \in Nat /\ Delivered(r, t)' \in Nat
                               /\ Note[1] # t /\ Delivered(r, t)' = Delivered(r, t)
        BY <4>1, <4>2, <1>8
      <4> HIDE DEF RunnerTypes, RunInv
      <4> QED  BY <4>3, <4>4, <1>1, <1>2, <1>4, <2>1, <2>2, ToldNext
    <3> QED  BY <3>1, <3>2
  <2>5. RunInv(r)'
    BY <1>6, <1>7, <2>2, <2>4
  <2> QED  BY <1>2, <1>3, <2>3, <2>5, OneRun
<1> QED  BY <1>9, <1>10

-----------------------------------------------------------------------------
(* The task of a run, when it says something.                               *)

LEMMA SaysKeeps ==
  ASSUME RunnerIInv, NEW r \in Runs, Report(r) \/ Complete(r)
  PROVE  RunnerIInv'
<1>1. RunnerTypes /\ RunInv(r) /\ job[r] \in Jobs
  BY DEF RunnerIInv, RunnerTypes
<1>2. /\ job' = job /\ vars' = vars /\ rpc[r] \in {"report", "complete"}
      /\ UNCHANGED <<outcome, child, helper, wrote, taken, reader, writer, seen, rx>>
  BY DEF Report, Complete, Send, procs, tasks, ends
<1>3. TokenStep /\ cancelled' = cancelled
  BY <1>2 DEF TokenStep, vars
<1> USE DEF Same, RunnerTypes, RunInv, Local, Streaming, ReaderEnded, Senders
<1>4. Streaming(r) /\ rx[r] # "ended"
  BY <1>1, <1>2 DEF Course
<1>5. PICK step \in {"complete", "done"}, e \in EventSet :
        /\ rpc' = [rpc EXCEPT ![r] = step]
        /\ chan' = chan \/ Send(r, e)
        /\ e[1] \in {"sentinel", "completed"} /\ (e[1] = "completed" => step = "done")
        /\ e[1] = "completed" /\ outcome[r] = "wait_failed" => e = Completed(0)
  <2>1. \A c \in {0, 1} : Completed(c) \in EventSet /\ Completed(c)[1] = "completed"
    BY DEF Completed, EventSet
  <2>2. Sentinel \in EventSet /\ Sentinel[1] = "sentinel"
    BY DEF Sentinel, EventSet
  <2>3. CASE Report(r)
    <3>1. rpc' = [rpc EXCEPT ![r] = "complete"] /\ (chan' = chan \/ Send(r, Sentinel))
      BY <2>3 DEF Report, Goto, ends
    <3> QED  BY <3>1, <2>2
  <2>4. CASE Complete(r)
    <3> DEFINE c == IF outcome[r] \in {"exited", "failed"} THEN 1 ELSE 0
    <3>1. rpc' = [rpc EXCEPT ![r] = "done"] /\ Send(r, Completed(c)) /\ c \in {0, 1} /\ (outcome[r] = "wait_failed" => c = 0)
      BY <2>4 DEF Complete, Goto
    <3> HIDE DEF c
    <3> QED  BY <3>1, <2>1
  <2> QED  BY <2>3, <2>4
<1>6. /\ chan' \in [Runs -> Seq(EventSet)] /\ \A q \in Runs \ {r} : chan'[q] = chan[q]
      /\ Len(chan'[r]) <= CAPACITY
      /\ \/ Events(r)' = Events(r)
         \/ rx[r] # "dropped" /\ Events(r) \in Seq(EventSet) /\ Events(r)' = Append(Events(r), e)
  <2>1. CASE chan' = chan
    BY <2>1, <1>1, <1>2 DEF Events
  <2>2. CASE Send(r, e)
    BY <2>2, <1>1, SendAppends
  <2> QED  BY <1>5, <2>1, <2>2
<1>7. RunnerTypes' /\ \A q \in Runs \ {r} : Same(q)
  BY <1>1, <1>2, <1>5, <1>6 DEF RunSteps
<1>8. Course(r)'
  BY <1>1, <1>2, <1>3, <1>4, <1>5 DEF Course
<1>9. Over(r)'
  BY <1>1, <1>2, <1>5 DEF Over
<1>10. \A s \in Streams : Delivered(r, s)' = Delivered(r, s) /\ Delivered(r, s) \in Nat
  BY <1>1, <1>2, <1>4 DEF Delivered, Course
<1>11. Said(r)' /\ Closed(r)'
  <2>1. rpc[r] # "done" /\ rpc'[r] = step /\ rx'[r] = rx[r] /\ outcome'[r] = outcome[r]
    BY <1>1, <1>2, <1>5
  <2>2. \A s \in Streams : e[1] # s
    BY <1>5 DEF Streams
  <2>3. CASE Events(r)' = Events(r)
    BY <2>1, <2>3, <1>1, <1>2, <1>10, Untold
  <2>4. CASE rx[r] # "dropped" /\ Events(r) \in Seq(EventSet) /\ Events(r)' = Append(Events(r), e)
    <3>1. \A s \in Streams : /\ Delivered(r, s) \in Nat /\ Delivered(r, s)' \in Nat
                             /\ e[1] # s /\ Delivered(r, s)' = Delivered(r, s)
      BY <1>10, <2>2
    <3> HIDE DEF RunnerTypes, RunInv
    <3> QED  BY <2>1, <2>4, <3>1, <1>1, <1>2, <1>5, ToldNext
  <2> QED  BY <2>3, <2>4, <1>6
<1>12. RunInv(r)'
  BY <1>6, <1>8, <1>9, <1>11
<1> QED  BY <1>2, <1>3, <1>7, <1>12, OneRun

LEMMA SendBlobKeeps ==
  ASSUME RunnerIInv, NEW r \in Runs, SendBlob(r)
  PROVE  RunnerIInv'
<1> DEFINE e == Line("out", taken[r]["out"] + 1)
<1>1. RunnerTypes /\ RunInv(r) /\ job[r] \in Jobs
  BY DEF RunnerIInv, RunnerTypes
<1>2. /\ job' = job /\ vars' = vars /\ rpc[r] = "blob" /\ Streaming(r) /\ taken[r]["out"] < wrote[r]["out"]
      /\ taken' = [taken EXCEPT ![r]["out"] = taken[r]["out"] + 1]
      /\ UNCHANGED <<outcome, child, helper, wrote, reader, writer, seen, rx>>
  BY DEF SendBlob, Send, procs
<1>3. TokenStep /\ cancelled' = cancelled
  BY <1>2 DEF TokenStep, vars
<1>4. rpc' = IF rx[r] = "dropped" THEN [rpc EXCEPT ![r] = "report"] ELSE rpc
  BY DEF SendBlob, Goto
<1> USE DEF Same, RunnerTypes, RunInv, Local, Streaming, ReaderEnded, Senders
<1>5. /\ ~Local(r) /\ rx[r] # "ended" /\ outcome[r] = "exited" /\ writer[r] = "none"
      /\ \A t \in Streams : reader[r][t] = "none" /\ taken[r][t] \in Nat /\ wrote[r][t] \in Nat
  BY <1>1, <1>2 DEF Course
<1>6. /\ taken' \in [Runs -> [Streams -> Nat]]
      /\ \A t \in Streams : taken'[r][t] = IF t = "out" THEN taken[r][t] + 1 ELSE taken[r][t]
      /\ \A q \in Runs \ {r} : taken'[q] = taken[q]
  BY <1>1, <1>2, <1>5 DEF Streams
<1>7. e \in EventSet /\ e[1] = "out" /\ "out" \in Streams
  BY <1>5 DEF EventSet, Line, Streams
<1>8. Send(r, e)
  <2>1. Send(r, Line("out", taken'[r]["out"]))
    BY DEF SendBlob
  <2>2. taken'[r]["out"] = taken[r]["out"] + 1
    BY <1>6, <1>7
  <2> QED  BY <2>1, <2>2
<1> HIDE DEF e
<1>9. /\ seen' = seen /\ chan' \in [Runs -> Seq(EventSet)] /\ \A q \in Runs \ {r} : chan'[q] = chan[q]
      /\ Len(chan'[r]) <= CAPACITY /\ Events(r) \in Seq(EventSet)
      /\ Events(r)' = IF rx[r] = "dropped" THEN Events(r) ELSE Append(Events(r), e)
  BY <1>1, <1>7, <1>8, SendAppends
<1>10. RunnerTypes' /\ \A q \in Runs \ {r} : Same(q)
  BY <1>1, <1>2, <1>4, <1>6, <1>9 DEF RunSteps
<1>11. Course(r)'
  BY <1>1, <1>2, <1>3, <1>4, <1>5, <1>6 DEF Course
<1>12. Over(r)'
  BY <1>2, <1>5 DEF Over
<1>13. Said(r)' /\ Closed(r)'
  <2>1. CASE rx[r] = "dropped"
    BY <2>1, <1>1, <1>2, <1>9, Untold
  <2>2. CASE rx[r] # "dropped"
    <3>1. \A t \in Streams : Delivered(r, t) = taken[r][t] /\ Delivered(r, t)' = taken'[r][t]
      BY <1>2, <1>5 DEF Delivered
    <3>2. \A t \in Streams : Delivered(r, t) \in Nat /\ Delivered(r, t)' \in Nat
      BY <3>1, <1>5, <1>6
    <3>3. \A t \in Streams : \/ e = Line(t, Delivered(r, t) + 1) /\ Delivered(r, t)' = Delivered(r, t) + 1
                             \/ e[1] # t /\ Delivered(r, t)' = Delivered(r, t)
      BY <3>1, <1>6, <1>7 DEF e
    <3>4. /\ Events(r)' = Append(Events(r), e) /\ e[1] # "completed" /\ rpc[r] # "done"
          /\ rx'[r] = rx[r] /\ outcome'[r] = outcome[r]
      BY <2>2, <1>2, <1>7, <1>9
    <3> HIDE DEF RunnerTypes, RunInv
    <3> QED  BY <3>2, <3>3, <3>4, <1>1, <1>2, <1>7, <1>9, ToldNext
  <2> QED  BY <2>1, <2>2
<1>14. RunInv(r)'
  BY <1>9, <1>11, <1>12, <1>13
<1> QED  BY <1>2, <1>3, <1>10, <1>14, OneRun

\* exec in a sandbox answers the guest's output whole.
LEMMA WholeTells ==
  ASSUME NEW k \in Nat
  PROVE  LET lines == [n \in 1 .. k |-> Line("out", n)]
         IN  lines \in Seq(EventSet) /\ Tells(lines, "out", k) /\ Tells(lines, "err", 0)
<1> DEFINE lines == [n \in 1 .. k |-> Line("out", n)]
<1>1. \A n \in 1 .. k : Line("out", n) \in EventSet /\ Line("out", n)[1] = "out" /\ Line("out", n)[2] = n
  BY DEF Line, EventSet
<1>2. lines \in Seq(EventSet)
  BY <1>1
<1>3. Len(lines) = k /\ \A n \in 1 .. k : lines[n] = Line("out", n)
  BY <1>2
<1> HIDE DEF lines
<1>4. Tells(lines, "out", k)
  BY <1>1, <1>3 DEF Tells
<1>5. Tells(lines, "err", 0)
  BY <1>1, <1>3 DEF Tells
<1> QED  BY <1>2, <1>4, <1>5 DEF lines

LEMMA BlobDoneKeeps ==
  ASSUME RunnerIInv, NEW r \in Runs, BlobDone(r)
  PROVE  RunnerIInv'
<1> DEFINE lines == [n \in 1 .. wrote[r]["out"] |-> Line("out", n)]
<1>1. RunnerTypes /\ RunInv(r) /\ job[r] \in Jobs
  BY DEF RunnerIInv, RunnerTypes
<1>2. /\ job' = job /\ vars' = vars /\ rpc[r] = "blob" /\ rpc' = [rpc EXCEPT ![r] = AfterWait(r)]
      /\ Streaming(r) => taken[r]["out"] = wrote[r]["out"]
      /\ seen' = IF Streaming(r) THEN seen ELSE [seen EXCEPT ![r] = lines]
      /\ UNCHANGED <<outcome, child, helper, wrote, taken, reader, writer, chan, rx>>
  BY DEF BlobDone, Goto, procs, tasks
<1>3. TokenStep /\ cancelled' = cancelled
  BY <1>2 DEF TokenStep, vars
<1> HIDE DEF lines
<1> USE DEF Same, RunnerTypes, RunInv, Local, Streaming, ReaderEnded, Senders
<1>4. /\ ~Local(r) /\ rx[r] # "ended" /\ outcome[r] = "exited" /\ writer[r] = "none"
      /\ \A t \in Streams : reader[r][t] = "none" /\ wrote[r][t] \in Nat
      /\ wrote[r]["err"] = 0 /\ wrote[r]["out"] \in Nat /\ (~Streaming(r) => chan[r] = <<>>)
  BY <1>1, <1>2 DEF Course, Streams
<1>5. lines \in Seq(EventSet) /\ Tells(lines, "out", wrote[r]["out"]) /\ Tells(lines, "err", 0)
  BY <1>4, WholeTells DEF lines
<1>6. seen' \in [Runs -> Seq(EventSet)] /\ \A q \in Runs \ {r} : seen'[q] = seen[q]
  BY <1>1, <1>2, <1>5
<1>7. RunnerTypes' /\ \A q \in Runs \ {r} : Same(q)
  BY <1>1, <1>2, <1>6 DEF RunSteps, AfterWait
<1>8. Course(r)'
  BY <1>1, <1>2, <1>3, <1>4 DEF Course, AfterWait
<1>9. Over(r)'
  BY <1>2, <1>4 DEF Over
<1>10. CASE Streaming(r)
  <2>1. Events(r)' = Events(r)
    BY <1>2, <1>10 DEF Events
  <2>2. \A t \in Streams : Delivered(r, t)' = Delivered(r, t)
    BY <1>2, <1>10 DEF Delivered
  <2>3. Said(r)' /\ Closed(r)'
    BY <2>1, <2>2, <1>1, <1>2, Untold
  <2>4. RunInv(r)'
    BY <2>3, <1>1, <1>2, <1>8, <1>9
  <2> QED  BY <2>4, <1>2, <1>3, <1>7, OneRun
<1>11. CASE ~Streaming(r)
  <2>1. Events(r)' = lines
    <3>1. seen'[r] = lines /\ chan'[r] = <<>>
      BY <1>1, <1>2, <1>4, <1>11
    <3> QED  BY <3>1, <1>5, ConcatEmptySeq DEF Events
  <2>2. \A t \in Streams : Delivered(r, t)' = wrote[r][t]
    BY <1>1, <1>2, <1>4, <1>11 DEF Delivered, AfterWait
  <2>3. \A t \in Streams : Tells(lines, t, wrote[r][t])
    BY <1>4, <1>5 DEF Streams
  <2>4. Said(r)'
    BY <2>1, <2>2, <2>3 DEF Said, Tells
  <2>5. Closed(r)'
    BY <1>2, <1>11 DEF Closed
  <2>6. RunInv(r)'
    BY <2>4, <2>5, <1>1, <1>2, <1>8, <1>9
  <2> QED  BY <2>6, <1>2, <1>3, <1>7, OneRun
<1> QED  BY <1>10, <1>11

-----------------------------------------------------------------------------
(* The caller.                                                              *)

LEMMA ReceiveKeeps ==
  ASSUME RunnerIInv, NEW r \in Runs, Receive(r) \/ ReceiveEnd(r)
  PROVE  RunnerIInv'
<1>1. RunnerTypes /\ RunInv(r) /\ job[r] \in Jobs
  BY DEF RunnerIInv, RunnerTypes
<1>2. /\ job' = job /\ vars' = vars /\ rx[r] = "open"
      /\ UNCHANGED <<rpc, outcome, child, helper, wrote, taken, reader, writer>>
  BY DEF Receive, ReceiveEnd, run, procs, tasks
<1>3. TokenStep /\ cancelled' = cancelled
  BY <1>2 DEF TokenStep, vars
<1> USE DEF Same, RunnerTypes, RunInv, Local, Streaming, ReaderEnded, Senders
<1>4. \A s \in Streams : Delivered(r, s)' = Delivered(r, s)
  BY <1>2 DEF Delivered
<1>5. Over(r)'
  BY <1>1, <1>2 DEF Over
<1>6. CASE Receive(r)
  <2> DEFINE a == seen[r]
             b == chan[r]
  <2>1. /\ seen' = [seen EXCEPT ![r] = Append(a, Head(b))] /\ chan' = [chan EXCEPT ![r] = Tail(b)]
        /\ b # <<>> /\ UNCHANGED rx
    BY <1>6 DEF Receive
  <2>2. a \in Seq(EventSet) /\ b \in Seq(EventSet) /\ Len(b) \in Nat
    BY <1>1, LenProperties
  <2>3. /\ Append(a, Head(b)) \in Seq(EventSet) /\ Tail(b) \in Seq(EventSet) /\ Len(Tail(b)) = Len(b) - 1
        /\ Append(a, Head(b)) \o Tail(b) = a \o b
    <3> HIDE DEF a, b
    <3> QED  BY <2>1, <2>2, ReceiveMoves
  <2>4. seen'[r] = Append(a, Head(b)) /\ chan'[r] = Tail(b)
    BY <1>1, <2>1
  <2>5. Events(r)' = Events(r)
    BY <2>3, <2>4 DEF Events
  <2>6. RunnerTypes' /\ \A q \in Runs \ {r} : Same(q)
    BY <1>1, <1>2, <2>1, <2>3
  <2>7. Len(chan'[r]) <= CAPACITY
    BY <1>1, <2>2, <2>3, <2>4, RunnerAssumption
  <2>8. Course(r)'
    BY <1>1, <1>2, <1>3, <2>1 DEF Course
  <2>9. Said(r)' /\ Closed(r)'
    BY <1>1, <1>2, <1>4, <2>1, <2>5, Untold
  <2>10. RunInv(r)'
    BY <1>5, <2>7, <2>8, <2>9
  <2> QED  BY <1>2, <1>3, <2>6, <2>10, OneRun
<1>7. CASE ReceiveEnd(r)
  <2>1. chan[r] = <<>> /\ ~Senders(r) /\ rx' = [rx EXCEPT ![r] = "ended"] /\ UNCHANGED <<chan, seen>>
    BY <1>7 DEF ReceiveEnd
  <2>2. RunnerTypes' /\ \A q \in Runs \ {r} : Same(q)
    BY <1>1, <1>2, <2>1
  <2>3. Course(r)'
    BY <1>1, <1>2, <1>3, <2>1 DEF Course
  <2>4. Events(r)' = Events(r)
    BY <2>1 DEF Events
  <2>5. Said(r)' /\ Closed(r)'
    BY <1>1, <1>2, <1>4, <2>1, <2>4, Untold
  <2>6. RunInv(r)'
    BY <1>1, <1>5, <2>1, <2>3, <2>5
  <2> QED  BY <1>2, <1>3, <2>2, <2>6, OneRun
<1> QED  BY <1>6, <1>7

LEMMA DropKeeps ==
  ASSUME RunnerIInv, NEW r \in Runs, DropRx(r)
  PROVE  RunnerIInv'
<1> DEFINE a == seen[r]
           b == chan[r]
<1>1. RunnerTypes /\ RunInv(r) /\ job[r] \in Jobs
  BY DEF RunnerIInv, RunnerTypes
<1>2. /\ job' = job /\ rx[r] = "open" /\ rpc[r] # "new"
      /\ rx' = [rx EXCEPT ![r] = "dropped"] /\ chan' = [chan EXCEPT ![r] = <<>>]
      /\ rpc' = IF Local(r) \/ Streaming(r) THEN rpc ELSE [rpc EXCEPT ![r] = "done"]
      /\ UNCHANGED <<outcome, child, helper, wrote, taken, reader, writer, seen>>
  BY DEF DropRx, Goto, procs, tasks
<1>3. TokenStep /\ cancelled' = cancelled
  <2>1. vars' = vars \/ DropFuture(r)
    BY DEF DropRx
  <2> QED  BY <2>1, RunnerAssumption DEF TokenStep, DropFuture, vars
<1> USE DEF Same, RunnerTypes, RunInv, Local, Streaming, ReaderEnded, Senders
<1>4. a \in Seq(EventSet) /\ b \in Seq(EventSet) /\ <<>> \in Seq(EventSet) /\ Len(<<>>) = 0
  BY <1>1, EmptySeq
<1>5. RunnerTypes' /\ \A q \in Runs \ {r} : Same(q)
  BY <1>1, <1>2, <1>4 DEF RunSteps
<1>6. Len(chan'[r]) <= CAPACITY
  BY <1>1, <1>2, <1>4, RunnerAssumption
<1>7. Course(r)'
  BY <1>1, <1>2, <1>3 DEF Course
<1>8. Over(r)'
  BY <1>1, <1>2 DEF Over, Course
<1>9. Said(r)'
  BY <1>1, <1>2 DEF Said
<1>10. Closed(r)'
  <2>1. Events(r)' = a
    <3>1. seen'[r] = a /\ chan'[r] = <<>>
      BY <1>1, <1>2
    <3> QED  BY <3>1, <1>4, ConcatEmptySeq DEF Events
  <2>2. /\ Len(a \o b) = Len(a) + Len(b) /\ Len(a) \in Nat /\ Len(b) \in Nat
        /\ \A i \in 1 .. Len(a) : (a \o b)[i] = a[i]
    <3> HIDE DEF a, b
    <3> QED  BY <1>4, ConcatProperties, LenProperties
  <2>3. Events(r) = a \o b
    BY DEF Events
  <2>4. Closed(r)
    BY <1>1
  <2> HIDE DEF a, b
  <2> SUFFICES ASSUME Streaming(r), ~job[r].stdin, NEW i \in 1 .. Len(a), IsCompleted(a[i])
               PROVE  /\ rpc'[r] = "done"
                      /\ IF outcome[r] = "wait_failed"
                         THEN a[i] = Completed(0) /\ \A j \in 1 .. Len(a) : IsCompleted(a[j]) => j = i
                         ELSE i = Len(a)
    BY <1>2, <2>1 DEF Closed
  <2>5. \A j \in 1 .. Len(a) : j \in 1 .. Len(a \o b) /\ (IsCompleted(a[j]) => IsCompleted((a \o b)[j]))
    BY <2>2 DEF IsCompleted
  <2>6. /\ rpc[r] = "done"
        /\ IF outcome[r] = "wait_failed"
           THEN /\ (a \o b)[i] = Completed(0)
                /\ \A j \in 1 .. Len(a \o b) : IsCompleted((a \o b)[j]) => j = i
           ELSE i = Len(a \o b)
    BY <2>3, <2>4, <2>5 DEF Closed
  <2>7. rpc'[r] = "done"
    BY <2>6, <1>1, <1>2
  <2>8. CASE outcome[r] = "wait_failed"
    BY <2>2, <2>5, <2>6, <2>7, <2>8
  <2>9. CASE outcome[r] # "wait_failed"
    BY <2>2, <2>6, <2>7, <2>9
  <2> QED  BY <2>8, <2>9
<1>11. RunInv(r)'
  BY <1>6, <1>7, <1>8, <1>9, <1>10
<1> QED  BY <1>2, <1>3, <1>5, <1>11, OneRun

-----------------------------------------------------------------------------
(* The others' steps on the token leave every run where it is.              *)

LEMMA RunsStay ==
  ASSUME RunnerIInv, TokenStep, runner' = runner
  PROVE  RunnerIInv'
<1>1. Inv' /\ (cancelled => cancelled')
  BY TokenKeeps DEF RunnerIInv
<1>2. /\ job' = job /\ rpc' = rpc /\ outcome' = outcome /\ child' = child /\ helper' = helper
      /\ wrote' = wrote /\ taken' = taken /\ reader' = reader /\ writer' = writer
      /\ chan' = chan /\ seen' = seen /\ rx' = rx
  BY DEF runner, run, procs, tasks, ends
<1>3. RunnerTypes'
  BY <1>2 DEF RunnerIInv, RunnerTypes
<1>4. ASSUME NEW q \in Runs PROVE RunInv(q)'
  <2>1. RunInv(q)
    BY DEF RunnerIInv
  <2>2. Events(q)' = Events(q)
    BY <1>2 DEF Events
  <2>3. Course(q)'
    BY <1>1, <1>2, <2>1 DEF RunInv, Course, Local, Streaming, Senders, ReaderEnded
  <2>4. Over(q)'
    BY <1>2, <2>1 DEF RunInv, Over, Local, ReaderEnded
  <2>5. \A s \in Streams : Delivered(q, s)' = Delivered(q, s)
    BY <1>2 DEF Delivered, Local, Streaming
  <2>6. Said(q)' /\ Closed(q)'
    BY <1>2, <2>1, <2>2, <2>5, Untold
  <2> QED  BY <1>2, <2>1, <2>3, <2>4, <2>6 DEF RunInv
<1> QED  BY <1>1, <1>3, <1>4 DEF RunnerIInv

(* What the runs promise, of any commands, with any number of lines and     *)
(* places in the channel: RunnerTypeOK and RunOverIsOver are part of the    *)
(* invariant; a run whose Completed is in the channel is done, and no input *)
(* means no writer; a caller who has seen the end has seen all that was     *)
(* sent, which is all that was written by a command that ended by itself.   *)
LEMMA RunnerIsSound == RunnerIInv => RunnerHolds
<1> SUFFICES ASSUME RunnerIInv PROVE RunnerHolds
  OBVIOUS
<1> USE DEF RunnerIInv, RunnerTypes, RunInv
<1>1. RunnerTypeOK
  <2>1. \A r \in Runs, s \in Streams : taken[r][s] \in 0 .. wrote[r][s]
    <3> SUFFICES ASSUME NEW r \in Runs, NEW s \in Streams PROVE taken[r][s] \in 0 .. wrote[r][s]
      OBVIOUS
    <3>1. taken[r][s] \in Nat /\ wrote[r][s] \in Nat /\ taken[r][s] <= wrote[r][s]
      BY RunnerAssumption DEF Course
    <3> QED  BY <3>1
  <2> QED  BY <2>1 DEF RunnerTypeOK, RunSteps
<1>2. RunOverIsOver
  BY DEF RunOverIsOver, Over, Course
<1>3. CompletedLast
  <2> SUFFICES ASSUME NEW r \in Runs, Streaming(r), ~job[r].stdin,
                      NEW i \in 1 .. Len(Events(r)), IsCompleted(Events(r)[i])
               PROVE  IF outcome[r] = "wait_failed"
                      THEN /\ Events(r)[i] = Completed(0)
                           /\ \A j \in 1 .. Len(Events(r)) : IsCompleted(Events(r)[j]) => j = i
                      ELSE i = Len(Events(r)) /\ ~Senders(r)
    BY DEF CompletedLast
  <2>1. CASE outcome[r] = "wait_failed"
    BY <2>1 DEF Closed
  <2>2. CASE outcome[r] # "wait_failed"
    <3>1. i = Len(Events(r)) /\ rpc[r] = "done"
      BY <2>2 DEF Closed
    <3>2. \A s \in Streams : ReaderEnded(r, s)
      BY <2>2, <3>1 DEF Over
    <3>3. writer[r] = "none"
      BY DEF Course
    <3> QED  BY <2>2, <3>1, <3>2, <3>3 DEF Senders
  <2> QED  BY <2>1, <2>2
<1>4. OutputWhole
  <2> SUFFICES ASSUME NEW r \in Runs, rx[r] = "ended", outcome[r] = "exited", NEW s \in Streams
               PROVE  Tells(seen[r], s, wrote[r][s])
    BY DEF OutputWhole
  <2>1. /\ chan[r] = <<>> /\ rpc[r] = "done" /\ reader[r][s] \in {"none", "done"}
        /\ child[r] = "exited"
    BY DEF Course, Senders, ReaderEnded
  <2>2. Tells(Events(r), s, Delivered(r, s))
    BY DEF Said
  <2>3. Events(r) = seen[r]
    BY <2>1, ConcatEmptySeq DEF Events
  <2>4. Delivered(r, s) = wrote[r][s]
    <3>1. CASE Local(r)
      <4>1. Course(r)
        OBVIOUS
      <4>2. reader[r][s] = "done"
        <5> HIDE DEF RunnerIInv, RunnerTypes, RunInv
        <5> QED  BY <3>1, <4>1, <2>1 DEF Course
      <4>3. taken[r][s] = wrote[r][s]
        <5> HIDE DEF RunnerIInv, RunnerTypes, RunInv
        <5> QED  BY <4>1, <4>2 DEF Course
      <4> QED  BY <3>1, <4>2, <4>3 DEF Delivered
    <3>2. CASE ~Local(r) /\ ~Streaming(r)
      BY <3>2, <2>1 DEF Delivered
    <3>3. CASE ~Local(r) /\ Streaming(r)
      <4>1. Delivered(r, s) = taken[r][s]
        BY <3>3, <2>1 DEF Delivered
      <4>2. taken[r]["out"] = wrote[r]["out"]
        BY <3>3, <2>1 DEF Course
      <4>3. taken[r]["err"] = wrote[r]["err"]
        <5>1. wrote[r]["err"] = 0 /\ taken[r]["err"] <= wrote[r]["err"] /\ taken[r]["err"] \in Nat
          BY <3>3 DEF Course, Streams
        <5> QED  BY <5>1
      <4> QED  BY <4>1, <4>2, <4>3 DEF Streams
    <3> QED  BY <3>1, <3>2, <3>3
  <2> QED  BY <2>2, <2>3, <2>4
<1> QED  BY <1>1, <1>2, <1>3, <1>4 DEF RunnerHolds, RunnerInv

(* A run that is over has no child left on the host and was aborted only by *)
(* its token (runners/local.rs); unless its wait failed (local.rs:131), it  *)
(* has no reader left either and nothing comes after the Completed of a     *)
(* stream (common/runner.rs:44), which is the only one in any case; and the *)
(* output of a command that ended by itself is whole.  The token keeps what *)
(* TokenSafe says of it, under tasks that drop it at any time.              *)
THEOREM RunnersHold == RunnerSpec => [](RunnerHolds /\ Inv)
<1>1. RunnerInit => RunnerIInv
  BY RunnerStart
<1>2. RunnerIInv /\ [RunnerNext]_allvars => RunnerIInv'
  <2> SUFFICES ASSUME RunnerIInv, [RunnerNext]_allvars PROVE RunnerIInv'
    OBVIOUS
  <2>1. CASE TokenNext
    <3>1. runner' = runner /\ TokenStep
      BY <2>1 DEF TokenNext, Polled, TokenStep, Waiter
    <3> QED  BY <3>1, RunsStay
  <2>2. ASSUME NEW r \in Runs,
               \/ Spawn(r) \/ SpawnFails(r) \/ WaitFails(r)
               \/ Wait(r) \/ RunTask(r) \/ PipeTask(r)
               \/ Child(r) \/ Caller(r)
        PROVE  RunnerIInv'
    <3>1. CASE Spawn(r) \/ SpawnFails(r)
      BY <3>1, SpawnKeeps
    <3>2. CASE Wait(r)
      BY <3>2, WaitKeeps
    <3>3. CASE RunTask(r)
      BY <3>3, CutKeeps, SaysKeeps, SendBlobKeeps, BlobDoneKeeps DEF RunTask
    <3>4. CASE PipeTask(r)
      BY <3>4, ReaderKeeps, WriterKeeps DEF PipeTask
    <3>5. CASE Child(r)
      BY <3>5, ChildKeeps
    <3>6. CASE Caller(r)
      BY <3>6, ReceiveKeeps, DropKeeps DEF Caller
    <3>7. CASE WaitFails(r)
      BY <3>7, WaitFailsKeeps
    <3> QED  BY <2>2, <3>1, <3>2, <3>3, <3>4, <3>5, <3>6, <3>7
  <2>3. CASE UNCHANGED allvars
    <3>1. runner' = runner /\ TokenStep
      BY <2>3 DEF allvars, TokenStep
    <3> QED  BY <3>1, RunsStay
  <2> QED  BY <2>1, <2>2, <2>3 DEF RunnerNext
<1>3. RunnerIInv => RunnerHolds /\ Inv
  BY RunnerIsSound DEF RunnerIInv
<1> QED  BY <1>1, <1>2, <1>3, PTL DEF RunnerSpec

-----------------------------------------------------------------------------
(* The steps of an install in the guest (GuestSetup).                       *)

GuestStep == ((SetupKinds \ {"mkdir", "put"}) \X {""}) \cup ({"mkdir", "put"} \X Plugins)

Guests ==
  [dns : BOOLEAN, fs : BOOLEAN, shell : {"sound", "odd"}, release : Releases,
   repos : [mirror : Mirrors \cup {"image"}, of : Releases], npm : Mirrors,
   environment : ProxyChoices, profile : ProxyChoices, claw : {"none", "begun", "whole"},
   dirs : SUBSET Plugins, plugins : SUBSET Plugins]

Installs ==
  [claw : Claws, mirror : Mirrors, npm : Mirrors, proxy : ProxyChoices, release : Releases,
   todo : Seq(GuestStep), try : 1..Len(Delays), met : BOOLEAN, clean : BOOLEAN]

Contains(steps, x) == \E i \in 1..Len(steps) : steps[i] = x

LEMMA PluginsAre == Plugins = {"mcp-bridge", "hil-skill", "hw-notify"}
<1>1. DOMAIN PluginSeq = 1..3 /\ PluginSeq[1] = "mcp-bridge" /\ PluginSeq[2] = "hil-skill" /\ PluginSeq[3] = "hw-notify"
  BY DEF PluginSeq
<1> QED  BY <1>1 DEF Plugins

LEMMA ContainsEither ==
  ASSUME NEW s \in Seq(GuestStep), NEW t \in Seq(GuestStep), NEW x, Contains(s, x) \/ Contains(t, x)
  PROVE  Contains(s \o t, x)
<1>1. CASE Contains(s, x)
  BY <1>1 DEF Contains
<1>2. CASE Contains(t, x)
  <2>1. PICK i \in 1..Len(t) : t[i] = x
    BY <1>2 DEF Contains
  <2>2. (s \o t)[Len(s) + i] = x /\ Len(s) + i \in 1..Len(s \o t)
    BY <2>1
  <2> QED  BY <2>2 DEF Contains
<1> QED  BY <1>1, <1>2

LEMMA ContainsTail ==
  ASSUME NEW s \in Seq(GuestStep), s # << >>, NEW x, Contains(s, x), x # Head(s)
  PROVE  Contains(Tail(s), x)
<1>1. PICK i \in 1..Len(s) : s[i] = x
  BY DEF Contains
<1>2. i # 1
  BY <1>1
<1>3. i - 1 \in 1..Len(Tail(s)) /\ Tail(s)[i - 1] = x
  BY <1>1, <1>2
<1> QED  BY <1>3 DEF Contains

LEMMA StepsAre ==
  ASSUME NEW c \in Claws, NEW r \in Mirrors, NEW p \in ProxyChoices
  PROVE  /\ InstallSteps(c, r, p) \in Seq(GuestStep)
         /\ Contains(InstallSteps(c, r, p), Do("repos"))
         /\ r # "default" => Contains(InstallSteps(c, r, p), Do("npm"))
         /\ p # "none" => /\ Contains(InstallSteps(c, r, p), Do("environment"))
                          /\ Contains(InstallSteps(c, r, p), Do("profile"))
         /\ Contains(InstallSteps(c, r, p), Do("install"))
         /\ \A x \in Plugins : Contains(InstallSteps(c, r, p), <<"put", x>>)
<1> DEFINE s1 == PostBoot
           s2 == ApplyMirrors(r)
           s3 == If(p # "none", ApplyProxy)
           s4 == If(c = "hermes", <<Do("packages")>>)
           s5 == <<Do("install"), Do("version")>>
           s6 == If(c = "openclaw", <<Do("config")>>)
           s7 == If(c = "hermes", PreBuildDashboard)
           s8 == DeployPlugins(c)
<1>0. \A k \in SetupKinds \ {"mkdir", "put"} : Do(k) \in GuestStep
  BY DEF GuestStep, Do
<1>1. s1 \in Seq(GuestStep)
  BY <1>0 DEF PostBoot, SetupKinds, Retried, Probes
<1>2. s2 \in Seq(GuestStep) /\ Contains(s2, Do("repos")) /\ (r # "default" => Contains(s2, Do("npm")))
  BY <1>0 DEF ApplyMirrors, If, SetupKinds, Retried, BestEffort, Contains
<1>3. s3 \in Seq(GuestStep) /\ (p # "none" => Contains(s3, Do("environment")) /\ Contains(s3, Do("profile")))
  BY <1>0 DEF ApplyProxy, If, SetupKinds, Retried, Contains
<1>4. s4 \in Seq(GuestStep) /\ s6 \in Seq(GuestStep) /\ s7 \in Seq(GuestStep)
  BY <1>0 DEF PreBuildDashboard, If, SetupKinds, BestEffort
<1>5. s5 \in Seq(GuestStep) /\ Contains(s5, Do("install"))
  BY <1>0 DEF SetupKinds, Contains
<1>6. s8 \in Seq(GuestStep) /\ \A x \in Plugins : Contains(s8, <<"put", x>>)
  <2> DEFINE d == <<<<"mkdir", "mcp-bridge">>, <<"put", "mcp-bridge">>, <<"mkdir", "hil-skill">>,
                    <<"put", "hil-skill">>, <<"mkdir", "hw-notify">>, <<"put", "hw-notify">>>>
             e == If(c = "hermes", <<Do("sdk")>>)
  <2>1. s8 = d \o e
    BY DEF DeployPlugins, PluginSeq
  <2>2. e \in Seq(GuestStep)
    BY <1>0 DEF If, SetupKinds, BestEffort
  <2>3. d \in Seq(GuestStep)
    <3>1. \A x \in Plugins : <<"mkdir", x>> \in GuestStep /\ <<"put", x>> \in GuestStep
      BY DEF GuestStep, SetupKinds
    <3> QED  BY <3>1, PluginsAre
  <2>4. \A x \in Plugins : Contains(d, <<"put", x>>)
    <3>1. Len(d) = 6 /\ d[2] = <<"put", "mcp-bridge">> /\ d[4] = <<"put", "hil-skill">> /\ d[6] = <<"put", "hw-notify">>
      OBVIOUS
    <3> HIDE DEF d
    <3> QED  BY <3>1, PluginsAre DEF Contains
  <2> HIDE DEF d, e, s8
  <2> QED  BY <2>1, <2>2, <2>3, <2>4, ContainsEither
<1>7. InstallSteps(c, r, p) = s1 \o s2 \o s3 \o s4 \o s5 \o s6 \o s7 \o s8
  BY DEF InstallSteps
<1> HIDE DEF s1, s2, s3, s4, s5, s6, s7, s8
<1>8. /\ s1 \o s2 \in Seq(GuestStep) /\ s1 \o s2 \o s3 \in Seq(GuestStep) /\ s1 \o s2 \o s3 \o s4 \in Seq(GuestStep)
      /\ s1 \o s2 \o s3 \o s4 \o s5 \in Seq(GuestStep) /\ s1 \o s2 \o s3 \o s4 \o s5 \o s6 \in Seq(GuestStep)
      /\ s1 \o s2 \o s3 \o s4 \o s5 \o s6 \o s7 \in Seq(GuestStep)
      /\ s1 \o s2 \o s3 \o s4 \o s5 \o s6 \o s7 \o s8 \in Seq(GuestStep)
  BY <1>1, <1>2, <1>3, <1>4, <1>5, <1>6
<1>9. ASSUME NEW x, Contains(s2, x) \/ Contains(s3, x) \/ Contains(s5, x) \/ Contains(s8, x)
      PROVE  Contains(InstallSteps(c, r, p), x)
  <2> DEFINE a3 == s1 \o s2
             a4 == s1 \o s2 \o s3
             a5 == s1 \o s2 \o s3 \o s4
             a6 == s1 \o s2 \o s3 \o s4 \o s5
             a7 == s1 \o s2 \o s3 \o s4 \o s5 \o s6
             a8 == s1 \o s2 \o s3 \o s4 \o s5 \o s6 \o s7
  <2>1. Contains(s2, x) => Contains(a3, x)
    BY <1>1, <1>2, ContainsEither
  <2>2. Contains(a3, x) \/ Contains(s3, x) => Contains(a4, x)
    BY <1>3, <1>8, ContainsEither
  <2>3. Contains(a4, x) => Contains(a5, x)
    BY <1>4, <1>8, ContainsEither
  <2>4. Contains(a5, x) \/ Contains(s5, x) => Contains(a6, x)
    BY <1>5, <1>8, ContainsEither
  <2>5. Contains(a6, x) => Contains(a7, x)
    BY <1>4, <1>8, ContainsEither
  <2>6. Contains(a7, x) => Contains(a8, x)
    BY <1>4, <1>8, ContainsEither
  <2>7. Contains(a8, x) \/ Contains(s8, x) => Contains(InstallSteps(c, r, p), x)
    BY <1>6, <1>7, <1>8, ContainsEither
  <2> QED  BY <1>9, <2>1, <2>2, <2>3, <2>4, <2>5, <2>6, <2>7
<1> QED  BY <1>2, <1>3, <1>5, <1>6, <1>7, <1>8, <1>9

-----------------------------------------------------------------------------
(* What a call of the install does to what is left of it.                   *)

SetupTyped ==
  /\ guest \in Guests /\ install \in Installs /\ quiet \in Nat
  /\ verdict \in SetupKinds \cup {"none", "ok"}
  /\ spells \in 0..MaxSpells /\ faults \in 0..MaxFaults /\ runs \in 0..MaxRuns

LEMMA SeqWithin ==
  ASSUME NEW S, NEW T, S \subseteq T
  PROVE  Seq(S) \subseteq Seq(T)
OBVIOUS

LEMMA SetupTypedIs == SetupTyped => SetupTypeOK
<1>1. GuestStep \subseteq SetupKinds \X (Plugins \cup {""})
  BY DEF GuestStep, SetupKinds
<1>2. Seq(GuestStep) \subseteq Seq(SetupKinds \X (Plugins \cup {""}))
  BY <1>1, SeqWithin
<1>3. Installs \subseteq [claw : Claws, mirror : Mirrors, npm : Mirrors, proxy : ProxyChoices, release : Releases,
                     todo : Seq(SetupKinds \X (Plugins \cup {""})), try : 1..Len(Delays), met : BOOLEAN,
                     clean : BOOLEAN]
  BY <1>2 DEF Installs
<1> QED  BY <1>3 DEF SetupTypeOK, SetupTyped, Guests

\* The same install, asked for the same.
SameJob(j, k) ==
  k.claw = j.claw /\ k.mirror = j.mirror /\ k.npm = j.npm /\ k.proxy = j.proxy /\ k.clean = j.clean

LEMMA DelaysAre ==
  /\ Len(Delays) \in Nat /\ Len(Delays) > 0 /\ 1 \in 1..Len(Delays)
  /\ \A i \in 1..Len(Delays) : Delays[i] \in Nat
  /\ Fallback \in Releases
<1>1. Delays \in Seq(0..30) /\ Delays # << >> /\ Fallback \in Releases
  BY GuestSetupAssumption
<1>2. Len(Delays) \in Nat /\ Len(Delays) > 0
  BY <1>1, EmptySeq, LenProperties
<1>3. Delays \in [1..Len(Delays) -> 0..30]
  BY <1>1, LenProperties
<1>4. \A i \in 1..Len(Delays) : Delays[i] \in Nat
  <2> TAKE i \in 1..Len(Delays)
  <2>1. Delays[i] \in 0..30
    BY <1>3
  <2>2. 0..30 \subseteq Nat
    OBVIOUS
  <2> QED  BY <2>1, <2>2, Zenon
<1>5. 1 \in 1..Len(Delays)
  BY <1>2
<1> QED  BY <1>1, <1>2, <1>4, <1>5

LEMMA OnwardIs ==
  ASSUME NEW j \in Installs, j.todo # << >>
  PROVE  /\ Onward(j) \in Installs /\ SameJob(j, Onward(j))
         /\ Onward(j).todo = Tail(j.todo) /\ Onward(j).try = 1 /\ Onward(j).met = FALSE
         /\ Onward(j).release = j.release
<1>1. Tail(j.todo) \in Seq(GuestStep) /\ 1 \in 1..Len(Delays)
  BY DelaysAre DEF Installs
<1> QED  BY <1>1 DEF Onward, Installs, SameJob

LEMMA StepIs ==
  ASSUME NEW h \in GuestStep
  PROVE  h[1] \in SetupKinds /\ h = <<h[1], h[2]>> /\ (h[1] \in {"mkdir", "put"} => h[2] \in Plugins)
<1> DEFINE nothing == {""}
<1>1. h \in (SetupKinds \ {"mkdir", "put"}) \X nothing \/ h \in {"mkdir", "put"} \X Plugins
  BY Zenon DEF GuestStep
<1> HIDE DEF nothing
<1>2. CASE h \in (SetupKinds \ {"mkdir", "put"}) \X nothing
  BY <1>2
<1>3. CASE h \in {"mkdir", "put"} \X Plugins
  <2>1. h = <<h[1], h[2]>> /\ h[1] \in {"mkdir", "put"} /\ h[2] \in Plugins
    BY <1>3
  <2> QED  BY <2>1 DEF SetupKinds
<1> QED  BY <1>1, <1>2, <1>3

LEMMA NowIs ==
  ASSUME SetupTyped, Working
  PROVE  /\ install.todo \in Seq(GuestStep) /\ install.todo # << >> /\ Head(install.todo) \in GuestStep
         /\ Now \in SetupKinds /\ Head(install.todo) = <<Now, What>>
         /\ Now \in {"mkdir", "put"} => What \in Plugins
         /\ Tail(install.todo) \in Seq(GuestStep)
         /\ Len(install.todo) = 1 <=> Tail(install.todo) = << >>
<1>1. install.todo \in Seq(GuestStep) /\ install.todo # << >>
  BY DEF SetupTyped, Installs, Working
<1> DEFINE t == install.todo
<1>2. Len(t) \in Nat /\ Len(t) > 0 /\ Head(t) = t[1] /\ t[1] \in GuestStep
  BY <1>1, EmptySeq, LenProperties, HeadTailProperties
<1>3. Tail(t) \in Seq(GuestStep) /\ Len(Tail(t)) = Len(t) - 1
  BY <1>1, HeadTailProperties
<1>4. Len(t) = 1 <=> Tail(t) = << >>
  <2>1. Tail(t) # << >> => Len(Tail(t)) # 0
    BY <1>3, EmptySeq
  <2>2. Tail(t) = << >> => Len(Tail(t)) = 0
    BY EmptySeq
  <2> DEFINE k == Len(t)
             l == Len(Tail(t))
  <2>3. k \in Nat /\ l = k - 1
    BY <1>2, <1>3
  <2> HIDE DEF k, l
  <2>4. k = 1 <=> l = 0
    BY <2>3
  <2> QED  BY <2>1, <2>2, <2>4, Zenon DEF k, l
<1> QED  BY <1>1, <1>2, <1>3, <1>4, StepIs DEF Now, What

\* One of the three things a call that has ended may do.
Passes(j) ==
  /\ install' \in Installs /\ SameJob(j, install')
  /\ install'.try = 1 /\ install'.met = FALSE
  /\ install'.todo = Tail(install.todo)
  /\ verdict' = IF Len(install.todo) = 1 THEN "ok" ELSE verdict

Fails1(j) ==
  /\ install' \in Installs /\ SameJob(j, install') /\ install'.release = j.release
  /\ install'.try = 1 /\ install'.met = FALSE
  /\ install'.todo = << >> /\ verdict' = Now /\ Now \notin BestEffort

Retries ==
  /\ install' \in Installs /\ SameJob([install EXCEPT !.clean = FALSE], install')
  /\ install'.release = install.release /\ install'.todo = install.todo
  /\ Now \in Retried /\ install.try < Len(Delays) /\ install'.try = install.try + 1 /\ install'.met = TRUE
  /\ quiet' \in Nat
  /\ UNCHANGED verdict

LEMMA GoesOnIs ==
  ASSUME SetupTyped, Working, NEW j \in Installs, j.todo = install.todo, GoesOn(j)
  PROVE  \/ Passes(j) /\ Now \in BestEffort /\ install'.release \in {j.release, Fallback}
         \/ Fails1(j)
<1>1. CASE Now \in BestEffort
  <2> DEFINE k == IF Now = "release" THEN [j EXCEPT !.release = Fallback] ELSE j
  <2>1. k \in Installs /\ SameJob(j, k) /\ k.todo = j.todo /\ k.release \in {j.release, Fallback}
    BY DelaysAre DEF Installs, SameJob
  <2>2. install' = Onward(k) /\ verdict' = IF Len(install.todo) = 1 THEN "ok" ELSE verdict
    BY <1>1 DEF GoesOn
  <2> HIDE DEF k
  <2>3. /\ Onward(k) \in Installs /\ SameJob(k, Onward(k))
        /\ Onward(k).todo = Tail(k.todo) /\ Onward(k).try = 1 /\ Onward(k).met = FALSE
        /\ Onward(k).release = k.release
    BY <2>1, OnwardIs DEF Working
  <2> QED  BY <1>1, <2>1, <2>2, <2>3 DEF Passes, SameJob
<1>2. CASE Now \notin BestEffort
  <2>1. install' = [j EXCEPT !.todo = << >>, !.try = 1, !.met = FALSE] /\ verdict' = Now
    BY <1>2 DEF GoesOn
  <2>2. << >> \in Seq(GuestStep) /\ 1 \in 1..Len(Delays)
    BY DelaysAre
  <2> QED  BY <1>2, <2>1, <2>2 DEF Fails1, Installs, SameJob
<1> QED  BY <1>1, <1>2

Unclean == [install EXCEPT !.clean = FALSE]

LEMMA UncleanIs ==
  ASSUME SetupTyped
  PROVE  /\ Unclean \in Installs /\ Unclean.todo = install.todo /\ Unclean.release = install.release
         /\ Unclean.claw = install.claw /\ Unclean.mirror = install.mirror /\ Unclean.npm = install.npm
         /\ Unclean.proxy = install.proxy /\ Unclean.clean = FALSE
         /\ Unclean.try = install.try /\ Unclean.met = install.met
BY DEF Unclean, SetupTyped, Installs

LEMMA AgainIs ==
  ASSUME SetupTyped, Working, NEW q \in Nat, Again(q)
  PROVE  \/ Retries /\ quiet' = Less(q, Delays[install.try + 1])
         \/ /\ Now \notin Retried \/ install.try = Len(Delays)
            /\ quiet' = q
            /\ \/ Passes(Unclean) /\ Now \in BestEffort /\ install'.release \in {install.release, Fallback}
               \/ Fails1(Unclean)
<1>0. install \in Installs /\ install.try \in 1..Len(Delays) /\ Len(Delays) \in Nat
  BY DelaysAre DEF SetupTyped, Installs
<1>1. CASE Now \in Retried /\ install.try < Len(Delays)
  <2>1. /\ install' = [install EXCEPT !.try = @ + 1, !.met = TRUE, !.clean = FALSE]
        /\ quiet' = Less(q, Delays[install.try + 1]) /\ UNCHANGED verdict
    BY <1>1 DEF Again
  <2>2. install.try + 1 \in 1..Len(Delays)
    BY <1>0, <1>1
  <2>3. Delays[install.try + 1] \in Nat
    BY <2>2, DelaysAre
  <2>4. quiet' \in Nat
    BY <2>1, <2>3 DEF Less
  <2>5. install' \in Installs /\ install'.claw = install.claw /\ install'.mirror = install.mirror /\ install'.npm = install.npm
        /\ install'.proxy = install.proxy /\ install'.clean = FALSE /\ install'.try = install.try + 1
        /\ install'.met = TRUE /\ install'.todo = install.todo /\ install'.release = install.release
    BY <1>0, <2>1, <2>2 DEF Installs
  <2> QED  BY <1>1, <2>1, <2>4, <2>5, UncleanIs DEF Retries, SameJob, Unclean
<1>2. CASE ~(Now \in Retried /\ install.try < Len(Delays))
  <2>1. quiet' = q /\ GoesOn(Unclean)
    BY <1>2 DEF Again, Unclean
  <2>2. \/ Passes(Unclean) /\ Now \in BestEffort /\ install'.release \in {Unclean.release, Fallback}
        \/ Fails1(Unclean)
    BY <2>1, UncleanIs, GoesOnIs
  <2> QED  BY <1>0, <1>2, <2>1, <2>2, UncleanIs
<1> QED  BY <1>1, <1>2

-----------------------------------------------------------------------------
(* A successful install has left what it was asked for (SetupInv).          *)

\* Of the steps j asks for, those not among "left" have been taken in g.
Fulfils(g, j, left) ==
  /\ \/ Contains(left, Do("repos"))
     \/ g.repos.mirror = j.mirror /\ g.repos.of \in {g.release, Fallback}
  /\ \/ Contains(left, Do("npm")) \/ j.npm = "default"
     \/ g.npm = j.npm
  /\ \/ Contains(left, Do("environment")) \/ j.proxy = "none"
     \/ g.environment = j.proxy
  /\ \/ Contains(left, Do("profile")) \/ j.proxy = "none"
     \/ g.profile = j.proxy
  /\ \/ Contains(left, Do("install"))
     \/ g.claw = "whole"
  /\ \A x \in Plugins : Contains(left, <<"put", x>>) \/ x \in g.plugins

ReleaseRead == install.release \in {guest.release, Fallback}

SetupIInv ==
  /\ SetupTyped
  /\ ReleaseRead
  /\ Working => verdict = "none"
  /\ Working \/ verdict = "ok" => Fulfils(guest, install, install.todo)
  /\ LeftoversHarmless

LEMMA DoneIs ==
  ASSUME SetupTyped, Working, NEW g \in {guest, Done(guest)}
  PROVE  /\ g \in Guests /\ g.release = guest.release
         /\ g.claw = "none" => guest.claw = "none"
<1>1. guest \in Guests /\ install \in Installs
  BY DEF SetupTyped
<1>2. CASE Now = "repos"
  <2>1. Done(guest) = [guest EXCEPT !.repos = [mirror |-> install.mirror, of |-> install.release]]
    BY <1>2 DEF Done
  <2>2. [mirror |-> install.mirror, of |-> install.release] \in [mirror : Mirrors \cup {"image"}, of : Releases]
    BY <1>1 DEF Installs
  <2> QED  BY <1>1, <2>1, <2>2 DEF Guests
<1>3. CASE Now = "npm"
  BY <1>1, <1>3 DEF Done, Guests, Installs
<1>4. CASE Now = "environment"
  BY <1>1, <1>4 DEF Done, Guests, Installs
<1>5. CASE Now = "profile"
  BY <1>1, <1>5 DEF Done, Guests, Installs
<1>6. CASE Now = "install"
  BY <1>1, <1>6 DEF Done, Guests
<1>7. CASE Now = "mkdir" \/ Now = "put"
  <2>1. What \in Plugins
    BY <1>7, NowIs
  <2>2. guest.dirs \cup {What} \in SUBSET Plugins /\ guest.plugins \cup {What} \in SUBSET Plugins
    BY <1>1, <2>1 DEF Guests
  <2>3. Done(guest) = [guest EXCEPT !.dirs = guest.dirs \cup {What}]
        \/ Done(guest) = [guest EXCEPT !.plugins = guest.plugins \cup {What}]
    BY <1>7 DEF Done
  <2> QED  BY <1>1, <2>2, <2>3 DEF Guests
<1>8. CASE Now \notin {"repos", "npm", "environment", "profile", "install", "mkdir", "put"}
  BY <1>1, <1>8 DEF Done
<1> QED  BY <1>2, <1>3, <1>4, <1>5, <1>6, <1>7, <1>8

\* The step just taken is not left to do; the others are as they were.
LEMMA TailLeaves ==
  ASSUME SetupTyped, Working, NEW x, Contains(install.todo, x)
  PROVE  x = <<Now, What>> \/ Contains(Tail(install.todo), x)
BY NowIs, ContainsTail

LEMMA FulfilsStays ==
  ASSUME SetupTyped, Working, ReleaseRead, Fulfils(guest, install, install.todo),
         NEW g \in {guest, Done(guest)}
  PROVE  Fulfils(g, install, install.todo)
<1> DEFINE t == install.todo
<1>1. guest \in Guests /\ install \in Installs
  BY DEF SetupTyped
<1>2. CASE g = guest
  BY <1>2
<1>3. ASSUME g = [guest EXCEPT !.repos = [mirror |-> install.mirror, of |-> install.release]]
      PROVE  Fulfils(g, install, t)
  BY <1>1, <1>3 DEF Fulfils, Guests, ReleaseRead
<1>4. ASSUME \/ g = [guest EXCEPT !.npm = install.npm]
             \/ g = [guest EXCEPT !.environment = install.proxy]
             \/ g = [guest EXCEPT !.profile = install.proxy]
             \/ g = [guest EXCEPT !.claw = "whole"]
             \/ g = [guest EXCEPT !.dirs = guest.dirs \cup {What}]
             \/ g = [guest EXCEPT !.plugins = guest.plugins \cup {What}]
      PROVE  Fulfils(g, install, t)
  BY <1>1, <1>4 DEF Fulfils, Guests
<1> QED  BY <1>2, <1>3, <1>4 DEF Done

\* What a step asks for is there when its command has run.
LEMMA FulfilsOnward ==
  ASSUME SetupTyped, Working, ReleaseRead, Fulfils(guest, install, install.todo)
  PROVE  Fulfils(Done(guest), install, Tail(install.todo))
<1> DEFINE t == install.todo
           u == Tail(install.todo)
           g == Done(guest)
<1>1. guest \in Guests /\ install \in Installs
  BY DEF SetupTyped
<1>2. Fulfils(g, install, t)
  BY FulfilsStays
<1>3. ASSUME NEW x, x # <<Now, What>> PROVE Contains(t, x) => Contains(u, x)
  BY <1>3, TailLeaves
<1>4. Contains(u, Do("repos")) \/ (g.repos.mirror = install.mirror /\ g.repos.of \in {g.release, Fallback})
  <2>1. CASE Now = "repos"
    BY <1>1, <2>1 DEF Done, Guests, ReleaseRead
  <2>2. CASE Now # "repos"
    BY <1>2, <1>3, <2>2 DEF Do, Fulfils
  <2> QED  BY <2>1, <2>2
<1>5. Contains(u, Do("npm")) \/ install.npm = "default" \/ g.npm = install.npm
  <2>1. CASE Now = "npm"
    BY <1>1, <2>1 DEF Done, Guests
  <2>2. CASE Now # "npm"
    BY <1>2, <1>3, <2>2 DEF Do, Fulfils
  <2> QED  BY <2>1, <2>2
<1>6. Contains(u, Do("environment")) \/ install.proxy = "none" \/ g.environment = install.proxy
  <2>1. CASE Now = "environment"
    BY <1>1, <2>1 DEF Done, Guests
  <2>2. CASE Now # "environment"
    BY <1>2, <1>3, <2>2 DEF Do, Fulfils
  <2> QED  BY <2>1, <2>2
<1>7. Contains(u, Do("profile")) \/ install.proxy = "none" \/ g.profile = install.proxy
  <2>1. CASE Now = "profile"
    BY <1>1, <2>1 DEF Done, Guests
  <2>2. CASE Now # "profile"
    BY <1>2, <1>3, <2>2 DEF Do, Fulfils
  <2> QED  BY <2>1, <2>2
<1>8. Contains(u, Do("install")) \/ g.claw = "whole"
  <2>1. CASE Now = "install"
    BY <1>1, <2>1 DEF Done, Guests
  <2>2. CASE Now # "install"
    BY <1>2, <1>3, <2>2 DEF Do, Fulfils
  <2> QED  BY <2>1, <2>2
<1>9. ASSUME NEW x \in Plugins PROVE Contains(u, <<"put", x>>) \/ x \in g.plugins
  <2>1. CASE Now = "put" /\ What = x
    BY <1>1, <2>1 DEF Done, Guests
  <2>2. CASE ~(Now = "put" /\ What = x)
    BY <1>2, <1>3, <2>2 DEF Fulfils
  <2> QED  BY <2>1, <2>2
<1> HIDE DEF g, u
<1> QED  BY <1>4, <1>5, <1>6, <1>7, <1>8, <1>9 DEF Fulfils, g, u

\* A step whose failure is ignored asks for nothing a success promises.
LEMMA FulfilsPast ==
  ASSUME SetupTyped, Working, Now \in BestEffort, NEW g, Fulfils(g, install, install.todo)
  PROVE  Fulfils(g, install, Tail(install.todo))
<1>1. Now \notin {"repos", "npm", "environment", "profile", "install", "put"}
  BY DEF BestEffort
<1>2. ASSUME NEW k \in {"repos", "npm", "environment", "profile", "install", "put"}, NEW x,
             Contains(install.todo, <<k, x>>)
      PROVE  Contains(Tail(install.todo), <<k, x>>)
  BY <1>1, <1>2, TailLeaves
<1> QED  BY <1>2 DEF Fulfils, Do

\* No step asks for anything else than the install does.
LEMMA FulfilsSame ==
  ASSUME NEW g, NEW j, NEW k, NEW t, SameJob(j, k), Fulfils(g, j, t)
  PROVE  Fulfils(g, k, t)
BY DEF SameJob, Fulfils

LEMMA SetupInitial == SetupInit => SetupIInv
<1> SUFFICES ASSUME SetupInit PROVE SetupIInv
  OBVIOUS
<1>1. << >> \in Seq(GuestStep) /\ Fallback \in Releases /\ 1 \in 1..Len(Delays)
  BY DelaysAre
<1>2. guest \in Guests /\ guest.release \in Releases
  <2>1. guest \in [dns : BOOLEAN, fs : BOOLEAN, shell : {"sound", "odd"}, release : Releases,
                   repos : [mirror : {"image"}, of : {Fallback}], npm : {"default"},
                   environment : {"none"}, profile : {"none"}, claw : {"none"}, dirs : {{}}, plugins : {{}}]
    BY DEF SetupInit
  <2>2. [mirror : {"image"}, of : {Fallback}] \subseteq [mirror : Mirrors \cup {"image"}, of : Releases]
    BY <1>1
  <2>3. {} \in SUBSET Plugins /\ "default" \in Mirrors /\ "none" \in ProxyChoices
    BY DEF Mirrors, ProxyChoices
  <2> QED  BY <2>1, <2>2, <2>3 DEF Guests
<1>3. /\ install \in Installs /\ install.todo = << >> /\ install.release = Fallback /\ install.try = 1
      /\ install.met = FALSE
  <2>1. install \in [claw : Claws, mirror : {"default"}, npm : {"default"}, proxy : {"none"},
                     release : {Fallback}, todo : {<< >>}, try : {1}, met : {FALSE}, clean : {TRUE}]
    BY DEF SetupInit
  <2>2. "default" \in Mirrors /\ "none" \in ProxyChoices
    BY DEF Mirrors, ProxyChoices
  <2> QED  BY <1>1, <2>1, <2>2 DEF Installs
<1>4. /\ quiet = 0 /\ verdict = "none" /\ spells = 0 /\ faults = 0 /\ runs = 0
      /\ MaxSpells \in Nat /\ MaxFaults \in Nat /\ MaxRuns \in Nat
  BY GuestSetupAssumption DEF SetupInit
<1> QED  BY <1>2, <1>3, <1>4 DEF SetupIInv, SetupTyped, ReleaseRead, LeftoversHarmless, Working

\* What a step leaves typed beside the install.
GuestTyped ==
  /\ guest' \in Guests /\ guest'.release = guest.release /\ quiet' \in Nat
  /\ spells' \in 0..MaxSpells /\ faults' \in 0..MaxFaults /\ runs' \in 0..MaxRuns

AsksTheSame(j) == j.mirror = install.mirror /\ j.npm = install.npm /\ j.proxy = install.proxy /\ j.claw = install.claw

LEMMA PassesKeeps ==
  ASSUME SetupIInv, Working, GuestTyped, NEW j \in Installs, AsksTheSame(j), Passes(j),
         Fulfils(guest', install, Tail(install.todo)), install'.release \in {guest.release, Fallback}
  PROVE  SetupIInv'
<1>1. /\ install' \in Installs /\ SameJob(j, install') /\ install'.todo = Tail(install.todo)
      /\ verdict' = IF Len(install.todo) = 1 THEN "ok" ELSE verdict
  BY DEF Passes
<1>2. SetupTyped /\ verdict = "none"
  BY DEF SetupIInv
<1>3. verdict' \in {"none", "ok"} /\ (install'.todo # << >> => verdict' = "none")
  BY <1>1, <1>2, NowIs
<1>4. Fulfils(guest', install', install'.todo)
  BY <1>1 DEF Fulfils, SameJob, AsksTheSame
<1>5. SetupTyped'
  BY <1>1, <1>3 DEF SetupTyped, GuestTyped
<1> QED  BY <1>1, <1>3, <1>4, <1>5 DEF SetupIInv, ReleaseRead, LeftoversHarmless, GuestTyped, Working

LEMMA FailsKeeps ==
  ASSUME SetupIInv, Working, GuestTyped, NEW j \in Installs, AsksTheSame(j), Fails1(j),
         j.release = install.release,
         j.clean => Now = "install" /\ install.claw = "hermes" /\ guest'.claw # "none"
  PROVE  SetupIInv'
<1>1. /\ install' \in Installs /\ SameJob(j, install') /\ install'.release = j.release /\ install'.todo = << >>
      /\ verdict' = Now
  BY DEF Fails1
<1>2. SetupTyped /\ ReleaseRead
  BY DEF SetupIInv
<1>3. verdict' \in SetupKinds /\ verdict' # "ok"
  BY <1>1, <1>2, NowIs DEF SetupKinds, Retried, Probes, BestEffort
<1>4. SetupTyped'
  BY <1>1, <1>3 DEF SetupTyped, GuestTyped
<1>5. LeftoversHarmless'
  BY <1>1 DEF LeftoversHarmless, SameJob, AsksTheSame
<1> QED  BY <1>1, <1>2, <1>3, <1>4, <1>5 DEF SetupIInv, ReleaseRead, GuestTyped, Working

LEMMA RetriesKeeps ==
  ASSUME SetupIInv, Working, GuestTyped, Retries, guest' \in {guest, Done(guest)}
  PROVE  SetupIInv'
<1>1. SetupTyped /\ verdict = "none" /\ Fulfils(guest, install, install.todo) /\ ReleaseRead
  BY DEF SetupIInv
<1>2. /\ install' \in Installs /\ install'.release = install.release /\ install'.todo = install.todo
      /\ install'.mirror = install.mirror /\ install'.npm = install.npm /\ install'.proxy = install.proxy
      /\ verdict' = verdict
  BY <1>1, UncleanIs DEF Retries, SameJob, Unclean
<1>3. Fulfils(guest', install, install.todo)
  BY <1>1, FulfilsStays
<1>4. Fulfils(guest', install', install'.todo)
  BY <1>2, <1>3 DEF Fulfils
<1>5. SetupTyped'
  BY <1>1, <1>2 DEF SetupTyped, GuestTyped
<1> QED  BY <1>1, <1>2, <1>4, <1>5 DEF SetupIInv, ReleaseRead, LeftoversHarmless, GuestTyped

LEMMA AgainKeeps ==
  ASSUME SetupIInv, Working, NEW q \in Nat, Again(q), guest' \in {guest, Done(guest)},
         spells' \in 0..MaxSpells, faults' \in 0..MaxFaults, runs' \in 0..MaxRuns
  PROVE  SetupIInv'
<1>1. SetupTyped /\ Fulfils(guest, install, install.todo) /\ ReleaseRead
  BY DEF SetupIInv
<1>2. guest' \in Guests /\ guest'.release = guest.release
  BY <1>1, DoneIs
<1>3. Unclean \in Installs /\ AsksTheSame(Unclean) /\ Unclean.release = install.release /\ ~Unclean.clean
  BY <1>1, UncleanIs DEF AsksTheSame
<1>4. CASE Retries /\ quiet' = Less(q, Delays[install.try + 1])
  BY <1>2, <1>4, RetriesKeeps DEF GuestTyped, Retries
<1>5. CASE quiet' = q /\ Passes(Unclean) /\ Now \in BestEffort /\ install'.release \in {install.release, Fallback}
  <2>1. Fulfils(guest', install, Tail(install.todo))
    BY <1>1, <1>5, FulfilsStays, FulfilsPast
  <2>2. install'.release \in {guest.release, Fallback}
    BY <1>1, <1>5 DEF ReleaseRead
  <2> QED  BY <1>2, <1>3, <1>5, <2>1, <2>2, PassesKeeps DEF GuestTyped
<1>6. CASE quiet' = q /\ Fails1(Unclean)
  BY <1>2, <1>3, <1>6, FailsKeeps DEF GuestTyped
<1> QED  BY <1>1, <1>4, <1>5, <1>6, AgainIs

LEMMA BeginKeeps ==
  ASSUME SetupIInv, NEW c \in Claws, NEW m \in Mirrors, NEW r \in Mirrors, NEW p \in ProxyChoices,
         Begin(c, m, r, p)
  PROVE  SetupIInv'
<1> DEFINE t == InstallSteps(c, r, p)
           b == (quiet = 0)
<1>1. SetupTyped /\ ReleaseRead /\ install \in Installs /\ 1 \in 1..Len(Delays)
  BY DelaysAre DEF SetupIInv, SetupTyped
<1>2. install' = [install EXCEPT !.claw = c, !.mirror = m, !.npm = r, !.proxy = p, !.try = 1, !.met = FALSE,
                                 !.clean = b, !.todo = t]
  BY DEF Begin
<1>3. /\ t \in Seq(GuestStep) /\ Contains(t, Do("repos")) /\ (r # "default" => Contains(t, Do("npm")))
      /\ (p # "none" => Contains(t, Do("environment")) /\ Contains(t, Do("profile")))
      /\ Contains(t, Do("install")) /\ \A x \in Plugins : Contains(t, <<"put", x>>)
  BY StepsAre
<1>4. /\ verdict' = "none" /\ runs' \in 0..MaxRuns
      /\ UNCHANGED <<guest, quiet, spells, faults>>
  <2>1. runs < MaxRuns /\ runs' = runs + 1 /\ runs \in 0..MaxRuns /\ MaxRuns \in Nat
    BY <1>1, GuestSetupAssumption DEF Begin, SetupTyped
  <2> QED  BY <2>1 DEF Begin
<1>5. b \in BOOLEAN
  OBVIOUS
<1> HIDE DEF t, b
<1>6. install' \in Installs /\ install'.todo = t /\ install'.npm = r /\ install'.proxy = p /\ install'.release = install.release
  BY <1>1, <1>2, <1>3, <1>5 DEF Installs
<1>7. Fulfils(guest', install', install'.todo)
  BY <1>3, <1>6 DEF Fulfils
<1>8. SetupTyped'
  BY <1>1, <1>4, <1>6 DEF SetupTyped
<1> QED  BY <1>1, <1>4, <1>6, <1>7, <1>8 DEF SetupIInv, ReleaseRead, LeftoversHarmless

LEMMA AnsweredKeeps ==
  ASSUME SetupIInv, Answered
  PROVE  SetupIInv'
<1> DEFINE j == IF Now = "release" THEN [install EXCEPT !.release = guest.release] ELSE install
<1>1. SetupTyped /\ Fulfils(guest, install, install.todo) /\ ReleaseRead /\ Working /\ install \in Installs
      /\ guest \in Guests
  BY DEF SetupIInv, Answered, SetupTyped
<1>2. guest.release \in Releases
  BY <1>1 DEF Guests
<1>3. j \in Installs /\ AsksTheSame(j) /\ j.release \in {guest.release, Fallback} /\ j.todo = install.todo
  BY <1>1, <1>2 DEF Installs, AsksTheSame, ReleaseRead
<1>4. /\ install' = Onward(j) /\ guest' = Done(guest) /\ UNCHANGED <<quiet, spells, faults, runs>>
      /\ verdict' = IF Len(install.todo) = 1 THEN "ok" ELSE verdict
  BY DEF Answered
<1> HIDE DEF j
<1>5. /\ Onward(j) \in Installs /\ SameJob(j, Onward(j))
      /\ Onward(j).todo = Tail(j.todo) /\ Onward(j).try = 1 /\ Onward(j).met = FALSE
      /\ Onward(j).release = j.release
  BY <1>1, <1>3, OnwardIs DEF Working
<1>6. Passes(j) /\ install'.release \in {guest.release, Fallback}
  BY <1>3, <1>4, <1>5 DEF Passes
<1>7. GuestTyped
  <2>1. guest' \in Guests /\ guest'.release = guest.release
    BY <1>1, <1>4, DoneIs
  <2> QED  BY <1>1, <1>4, <2>1 DEF GuestTyped, SetupTyped
<1>8. Fulfils(guest', install, Tail(install.todo))
  BY <1>1, <1>4, FulfilsOnward
<1> QED  BY <1>1, <1>3, <1>6, <1>7, <1>8, PassesKeeps

\* A command that was run and has failed (Refused): of its own, or because
\* the guest is not fit for it.
LEMMA RefusedIs ==
  ASSUME SetupTyped, Refused
  PROVE  \E j \in Installs :
           /\ AsksTheSame(j) /\ j.release = install.release /\ j.todo = install.todo
           /\ GoesOn(j)
           /\ j.clean => Unfit /\ ~NotReady
           /\ Unfit \/ Now \notin Probes
<1>0. install \in Installs
  BY DEF SetupTyped
<1>1. CASE Unfit /\ GoesOn([install EXCEPT !.clean = @ /\ ~NotReady])
  <2> DEFINE b == install.clean /\ ~NotReady
             j == [install EXCEPT !.clean = b]
  <2>1. b \in BOOLEAN /\ (b => ~NotReady) /\ GoesOn(j)
    BY <1>1
  <2> HIDE DEF b
  <2>2. j \in Installs /\ AsksTheSame(j) /\ j.release = install.release /\ j.todo = install.todo /\ j.clean = b
    BY <1>0, <2>1 DEF Installs, AsksTheSame
  <2> HIDE DEF j
  <2> QED  BY <1>1, <2>1, <2>2
<1>2. CASE Now \notin Probes /\ GoesOn([install EXCEPT !.clean = FALSE])
  BY <1>2, UncleanIs DEF Unclean, AsksTheSame
<1> QED  BY <1>1, <1>2 DEF Refused

LEMMA BoundsAre == Spells \subseteq Nat /\ MaxSpells \in Nat /\ MaxFaults \in Nat /\ MaxRuns \in Nat
<1>1. Spells \cup {MaxSpells, MaxFaults, MaxRuns} \subseteq Nat
  BY GuestSetupAssumption
<1> QED  BY <1>1

LEMMA RefusedKeeps ==
  ASSUME SetupIInv, Refused
  PROVE  SetupIInv'
<1>1. SetupTyped /\ Fulfils(guest, install, install.todo) /\ ReleaseRead /\ Working /\ guest \in Guests
  BY DEF SetupIInv, Refused, SetupTyped
<1>2. PICK j \in Installs :
           /\ AsksTheSame(j) /\ j.release = install.release /\ j.todo = install.todo
           /\ GoesOn(j)
           /\ j.clean => Unfit /\ ~NotReady
  BY <1>1, RefusedIs
<1>3. /\ guest' = IF Now = "install" /\ guest.claw = "none" THEN [guest EXCEPT !.claw = "begun"] ELSE guest
      /\ faults' \in 0..MaxFaults /\ UNCHANGED <<quiet, spells, runs>>
  <2>1. faults' = faults \/ (faults < MaxFaults /\ faults' = faults + 1)
    BY DEF Refused
  <2>2. faults' \in 0..MaxFaults
    BY <1>1, <2>1, BoundsAre DEF SetupTyped
  <2> QED  BY <2>2 DEF Refused
<1>4. guest' \in Guests /\ guest'.release = guest.release
  BY <1>1, <1>3 DEF Guests
<1>5. GuestTyped
  BY <1>1, <1>3, <1>4 DEF GuestTyped, SetupTyped
<1>6. CASE Passes(j) /\ Now \in BestEffort /\ install'.release \in {j.release, Fallback}
  <2>1. guest' = guest
    BY <1>3, <1>6 DEF BestEffort
  <2>2. Fulfils(guest', install, Tail(install.todo))
    BY <1>1, <1>6, <2>1, FulfilsPast
  <2>3. install'.release \in {guest.release, Fallback}
    BY <1>1, <1>2, <1>6 DEF ReleaseRead
  <2> QED  BY <1>1, <1>2, <1>5, <1>6, <2>2, <2>3, PassesKeeps
<1>7. CASE Fails1(j)
  <2>1. j.clean => Now = "install" /\ install.claw = "hermes" /\ guest'.claw # "none"
    BY <1>2, <1>3 DEF Unfit, ClonesOver
  <2> QED  BY <1>1, <1>2, <1>5, <1>7, <2>1, FailsKeeps
<1> QED  BY <1>1, <1>2, <1>6, <1>7, GoesOnIs

LEMMA SetupKeeps ==
  ASSUME SetupIInv, [SetupNext]_setup
  PROVE  SetupIInv'
<1>0. SetupTyped /\ guest \in Guests
  BY DEF SetupIInv, SetupTyped
<1>1. CASE Unreachable
  BY <1>0, <1>1, AgainKeeps DEF Unreachable, SetupTyped
<1>2. ASSUME NEW q \in Spells, Interrupted(q) PROVE SetupIInv'
  <2>1. q \in Nat /\ spells' \in 0..MaxSpells
    BY <1>0, <1>2, BoundsAre DEF Interrupted, SetupTyped
  <2>2. guest' \in {guest, Done(guest)} /\ Working /\ Again(q) /\ UNCHANGED <<faults, runs>>
    BY <1>2 DEF Interrupted
  <2> QED  BY <1>0, <2>1, <2>2, AgainKeeps DEF SetupTyped
<1>3. CASE Warm
  <2>1. /\ guest' = [guest EXCEPT !.dns = TRUE] \/ guest' = [guest EXCEPT !.fs = TRUE]
        /\ UNCHANGED <<quiet, install, verdict, spells, faults, runs>>
    BY <1>3 DEF Warm
  <2>2. /\ guest' \in Guests /\ guest'.release = guest.release /\ guest'.repos = guest.repos
        /\ guest'.npm = guest.npm /\ guest'.environment = guest.environment /\ guest'.profile = guest.profile
        /\ guest'.claw = guest.claw /\ guest'.plugins = guest.plugins
    BY <1>0, <2>1, ZenonT(60) DEF Guests
  <2>3. Fulfils(guest, install, install.todo) => Fulfils(guest', install', install'.todo)
    BY <2>1, <2>2 DEF Fulfils
  <2> QED  BY <2>1, <2>2, <2>3 DEF SetupIInv, SetupTyped, ReleaseRead, LeftoversHarmless, Working
<1>4. CASE Calm \/ UNCHANGED setup
  <2>1. UNCHANGED <<guest, install, verdict, spells, faults, runs>> /\ quiet' \in Nat
    BY <1>0, <1>4 DEF Calm, setup, SetupTyped
  <2>2. Fulfils(guest, install, install.todo) => Fulfils(guest', install', install'.todo)
    BY <2>1 DEF Fulfils
  <2> QED  BY <2>1, <2>2 DEF SetupIInv, SetupTyped, ReleaseRead, LeftoversHarmless, Working
<1> QED  BY <1>1, <1>2, <1>3, <1>4, BeginKeeps, AnsweredKeeps, RefusedKeeps DEF SetupNext

\* An install that reports success has left what it was asked for, and what
\* an earlier one left harms none in which nothing goes wrong (GuestSetup,
\* SetupInv), for any delays, spells, faults and number of installs.
THEOREM SetupHolds == SetupSpec => []SetupInv
<1>1. SetupIInv => SetupInv
  <2> SUFFICES ASSUME SetupIInv PROVE SetupInv
    OBVIOUS
  <2>1. verdict = "ok" => ~Working
    BY DEF SetupIInv
  <2>2. \A x : ~Contains(<< >>, x)
    BY DEF Contains
  <2>3. verdict = "ok" => InstalledAsAsked
    <3> SUFFICES ASSUME verdict = "ok" PROVE InstalledAsAsked
      OBVIOUS
    <3>1. Fulfils(guest, install, << >>)
      BY <2>1 DEF SetupIInv, Working
    <3>2. guest.plugins \subseteq Plugins
      BY DEF SetupIInv, SetupTyped, Guests
    <3>3. guest.plugins = Plugins
      BY <2>2, <3>1, <3>2 DEF Fulfils
    <3> QED  BY <2>2, <3>1, <3>3 DEF Fulfils, InstalledAsAsked
  <2> QED  BY <2>3, SetupTypedIs DEF SetupIInv, SetupInv, InstalledAsAsked
<1> QED  BY <1>1, SetupInitial, SetupKeeps, PTL DEF SetupSpec

-----------------------------------------------------------------------------
(* A probe that fails names what is not ready (GateBlames).                 *)

\* The pauses still to come after attempt i add up to Left[i] seconds, and
\* no spell without SSH is longer than all of them.
SpellsAreOutlasted(Left) ==
  /\ Len(Delays) > 1
  /\ Left \in [1..Len(Delays) -> Nat]
  /\ Left[Len(Delays)] = 0
  /\ \A i \in 1..(Len(Delays) - 1) : Left[i] = Delays[i + 1] + Left[i + 1]
  /\ \A q \in Spells : q <= Left[1]

\* SSH answers again before the attempts are used up.
OverInTime(Left) ==
  /\ quiet <= Left[install.try] /\ quiet <= Left[1]
  /\ ~install.met => install.try = 1

LEMMA LessIs ==
  ASSUME NEW q \in Nat, NEW d \in Nat
  PROVE  /\ Less(q, d) \in Nat /\ Less(q, d) <= q
         /\ \A l \in Nat : q <= d + l => Less(q, d) <= l
BY DEF Less

\* A call made after an SSH error: the spell is outlasted, and a probe never
\* ends the install.
LEMMA AgainInTime ==
  ASSUME SetupTyped, Working, NEW Left, SpellsAreOutlasted(Left),
         NEW q \in Nat, q <= Left[install.try], q <= Left[1], Again(q),
         q > 0 \/ install.try = 1
  PROVE  /\ OverInTime(Left)'
         /\ verdict' \notin Probes \/ verdict' = verdict
<1>0. /\ Len(Delays) \in Nat /\ 1 \in 1..Len(Delays) /\ (\A i \in 1..Len(Delays) : Delays[i] \in Nat)
      /\ install.try \in 1..Len(Delays)
      /\ \A i \in 1..Len(Delays) : Left[i] \in Nat
  BY DelaysAre DEF SetupTyped, Installs, SpellsAreOutlasted
<1>1. CASE Retries /\ quiet' = Less(q, Delays[install.try + 1])
  <2>1. /\ install'.try = install.try + 1 /\ install'.met = TRUE /\ verdict' = verdict
        /\ install.try < Len(Delays)
    BY <1>1 DEF Retries
  <2>2. install.try + 1 \in 1..Len(Delays) /\ install.try \in 1..(Len(Delays) - 1)
    BY <1>0, <2>1
  <2>3. Left[install.try] = Delays[install.try + 1] + Left[install.try + 1]
    BY <2>2 DEF SpellsAreOutlasted
  <2>4. Delays[install.try + 1] \in Nat /\ Left[install.try + 1] \in Nat
    BY <1>0, <2>2
  <2>5. quiet' <= Left[install.try + 1] /\ quiet' <= q
    <3> DEFINE d == Delays[install.try + 1]
               l == Left[install.try + 1]
    <3>1. d \in Nat /\ l \in Nat /\ q <= d + l
      BY <2>3, <2>4
    <3> HIDE DEF d, l
    <3>2. Less(q, d) <= l /\ Less(q, d) <= q
      BY <3>1, LessIs
    <3> QED  BY <1>1, <3>2 DEF d, l
  <2>6. quiet' \in Nat /\ Left[1] \in Nat
    BY <1>0, <1>1, <2>4, LessIs
  <2>7. quiet' <= Left[1]
    BY <2>5, <2>6
  <2> QED  BY <2>1, <2>5, <2>7 DEF OverInTime
<1>2. CASE /\ Now \notin Retried \/ install.try = Len(Delays)
           /\ quiet' = q
           /\ \/ Passes(Unclean) /\ Now \in BestEffort
              \/ Fails1(Unclean)
  <2>1. install'.try = 1 /\ install'.met = FALSE
    BY <1>2 DEF Passes, Fails1
  <2>2. OverInTime(Left)'
    BY <1>2, <2>1 DEF OverInTime
  <2>3. Now \notin Probes
    <3>1. Len(Delays) > 1 /\ Left[Len(Delays)] = 0
      BY DEF SpellsAreOutlasted
    <3>2. install.try # Len(Delays)
      BY <1>0, <3>1
    <3> QED  BY <1>2, <3>2 DEF Retried
  <2>4. verdict' \notin Probes \/ verdict' = verdict
    <3>1. CASE Passes(Unclean)
      <4>1. verdict' = "ok" \/ verdict' = verdict
        BY <3>1 DEF Passes
      <4> QED  BY <4>1 DEF Probes
    <3>2. CASE Fails1(Unclean)
      BY <2>3, <3>2 DEF Fails1
    <3> QED  BY <1>2, <3>1, <3>2
  <2> QED  BY <2>2, <2>4
<1> QED  BY <1>1, <1>2, AgainIs

\* A probe of the gate that fails names what is not ready, when the pauses
\* between the attempts outlast a spell without SSH (GuestSetup, GateBlames):
\* whatever the pauses are.
THEOREM GateBlamesTheGuest ==
  ASSUME NEW Left, SpellsAreOutlasted(Left)
  PROVE  SetupSpec => GateBlames
<1> DEFINE Ends == \A p \in Probes : verdict' = p /\ verdict # p =>
                      CASE p = "alive" -> guest.shell = "odd" [] p = "dns" -> ~guest.dns [] p = "fs" -> ~guest.fs
           HwAll == SetupIInv /\ OverInTime(Left)
<1>0. 1 \in 1..Len(Delays) /\ \A i \in 1..Len(Delays) : Left[i] \in Nat
  BY DelaysAre DEF SpellsAreOutlasted
<1>1. SetupInit => HwAll
  <2> SUFFICES ASSUME SetupInit PROVE OverInTime(Left)
    BY SetupInitial
  <2>1. install.try = 1 /\ quiet = 0
    BY DEF SetupInit
  <2> QED  BY <1>0, <2>1 DEF OverInTime
<1>2. ASSUME HwAll, SetupNext PROVE OverInTime(Left)' /\ Ends
  <2>1. SetupTyped /\ quiet \in Nat /\ quiet <= Left[install.try] /\ quiet <= Left[1]
        /\ (~install.met => install.try = 1)
    BY <1>2 DEF SetupIInv, SetupTyped, OverInTime
  <2>2. ASSUME verdict' \notin Probes \/ verdict' = verdict PROVE Ends
    BY <2>2
  <2>3. ASSUME NEW c \in Claws, NEW m \in Mirrors, NEW r \in Mirrors, NEW p \in ProxyChoices, Begin(c, m, r, p)
        PROVE  OverInTime(Left)' /\ Ends
    <3>1. install'.try = 1 /\ quiet' = quiet /\ verdict' = "none"
      BY <2>1, <2>3 DEF Begin, SetupTyped, Installs
    <3> QED  BY <2>1, <2>2, <3>1 DEF OverInTime, Probes
  <2>4. CASE Answered
    <3> DEFINE j == IF Now = "release" THEN [install EXCEPT !.release = guest.release] ELSE install
    <3>1. install \in Installs /\ guest.release \in Releases
      BY <2>1 DEF SetupTyped, Guests
    <3>2. j \in Installs /\ j.todo = install.todo
      BY <3>1 DEF Installs
    <3>3. install' = Onward(j) /\ quiet' = quiet /\ install.todo # << >> /\ (verdict' = "ok" \/ verdict' = verdict)
      BY <2>4 DEF Answered, Working
    <3> HIDE DEF j
    <3>4. install'.try = 1
      BY <3>2, <3>3, OnwardIs
    <3> QED  BY <2>1, <2>2, <3>3, <3>4 DEF OverInTime, Probes
  <2>5. CASE Refused
    <3>1. PICK j \in Installs : j.todo = install.todo /\ GoesOn(j) /\ (Unfit \/ Now \notin Probes)
      BY <2>1, <2>5, RefusedIs
    <3>2. Passes(j) \/ Fails1(j)
      BY <2>1, <2>5, <3>1, GoesOnIs DEF Refused
    <3>3. install'.try = 1 /\ quiet' = quiet /\ verdict' \in {"ok", verdict, Now}
      BY <2>5, <3>2 DEF Passes, Fails1, Refused
    <3>4. Ends
      <4>1. "ok" \notin Probes
        BY DEF Probes
      <4>2. Now \in Probes => NotReady
        BY <3>1 DEF Unfit, ClonesOver, Probes
      <4> QED  BY <3>3, <4>1, <4>2 DEF NotReady, Probes
    <3> QED  BY <2>1, <3>3, <3>4 DEF OverInTime
  <2>6. CASE Unreachable
    <3>1. Working /\ quiet > 0 /\ Again(quiet)
      BY <2>6 DEF Unreachable
    <3> QED  BY <2>1, <2>2, <3>1, AgainInTime
  <2>7. ASSUME NEW q \in Spells, Interrupted(q) PROVE OverInTime(Left)' /\ Ends
    <3>1. Working /\ Again(q) /\ install.try = 1 /\ q \in Nat /\ q <= Left[1]
      BY <2>1, <2>7, BoundsAre DEF Interrupted, SpellsAreOutlasted
    <3> QED  BY <2>1, <2>2, <3>1, AgainInTime
  <2>8. CASE Warm \/ Calm
    <3>1. UNCHANGED <<install, verdict>> /\ (quiet' = quiet \/ quiet' = 0)
      BY <2>8 DEF Warm, Calm
    <3>2. install.try \in 1..Len(Delays)
      BY <2>1 DEF SetupTyped, Installs
    <3>3. 0 <= Left[install.try] /\ 0 <= Left[1]
      BY <1>0, <3>2
    <3> QED  BY <2>1, <2>2, <3>1, <3>3 DEF OverInTime
  <2> QED  BY <1>2, <2>3, <2>4, <2>5, <2>6, <2>7, <2>8 DEF SetupNext
<1>3. ASSUME HwAll, [SetupNext]_setup PROVE HwAll' /\ [Ends]_setup
  <2>1. CASE SetupNext
    BY <1>2, <1>3, <2>1, SetupKeeps
  <2>2. CASE UNCHANGED setup
    BY <1>3, <2>2, SetupKeeps DEF setup, OverInTime
  <2> QED  BY <1>3, <2>1, <2>2
<1> HIDE DEF HwAll, Ends
<1>4. HwAll /\ [SetupNext]_setup => HwAll'
  BY <1>3
<1>5. HwAll /\ [SetupNext]_setup => [Ends]_setup
  BY <1>3
<1>6. GateBlames <=> [][Ends]_setup
  BY DEF GateBlames, Ends
<1> QED  BY <1>1, <1>4, <1>5, <1>6, PTL DEF SetupSpec

-----------------------------------------------------------------------------
(* The hardware devices (HwDevices), which may reconnect before the server   *)
(* has seen their last socket close.                                         *)

HwTypes ==
  /\ devices \subseteq known /\ wsIds \subseteq known /\ known \subseteq Ids /\ early \subseteq known
  /\ age \in [Ids -> 0..TTL]
  /\ sock \in [Conns -> {"closed", "opening", "open", "closing"}]
  /\ owner \in [Conns -> known \union {NoId}]
  /\ alive \in [Conns -> BOOLEAN]
  /\ inbox \in [Conns -> SUBSET (1..MaxNotes)]
  /\ callbacks \subseteq (1..MaxNotes) \X Urls
  /\ target \in [1..MaxNotes -> known \union {NoId, All}]
  /\ got \in [1..MaxNotes -> [Ids -> Nat]]

\* A device is at one socket at most, and the server has one at most of a
\* device that has never reconnected early; a socket that has not subscribed
\* holds nothing, and one whose task is ending has nobody at its end.
SocketsInv ==
  /\ \A c \in Conns : sock[c] = "closed" => owner[c] = NoId
  /\ \A c \in Conns : sock[c] \in {"closed", "closing"} => ~alive[c]
  /\ \A c \in Conns : c \notin Subscribed => inbox[c] = {}
  /\ \A b, c \in Conns : owner[b] = owner[c] /\ owner[b] # NoId /\ alive[b] /\ alive[c] => b = c
  /\ \A b, c \in Conns : owner[b] = owner[c] /\ owner[b] # NoId /\ owner[b] \notin early => b = c

\* Note n may still reach device d: by callback, or over the socket it is at.
CallPending(n, d) == <<n, d>> \in callbacks
LivePending(n, d) == \E c \in Conns : n \in inbox[c] /\ owner[c] = d /\ target[n] \in {All, d} /\ alive[c]

\* The ways in which note n may still reach device d.
Due(n, d) == (IF CallPending(n, d) THEN 1 ELSE 0) + (IF LivePending(n, d) THEN 1 ELSE 0)

\* What a device was given of a note, and may still be given, is one; two of a
\* note to all when it has reconnected early.
OneEach(n, d) == got[n][d] + Due(n, d) <= IF Twofold(n, d) THEN 2 ELSE 1

\* ... and a note that has not been posted is nowhere.
DeliveriesInv ==
  \A n \in 1..MaxNotes :
    /\ target[n] = NoId => \A c \in Conns : n \notin inbox[c]
    /\ target[n] = NoId => \A d \in Ids : got[n][d] = 0 /\ ~CallPending(n, d)
    /\ \A d \in Ids : OneEach(n, d)

RoomInv ==
  \A c \in Conns, to \in Ids \union {All} : Cardinality(Channel(inbox[c], to)) <= BUS_CAPACITY

\* Notes are posted in their order.
OrderInv == \A n \in 1..MaxNotes : target[n] # NoId => \A m \in 1..(n - 1) : target[m] # NoId

HwIInv == HwTypes /\ SocketsInv /\ WsIdsExact /\ DeliveriesInv /\ RoomInv /\ OrderInv

LEMMA MinIn ==
  ASSUME NEW S \in SUBSET Nat, IsFiniteSet(S), S # {}
  PROVE  Min(S) \in S /\ \A y \in S : Min(S) <= y
<1> DEFINE below(x) == {y \in S : y < x}
           family == {below(x) : x \in S}
<1>1. family \subseteq FiniteSubsetsOf(S) /\ family # {}
  <2>1. ASSUME NEW x \in S PROVE below(x) \in FiniteSubsetsOf(S)
    BY FS_Subset DEF FiniteSubsetsOf
  <2> QED  BY <2>1
<1>2. PICK b \in family : \A c \in family : <<c, b>> \notin StrictSubsetOrdering(S)
  <2> HIDE DEF family
  <2> QED  BY <1>1, WFMin, FS_StrictSubsetOrderingWellFounded
<1>3. PICK m \in S : b = below(m)
  OBVIOUS
<1>4. ASSUME NEW y \in S, y < m PROVE FALSE
  <2>1. m \in Nat /\ y \in Nat /\ \A z \in S : z \in Nat
    OBVIOUS
  <2>2. \A z \in S : z < y => z < m
    BY <1>4, <2>1
  <2>3. y < m /\ ~(y < y)
    BY <1>4, <2>1
  <2>4. below(y) \subseteq below(m) /\ y \in below(m) /\ y \notin below(y)
    BY <2>2, <2>3, Zenon
  <2>5. below(y) \in family /\ below(y) \in SUBSET S /\ below(m) \in SUBSET S /\ below(y) # below(m)
    BY <2>4
  <2>6. <<below(y), below(m)>> \in StrictSubsetOrdering(S)
    <3> DEFINE p == below(y)
               q == below(m)
    <3>1. p \in SUBSET S /\ q \in SUBSET S /\ p \subseteq q /\ p # q
      BY <2>4, <2>5
    <3> HIDE DEF p, q
    <3>2. <<p, q>> \in StrictSubsetOrdering(S)
      BY <3>1 DEF StrictSubsetOrdering
    <3> QED  BY <3>2 DEF p, q
  <2> QED  BY <1>2, <1>3, <2>5, <2>6
<1>5. m \in S /\ \A y \in S : m <= y
  BY <1>4
<1> HIDE DEF below, family
<1> QED  BY <1>5 DEF Min

LEMMA QueuedIs ==
  ASSUME NEW box, NEW n, NEW to
  PROVE  n \in Queued(box, n, to) /\ Queued(box, n, to) \subseteq box \union {n}
BY DEF Queued

LEMMA GiveIs ==
  ASSUME HwTypes, NEW n \in 1..MaxNotes, NEW d, Give(n, d)
  PROVE  /\ got' \in [1..MaxNotes -> [Ids -> Nat]]
         /\ \A m \in 1..MaxNotes, x \in Ids :
               got'[m][x] = IF m = n /\ x = d THEN got[m][x] + 1 ELSE got[m][x]
<1>1. CASE d \in Ids
  <2> DEFINE f == got[n]
             r == [f EXCEPT ![d] = f[d] + 1]
  <2>1. got' = [got EXCEPT ![n] = r]
    BY <1>1 DEF Give
  <2> HIDE DEF f
  <2>2. f \in [Ids -> Nat]
    BY DEF f, HwTypes
  <2>3. r \in [Ids -> Nat] /\ \A x \in Ids : r[x] = IF x = d THEN f[x] + 1 ELSE f[x]
    BY <1>1, <2>2
  <2> HIDE DEF r
  <2> QED  BY <2>1, <2>3 DEF HwTypes, f
<1>2. CASE d \notin Ids
  BY <1>2 DEF Give, HwTypes
<1> QED  BY <1>1, <1>2

LEMMA HwTypesKeep ==
  ASSUME HwTypes, HwNext
  PROVE  HwTypes'
<1> USE DevicesAssumption DEF HwTypes
<1>1. ASSUME NEW d \in Ids, RegisterDevice(d) PROVE HwTypes'
  <2>1. Fresh(devices) \subseteq devices
    BY DEF Fresh
  <2>2. 0 \in 0..TTL
    OBVIOUS
  <2> QED  BY <1>1, <2>1, <2>2 DEF RegisterDevice, net, out
<1>2. ASSUME NEW d \in Ids, UnregisterDevice(d) PROVE HwTypes'
  BY <1>2 DEF UnregisterDevice, net, out
<1>3. ASSUME NEW c \in Conns, NEW d \in Ids \union {NoId}, Open(c, d) PROVE HwTypes'
  BY <1>3 DEF Open, reg, out
<1>4. ASSUME NEW c \in Conns, Connect(c) PROVE HwTypes'
  <2>1. 0 \in 0..TTL /\ (owner[c] # NoId => owner[c] \in known)
    OBVIOUS
  <2>2. wsIds' \subseteq known
    BY <1>4, <2>1 DEF Connect
  <2>3. age' = age \/ age' = [age EXCEPT ![owner[c]] = 0]
    BY <1>4 DEF Connect
  <2>4. age' \in [Ids -> 0..TTL]
    BY <2>1, <2>3
  <2> QED  BY <1>4, <2>2, <2>4 DEF Connect, out
<1>5. ASSUME NEW c \in Conns, Hangup(c) \/ SeeHangup(c) \/ Cleanup(c) PROVE HwTypes'
  BY <1>5 DEF Hangup, SeeHangup, Cleanup, reg, out
<1>6. ASSUME NEW c \in Conns, NEW n \in 1..MaxNotes, Forward(c, n) PROVE HwTypes'
  <2>1. got' \in [1..MaxNotes -> [Ids -> Nat]]
    BY <1>6, GiveIs DEF Forward
  <2> QED  BY <1>6, <2>1 DEF Forward, reg
<1>7. ASSUME NEW n \in 1..MaxNotes, NEW to \in known \union {All}, Notify(n, to) PROVE HwTypes'
  <2>1. \A c \in Conns : Queued(inbox[c], n, to) \subseteq 1..MaxNotes
    BY QueuedIs
  <2>2. inbox' \in [Conns -> SUBSET (1..MaxNotes)]
    BY <1>7, <2>1 DEF Notify
  <2>3. callbacks' \subseteq (1..MaxNotes) \X Urls
    BY <1>7 DEF Notify, CallBackFrom, CallBack
  <2> QED  BY <1>7, <2>2, <2>3 DEF Notify, reg, net
<1>8. ASSUME NEW n \in 1..MaxNotes, NEW d \in Ids, Callback(n, d) PROVE HwTypes'
  <2>1. got' \in [1..MaxNotes -> [Ids -> Nat]]
    BY <1>8, GiveIs DEF Callback
  <2> QED  BY <1>8, <2>1 DEF Callback, reg, net
<1>9. CASE Tick
  <2>1. \A d \in Ids : (IF age[d] < TTL THEN age[d] + 1 ELSE age[d]) \in 0..TTL
    OBVIOUS
  <2>2. age' \in [Ids -> 0..TTL]
    BY <1>9, <2>1 DEF Tick
  <2> QED  BY <1>9, <2>2 DEF Tick, net, out
<1> QED  BY <1>1, <1>2, <1>3, <1>4, <1>5, <1>6, <1>7, <1>8, <1>9 DEF HwNext

\* What a step does to the sockets, read off the actions.
LEMMA SocketsKeep ==
  ASSUME HwTypes, SocketsInv, HwNext
  PROVE  SocketsInv'
<1> USE DEF SocketsInv, Subscribed
<1>1. ASSUME NEW d \in Ids, RegisterDevice(d) \/ UnregisterDevice(d) PROVE SocketsInv'
  BY <1>1 DEF RegisterDevice, UnregisterDevice, net, out
<1>2. ASSUME NEW c \in Conns, NEW d \in Ids \union {NoId}, Open(c, d) PROVE SocketsInv'
  <2>1. /\ sock[c] = "closed" /\ sock' = [sock EXCEPT ![c] = "opening"]
        /\ owner' = [owner EXCEPT ![c] = d] /\ alive' = [alive EXCEPT ![c] = TRUE] /\ inbox' = inbox
        /\ d \in known \union {NoId} /\ NoId \notin Ids
        /\ d \in Ids => \A b \in Conns : owner[b] = d => ~alive[b]
        /\ early \subseteq early' /\ (d \in Ids => d \in early' \/ \A b \in Conns : owner[b] # d)
    BY <1>2, DevicesAssumption DEF Open, out
  <2>2. d # NoId => d \in Ids
    OBVIOUS
  <2>3. \A b \in Conns : /\ sock'[b] = IF b = c THEN "opening" ELSE sock[b]
                         /\ owner'[b] = IF b = c THEN d ELSE owner[b]
                         /\ alive'[b] = IF b = c THEN TRUE ELSE alive[b]
    BY <2>1 DEF HwTypes
  <2>4. ASSUME NEW b \in Conns
        PROVE  /\ sock'[b] = "closed" => owner'[b] = NoId
               /\ sock'[b] \in {"closed", "closing"} => ~alive'[b]
               /\ sock'[b] \notin {"open", "closing"} => inbox'[b] = {}
    <3>1. CASE b = c
      <4>1. sock'[b] = "opening"
        BY <2>3, <3>1
      <4>2. sock[c] \notin {"open", "closing"} => inbox[c] = {}
        OBVIOUS
      <4>3. inbox'[b] = {}
        BY <2>1, <3>1, <4>2
      <4> QED  BY <4>1, <4>3
    <3>2. CASE b # c
      <4>1. sock'[b] = sock[b] /\ owner'[b] = owner[b] /\ alive'[b] = alive[b] /\ inbox'[b] = inbox[b]
        BY <2>1, <2>3, <3>2
      <4> QED  BY <4>1
    <3> QED  BY <3>1, <3>2
  <2>5. ASSUME NEW a \in Conns, NEW b \in Conns, owner'[a] = owner'[b], owner'[a] # NoId, alive'[a], alive'[b]
        PROVE  a = b
    BY <2>1, <2>2, <2>3, <2>5
  <2>6. ASSUME NEW a \in Conns, NEW b \in Conns, owner'[a] = owner'[b], owner'[a] # NoId, owner'[a] \notin early'
        PROVE  a = b
    BY <2>1, <2>2, <2>3, <2>6
  <2> QED  BY <2>4, <2>5, <2>6
<1>3. ASSUME NEW c \in Conns, Connect(c) \/ Hangup(c) \/ SeeHangup(c) PROVE SocketsInv'
  <2>1. CASE Connect(c)
    BY <2>1 DEF Connect, out, HwTypes
  <2>2. CASE Hangup(c)
    BY <2>2 DEF Hangup, out, HwTypes
  <2>3. CASE SeeHangup(c)
    BY <2>3 DEF SeeHangup, out, HwTypes
  <2> QED  BY <1>3, <2>1, <2>2, <2>3
<1>4. ASSUME NEW c \in Conns, Cleanup(c) PROVE SocketsInv'
  BY <1>4 DEF Cleanup, HwTypes
<1>5. ASSUME NEW c \in Conns, NEW n \in 1..MaxNotes, Forward(c, n) PROVE SocketsInv'
  <2>1. /\ sock[c] = "open" /\ UNCHANGED <<owner, alive, early>> /\ inbox' = [inbox EXCEPT ![c] = @ \ {n}]
        /\ sock' = sock \/ (sock' = [sock EXCEPT ![c] = "closing"] /\ ~alive[c])
    BY <1>5 DEF Forward
  <2> QED  BY <2>1 DEF HwTypes
<1>6. ASSUME NEW n \in 1..MaxNotes, NEW to \in known \union {All}, Notify(n, to) PROVE SocketsInv'
  <2>1. /\ UNCHANGED <<sock, owner, alive, early>>
        /\ \A c \in Conns : c \notin Subscribed => inbox'[c] = inbox[c]
    BY <1>6 DEF Notify, net
  <2> QED  BY <2>1
<1>7. ASSUME NEW n \in 1..MaxNotes, NEW d \in Ids, Callback(n, d) PROVE SocketsInv'
  BY <1>7 DEF Callback, net
<1>8. CASE Tick
  BY <1>8 DEF Tick, net, out
<1> QED  BY <1>1, <1>2, <1>3, <1>4, <1>5, <1>6, <1>7, <1>8 DEF HwNext

LEMMA ExactKeeps ==
  ASSUME HwTypes, SocketsInv, WsIdsExact, HwNext
  PROVE  WsIdsExact'
<1> USE DEF WsIdsExact, OnSocket, Subscribed
<1>0. NoId \notin Ids
  BY DevicesAssumption
<1>1. ASSUME NEW d \in Ids, RegisterDevice(d) PROVE WsIdsExact'
  <2>1. Fresh(devices) \subseteq devices
    BY DEF Fresh
  <2>2. /\ devices' \subseteq devices \union {d} /\ d \notin known
        /\ UNCHANGED <<wsIds, sock, owner, early>>
    BY <1>1, <2>1 DEF RegisterDevice, net
  <2>3. d \notin wsIds /\ \A c \in Conns : owner[c] # d
    BY <1>0, <2>2 DEF HwTypes
  <2> QED  BY <2>2, <2>3
<1>2. ASSUME NEW d \in Ids, UnregisterDevice(d) PROVE WsIdsExact'
  BY <1>2 DEF UnregisterDevice, net
<1>3. ASSUME NEW c \in Conns, NEW d \in Ids \union {NoId}, Open(c, d) PROVE WsIdsExact'
  <2>1. /\ sock[c] = "closed" /\ sock' = [sock EXCEPT ![c] = "opening"] /\ early \subseteq early'
        /\ owner' = [owner EXCEPT ![c] = d] /\ UNCHANGED <<devices, wsIds>>
    BY <1>3 DEF Open, reg
  <2>2. \A b \in Conns, x \in devices :
           (sock'[b] \in {"open", "closing"} /\ owner'[b] = x) <=> (sock[b] \in {"open", "closing"} /\ owner[b] = x)
    BY <2>1 DEF HwTypes
  <2> QED  BY <2>1, <2>2
<1>4. ASSUME NEW c \in Conns, Connect(c) PROVE WsIdsExact'
  <2>1. /\ sock[c] = "opening" /\ sock' = [sock EXCEPT ![c] = "open"]
        /\ UNCHANGED <<devices, owner, early>>
        /\ wsIds' = IF owner[c] = NoId THEN wsIds ELSE wsIds \union {owner[c]}
    BY <1>4 DEF Connect
  <2>2. ASSUME NEW d \in devices
        PROVE  /\ d \in wsIds' => \E b \in Conns : sock'[b] \in {"open", "closing"} /\ owner[b] = d
               /\ (\E b \in Conns : sock'[b] \in {"open", "closing"} /\ owner[b] = d) => d \in wsIds' \union early
    <3>1. d # NoId
      BY <1>0 DEF HwTypes
    <3>2. CASE owner[c] = d
      BY <2>1, <3>1, <3>2 DEF HwTypes
    <3>3. CASE owner[c] # d
      BY <2>1, <3>3 DEF HwTypes
    <3> QED  BY <3>2, <3>3
  <2> QED  BY <2>1, <2>2
<1>5. ASSUME NEW c \in Conns, Hangup(c) \/ SeeHangup(c) PROVE WsIdsExact'
  BY <1>5 DEF Hangup, SeeHangup, reg, HwTypes
<1>6. ASSUME NEW c \in Conns, Cleanup(c) PROVE WsIdsExact'
  <2>1. /\ sock[c] = "closing" /\ sock' = [sock EXCEPT ![c] = "closed"] /\ early' = early
        /\ owner' = [owner EXCEPT ![c] = NoId] /\ wsIds' = wsIds \ {owner[c]} /\ devices' = devices
    BY <1>6 DEF Cleanup, reg
  <2>2. ASSUME NEW d \in devices
        PROVE  /\ d \in wsIds' => \E b \in Conns : sock'[b] \in {"open", "closing"} /\ owner'[b] = d
               /\ (\E b \in Conns : sock'[b] \in {"open", "closing"} /\ owner'[b] = d) => d \in wsIds' \union early
    <3>1. d # NoId
      BY <1>0 DEF HwTypes
    <3>2. CASE owner[c] = d
      <4>1. ASSUME d \notin early, NEW b \in Conns, b # c PROVE owner[b] # d
        BY <3>1, <3>2, <4>1 DEF SocketsInv
      <4>2. owner'[c] # d /\ d \notin wsIds'
        BY <2>1, <3>1, <3>2 DEF HwTypes
      <4> QED  BY <2>1, <3>1, <4>1, <4>2 DEF HwTypes
    <3>3. CASE owner[c] # d
      BY <2>1, <3>1, <3>3 DEF HwTypes
    <3> QED  BY <3>2, <3>3
  <2> QED  BY <2>1, <2>2
<1>7. ASSUME NEW c \in Conns, NEW n \in 1..MaxNotes, Forward(c, n) PROVE WsIdsExact'
  <2>1. /\ sock[c] = "open" /\ UNCHANGED <<owner, devices, wsIds, early>>
        /\ sock' = sock \/ sock' = [sock EXCEPT ![c] = "closing"]
    BY <1>7 DEF Forward, reg
  <2> QED  BY <2>1 DEF HwTypes
<1>8. ASSUME NEW n \in 1..MaxNotes, NEW to \in known \union {All}, Notify(n, to) PROVE WsIdsExact'
  BY <1>8 DEF Notify, reg, net
<1>9. ASSUME NEW n \in 1..MaxNotes, NEW d \in Ids, Callback(n, d) PROVE WsIdsExact'
  BY <1>9 DEF Callback, reg, net
<1>10. CASE Tick
  BY <1>10 DEF Tick, net
<1> QED  BY <1>1, <1>2, <1>3, <1>4, <1>5, <1>6, <1>7, <1>8, <1>9, <1>10 DEF HwNext

\* Arithmetic of OneEach: a note that is no longer due in a way it was due may
\* have been given once more.
LEMMA OneEachStays ==
  ASSUME NEW n, NEW d, OneEach(n, d), got[n][d] \in Nat,
         got'[n][d] = got[n][d], Twofold(n, d) => Twofold(n, d)',
         CallPending(n, d)' => CallPending(n, d), LivePending(n, d)' => LivePending(n, d)
  PROVE  OneEach(n, d)'
<1>1. /\ OneEach(n, d)' <=> got'[n][d] + Due(n, d)' <= IF Twofold(n, d)' THEN 2 ELSE 1
      /\ OneEach(n, d) <=> got[n][d] + Due(n, d) <= IF Twofold(n, d) THEN 2 ELSE 1
  BY DEF OneEach
<1>2. Due(n, d) \in {0, 1, 2} /\ Due(n, d)' \in {0, 1, 2} /\ Due(n, d)' <= Due(n, d)
  BY DEF Due
<1> QED  BY <1>1, <1>2

LEMMA OneEachGiven ==
  ASSUME NEW n, NEW d, OneEach(n, d), got[n][d] \in Nat,
         got'[n][d] = got[n][d] + 1, Twofold(n, d) <=> Twofold(n, d)',
         \/ CallPending(n, d) /\ ~CallPending(n, d)' /\ (LivePending(n, d)' => LivePending(n, d))
         \/ LivePending(n, d) /\ ~LivePending(n, d)' /\ (CallPending(n, d)' => CallPending(n, d))
  PROVE  OneEach(n, d)'
<1>1. /\ OneEach(n, d)' <=> got'[n][d] + Due(n, d)' <= IF Twofold(n, d)' THEN 2 ELSE 1
      /\ OneEach(n, d) <=> got[n][d] + Due(n, d) <= IF Twofold(n, d) THEN 2 ELSE 1
  BY DEF OneEach
<1>2. Due(n, d) \in {0, 1, 2} /\ Due(n, d)' \in {0, 1, 2} /\ Due(n, d)' + 1 <= Due(n, d)
  BY DEF Due
<1> QED  BY <1>1, <1>2

\* A step that gives nothing and posts nothing, and after which no note may
\* reach a device in a new way.
LEMMA DeliveriesStay ==
  ASSUME HwTypes, DeliveriesInv, target' = target, got' = got, callbacks' \subseteq callbacks, early \subseteq early',
         \A c \in Conns : inbox'[c] \subseteq inbox[c],
         \A n \in 1..MaxNotes, d \in Ids : LivePending(n, d)' => LivePending(n, d)
  PROVE  DeliveriesInv'
<1>1. ASSUME NEW n \in 1..MaxNotes, NEW d \in Ids PROVE OneEach(n, d)'
  <2>1. got[n][d] \in Nat /\ OneEach(n, d) /\ (CallPending(n, d)' => CallPending(n, d))
    BY DEF HwTypes, DeliveriesInv, CallPending
  <2>2. Twofold(n, d) => Twofold(n, d)'
    BY DEF Twofold
  <2> QED  BY <2>1, <2>2, OneEachStays
<1>2. ASSUME NEW n \in 1..MaxNotes, target'[n] = NoId
      PROVE  /\ \A c \in Conns : n \notin inbox'[c]
             /\ \A d \in Ids : got'[n][d] = 0 /\ ~CallPending(n, d)'
  BY <1>2 DEF DeliveriesInv, CallPending
<1> QED  BY <1>1, <1>2 DEF DeliveriesInv

LEMMA DeliveriesKeep ==
  ASSUME HwTypes, SocketsInv, WsIdsExact, DeliveriesInv, HwNext
  PROVE  DeliveriesInv'
<1>0. NoId \notin Ids /\ All \notin Ids /\ All # NoId /\ Urls \subseteq Ids
  BY DevicesAssumption
<1>1. ASSUME UNCHANGED <<owner, alive, early, inbox, callbacks, got, target>> PROVE DeliveriesInv'
  BY <1>1, DeliveriesStay DEF LivePending
<1>2. ASSUME NEW d \in Ids, RegisterDevice(d) \/ UnregisterDevice(d) PROVE DeliveriesInv'
  BY <1>1, <1>2 DEF RegisterDevice, UnregisterDevice, net, out
<1>3. ASSUME NEW c \in Conns, Connect(c) \/ SeeHangup(c) PROVE DeliveriesInv'
  BY <1>1, <1>3 DEF Connect, SeeHangup, out
<1>4. CASE Tick
  BY <1>1, <1>4 DEF Tick, net, out
<1>5. ASSUME NEW c \in Conns, NEW d \in Ids \union {NoId}, Open(c, d) PROVE DeliveriesInv'
  <2>1. /\ sock[c] = "closed" /\ owner' = [owner EXCEPT ![c] = d] /\ alive' = [alive EXCEPT ![c] = TRUE]
        /\ early \subseteq early' /\ UNCHANGED <<inbox, callbacks, got, target>>
    BY <1>5 DEF Open, out
  <2>2. inbox[c] = {}
    BY <2>1 DEF SocketsInv, Subscribed
  <2>3. \A n \in 1..MaxNotes, x \in Ids : LivePending(n, x)' => LivePending(n, x)
    BY <2>1, <2>2 DEF LivePending, HwTypes
  <2> QED  BY <2>1, <2>3, DeliveriesStay
<1>6. ASSUME NEW c \in Conns, Hangup(c) PROVE DeliveriesInv'
  <2>1. alive' = [alive EXCEPT ![c] = FALSE] /\ UNCHANGED <<owner, early, inbox, callbacks, got, target>>
    BY <1>6 DEF Hangup, out
  <2>2. \A n \in 1..MaxNotes, x \in Ids : LivePending(n, x)' => LivePending(n, x)
    BY <2>1 DEF LivePending, HwTypes
  <2> QED  BY <2>1, <2>2, DeliveriesStay
<1>7. ASSUME NEW c \in Conns, Cleanup(c) PROVE DeliveriesInv'
  <2>1. /\ owner' = [owner EXCEPT ![c] = NoId] /\ inbox' = [inbox EXCEPT ![c] = {}]
        /\ UNCHANGED <<alive, early, callbacks, got, target>>
    BY <1>7 DEF Cleanup
  <2>2. \A b \in Conns : inbox'[b] \subseteq inbox[b]
    BY <2>1 DEF HwTypes
  <2>3. \A n \in 1..MaxNotes, x \in Ids : LivePending(n, x)' => LivePending(n, x)
    BY <2>1 DEF LivePending, HwTypes
  <2> QED  BY <2>1, <2>2, <2>3, DeliveriesStay
<1>8. ASSUME NEW c \in Conns, NEW n \in 1..MaxNotes, Forward(c, n) PROVE DeliveriesInv'
  <2>1. /\ n \in inbox[c] /\ inbox' = [inbox EXCEPT ![c] = @ \ {n}]
        /\ UNCHANGED <<owner, alive, early, callbacks, target>>
        /\ (alive[c] /\ ForUs(c, n) /\ Give(n, owner[c])) \/ got' = got
    BY <1>8 DEF Forward
  <2>2. \A b \in Conns : inbox'[b] = IF b = c THEN inbox[b] \ {n} ELSE inbox[b]
    BY <2>1 DEF HwTypes
  <2>3. \A m \in 1..MaxNotes, x \in Ids : LivePending(m, x)' => LivePending(m, x)
    BY <2>1, <2>2 DEF LivePending
  <2>4. CASE got' = got
    <3>1. \A b \in Conns : inbox'[b] \subseteq inbox[b]
      BY <2>2
    <3> QED  BY <2>1, <2>3, <2>4, <3>1, DeliveriesStay
  <2>5. CASE alive[c] /\ ForUs(c, n) /\ Give(n, owner[c])
    <3>1. \A m \in 1..MaxNotes, x \in Ids :
             got'[m][x] = IF m = n /\ x = owner[c] THEN got[m][x] + 1 ELSE got[m][x]
      BY <2>5, GiveIs
    <3>2. target[n] # NoId
      BY <2>1 DEF DeliveriesInv
    <3>3. ASSUME owner[c] \in Ids
          PROVE  LivePending(n, owner[c]) /\ ~LivePending(n, owner[c])'
      <4>1. LivePending(n, owner[c])
        BY <2>1, <2>5 DEF LivePending, ForUs
      <4>2. \A b \in Conns : owner[b] = owner[c] /\ alive[b] => b = c
        BY <1>0, <2>5, <3>3 DEF SocketsInv
      <4>3. ~LivePending(n, owner[c])'
        BY <2>1, <2>2, <4>2 DEF LivePending
      <4> QED  BY <4>1, <4>3
    <3>4. ASSUME NEW m \in 1..MaxNotes, NEW x \in Ids PROVE OneEach(m, x)'
      <4>0. /\ OneEach(m, x) /\ got[m][x] \in Nat /\ (Twofold(m, x) <=> Twofold(m, x)')
            /\ CallPending(m, x)' <=> CallPending(m, x)
        BY <2>1 DEF DeliveriesInv, HwTypes, Twofold, CallPending
      <4>1. CASE m = n /\ x = owner[c]
        <5>1. got'[m][x] = got[m][x] + 1
          BY <3>1, <4>1
        <5>2. LivePending(m, x) /\ ~LivePending(m, x)'
          <6>1. owner[c] \in Ids
            BY <4>1
          <6> QED  BY <2>1, <3>3, <4>1, <6>1
        <5>3. (Twofold(m, x) <=> Twofold(m, x)') /\ (CallPending(m, x)' => CallPending(m, x))
          BY <4>0
        <5>4. OneEach(m, x) /\ got[m][x] \in Nat
          BY <4>0
        <5> QED  BY ONLY <5>1, <5>2, <5>3, <5>4, OneEachGiven
      <4>2. CASE ~(m = n /\ x = owner[c])
        <5>1. got'[m][x] = got[m][x] /\ (LivePending(m, x)' => LivePending(m, x))
          BY <2>3, <3>1, <4>2
        <5> QED  BY <4>0, <5>1, OneEachStays
      <4> QED  BY <4>1, <4>2
    <3>5. ASSUME NEW m \in 1..MaxNotes, target[m] = NoId
          PROVE  /\ \A b \in Conns : m \notin inbox'[b]
                 /\ \A x \in Ids : got'[m][x] = 0 /\ ~CallPending(m, x)'
      BY <2>1, <2>2, <3>1, <3>2, <3>5 DEF DeliveriesInv, CallPending
    <3> QED  BY <2>1, <3>4, <3>5 DEF DeliveriesInv
  <2> QED  BY <2>1, <2>4, <2>5
<1>9. ASSUME NEW n \in 1..MaxNotes, NEW to \in known \union {All}, Notify(n, to) PROVE DeliveriesInv'
  <2>1. /\ target[n] = NoId /\ target' = [target EXCEPT ![n] = to] /\ UNCHANGED <<got, owner, alive, early>>
        /\ callbacks' = callbacks \union {<<n, d>> : d \in CallBack(IF to = All THEN Ids ELSE {to})}
    BY <1>9 DEF Notify, net, CallBackFrom
  <2>2. \A b \in Conns : /\ inbox'[b] \subseteq inbox[b] \union {n}
                         /\ inbox'[b] # inbox[b] => b \in Subscribed /\ to \in wsIds \union {All}
    BY <1>9, QueuedIs DEF Notify
  <2>3. to # NoId /\ target'[n] = to /\ \A m \in 1..MaxNotes : m # n => target'[m] = target[m]
    BY <1>0, <2>1 DEF HwTypes
  <2>4. \A x \in Ids : got[n][x] = 0 /\ ~CallPending(n, x) /\ \A b \in Conns : n \notin inbox[b]
    BY <2>1 DEF DeliveriesInv
  <2>5. ASSUME NEW x \in Ids, CallPending(n, x)', LivePending(n, x)' PROVE Twofold(n, x)'
    <3>1. x \in devices /\ x \notin wsIds /\ (to = All \/ to = x)
      BY <2>1, <2>4, <2>5 DEF CallPending, CallBack
    <3>2. PICK b \in Conns : n \in inbox'[b] /\ owner[b] = x
      BY <2>1, <2>5 DEF LivePending
    <3>3. b \in Subscribed /\ to \in wsIds \union {All}
      BY <2>2, <2>4, <3>2
    <3>4. x \in early
      BY <3>1, <3>2, <3>3 DEF WsIdsExact, OnSocket
    <3> QED  BY <2>1, <2>3, <3>1, <3>3, <3>4 DEF Twofold
  <2>6. ASSUME NEW m \in 1..MaxNotes, m # n, NEW x \in Ids
        PROVE  (CallPending(m, x)' => CallPending(m, x)) /\ (LivePending(m, x)' => LivePending(m, x))
    BY <2>1, <2>2, <2>3, <2>6 DEF CallPending, LivePending
  <2>7. ASSUME NEW m \in 1..MaxNotes, NEW x \in Ids PROVE OneEach(m, x)'
    <3>1. CASE m = n
      <4>1. got'[m][x] = 0 /\ (CallPending(m, x)' /\ LivePending(m, x)' => Twofold(m, x)')
        BY <2>1, <2>4, <2>5, <3>1
      <4>2. Due(m, x)' \in {0, 1, 2} /\ (Due(m, x)' = 2 => Twofold(m, x)')
        BY <4>1 DEF Due
      <4>3. OneEach(m, x)' <=> got'[m][x] + Due(m, x)' <= IF Twofold(m, x)' THEN 2 ELSE 1
        BY DEF OneEach
      <4> QED  BY <4>1, <4>2, <4>3
    <3>2. CASE m # n
      <4>1. /\ OneEach(m, x) /\ got[m][x] \in Nat /\ got'[m][x] = got[m][x]
            /\ (Twofold(m, x) => Twofold(m, x)')
        <5>1. OneEach(m, x) /\ got[m][x] \in Nat /\ got'[m][x] = got[m][x]
          BY <2>1 DEF DeliveriesInv, HwTypes
        <5>2. target'[m] = target[m] /\ early' = early
          BY <2>1, <2>3, <3>2
        <5> QED  BY <5>1, <5>2 DEF Twofold
      <4> QED  BY <2>6, <3>2, <4>1, OneEachStays
    <3> QED  BY <3>1, <3>2
  <2>8. ASSUME NEW m \in 1..MaxNotes, target'[m] = NoId
        PROVE  /\ \A b \in Conns : m \notin inbox'[b]
               /\ \A x \in Ids : got'[m][x] = 0 /\ ~CallPending(m, x)'
    <3>1. m # n /\ target[m] = NoId
      BY <2>3, <2>8
    <3> QED  BY <2>1, <2>2, <2>6, <3>1 DEF DeliveriesInv
  <2> QED  BY <2>7, <2>8 DEF DeliveriesInv
<1>10. ASSUME NEW n \in 1..MaxNotes, NEW d \in Ids, Callback(n, d) PROVE DeliveriesInv'
  <2>1. /\ CallPending(n, d) /\ callbacks' = callbacks \ {<<n, d>>}
        /\ UNCHANGED <<owner, alive, early, inbox, target>>
        /\ Give(n, d) \/ got' = got
    BY <1>10 DEF Callback, CallPending, net
  <2>2. \A m \in 1..MaxNotes, x \in Ids : LivePending(m, x)' <=> LivePending(m, x)
    BY <2>1 DEF LivePending
  <2>3. CASE got' = got
    BY <2>1, <2>2, <2>3, DeliveriesStay
  <2>4. CASE Give(n, d)
    <3>1. \A m \in 1..MaxNotes, x \in Ids : got'[m][x] = IF m = n /\ x = d THEN got[m][x] + 1 ELSE got[m][x]
      BY <2>4, GiveIs
    <3>2. target[n] # NoId
      BY <2>1 DEF DeliveriesInv
    <3>3. \A m \in 1..MaxNotes, x \in Ids : CallPending(m, x)' <=> CallPending(m, x) /\ ~(m = n /\ x = d)
      BY <2>1 DEF CallPending
    <3>4. ASSUME NEW m \in 1..MaxNotes, NEW x \in Ids PROVE OneEach(m, x)'
      <4>0. OneEach(m, x) /\ got[m][x] \in Nat /\ (Twofold(m, x) <=> Twofold(m, x)')
        BY <2>1 DEF DeliveriesInv, HwTypes, Twofold
      <4>1. CASE m = n /\ x = d
        BY <2>1, <2>2, <3>1, <3>3, <4>0, <4>1, OneEachGiven
      <4>2. CASE ~(m = n /\ x = d)
        BY <2>2, <3>1, <3>3, <4>0, <4>2, OneEachStays
      <4> QED  BY <4>1, <4>2
    <3>5. ASSUME NEW m \in 1..MaxNotes, target[m] = NoId
          PROVE  /\ \A b \in Conns : m \notin inbox'[b]
                 /\ \A x \in Ids : got'[m][x] = 0 /\ ~CallPending(m, x)'
      BY <2>1, <3>1, <3>2, <3>3, <3>5 DEF DeliveriesInv
    <3> QED  BY <2>1, <3>4, <3>5 DEF DeliveriesInv
  <2> QED  BY <2>1, <2>3, <2>4
<1> QED  BY <1>2, <1>3, <1>4, <1>5, <1>6, <1>7, <1>8, <1>9, <1>10 DEF HwNext

\* A step posts a note, the first of those that are not, or none.
LEMMA OrderKeeps ==
  ASSUME HwTypes, OrderInv, HwNext
  PROVE  OrderInv'
<1>0. MaxNotes \in Nat /\ NoId \notin Ids /\ All # NoId
  BY DevicesAssumption
<1>1. ASSUME target' = target PROVE OrderInv'
  BY <1>1 DEF OrderInv
<1>2. ASSUME NEW n \in 1..MaxNotes, NEW to \in known \union {All}, Notify(n, to) PROVE OrderInv'
  <2>1. /\ \A m \in 1..(n - 1) : target[m] # NoId
        /\ \A m \in 1..MaxNotes : target'[m] = IF m = n THEN to ELSE target[m]
        /\ to # NoId
    BY <1>0, <1>2 DEF Notify, HwTypes
  <2>2. ASSUME NEW k \in 1..MaxNotes, target'[k] # NoId, NEW m \in 1..(k - 1) PROVE target'[m] # NoId
    <3>1. m \in 1..MaxNotes
      BY <1>0
    <3> QED  BY <2>1, <2>2, <3>1 DEF OrderInv
  <2> QED  BY <2>2 DEF OrderInv
<1>3. ASSUME \A n \in 1..MaxNotes, to \in known \union {All} : ~Notify(n, to) PROVE target' = target
  BY <1>3 DEF HwNext, RegisterDevice, UnregisterDevice, Open, Connect, Hangup, SeeHangup, Cleanup, Forward,
              Callback, Tick, out
<1> QED  BY <1>1, <1>2, <1>3

LEMMA ChannelIs ==
  ASSUME HwTypes, NEW c \in Conns, NEW to
  PROVE  /\ IsFiniteSet(Channel(inbox[c], to)) /\ Channel(inbox[c], to) \in SUBSET Nat
         /\ Cardinality(Channel(inbox[c], to)) \in Nat
<1>1. IsFiniteSet(1..MaxNotes)
  BY FS_Interval, DevicesAssumption
<1>2. Channel(inbox[c], to) \in SUBSET (1..MaxNotes)
  BY DEF Channel, HwTypes
<1>3. IsFiniteSet(Channel(inbox[c], to))
  BY <1>1, <1>2, FS_Subset
<1> QED  BY <1>2, <1>3, FS_CardinalityType

\* What a receiver holds of one channel only shrinks.
LEMMA RoomStays ==
  ASSUME HwTypes, NEW c \in Conns, NEW to, NEW box, box \subseteq Channel(inbox[c], to),
         Cardinality(Channel(inbox[c], to)) <= BUS_CAPACITY
  PROVE  Cardinality(box) <= BUS_CAPACITY
<1>1. Cardinality(box) <= Cardinality(Channel(inbox[c], to)) /\ IsFiniteSet(box)
  BY ChannelIs, FS_Subset
<1>2. Cardinality(box) \in Nat /\ Cardinality(Channel(inbox[c], to)) \in Nat /\ BUS_CAPACITY \in Nat
  BY <1>1, ChannelIs, FS_CardinalityType, DevicesAssumption
<1> QED  BY <1>1, <1>2

LEMMA RoomKeeps ==
  ASSUME HwTypes, DeliveriesInv, RoomInv, HwNext
  PROVE  RoomInv'
<1>1. ASSUME target' = target, \A c \in Conns : inbox'[c] \subseteq inbox[c]
      PROVE  RoomInv'
  <2>1. ASSUME NEW c \in Conns, NEW to \in Ids \union {All}
        PROVE  Cardinality(Channel(inbox[c], to)') <= BUS_CAPACITY
    <3>1. Channel(inbox[c], to)' \subseteq Channel(inbox[c], to)
      BY <1>1 DEF Channel
    <3> QED  BY <3>1, RoomStays DEF RoomInv
  <2> QED  BY <2>1 DEF RoomInv
<1>2. ASSUME NEW d \in Ids, RegisterDevice(d) \/ UnregisterDevice(d) PROVE RoomInv'
  BY <1>1, <1>2 DEF RegisterDevice, UnregisterDevice, out
<1>3. ASSUME NEW c \in Conns, NEW d \in Ids \union {NoId}, Open(c, d) PROVE RoomInv'
  BY <1>1, <1>3 DEF Open, out
<1>4. ASSUME NEW c \in Conns, Connect(c) \/ Hangup(c) \/ SeeHangup(c) \/ Cleanup(c) PROVE RoomInv'
  <2>1. target' = target /\ (inbox' = inbox \/ inbox' = [inbox EXCEPT ![c] = {}])
    BY <1>4 DEF Connect, Hangup, SeeHangup, Cleanup, out
  <2>2. \A b \in Conns : inbox'[b] \subseteq inbox[b]
    BY <2>1 DEF HwTypes
  <2> QED  BY <1>1, <2>1, <2>2
<1>5. ASSUME NEW c \in Conns, NEW n \in 1..MaxNotes, Forward(c, n) PROVE RoomInv'
  <2>1. target' = target /\ inbox' = [inbox EXCEPT ![c] = @ \ {n}]
    BY <1>5 DEF Forward
  <2>2. \A b \in Conns : inbox'[b] \subseteq inbox[b]
    BY <2>1 DEF HwTypes
  <2> QED  BY <1>1, <2>1, <2>2
<1>6. ASSUME NEW n \in 1..MaxNotes, NEW to \in known \union {All}, Notify(n, to) PROVE RoomInv'
  <2>1. /\ target[n] = NoId /\ target' = [target EXCEPT ![n] = to]
        /\ \A b \in Conns : inbox'[b] = inbox[b] \/ inbox'[b] = Queued(inbox[b], n, to)
    BY <1>6 DEF Notify
  <2>2. \A m \in 1..MaxNotes : target'[m] = IF m = n THEN to ELSE target[m]
    BY <2>1 DEF HwTypes
  <2>3. \A b \in Conns : inbox[b] \subseteq 1..MaxNotes /\ n \notin inbox[b]
    BY <2>1 DEF DeliveriesInv, HwTypes
  <2>4. to \in Ids \union {All}
    BY DEF HwTypes
  <2>5. ASSUME NEW b \in Conns, NEW k \in Ids \union {All}
        PROVE  Cardinality(Channel(inbox[b], k)') <= BUS_CAPACITY
    <3> DEFINE old == Channel(inbox[b], k)
               new == Channel(inbox[b], k)'
    <3>1. Cardinality(old) <= BUS_CAPACITY /\ IsFiniteSet(old) /\ Cardinality(old) \in Nat /\ old \in SUBSET Nat
      BY ChannelIs DEF RoomInv
    <3>2. CASE new \subseteq old
      BY <3>1, <3>2, RoomStays
    <3>3. CASE ~(new \subseteq old)
      <4>1. inbox'[b] = Queued(inbox[b], n, to) /\ (to = All <=> k = All)
        <5>1. ASSUME inbox'[b] = inbox[b] PROVE new \subseteq old
          BY <2>2, <2>3, <5>1 DEF Channel
        <5>2. ASSUME inbox'[b] = Queued(inbox[b], n, to), ~(to = All <=> k = All) PROVE new \subseteq old
          BY <2>2, <2>3, <5>2, QueuedIs DEF Channel
        <5> QED  BY <2>1, <3>3, <5>1, <5>2
      <4>2. Channel(inbox[b], to) = old
        BY <4>1 DEF Channel
      <4>3. CASE Full(inbox[b], to)
        <5> DEFINE m == Min(old)
        <5>1. old # {}
          <6>1. Cardinality(old) >= BUS_CAPACITY /\ BUS_CAPACITY \in Nat \ {0}
            BY <4>2, <4>3, DevicesAssumption DEF Full
          <6>2. Cardinality(old) # 0
            BY <3>1, <6>1
          <6> QED  BY <6>2, FS_EmptySet
        <5>2. m \in old
          BY <3>1, <5>1, MinIn
        <5>3. inbox'[b] = (inbox[b] \ {m}) \union {n}
          BY <4>1, <4>2, <4>3 DEF Queued
        <5> HIDE DEF m, old, new
        <5>4. new \subseteq (old \ {m}) \union {n}
          BY <2>2, <2>3, <5>3 DEF new, old, Channel
        <5>5. Cardinality(old \ {m}) = Cardinality(old) - 1 /\ IsFiniteSet(old \ {m})
          BY <3>1, <5>2, FS_RemoveElement
        <5>6. /\ Cardinality((old \ {m}) \union {n}) \in {Cardinality(old) - 1, Cardinality(old)}
              /\ IsFiniteSet((old \ {m}) \union {n})
          <6> DEFINE less == old \ {m}
          <6>1. Cardinality(less) = Cardinality(old) - 1 /\ IsFiniteSet(less)
            BY <5>5
          <6> HIDE DEF less
          <6>2. /\ Cardinality(less \union {n}) = IF n \in less THEN Cardinality(less) ELSE Cardinality(less) + 1
                /\ IsFiniteSet(less \union {n})
            BY <6>1, FS_AddElement
          <6>3. Cardinality(less \union {n}) \in {Cardinality(old) - 1, Cardinality(old)}
            BY <3>1, <6>1, <6>2
          <6> QED  BY <6>2, <6>3 DEF less
        <5>7. Cardinality(new) <= Cardinality((old \ {m}) \union {n}) /\ IsFiniteSet(new)
          BY <5>4, <5>6, FS_Subset
        <5>8. Cardinality(new) \in Nat /\ BUS_CAPACITY \in Nat
          BY <5>7, FS_CardinalityType, DevicesAssumption
        <5>9. Cardinality(new) <= BUS_CAPACITY
          BY <3>1, <5>6, <5>7, <5>8
        <5> QED  BY <5>9 DEF new
      <4>4. CASE ~Full(inbox[b], to)
        <5>1. Cardinality(old) < BUS_CAPACITY /\ BUS_CAPACITY \in Nat
          BY <3>1, <4>2, <4>4, DevicesAssumption DEF Full
        <5>2. inbox'[b] = inbox[b] \union {n}
          BY <4>1, <4>4 DEF Queued
        <5> HIDE DEF old, new
        <5>3. new \subseteq old \union {n}
          BY <2>2, <2>3, <5>2 DEF new, old, Channel
        <5>4. Cardinality(old \union {n}) \in {Cardinality(old), Cardinality(old) + 1} /\ IsFiniteSet(old \union {n})
          BY <3>1, FS_AddElement
        <5>5. Cardinality(new) <= Cardinality(old \union {n}) /\ IsFiniteSet(new)
          BY <5>3, <5>4, FS_Subset
        <5>6. Cardinality(new) \in Nat
          BY <5>5, FS_CardinalityType
        <5>7. Cardinality(new) <= BUS_CAPACITY
          BY <3>1, <5>1, <5>4, <5>5, <5>6
        <5> QED  BY <5>7 DEF new
      <4> QED  BY <4>3, <4>4
    <3> QED  BY <3>2, <3>3
  <2> QED  BY <2>5 DEF RoomInv
<1>7. ASSUME NEW n \in 1..MaxNotes, NEW d \in Ids, Callback(n, d) PROVE RoomInv'
  BY <1>1, <1>7 DEF Callback
<1>8. CASE Tick
  BY <1>1, <1>8 DEF Tick, out
<1> QED  BY <1>2, <1>3, <1>4, <1>5, <1>6, <1>7, <1>8 DEF HwNext

LEMMA HwInitial == HwInit => HwIInv
<1> SUFFICES ASSUME HwInit PROVE HwIInv
  OBVIOUS
<1>0. /\ TTL \in Nat \ {0} /\ BUS_CAPACITY \in Nat \ {0} /\ NoId \notin Ids
  BY DevicesAssumption
<1>1. HwTypes
  <2>1. 0 \in 0..TTL
    BY <1>0
  <2> QED  BY <2>1 DEF HwInit, HwTypes
<1>2. SocketsInv /\ WsIdsExact /\ OrderInv
  BY DEF HwInit, SocketsInv, WsIdsExact, Subscribed, OrderInv
<1>3. DeliveriesInv
  <2>1. \A n \in 1..MaxNotes, d \in Ids : got[n][d] = 0 /\ ~CallPending(n, d) /\ ~LivePending(n, d)
    BY DEF HwInit, CallPending, LivePending
  <2>2. \A n \in 1..MaxNotes, d \in Ids : OneEach(n, d)
    BY <2>1 DEF OneEach, Due
  <2> QED  BY <2>1, <2>2 DEF DeliveriesInv, HwInit
<1>4. RoomInv
  <2>1. ASSUME NEW c \in Conns, NEW to PROVE Channel(inbox[c], to) = {}
    BY DEF HwInit, Channel
  <2>2. Cardinality({}) <= BUS_CAPACITY
    BY <1>0, FS_EmptySet
  <2> QED  BY <2>1, <2>2 DEF RoomInv
<1> QED  BY <1>1, <1>2, <1>3, <1>4 DEF HwIInv

LEMMA HwKeeps ==
  ASSUME HwIInv, [HwNext]_hw
  PROVE  HwIInv'
<1>1. CASE HwNext
  BY <1>1, HwTypesKeep, SocketsKeep, ExactKeeps, DeliveriesKeep, RoomKeeps, OrderKeeps DEF HwIInv
<1>2. CASE UNCHANGED hw
  <2>1. UNCHANGED <<devices, age, known, wsIds, sock, owner, alive, early, inbox, callbacks, got, target>>
    BY <1>2 DEF hw, reg, net, out
  <2>2. HwTypes' /\ SocketsInv' /\ WsIdsExact' /\ OrderInv'
    BY <2>1 DEF HwIInv, HwTypes, SocketsInv, WsIdsExact, OnSocket, Subscribed, OrderInv
  <2>3. RoomInv'
    BY <2>1 DEF HwIInv, RoomInv, Channel
  <2>4. DeliveriesInv'
    BY <2>1, DeliveriesStay DEF HwIInv, LivePending
  <2> QED  BY <2>2, <2>3, <2>4 DEF HwIInv
<1> QED  BY <1>1, <1>2

LEMMA HwInvariant == HwSpec => []HwIInv
<1>1. HwIInv /\ [HwNext]_hw => HwIInv'
  BY HwKeeps
<1> QED  BY <1>1, HwInitial, PTL DEF HwSpec

\* A device is given a notification once at most, over its socket or by its
\* callback, and one to all twice at most if it has reconnected early; the set
\* of ids on a socket is exact but for such devices; no receiver is over
\* capacity (HwDevices, HwInv): for any number of devices, sockets and
\* notifications, and sockets that come and go in any order.
THEOREM DevicesHold == HwSpec => []HwInv
<1>1. HwIInv => HwInv
  <2> SUFFICES ASSUME HwIInv PROVE HwInv
    OBVIOUS
  <2>1. ASSUME NEW c \in Conns, NEW n \in inbox[c]
        PROVE  target[n] # NoId /\ Cardinality(Channel(inbox[c], target[n])) <= BUS_CAPACITY
    <3>1. n \in 1..MaxNotes
      BY DEF HwIInv, HwTypes
    <3>2. target[n] # NoId /\ target[n] \in known \union {NoId, All}
      BY <3>1 DEF HwIInv, HwTypes, DeliveriesInv
    <3>3. target[n] \in Ids \union {All}
      BY <3>2 DEF HwIInv, HwTypes
    <3> QED  BY <3>2, <3>3 DEF HwIInv, RoomInv
  <2>2. \A c \in Conns : sock[c] = "closed" => inbox[c] = {}
    BY DEF HwIInv, SocketsInv, Subscribed
  <2>3. HwTypeOK
    BY <2>1, <2>2 DEF HwIInv, HwTypes, HwTypeOK, SocketsInv
  <2>4. ASSUME NEW n \in 1..MaxNotes, NEW d \in Ids
        PROVE  got[n][d] <= IF Twofold(n, d) THEN 2 ELSE 1
    <3>1. got[n][d] \in Nat /\ OneEach(n, d)
      BY DEF HwIInv, HwTypes, DeliveriesInv
    <3>2. Due(n, d) \in {0, 1, 2}
      BY DEF Due
    <3>3. got[n][d] + Due(n, d) <= IF Twofold(n, d) THEN 2 ELSE 1
      BY <3>1 DEF OneEach
    <3> QED  BY <3>1, <3>2, <3>3
  <2> QED  BY <2>3, <2>4 DEF HwInv, HwIInv, AtMostOnce
<1> QED  BY <1>1, HwInvariant, PTL

\* A receiver that is full holds as many later notes as it has room for, once
\* its oldest has made way for the new one.
LEMMA OverrunIs ==
  ASSUME HwTypes, DeliveriesInv, RoomInv, OrderInv, NEW c \in Conns, NEW n \in 1..MaxNotes,
         NEW to \in Ids \union {All}, Notify(n, to), NEW k \in inbox[c], k \notin inbox'[c]
  PROVE  Overrun(c, k)
<1> DEFINE old == Channel(inbox[c], to)
           later == {m \in inbox'[c] : m > k /\ ((target'[m] = All) <=> (target[k] = All))}
<1>0. NoId \notin Ids /\ All # NoId /\ MaxNotes \in Nat /\ BUS_CAPACITY \in Nat \ {0}
  BY DevicesAssumption
<1>1. /\ target[n] = NoId /\ \A m \in 1..MaxNotes : target'[m] = IF m = n THEN to ELSE target[m]
      /\ inbox'[c] = inbox[c] \/ inbox'[c] = Queued(inbox[c], n, to)
  BY DEF Notify, HwTypes
<1>2. Full(inbox[c], to) /\ inbox'[c] = (inbox[c] \ {Min(old)}) \union {n} /\ k = Min(old)
  BY <1>1 DEF Queued
<1>3. /\ IsFiniteSet(old) /\ old \in SUBSET Nat /\ Cardinality(old) \in Nat
      /\ Cardinality(old) = BUS_CAPACITY
  <2>1. IsFiniteSet(old) /\ old \in SUBSET Nat /\ Cardinality(old) \in Nat
    BY ChannelIs
  <2>2. Cardinality(old) <= BUS_CAPACITY /\ Cardinality(old) >= BUS_CAPACITY
    BY <1>2 DEF RoomInv, Full
  <2> QED  BY <1>0, <2>1, <2>2
<1>4. old # {}
  BY <1>0, <1>3, FS_EmptySet
<1>5. k \in old /\ \A m \in old : k <= m
  BY <1>2, <1>3, <1>4, MinIn
<1>6. /\ inbox[c] \subseteq 1..MaxNotes /\ k \in 1..MaxNotes
      /\ \A m \in inbox[c] : m < n
  <2>1. inbox[c] \subseteq 1..MaxNotes /\ \A m \in inbox[c] : target[m] # NoId
    BY DEF HwTypes, DeliveriesInv
  <2>2. ASSUME NEW m \in inbox[c], m >= n PROVE FALSE
    <3>1. m \in 1..MaxNotes /\ m # n
      BY <1>1, <2>1
    <3>2. n \in 1..(m - 1)
      BY <2>2, <3>1
    <3> QED  BY <1>1, <2>1, <3>1, <3>2 DEF OrderInv
  <2> QED  BY <2>1, <2>2
<1>7. (target[k] = All) <=> (to = All)
  BY <1>5 DEF Channel
<1>8. \A m \in inbox[c] : m \in old <=> ((target[m] = All) <=> (to = All))
  BY DEF Channel
<1> HIDE DEF old
<1>9. later = (old \ {k}) \union {n}
  <2>1. ASSUME NEW m \in later PROVE m \in (old \ {k}) \union {n}
    <3>1. m \in inbox'[c] /\ m > k /\ ((target'[m] = All) <=> (to = All))
      BY <1>7
    <3>2. CASE m # n
      <4>1. m \in inbox[c] /\ m \in 1..MaxNotes /\ m # k
        BY <1>2, <1>6, <3>1, <3>2
      <4> QED  BY <1>1, <1>8, <3>1, <3>2, <4>1
    <3> QED  BY <3>2
  <2>2. n \in later
    BY <1>1, <1>2, <1>5, <1>6, <1>7
  <2>3. ASSUME NEW m \in old, m # k PROVE m \in later
    <3>1. m \in inbox[c] /\ m \in 1..MaxNotes /\ m # n
      BY <1>6, <2>3 DEF old, Channel
    <3>2. m \in inbox'[c] /\ m > k
      BY <1>2, <1>3, <1>5, <1>6, <2>3, <3>1
    <3> QED  BY <1>1, <1>7, <1>8, <2>3, <3>1, <3>2
  <2> QED  BY <2>1, <2>2, <2>3
<1> HIDE DEF later
<1>10. n \notin old
  BY <1>6 DEF old, Channel
<1>11. Cardinality(old \ {k}) = Cardinality(old) - 1 /\ IsFiniteSet(old \ {k})
  BY <1>3, <1>5, FS_RemoveElement
<1>12. Cardinality(later) = BUS_CAPACITY
  <2> DEFINE less == old \ {k}
  <2>1. n \notin less /\ IsFiniteSet(less) /\ later = less \union {n} /\ Cardinality(less) = BUS_CAPACITY - 1
    BY <1>3, <1>9, <1>10, <1>11
  <2> HIDE DEF less
  <2>2. Cardinality(later) = Cardinality(less) + 1
    BY <2>1, FS_AddElement
  <2> QED  BY <1>0, <2>1, <2>2
<1> QED  BY <1>12 DEF Overrun, later

\* A notification to a registered device that has an open socket is put in
\* that socket's queue, and leaves it only by being given, by the device's
\* going away or by overrun (HwDevices, TargetReached).
THEOREM NotesReachTheSocket == HwSpec => TargetReached
<1>0. NoId \notin Ids /\ All \notin Ids /\ All # NoId
  BY DevicesAssumption
<1>1. ASSUME HwIInv, HwNext PROVE QueuedStep
  <2> SUFFICES ASSUME NEW d \in devices, NEW c \in Conns, NEW n \in 1..MaxNotes,
                      target[n] = NoId, target'[n] = All \/ (target'[n] = d /\ d \notin early),
                      sock[c] = "open", owner[c] = d
               PROVE  n \in inbox'[c]
    BY DEF QueuedStep
  <2>1. target'[n] # target[n]
    BY <1>0, <1>1 DEF HwIInv, HwTypes
  <2>2. PICK m \in 1..MaxNotes, to \in known \union {All} : Notify(m, to)
    BY <1>1, <2>1 DEF HwNext, RegisterDevice, UnregisterDevice, Open, Connect, Hangup, SeeHangup, Cleanup, Forward,
                      Callback, Tick, out
  <2>3. m = n /\ target'[n] = to
    BY <1>1, <2>1, <2>2 DEF Notify, HwIInv, HwTypes
  <2>4. c \in Subscribed /\ d \in wsIds \union early
    BY <1>1 DEF Subscribed, HwIInv, WsIdsExact, OnSocket
  <2>5. inbox'[c] = Queued(inbox[c], n, to)
    BY <1>0, <2>2, <2>3, <2>4 DEF Notify
  <2> QED  BY <2>5, QueuedIs
<1>2. ASSUME HwIInv, HwNext PROVE DrainedStep
  <2> SUFFICES ASSUME NEW c \in Conns, NEW k \in inbox[c] \ inbox'[c], ForUs(c, k), owner[c] \in Ids
               PROVE  got'[k][owner[c]] = got[k][owner[c]] + 1 \/ ~alive[c] \/ Overrun(c, k)
    BY DEF DrainedStep
  <2>0. HwTypes /\ k \in 1..MaxNotes
    BY <1>2 DEF HwIInv, HwTypes
  <2>1. ASSUME NEW b \in Conns, NEW n \in 1..MaxNotes, Forward(b, n)
        PROVE  got'[k][owner[c]] = got[k][owner[c]] + 1 \/ ~alive[c]
    <3>1. inbox' = [inbox EXCEPT ![b] = @ \ {n}]
      BY <2>1 DEF Forward
    <3>2. b = c /\ n = k
      BY <2>0, <3>1 DEF HwTypes
    <3>3. CASE alive[c]
      <4>1. Give(k, owner[c])
        BY <2>1, <3>2, <3>3 DEF Forward
      <4> QED  BY <2>0, <4>1, GiveIs
    <3> QED  BY <3>3
  <2>2. ASSUME NEW b \in Conns, Cleanup(b) PROVE ~alive[c]
    <3>1. inbox' = [inbox EXCEPT ![b] = {}] /\ sock[b] = "closing"
      BY <2>2 DEF Cleanup
    <3>2. b = c
      BY <2>0, <3>1 DEF HwTypes
    <3> QED  BY <1>2, <3>1, <3>2 DEF HwIInv, SocketsInv
  <2>3. ASSUME NEW n \in 1..MaxNotes, NEW to \in known \union {All}, Notify(n, to) PROVE Overrun(c, k)
    <3>1. to \in Ids \union {All}
      BY <2>0 DEF HwTypes
    <3> QED  BY <1>2, <2>3, <3>1, OverrunIs DEF HwIInv
  <2>4. ASSUME inbox' = inbox PROVE FALSE
    BY <2>4
  <2> QED  BY <1>2, <2>1, <2>2, <2>3, <2>4
           DEF HwNext, RegisterDevice, UnregisterDevice, Open, Connect, Hangup, SeeHangup, Callback, Tick, out
<1>3. HwIInv /\ [HwNext]_hw => [QueuedStep /\ DrainedStep]_hw
  BY <1>1, <1>2
<1> QED  BY <1>3, HwInvariant, PTL DEF HwSpec, TargetReached

=============================================================================
