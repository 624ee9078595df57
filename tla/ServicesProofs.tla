--------------------------- MODULE ServicesProofs ---------------------------
(***************************************************************************)
(* Proofs about what serves a VM.  BridgeServer: whatever the number of    *)
(* requests in flight, an exec request never gets as far as its approval   *)
(* dialog, and the lock's queue, its guards and the notifications stay     *)
(* consistent.  BackgroundScript: a run reports its own exit code and is   *)
(* not given up while it lives.  BrowserHil: a takeover or a return that   *)
(* meets nothing converts the browser, and no agent is answered without a  *)
(* click.                                                                  *)
(***************************************************************************)
EXTENDS MCServices, SequenceTheorems, WellFoundedInduction, FiniteSetTheorems, TLAPS

-----------------------------------------------------------------------------
(* The bridge server.                                                       *)

PCs == {"idle", "lock", "busy", "store", "poll", "await", "clear"}

\* The two functions every step updates at one handler.
PcOK == kind \in [Handlers -> AllKinds] /\ pc \in [Handlers -> PCs]

GuardInv == PcOK /\ ApprovalUnreached

LEMMA GuardInit == ServerInit => GuardInv
<1> SUFFICES ASSUME ServerInit PROVE GuardInv
  OBVIOUS
<1>1. kind = [h \in Handlers |-> "status"] /\ pc = [h \in Handlers |-> "idle"]
  BY DEF ServerInit
<1>2. dialog = FALSE
  BY DEF ServerInit
<1>3. PcOK
  BY <1>1 DEF PcOK, PCs, AllKinds
<1> QED  BY <1>1, <1>2, <1>3 DEF GuardInv, ApprovalUnreached

(* Arrivals: the new request is at its first lock.                          *)
LEMMA ArriveStep ==
  ASSUME GuardInv, NEW h \in Handlers, NEW k \in Kinds, Arrive(h, k)
  PROVE  GuardInv'
<1> USE DEF GuardInv, PcOK, PCs
<1>1. k \in AllKinds
  BY KindsAssumption
<1>2. /\ kind' = [kind EXCEPT ![h] = k]
      /\ pc' = [pc EXCEPT ![h] = IF k = "hil" THEN "store" ELSE "lock"]
      /\ UNCHANGED <<readers, dialog>>
  BY DEF Arrive, ServerGoto
<1>3. PcOK'
  BY <1>1, <1>2
<1> QED  BY <1>2, <1>3 DEF ApprovalUnreached

(* A served request: the write guard Store needs is free of readers, so the *)
(* handler that gets it is not an exec that holds the read guard.           *)
LEMMA ServeStep ==
  ASSUME GuardInv, NEW h \in Handlers, Serve(h)
  PROVE  GuardInv'
<1> USE DEF GuardInv, PcOK, PCs, ServerGoto, Reply
<1>1. CASE Status(h)
  <2>1. PcOK' /\ UNCHANGED <<kind, readers, dialog>>
    BY <1>1 DEF Status
  <2> QED  BY <1>1, <2>1 DEF Status, ApprovalUnreached
<1>2. CASE Forbid(h)
  <2>1. PcOK' /\ UNCHANGED <<kind, readers, dialog>>
    BY <1>2 DEF Forbid
  <2> QED  BY <1>2, <2>1 DEF Forbid, ApprovalUnreached
<1>3. CASE Allow(h)
  <2>1. PcOK' /\ UNCHANGED <<kind, dialog>> /\ readers' = readers \cup {h}
    BY <1>3 DEF Allow
  <2> QED  BY <1>3, <2>1 DEF Allow, ApprovalUnreached
<1>4. CASE AskApproval(h)
  <2>1. PcOK' /\ UNCHANGED <<kind, dialog>> /\ readers' = readers \cup {h}
    BY <1>4 DEF AskApproval
  <2> QED  BY <1>4, <2>1 DEF AskApproval, ApprovalUnreached
<1>5. CASE Finish(h)
  <2>1. PcOK' /\ UNCHANGED <<kind, dialog>> /\ readers' = readers \ {h}
    BY <1>5 DEF Finish
  <2> QED  BY <1>5, <2>1 DEF Finish, ApprovalUnreached
<1>6. CASE Store(h)
  <2>1. readers = {} /\ pc[h] = "store"
    BY <1>6 DEF Store, MayWrite
  <2>2. kind[h] # "exec"
    BY <2>1 DEF ApprovalUnreached
  <2>3. dialog' = (dialog \/ kind[h] = "exec")
    BY <1>6 DEF Store
  <2>4. ~dialog'
    BY <2>2, <2>3 DEF ApprovalUnreached
  <2>5. PcOK' /\ UNCHANGED <<kind, readers>>
    BY <1>6 DEF Store
  <2>6. pc' = [pc EXCEPT ![h] = "poll"]
    BY <1>6 DEF Store
  <2> QED  BY <2>2, <2>4, <2>5, <2>6 DEF ApprovalUnreached
<1>7. CASE Poll(h)
  <2>1. PcOK' /\ UNCHANGED <<kind, readers, dialog>>
    BY <1>7 DEF Poll, lock
  <2> QED  BY <1>7, <2>1 DEF Poll, ApprovalUnreached
<1>8. CASE EndWait(h)
  <2>1. PcOK' /\ UNCHANGED <<kind, readers, dialog>>
    BY <1>8 DEF EndWait
  <2> QED  BY <1>8, <2>1 DEF EndWait, ApprovalUnreached
<1>9. CASE Clear(h)
  <2>1. kind[h] # "exec" /\ pc[h] = "clear"
    BY <1>9 DEF Clear, ApprovalUnreached
  <2>2. readers = {}
    BY <1>9 DEF Clear, MayWrite
  <2>3. UNCHANGED <<kind, dialog>>
    BY <1>9 DEF Clear
  <2>4. PcOK'
    BY <1>9 DEF Clear
  <2>5. \A g \in Handlers : g # h => pc'[g] = pc[g]
    BY <1>9 DEF Clear
  <2> QED  BY <2>1, <2>2, <2>3, <2>4, <2>5 DEF ApprovalUnreached
<1>10. CASE UserAnswers(h)
  <2>1. PcOK' /\ UNCHANGED <<kind, readers>>
    BY <1>10 DEF UserAnswers
  <2>2. dialog' = (dialog /\ kind[h] = "complete")
    BY <1>10 DEF UserAnswers
  <2>3. ~dialog'
    BY <2>2 DEF ApprovalUnreached
  <2>4. pc' = [pc EXCEPT ![h] = "idle"]
    BY <1>10 DEF UserAnswers
  <2> QED  BY <2>1, <2>3, <2>4 DEF ApprovalUnreached
<1> QED  BY <1>1, <1>2, <1>3, <1>4, <1>5, <1>6, <1>7, <1>8, <1>9, <1>10 DEF Serve

(* A dropped request leaves its guard and its program counter behind at once.*)
LEMMA DisconnectStep ==
  ASSUME GuardInv, NEW h \in Handlers, Disconnect(h)
  PROVE  GuardInv'
<1> USE DEF GuardInv, PcOK, PCs
<1>1. /\ pc' = [pc EXCEPT ![h] = "idle"]
      /\ readers' = readers \ {h}
      /\ UNCHANGED <<kind, dialog>>
  BY DEF Disconnect, Reply, ServerGoto
<1>2. PcOK'
  BY <1>1
<1> QED  BY <1>1, <1>2 DEF ApprovalUnreached

(* The approval dialog never opens and no command that needs an approval    *)
(* runs (server.rs:287-329), for any number of handlers.                    *)
THEOREM ApprovalNeverReached == ServerSpec => []ApprovalUnreached
<1>1. ServerInit => GuardInv
  BY GuardInit
<1>2. GuardInv /\ [ServerNext]_server => GuardInv'
  <2> SUFFICES ASSUME GuardInv, [ServerNext]_server PROVE GuardInv'
    OBVIOUS
  <2>1. CASE ServerNext
    BY <2>1, ArriveStep, ServeStep, DisconnectStep DEF ServerNext
  <2>2. CASE UNCHANGED server
    <3>1. UNCHANGED <<kind, pc, readers, dialog>>
      BY <2>2 DEF server, lock
    <3> QED  BY <3>1 DEF GuardInv, PcOK, ApprovalUnreached
  <2> QED  BY <2>1, <2>2
<1>3. GuardInv => ApprovalUnreached
  BY DEF GuardInv
<1> QED  BY <1>1, <1>2, <1>3, PTL DEF ServerSpec

-----------------------------------------------------------------------------
(* The lists of the lock and of the Notify: each handler is in one once.    *)

Once(s) == \A i, j \in 1 .. Len(s) : s[i] = s[j] => i = j

\* The first in the list goes.
LEMMA TailServes ==
  ASSUME NEW S, NEW s \in Seq(S), Once(s), s # <<>>
  PROVE  /\ Tail(s) \in Seq(S) /\ Once(Tail(s)) /\ Head(s) \in Elements(s) /\ Head(s) \in S
         /\ Elements(Tail(s)) = Elements(s) \ {Head(s)}
<1>1. /\ Tail(s) \in Seq(S) /\ Head(s) \in S /\ Len(s) \in Nat \ {0}
      /\ Len(Tail(s)) = Len(s) - 1
      /\ \A i \in 1 .. Len(s) - 1 : Tail(s)[i] = s[i + 1]
  BY HeadTailProperties, EmptySeq
<1>2. Head(s) = s[1]
  BY <1>1 DEF Head
<1>3. Once(Tail(s))
  BY <1>1 DEF Once
<1>4. Head(s) \in Elements(s)
  BY <1>1, <1>2 DEF Elements
<1>5. ASSUME NEW x \in Elements(Tail(s)) PROVE x \in Elements(s) \ {Head(s)}
  <2>1. PICK i \in 1 .. Len(s) - 1 : x = s[i + 1]
    BY <1>1, <1>5 DEF Elements
  <2>2. i + 1 \in 1 .. Len(s) /\ 1 \in 1 .. Len(s) /\ i + 1 # 1
    BY <1>1
  <2> QED  BY <2>1, <2>2, <1>2 DEF Elements, Once
<1>6. ASSUME NEW x \in Elements(s), x # Head(s) PROVE x \in Elements(Tail(s))
  <2>1. PICK i \in 1 .. Len(s) : x = s[i]
    BY <1>6 DEF Elements
  <2>2. i # 1
    BY <2>1, <1>2, <1>6
  <2>3. i - 1 \in 1 .. Len(s) - 1 /\ s[(i - 1) + 1] = s[i]
    BY <1>1, <2>2
  <2>4. x = Tail(s)[i - 1]
    BY <1>1, <2>1, <2>3
  <2> QED  BY <1>1, <2>3, <2>4 DEF Elements
<1> QED  BY <1>1, <1>3, <1>4, <1>5, <1>6

\* One who was not in the list comes last.
LEMMA AppendQueues ==
  ASSUME NEW S, NEW s \in Seq(S), Once(s), NEW h \in S, h \notin Elements(s)
  PROVE  /\ Append(s, h) \in Seq(S) /\ Once(Append(s, h))
         /\ Elements(Append(s, h)) = Elements(s) \cup {h}
<1> DEFINE t == Append(s, h)
<1>1. /\ t \in Seq(S) /\ Len(s) \in Nat /\ Len(t) = Len(s) + 1
      /\ \A i \in 1 .. Len(s) : t[i] = s[i]
      /\ t[Len(s) + 1] = h
  BY AppendProperties, LenProperties
<1>2. \A i \in 1 .. Len(t) : i \in 1 .. Len(s) \/ i = Len(s) + 1
  BY <1>1
<1>3. \A i \in 1 .. Len(s) : s[i] # h
  BY DEF Elements
<1> HIDE DEF t
<1>4. Once(t)
  BY <1>1, <1>2, <1>3 DEF Once
<1>5. Elements(t) = Elements(s) \cup {h}
  <2>1. ASSUME NEW x \in Elements(t) PROVE x \in Elements(s) \cup {h}
    BY <2>1, <1>1, <1>2 DEF Elements
  <2>2. ASSUME NEW x \in Elements(s) PROVE x \in Elements(t)
    <3>1. PICK i \in 1 .. Len(s) : x = s[i]
      BY <2>2 DEF Elements
    <3>2. i \in 1 .. Len(t) /\ t[i] = x
      BY <3>1, <1>1
    <3> QED  BY <3>2 DEF Elements
  <2>3. h \in Elements(t)
    <3>1. Len(s) + 1 \in 1 .. Len(t)
      BY <1>1
    <3> QED  BY <3>1, <1>1 DEF Elements
  <2> QED  BY <2>1, <2>2, <2>3
<1> QED  BY <1>1, <1>4, <1>5 DEF t

\* Whoever is in the list leaves it, and nobody else does.
LEMMA LeaveTakes ==
  ASSUME NEW S, NEW s \in Seq(S), Once(s), NEW h
  PROVE  /\ Leave(s, h) \in Seq(S) /\ Once(Leave(s, h))
         /\ Elements(Leave(s, h)) = Elements(s) \ {h}
<1> DEFINE t == Leave(s, h)
<1>0. Len(s) \in Nat /\ \A i \in 1 .. Len(s) : s[i] \in S
  BY LenProperties
<1>1. CASE h \notin Elements(s)
  BY <1>1 DEF Leave
<1>2. CASE h \in Elements(s)
  <2> DEFINE k == CHOOSE i \in 1 .. Len(s) : s[i] = h
             a == SubSeq(s, 1, k - 1)
             b == SubSeq(s, k + 1, Len(s))
  <2>1. k \in 1 .. Len(s) /\ s[k] = h
    BY <1>2 DEF Elements
  <2>2. t = a \o b
    BY <1>2 DEF Leave
  <2> HIDE DEF k, t
  <2>3. a \in Seq(S) /\ Len(a) = k - 1 /\ \A i \in 1 .. k - 1 : a[i] = s[i]
    <3>1. \A i \in 1 .. k - 1 : s[i] \in S
      BY <1>0, <2>1
    <3> QED  BY <3>1, <2>1, <1>0, SubSeqProperties
  <2>4. b \in Seq(S) /\ Len(b) = Len(s) - k /\ \A i \in 1 .. Len(s) - k : b[i] = s[k + i]
    <3>1. \A i \in k + 1 .. Len(s) : s[i] \in S
      BY <1>0, <2>1
    <3>2. /\ b \in Seq(S) /\ Len(b) = IF k + 1 <= Len(s) THEN Len(s) - (k + 1) + 1 ELSE 0
          /\ \A i \in 1 .. Len(s) - (k + 1) + 1 : b[i] = s[k + 1 + i - 1]
      <4>1. k + 1 \in Int /\ Len(s) \in Int
        BY <1>0, <2>1
      <4> QED  BY <3>1, <4>1, SubSeqProperties
    <3> QED  BY <3>2, <2>1, <1>0
  <2> HIDE DEF a, b
  <2>5. /\ t \in Seq(S) /\ Len(t) = Len(s) - 1
        /\ \A i \in 1 .. Len(s) - 1 : t[i] = IF i < k THEN s[i] ELSE s[i + 1]
    <3>1. /\ t \in Seq(S) /\ Len(t) = Len(a) + Len(b)
          /\ \A i \in 1 .. Len(a) + Len(b) : t[i] = IF i <= Len(a) THEN a[i] ELSE b[i - Len(a)]
      BY <2>2, <2>3, <2>4, ConcatProperties
    <3>2. ASSUME NEW i \in 1 .. Len(s) - 1 PROVE t[i] = IF i < k THEN s[i] ELSE s[i + 1]
      <4>0. i \in 1 .. Len(a) + Len(b)
        BY <2>3, <2>4, <2>1, <1>0
      <4>1. CASE i < k
        <5>1. i <= Len(a) /\ i \in 1 .. k - 1
          BY <4>1, <2>3, <2>1, <1>0
        <5>2. t[i] = a[i] /\ a[i] = s[i]
          BY <5>1, <4>0, <3>1, <2>3
        <5> QED  BY <5>2, <4>1
      <4>2. CASE ~(i < k)
        <5>1. i - (k - 1) \in 1 .. Len(s) - k /\ k + (i - (k - 1)) = i + 1 /\ ~(i <= Len(a))
          BY <4>2, <2>1, <2>3, <1>0
        <5>2. t[i] = b[i - (k - 1)]
          BY <5>1, <4>0, <3>1, <2>3
        <5>3. b[i - (k - 1)] = s[i + 1]
          BY <5>1, <2>4
        <5> QED  BY <5>2, <5>3, <4>2
      <4> QED  BY <4>1, <4>2
    <3>3. Len(a) + Len(b) = Len(s) - 1
      BY <2>3, <2>4, <2>1, <1>0
    <3> QED  BY <3>1, <3>2, <3>3
  <2>6. Once(t)
    <3> DEFINE at(m) == IF m < k THEN m ELSE m + 1
    <3>1. SUFFICES ASSUME NEW i \in 1 .. Len(t), NEW j \in 1 .. Len(t), t[i] = t[j]
                   PROVE  i = j
      BY Zenon DEF Once
    <3>2. i \in 1 .. Len(s) - 1 /\ j \in 1 .. Len(s) - 1
      BY <2>5
    <3>3. /\ at(i) \in 1 .. Len(s) /\ at(j) \in 1 .. Len(s)
          /\ at(i) = at(j) => i = j
      BY <3>2, <2>1, <1>0
    <3>4. t[i] = s[at(i)] /\ t[j] = s[at(j)]
      BY <3>2, <2>5
    <3> HIDE DEF at
    <3>5. at(i) = at(j)
      <4>1. s[at(i)] = s[at(j)]
        BY <3>1, <3>4
      <4> QED  BY <4>1, <3>3, Zenon DEF Once
    <3> QED  BY <3>3, <3>5
  <2>7. ASSUME NEW x \in Elements(t) PROVE x \in Elements(s) \ {h}
    <3>1. PICK i \in 1 .. Len(s) - 1 : x = t[i]
      BY <2>5, <2>7 DEF Elements
    <3>2. PICK j \in 1 .. Len(s) : j # k /\ x = s[j]
      <4>1. CASE i < k
        BY <4>1, <3>1, <2>5, <2>1, <1>0
      <4>2. CASE ~(i < k)
        <5>1. i + 1 \in 1 .. Len(s) /\ i + 1 # k
          BY <4>2, <2>1, <1>0
        <5> QED  BY <5>1, <4>2, <3>1, <2>5
      <4> QED  BY <4>1, <4>2
    <3> QED  BY <3>2, <2>1 DEF Elements, Once
  <2>8. ASSUME NEW x \in Elements(s), x # h PROVE x \in Elements(t)
    <3>1. PICK j \in 1 .. Len(s) : x = s[j]
      BY <2>8 DEF Elements
    <3>2. j # k
      BY <3>1, <2>8, <2>1
    <3>3. CASE j < k
      <4>1. j \in 1 .. Len(s) - 1 /\ t[j] = x
        BY <3>3, <3>1, <2>5, <2>1, <1>0
      <4> QED  BY <4>1, <2>5 DEF Elements
    <3>4. CASE j > k
      <4>1. j - 1 \in 1 .. Len(s) - 1 /\ ~(j - 1 < k) /\ (j - 1) + 1 = j
        BY <3>4, <2>1, <1>0
      <4>2. t[j - 1] = x
        BY <4>1, <3>1, <2>5
      <4> QED  BY <4>1, <4>2, <2>5 DEF Elements
    <3> QED  BY <3>2, <3>3, <3>4, <2>1, <1>0
  <2> QED  BY <2>5, <2>6, <2>7, <2>8 DEF t
<1> QED  BY <1>1, <1>2

-----------------------------------------------------------------------------
(* The lock and the notifications, whatever the number of requests.         *)

\* Only a request for the user has a slot to clear.
Asking == \A h \in Handlers : pc[h] \in {"store", "poll", "await", "clear"} => kind[h] \in Channels

Listed == \A ch \in Channels : Once(waiters[ch])

ServerIInv == GuardInv /\ ServerTypeOK /\ Asking /\ LockInv /\ NotifyInv /\ Listed

LEMMA ServerStart == ServerInit => ServerIInv
<1> SUFFICES ASSUME ServerInit PROVE ServerIInv
  OBVIOUS
<1>1. <<>> \in Seq(Handlers) /\ Len(<<>>) = 0
  BY EmptySeq
<1>2. Elements(<<>>) = {} /\ Once(<<>>)
  BY <1>1 DEF Elements, Once
<1>3. ServerTypeOK
  BY <1>1 DEF ServerInit, ServerTypeOK, AllKinds
<1>4. LockInv
  BY <1>2 DEF ServerInit, LockInv, Once
<1>5. NotifyInv /\ Listed
  BY <1>2 DEF ServerInit, NotifyInv, Listed
<1>6. Asking
  BY DEF ServerInit, Asking
<1> QED  BY <1>3, <1>4, <1>5, <1>6, GuardInit DEF ServerIInv

\* A handler that is served first in the lock's queue.
LEMMA FirstServed ==
  ASSUME ServerIInv, NEW h \in Handlers, MayRead(h)
  PROVE  /\ Tail(queue) \in Seq(Handlers) /\ Once(Tail(queue))
         /\ h \in Elements(queue) /\ Elements(Tail(queue)) = Elements(queue) \ {h}
<1>1. queue \in Seq(Handlers) /\ Once(queue) /\ queue # <<>> /\ Head(queue) = h
  BY DEF ServerIInv, ServerTypeOK, LockInv, Once, MayRead
<1> QED  BY <1>1, TailServes

\* One that is not waiting for the lock joins its queue.
LEMMA JoinsQueue ==
  ASSUME ServerIInv, NEW h \in Handlers, pc[h] \notin {"lock", "store", "clear"}
  PROVE  /\ Append(queue, h) \in Seq(Handlers) /\ Once(Append(queue, h))
         /\ Elements(Append(queue, h)) = Elements(queue) \cup {h}
<1>1. queue \in Seq(Handlers) /\ Once(queue) /\ h \notin Elements(queue)
  BY DEF ServerIInv, ServerTypeOK, LockInv, Once
<1> QED  BY <1>1, AppendQueues

LEMMA ArriveKeeps ==
  ASSUME ServerIInv, NEW h \in Handlers, NEW k \in Kinds, Arrive(h, k)
  PROVE  ServerIInv'
<1> USE DEF ServerIInv, ServerTypeOK, Asking, LockInv, NotifyInv, Listed
<1>1. /\ pc[h] = "idle" /\ k \in AllKinds
      /\ kind' = [kind EXCEPT ![h] = k]
      /\ pc' = [pc EXCEPT ![h] = IF k = "hil" THEN "store" ELSE "lock"]
      /\ answer' = [answer EXCEPT ![h] = "none"]
      /\ queue' = Append(queue, h)
      /\ UNCHANGED <<readers, slot, decision, dialog, permit, waiters, woken>>
  BY KindsAssumption DEF Arrive, ServerGoto, notify
<1>2. /\ queue' \in Seq(Handlers) /\ Once(queue')
      /\ Elements(queue') = Elements(queue) \cup {h}
  BY <1>1, JoinsQueue
<1>3. GuardInv'
  BY ArriveStep
<1>4. ServerTypeOK'
  BY <1>1, <1>2
<1>5. Asking'
  BY <1>1 DEF Channels
<1>6. LockInv'
  BY <1>1, <1>2 DEF Once
<1>7. NotifyInv' /\ Listed'
  BY <1>1
<1> QED  BY <1>3, <1>4, <1>5, <1>6, <1>7

\* Steps of a request's turn in the lock's queue that end it, or that go on
\* under its guard.
LEMMA TurnKeeps ==
  ASSUME ServerIInv, NEW h \in Handlers, Status(h) \/ Forbid(h) \/ Allow(h) \/ Finish(h)
  PROVE  ServerIInv'
<1> USE DEF ServerIInv, ServerTypeOK, Asking, LockInv, NotifyInv, Listed
<1>1. GuardInv'
  BY ServeStep DEF Serve
<1>2. CASE Status(h) \/ Forbid(h)
  <2>1. /\ MayRead(h) /\ pc[h] = "lock"
        /\ pc' = [pc EXCEPT ![h] = "idle"]
        /\ answer' = [answer EXCEPT ![h] = IF kind[h] = "status" THEN "ok" ELSE "forbidden"]
        /\ queue' = Tail(queue)
        /\ UNCHANGED <<kind, readers, slot, decision, dialog, permit, waiters, woken>>
    BY <1>2 DEF Status, Forbid, Reply, ServerGoto, notify
  <2>2. /\ queue' \in Seq(Handlers) /\ Once(queue')
        /\ Elements(queue') = Elements(queue) \ {h}
    BY <2>1, FirstServed
  <2>3. ServerTypeOK'
    BY <2>1, <2>2
  <2>4. LockInv'
    BY <2>1, <2>2 DEF Once
  <2>5. NotifyInv' /\ Listed' /\ Asking'
    BY <2>1
  <2> QED  BY <1>1, <2>3, <2>4, <2>5
<1>3. CASE Allow(h)
  <2>1. /\ MayRead(h) /\ pc[h] = "lock"
        /\ pc' = [pc EXCEPT ![h] = "busy"]
        /\ queue' = Tail(queue)
        /\ readers' = readers \cup {h}
        /\ UNCHANGED <<kind, answer, slot, decision, dialog, permit, waiters, woken>>
    BY <1>3 DEF Allow, ServerGoto, notify
  <2>2. /\ queue' \in Seq(Handlers) /\ Once(queue')
        /\ Elements(queue') = Elements(queue) \ {h}
    BY <2>1, FirstServed
  <2>3. ServerTypeOK'
    BY <2>1, <2>2
  <2>4. LockInv'
    BY <2>1, <2>2 DEF Once
  <2>5. NotifyInv' /\ Listed' /\ Asking'
    BY <2>1
  <2> QED  BY <1>1, <2>3, <2>4, <2>5
<1>4. CASE Finish(h)
  <2>1. /\ pc[h] = "busy"
        /\ pc' = [pc EXCEPT ![h] = "idle"]
        /\ answer' = [answer EXCEPT ![h] = "ok"]
        /\ readers' = readers \ {h}
        /\ UNCHANGED <<kind, queue, slot, decision, dialog, permit, waiters, woken>>
    BY <1>4 DEF Finish, Reply, ServerGoto, notify
  <2>2. ServerTypeOK'
    BY <2>1
  <2>3. LockInv'
    BY <2>1
  <2>4. NotifyInv' /\ Listed' /\ Asking'
    BY <2>1
  <2> QED  BY <1>1, <2>2, <2>3, <2>4
<1> QED  BY <1>2, <1>3, <1>4

\* The steps of a request for the user: it stores itself, waits, and clears.
LEMMA AskKeeps ==
  ASSUME ServerIInv, NEW h \in Handlers, AskApproval(h) \/ Store(h) \/ Clear(h)
  PROVE  ServerIInv'
<1> USE DEF ServerIInv, ServerTypeOK, Asking, LockInv, NotifyInv, Listed
<1>1. GuardInv'
  BY ServeStep DEF Serve
<1>2. CASE AskApproval(h)
  <2>1. /\ MayRead(h) /\ pc[h] = "lock" /\ kind[h] = "exec"
        /\ pc' = [pc EXCEPT ![h] = "store"]
        /\ readers' = readers \cup {h}
        /\ queue' = Append(Tail(queue), h)
        /\ UNCHANGED <<kind, answer, slot, decision, dialog, permit, waiters, woken>>
    BY <1>2 DEF AskApproval, ServerGoto, notify
  <2>2. /\ Tail(queue) \in Seq(Handlers) /\ Once(Tail(queue)) /\ h \in Elements(queue)
        /\ Elements(Tail(queue)) = Elements(queue) \ {h}
    BY <2>1, FirstServed
  <2>3. /\ queue' \in Seq(Handlers) /\ Once(queue')
        /\ Elements(queue') = Elements(queue)
    <3> DEFINE t == Tail(queue)
    <3>1. t \in Seq(Handlers) /\ Once(t) /\ h \notin Elements(t) /\ Elements(t) \cup {h} = Elements(queue)
      BY <2>2
    <3> HIDE DEF t
    <3>2. /\ Append(t, h) \in Seq(Handlers) /\ Once(Append(t, h))
          /\ Elements(Append(t, h)) = Elements(t) \cup {h}
      BY <3>1, AppendQueues
    <3> QED  BY <3>1, <3>2, <2>1 DEF t
  <2>4. ServerTypeOK'
    BY <2>1, <2>3
  <2>5. LockInv'
    BY <2>1, <2>3 DEF Once
  <2>6. NotifyInv' /\ Listed' /\ Asking'
    BY <2>1 DEF Channels
  <2> QED  BY <1>1, <2>4, <2>5, <2>6
<1>3. CASE Store(h)
  <2>1. /\ MayRead(h) /\ readers = {} /\ pc[h] = "store" /\ kind[h] \in Channels
        /\ pc' = [pc EXCEPT ![h] = "poll"]
        /\ slot' = [slot EXCEPT ![kind[h]] = h]
        /\ decision' \in {decision, "none"} /\ dialog' \in BOOLEAN
        /\ queue' = Tail(queue)
        /\ UNCHANGED <<kind, answer, readers, permit, waiters, woken>>
    BY <1>3 DEF Store, MayWrite, ServerGoto, notify
  <2>2. /\ queue' \in Seq(Handlers) /\ Once(queue')
        /\ Elements(queue') = Elements(queue) \ {h}
    BY <2>1, FirstServed
  <2>3. ServerTypeOK'
    BY <2>1, <2>2
  <2>4. LockInv'
    BY <2>1, <2>2 DEF Once
  <2>5. NotifyInv' /\ Listed' /\ Asking'
    BY <2>1
  <2> QED  BY <1>1, <2>3, <2>4, <2>5
<1>4. CASE Clear(h)
  <2>1. kind[h] = "hil"
    BY <1>4 DEF Clear, Channels, GuardInv, ApprovalUnreached
  <2>2. /\ MayRead(h) /\ readers = {} /\ pc[h] = "clear"
        /\ pc' = [pc EXCEPT ![h] = "idle"]
        /\ slot' = [slot EXCEPT ![kind[h]] = None]
        /\ answer' = [answer EXCEPT ![h] = answer[h]]
        /\ queue' = Tail(queue)
        /\ UNCHANGED <<kind, readers, decision, dialog, permit, waiters, woken>>
    BY <1>4, <2>1 DEF Clear, MayWrite, Reply, ServerGoto, notify
  <2>3. /\ queue' \in Seq(Handlers) /\ Once(queue')
        /\ Elements(queue') = Elements(queue) \ {h}
    BY <2>2, FirstServed
  <2>4. ServerTypeOK'
    BY <2>1, <2>2, <2>3
  <2>5. LockInv'
    BY <2>2, <2>3 DEF Once
  <2>6. NotifyInv' /\ Listed' /\ Asking'
    BY <2>2
  <2> QED  BY <1>1, <2>4, <2>5, <2>6
<1> QED  BY <1>2, <1>3, <1>4

\* notify_one: a permit is stored when nobody waits, or the first that waits
\* is woken.
LEMMA NotifyOneWakes ==
  ASSUME ServerIInv, NEW ch \in Channels, NEW wk, NotifyOne(ch, waiters[ch], wk)
  PROVE  /\ permit' \in [Channels -> BOOLEAN] /\ waiters' \in [Channels -> Seq(Handlers)]
         /\ Listed'
         /\ \A c \in Channels : permit'[c] => waiters'[c] = <<>>
         /\ \/ waiters' = waiters /\ woken' = wk
            \/ \E g \in Elements(waiters[ch]) :
                  /\ woken' = wk \cup {g}
                  /\ \A c \in Channels : Elements(waiters'[c]) = Elements(waiters[c]) \ (IF c = ch THEN {g} ELSE {})
<1>0. /\ permit \in [Channels -> BOOLEAN] /\ waiters \in [Channels -> Seq(Handlers)] /\ Listed
      /\ \A c \in Channels : permit[c] => waiters[c] = <<>>
  BY DEF ServerIInv, ServerTypeOK, NotifyInv
<1>1. CASE waiters[ch] = <<>>
  <2>1. permit' = [permit EXCEPT ![ch] = TRUE] /\ waiters' = [waiters EXCEPT ![ch] = waiters[ch]] /\ woken' = wk
    BY <1>1 DEF NotifyOne
  <2>2. waiters' = waiters
    BY <2>1, <1>0
  <2>3. Listed'
    BY <1>0, <2>2 DEF Listed
  <2> QED  BY <1>0, <1>1, <2>1, <2>2, <2>3
<1>2. CASE waiters[ch] # <<>>
  <2> DEFINE g == Head(waiters[ch])
             t == Tail(waiters[ch])
  <2>1. waiters' = [waiters EXCEPT ![ch] = t] /\ woken' = wk \cup {g} /\ permit' = permit
    BY <1>2 DEF NotifyOne
  <2>2. waiters[ch] \in Seq(Handlers) /\ Once(waiters[ch])
    BY <1>0 DEF Listed
  <2>3. /\ t \in Seq(Handlers) /\ Once(t) /\ g \in Elements(waiters[ch])
        /\ Elements(t) = Elements(waiters[ch]) \ {g}
    BY <2>2, <1>2, TailServes
  <2> HIDE DEF g, t
  <2>4. \A c \in Channels : waiters'[c] = IF c = ch THEN t ELSE waiters[c]
    BY <2>1, <1>0
  <2>5. Listed'
    BY <2>3, <2>4, <1>0 DEF Listed
  <2>6. waiters' \in [Channels -> Seq(Handlers)]
    BY <2>1, <2>3, <1>0
  <2>7. \A c \in Channels : permit'[c] => waiters'[c] = <<>>
    BY <2>1, <2>4, <1>0, <1>2
  <2>8. \A c \in Channels : Elements(waiters'[c]) = Elements(waiters[c]) \ (IF c = ch THEN {g} ELSE {})
    BY <2>3, <2>4
  <2> QED  BY <1>0, <2>1, <2>3, <2>5, <2>6, <2>7, <2>8
<1> QED  BY <1>1, <1>2

LEMMA PollKeeps ==
  ASSUME ServerIInv, NEW h \in Handlers, Poll(h)
  PROVE  ServerIInv'
<1> USE DEF ServerIInv, ServerTypeOK, Asking, LockInv, NotifyInv, Listed
<1>1. GuardInv'
  BY ServeStep DEF Serve
<1>2. /\ pc[h] = "poll" /\ kind[h] \in Channels /\ h \notin woken
      /\ pc' = [pc EXCEPT ![h] = "await"]
      /\ UNCHANGED <<kind, answer, readers, queue, slot, decision, dialog>>
  BY DEF Poll, ServerGoto, lock
<1>3. Asking' /\ LockInv'
  BY <1>2
<1>4. CASE permit[kind[h]]
  <2>1. permit' = [permit EXCEPT ![kind[h]] = FALSE] /\ woken' = woken \cup {h} /\ waiters' = waiters
    BY <1>4 DEF Poll
  <2>2. ServerTypeOK'
    BY <1>2, <2>1
  <2>3. NotifyInv'
    BY <1>2, <2>1
  <2>4. Listed'
    BY <2>1
  <2> QED  BY <1>1, <1>3, <2>2, <2>3, <2>4
<1>5. CASE ~permit[kind[h]]
  <2> DEFINE ws == Append(waiters[kind[h]], h)
  <2>1. waiters' = [waiters EXCEPT ![kind[h]] = ws] /\ UNCHANGED <<permit, woken>>
    BY <1>5 DEF Poll
  <2>2. waiters[kind[h]] \in Seq(Handlers) /\ Once(waiters[kind[h]]) /\ h \notin Elements(waiters[kind[h]])
    BY <1>2
  <2>3. ws \in Seq(Handlers) /\ Once(ws) /\ Elements(ws) = Elements(waiters[kind[h]]) \cup {h}
    BY <2>2, AppendQueues
  <2> HIDE DEF ws
  <2>4. \A c \in Channels : waiters'[c] = IF c = kind[h] THEN ws ELSE waiters[c]
    BY <2>1
  <2>5. ServerTypeOK'
    BY <1>2, <2>1, <2>3
  <2>6. NotifyInv'
    BY <1>2, <1>5, <2>1, <2>3, <2>4
  <2>7. Listed'
    BY <2>3, <2>4
  <2> QED  BY <1>1, <1>3, <2>5, <2>6, <2>7
<1> QED  BY <1>4, <1>5

LEMMA EndWaitKeeps ==
  ASSUME ServerIInv, NEW h \in Handlers, EndWait(h)
  PROVE  ServerIInv'
<1> USE DEF ServerIInv, ServerTypeOK, Asking, LockInv, NotifyInv, Listed
<1> DEFINE ws == Leave(waiters[kind[h]], h)
<1>1. GuardInv'
  BY ServeStep DEF Serve
<1>2. /\ pc[h] = "await" /\ kind[h] \in Channels
      /\ pc' = [pc EXCEPT ![h] = "clear"]
      /\ answer' = [answer EXCEPT ![h] = IF h \in woken THEN "ok" ELSE "timeout"]
      /\ woken' = woken \ {h}
      /\ waiters' = [waiters EXCEPT ![kind[h]] = ws]
      /\ queue' = Append(queue, h)
      /\ UNCHANGED <<kind, readers, slot, decision, dialog, permit>>
  BY DEF EndWait, ServerGoto
<1>3. /\ queue' \in Seq(Handlers) /\ Once(queue')
      /\ Elements(queue') = Elements(queue) \cup {h}
  BY <1>2, JoinsQueue
<1>4. ws \in Seq(Handlers) /\ Once(ws) /\ Elements(ws) = Elements(waiters[kind[h]]) \ {h}
  BY <1>2, LeaveTakes
<1>5. waiters[kind[h]] = <<>> => ws = <<>>
  <2>1. Len(<<>>) = 0
    BY EmptySeq
  <2> QED  BY <2>1 DEF Leave, Elements
<1> HIDE DEF ws
<1>6. \A c \in Channels : waiters'[c] = IF c = kind[h] THEN ws ELSE waiters[c]
  BY <1>2
<1>7. ServerTypeOK'
  BY <1>2, <1>3, <1>4
<1>8. Asking'
  BY <1>2
<1>9. LockInv'
  BY <1>2, <1>3 DEF Once
<1>10. NotifyInv'
  BY <1>2, <1>4, <1>5, <1>6
<1>11. Listed'
  BY <1>4, <1>6
<1> QED  BY <1>1, <1>7, <1>8, <1>9, <1>10, <1>11

LEMMA AnswerKeeps ==
  ASSUME ServerIInv, NEW h \in Handlers, UserAnswers(h)
  PROVE  ServerIInv'
<1> USE DEF ServerIInv, ServerTypeOK, Asking, LockInv, NotifyInv
<1> DEFINE ch == IF kind[h] = "complete" THEN "hil" ELSE "exec"
<1>1. GuardInv'
  BY ServeStep DEF Serve
<1>2. /\ MayRead(h) /\ pc[h] = "lock" /\ kind[h] \in {"complete", "approve", "deny"}
      /\ NotifyOne(ch, waiters[ch], woken)
      /\ pc' = [pc EXCEPT ![h] = "idle"]
      /\ answer' = [answer EXCEPT ![h] = "ok"]
      /\ queue' = Tail(queue)
      /\ decision' \in {"none", "approved", "denied"} /\ dialog' \in BOOLEAN
      /\ UNCHANGED <<kind, readers, slot>>
  BY DEF UserAnswers, MayWrite, Reply, ServerGoto
<1>3. ch \in Channels
  BY DEF Channels
<1> HIDE DEF ch
<1>4. /\ permit' \in [Channels -> BOOLEAN] /\ waiters' \in [Channels -> Seq(Handlers)]
      /\ Listed' /\ \A c \in Channels : permit'[c] => waiters'[c] = <<>>
      /\ \/ waiters' = waiters /\ woken' = woken
         \/ \E g \in Elements(waiters[ch]) :
               /\ woken' = woken \cup {g}
               /\ \A c \in Channels : Elements(waiters'[c]) = Elements(waiters[c]) \ (IF c = ch THEN {g} ELSE {})
  <2>1. NotifyOne(ch, waiters[ch], woken)
    BY <1>2
  <2> HIDE DEF ServerIInv
  <2> QED  BY <2>1, <1>3, NotifyOneWakes
<1>5. /\ queue' \in Seq(Handlers) /\ Once(queue')
      /\ Elements(queue') = Elements(queue) \ {h}
  BY <1>2, FirstServed
<1>6. Asking' /\ LockInv'
  BY <1>2, <1>5 DEF Once
<1>7. NotifyInv' /\ woken' \subseteq Handlers
  <2>1. CASE waiters' = waiters /\ woken' = woken
    BY <2>1, <1>2, <1>4
  <2>2. ASSUME NEW g \in Elements(waiters[ch]), woken' = woken \cup {g},
               \A c \in Channels : Elements(waiters'[c]) = Elements(waiters[c]) \ (IF c = ch THEN {g} ELSE {})
        PROVE  NotifyInv' /\ woken' \subseteq Handlers
    <3>1. g \in Handlers /\ g \notin woken /\ pc[g] = "await" /\ kind[g] = ch /\ g # h
      BY <2>2, <1>2, <1>3
    <3> QED  BY <2>2, <3>1, <1>2, <1>3, <1>4
  <2> QED  BY <1>4, <2>1, <2>2
<1>8. ServerTypeOK'
  BY <1>2, <1>4, <1>5, <1>7
<1> QED  BY <1>1, <1>4, <1>6, <1>7, <1>8

LEMMA DropKeeps ==
  ASSUME ServerIInv, NEW h \in Handlers, Disconnect(h)
  PROVE  ServerIInv'
<1> USE DEF ServerIInv, ServerTypeOK, Asking, LockInv, NotifyInv
<1>1. GuardInv'
  BY DisconnectStep
<1>2. /\ pc[h] # "idle"
      /\ pc' = [pc EXCEPT ![h] = "idle"]
      /\ answer' = [answer EXCEPT ![h] = "none"]
      /\ readers' = readers \ {h}
      /\ queue' = Leave(queue, h)
      /\ UNCHANGED <<kind, slot, decision, dialog>>
  BY DEF Disconnect, Reply, ServerGoto
<1>3. /\ queue' \in Seq(Handlers) /\ Once(queue')
      /\ Elements(queue') = Elements(queue) \ {h}
  <2>1. queue \in Seq(Handlers) /\ Once(queue)
    BY DEF Once
  <2> QED  BY <2>1, <1>2, LeaveTakes
<1>4. Asking' /\ LockInv'
  BY <1>2, <1>3 DEF Once
<1>5. CASE h \in woken
  <2>1. NotifyOne(kind[h], waiters[kind[h]], woken \ {h}) /\ kind[h] \in Channels /\ pc[h] = "await"
    BY <1>5 DEF Disconnect
  <2>2. /\ permit' \in [Channels -> BOOLEAN] /\ waiters' \in [Channels -> Seq(Handlers)]
        /\ Listed' /\ \A c \in Channels : permit'[c] => waiters'[c] = <<>>
        /\ \/ waiters' = waiters /\ woken' = woken \ {h}
           \/ \E g \in Elements(waiters[kind[h]]) :
                 /\ woken' = (woken \ {h}) \cup {g}
                 /\ \A c \in Channels :
                       Elements(waiters'[c]) = Elements(waiters[c]) \ (IF c = kind[h] THEN {g} ELSE {})
    BY <2>1, NotifyOneWakes
  <2>3. NotifyInv' /\ woken' \subseteq Handlers
    <3>1. CASE waiters' = waiters /\ woken' = woken \ {h}
      BY <3>1, <1>2, <1>5, <2>2
    <3>2. ASSUME NEW g \in Elements(waiters[kind[h]]), woken' = (woken \ {h}) \cup {g},
                 \A c \in Channels : Elements(waiters'[c]) = Elements(waiters[c]) \ (IF c = kind[h] THEN {g} ELSE {})
          PROVE  NotifyInv' /\ woken' \subseteq Handlers
      <4>1. g \in Handlers /\ g \notin woken /\ pc[g] = "await" /\ kind[g] = kind[h] /\ g # h
        BY <3>2, <2>1, <1>5
      <4> QED  BY <3>2, <4>1, <1>2, <1>5, <2>1, <2>2
    <3> QED  BY <2>2, <3>1, <3>2
  <2>4. ServerTypeOK'
    BY <1>2, <1>3, <2>2, <2>3
  <2> QED  BY <1>1, <1>4, <2>2, <2>3, <2>4
<1>6. CASE h \notin woken
  <2>1. waiters' = [c \in Channels |-> Leave(waiters[c], h)] /\ UNCHANGED <<permit, woken>>
    BY <1>6 DEF Disconnect
  <2>2. ASSUME NEW c \in Channels
        PROVE  /\ waiters'[c] \in Seq(Handlers) /\ Once(waiters'[c])
               /\ Elements(waiters'[c]) = Elements(waiters[c]) \ {h}
               /\ waiters[c] = <<>> => waiters'[c] = <<>>
    <3>1. waiters[c] \in Seq(Handlers) /\ Once(waiters[c])
      BY DEF Listed
    <3>2. waiters'[c] = Leave(waiters[c], h)
      BY <2>1
    <3>3. waiters[c] = <<>> => Leave(waiters[c], h) = <<>>
      <4>1. Len(<<>>) = 0
        BY EmptySeq
      <4> QED  BY <4>1 DEF Leave, Elements
    <3> QED  BY <3>1, <3>2, <3>3, LeaveTakes
  <2>3. NotifyInv'
    BY <2>1, <2>2, <1>2, <1>6
  <2>4. Listed'
    BY <2>2 DEF Listed
  <2>5. ServerTypeOK'
    BY <1>2, <1>3, <2>1, <2>2
  <2> QED  BY <1>1, <1>4, <2>3, <2>4, <2>5
<1> QED  BY <1>5, <1>6

\* For any number of requests in flight: each is in the lock's queue once and
\* only while it waits for it, no guard outlives its handler, and a
\* notification goes to a request that waits or is kept because none does
\* (server.rs:280-440, ServerInv).
THEOREM ServerHolds == ServerSpec => []ServerInv
<1>1. ServerIInv /\ [ServerNext]_server => ServerIInv'
  <2> SUFFICES ASSUME ServerIInv, [ServerNext]_server PROVE ServerIInv'
    OBVIOUS
  <2>1. CASE ServerNext
    BY <2>1, ArriveKeeps, TurnKeeps, AskKeeps, PollKeeps, EndWaitKeeps, AnswerKeeps, DropKeeps
       DEF ServerNext, Serve
  <2>2. CASE UNCHANGED server
    <3>1. UNCHANGED <<kind, pc, answer, readers, queue, slot, decision, dialog, permit, waiters, woken>>
      BY <2>2 DEF server, lock, notify
    <3> QED  BY <3>1 DEF ServerIInv, GuardInv, PcOK, ApprovalUnreached, ServerTypeOK, Asking, LockInv, NotifyInv, Listed
  <2> QED  BY <2>1, <2>2
<1>2. ServerIInv => ServerInv
  BY DEF ServerIInv, ServerInv
<1> QED  BY ServerStart, <1>1, <1>2, PTL DEF ServerSpec

-----------------------------------------------------------------------------
(* The background script.                                                   *)

\* A run is live until the wrapper has written its exit code or the VM is gone.
Live(r) == script[r] \in {"running", "exited"}

\* Runs that have not begun have left nothing; the one that is watched has no
\* result; while the host waits for more it has not yet waited for too long.
RunsInOrder ==
  /\ attempt = 0 => hpc = "idle"
  /\ \A r \in RunIds : r > attempt => script[r] = "unborn" /\ result[r] = "none"
  /\ hpc # "idle" => result[attempt] = "none"
  /\ hpc \in {"poll", "tail"} => idle < IdlePolls

\* A live run is the one that is watched, in a VM that is up, and its heart beats.
OnlyWatchedLive ==
  \A r \in RunIds : Live(r) => r = attempt /\ hpc # "idle" /\ vmUp /\ beat[r] # "off"

\* What the done file holds while a run is watched, and what the host has read
\* of it, is that run's own.
OwnCode ==
  /\ hpc # "idle" /\ done # NoMarker => done = code[attempt] /\ ~Live(attempt)
  /\ hpc \in {"tail", "judge", "cleanup"} /\ doneVal # NoMarker => doneVal = code[attempt] /\ ~Live(attempt)
  /\ hpc = "cleanup" => doneVal # NoMarker

\* A silent poll is one since the last heartbeat, or its line waits to be read.
Waited == IF hpc = "tail" THEN idle + 1 ELSE idle
HeartHeard ==
  attempt > 0 /\ Live(attempt) => idle <= HbPolls /\ (unread = <<>> => Waited <= sinceBeat)

CalmInv ==
  /\ "blank" \notin faults => unread \in Seq({"text"})
  /\ OnlyWatchedLive /\ OwnCode /\ HeartHeard /\ ResultIsOwn /\ NoFalseStall

ScriptIInv == ScriptTypeOK /\ RunsInOrder /\ (Calm => CalmInv)
-----------------------------------------------------------------------------
LEMMA PollsAre == IdlePolls \in Nat /\ HbPolls \in Nat /\ 0 < HbPolls /\ HbPolls < IdlePolls
                  /\ Attempts \in Nat \ {0} /\ Lines \in Nat \ {0} /\ MaxUnread \in Nat /\ Lines < MaxUnread
  BY PollsAssumption, BoundsAssumption

Texts == {"text", "blank"}

\* What a poll sees of the log.
LEMMA WindowIs ==
  ASSUME unread \in Seq(Texts)
  PROVE  /\ Len(Window) \in Nat /\ Len(Window) <= Len(unread) /\ Len(Window) <= Lines
         /\ (unread # <<>> => 1 \in 1..Len(Window)) /\ \A i \in 1..Len(Window) : Window[i] = unread[i]
<1> DEFINE m == Min2(Lines, Len(unread))
<1>1. Len(unread) \in Nat /\ (unread # <<>> => Len(unread) # 0)
  BY EmptySeq
<1>2. m \in Nat /\ m <= Len(unread) /\ m <= Lines /\ (unread # <<>> => m >= 1)
  BY <1>1, PollsAre DEF Min2
<1>3. Window = SubSeq(unread, 1, m)
  BY DEF Window
<1> HIDE DEF m
<1>4. 1 \in Nat /\ \A i \in 1..m : i \in 1..Len(unread)
  BY <1>1, <1>2
<1>5. SubSeq(unread, 1, m) \in Seq(Texts)
      /\ Len(SubSeq(unread, 1, m)) = (IF 1 <= m THEN m - 1 + 1 ELSE 0)
      /\ \A i \in 1..m : SubSeq(unread, 1, m)[i] = unread[1 + i - 1]
  BY <1>1, <1>2, <1>4, SubSeqProperties
<1>6. Len(Window) = m
  BY <1>2, <1>3, <1>5
<1>7. \A i \in 1..m : Window[i] = unread[i]
  BY <1>3, <1>5
<1> QED  BY <1>2, <1>6, <1>7

LEMMA NewLinesIs ==
  ASSUME unread \in Seq(Texts)
  PROVE  /\ NewLines \in 0..Len(unread)
         /\ (unread \in Seq({"text"}) /\ unread # <<>> => NewLines # 0)
<1> DEFINE shown == {i \in 1..Len(Window) : Window[i] = "text"}
<1>1. IsFiniteSet(1..Len(Window)) /\ Cardinality(1..Len(Window)) = Len(Window)
  <2> DEFINE w == Len(Window)
  <2>1. w \in Nat
    BY WindowIs
  <2> HIDE DEF w
  <2>2. IsFiniteSet(1..w) /\ Cardinality(1..w) = w
    BY <2>1, FS_Interval
  <2> QED  BY <2>2 DEF w
<1>2. IsFiniteSet(shown) /\ Cardinality(shown) <= Len(Window) /\ Cardinality(shown) \in Nat
  BY <1>1, FS_Subset, FS_CardinalityType
<1>3. NewLines = Cardinality(shown)
  BY DEF NewLines
<1> HIDE DEF shown
<1>4. NewLines \in 0..Len(unread)
  BY <1>2, <1>3, WindowIs
<1>5. ASSUME unread \in Seq({"text"}), unread # <<>>  PROVE NewLines # 0
  <2>1. 1 \in 1..Len(Window) /\ Window[1] = unread[1]
    BY <1>5, WindowIs
  <2>2. unread[1] = "text"
    BY <1>5, EmptySeq
  <2>3. shown # {}
    BY <2>1, <2>2 DEF shown
  <2> QED  BY <1>2, <1>3, <2>3, FS_EmptySet
<1> QED  BY <1>4, <1>5

\* What the poll leaves of the log.
LEMMA RestIs ==
  ASSUME NEW s, unread \in Seq(s), NEW n \in 0..Len(unread)
  PROVE  SubSeq(unread, n + 1, Len(unread)) \in Seq(s)
<1>1. n + 1 \in Int /\ Len(unread) \in Nat
  BY LenProperties
<1>2. \A i \in (n + 1)..Len(unread) : i \in 1..Len(unread)
  BY <1>1
<1> QED  BY <1>1, <1>2, SubSeqProperties

\* What is printed is there to be read.
LEMMA PrintedIs ==
  ASSUME NEW s, unread \in Seq(s), NEW l \in s, Append1(l)
  PROVE  unread' \in Seq(s) /\ unread' # <<>>
<1>1. Len(unread) \in Nat
  BY LenProperties
<1>2. CASE Len(unread) < MaxUnread
  BY <1>2, AppendProperties, EmptySeq DEF Append1
<1>3. CASE ~(Len(unread) < MaxUnread)
  <2>1. Len(unread) # 0
    BY <1>1, <1>3, PollsAre
  <2> QED  BY <1>3, <2>1, EmptySeq DEF Append1
<1> QED  BY <1>2, <1>3
-----------------------------------------------------------------------------
(* The steps of the host and of the VM.                                     *)

HostTypes ==
  /\ attempt \in 0..Attempts /\ hpc \in {"idle", "poll", "tail", "judge", "cleanup"}
  /\ result \in [RunIds -> {"none", "ok", "failed", "stalled", "error"}]
  /\ doneVal \in ExitCodes \cup {NoMarker} /\ idle \in 0..IdlePolls
GuestTypes ==
  /\ done \in ExitCodes \cup {NoMarker}
  /\ script \in [RunIds -> {"unborn", "running", "exited", "gone"}]
  /\ code \in [RunIds -> ExitCodes \cup {NoMarker}]
  /\ beat \in [RunIds -> {"off", "check", "sleep"}]
  /\ sinceBeat \in 0..HbPolls

LEMMA TypesAre == ScriptTypeOK <=> HostTypes /\ GuestTypes /\ vmUp \in BOOLEAN /\ unread \in Seq(Texts)
  BY DEF ScriptTypeOK, HostTypes, GuestTypes, Texts

LEMMA HostTyped ==
  ASSUME ScriptTypeOK, RunsInOrder, HostStep \/ HostCrash
  PROVE  HostTypes'
<1>1. HostTypes /\ unread \in Seq(Texts) /\ done \in ExitCodes \cup {NoMarker}
  BY TypesAre DEF GuestTypes
<1>2. attempt # 0 \/ hpc = "idle"
  BY DEF RunsInOrder
<1>3. CASE Setup
  BY <1>1, <1>3, PollsAre DEF HostTypes, Setup, RunIds
<1>4. CASE SetupFails
  BY <1>1, <1>4, PollsAre DEF HostTypes, SetupFails, ScriptFinish, RunIds
<1>5. CASE ReadDone
  BY <1>1, <1>5 DEF HostTypes, ReadDone
<1>6. CASE ReadTail
  BY <1>1, <1>6, PollsAre DEF HostTypes, ReadTail, RunsInOrder
<1>7. CASE TailFails
  BY <1>1, <1>7, PollsAre DEF HostTypes, TailFails, RunsInOrder
<1>8. CASE SeeDone \/ PollAgain
  BY <1>1, <1>8 DEF HostTypes, SeeDone, PollAgain
<1>9. CASE ScriptCleanup \/ Stall \/ HostCrash
  BY <1>1, <1>9 DEF HostTypes, ScriptCleanup, Stall, HostCrash, ScriptFinish
<1> QED  BY <1>3, <1>4, <1>5, <1>6, <1>7, <1>8, <1>9 DEF HostStep

LEMMA Started ==
  ASSUME GuestTypes, NEW r \in RunIds, StartScript(r)
  PROVE  GuestTypes' /\ unread' \in Seq(Texts) /\ vmUp' = vmUp
<1>1. unread' \in Seq(Texts)
  BY EmptySeq DEF StartScript
<1>2. sinceBeat' \in 0..HbPolls
  BY PollsAre DEF StartScript
<1> QED  BY <1>1, <1>2 DEF GuestTypes, StartScript

LEMMA NextRun == ASSUME HostTypes, attempt < Attempts  PROVE attempt + 1 \in RunIds
  BY PollsAre DEF HostTypes, RunIds

LEMMA GuestTyped ==
  ASSUME ScriptTypeOK, RunsInOrder, ScriptNext
  PROVE  GuestTypes' /\ vmUp' \in BOOLEAN /\ unread' \in Seq(Texts)
<1>1. HostTypes /\ GuestTypes /\ unread \in Seq(Texts) /\ vmUp \in BOOLEAN
  BY TypesAre
<1>2. CASE Setup \/ SetupFails
  <2>1. CASE StartScript(attempt + 1)
    BY <1>1, <1>2, <2>1, NextRun, Started, Zenon DEF Setup, SetupFails
  <2>2. CASE UNCHANGED guest
    BY <1>1, <2>2 DEF guest, GuestTypes
  <2> QED  BY <1>2, <2>1, <2>2 DEF Setup, SetupFails
<1>3. CASE ReadDone
  <2>1. sinceBeat' \in 0..HbPolls
    BY <1>1, <1>3, PollsAre DEF ReadDone, PollTick, GuestTypes
  <2> QED  BY <1>1, <1>3, <2>1 DEF ReadDone, GuestTypes
<1>4. CASE ReadTail
  <2>1. unread' \in Seq(Texts)
    BY <1>1, <1>4, NewLinesIs, RestIs DEF ReadTail
  <2> QED  BY <1>1, <1>4, <2>1 DEF ReadTail, GuestTypes
<1>5. CASE TailFails \/ SeeDone \/ Stall \/ PollAgain \/ HostCrash
  <2>1. UNCHANGED guest
    BY <1>5 DEF TailFails, SeeDone, Stall, PollAgain, HostCrash
  <2> QED  BY <1>1, <2>1 DEF guest, GuestTypes
<1>6. CASE ScriptCleanup
  <2>1. unread' \in Seq(Texts)
    BY <1>1, <1>6, EmptySeq DEF ScriptCleanup
  <2> QED  BY <1>1, <1>6, <2>1 DEF ScriptCleanup, GuestTypes
<1>7. CASE CommandPrints
  <2>1. unread' \in Seq(Texts)
    BY <1>1, <1>7, PrintedIs DEF CommandPrints, Texts
  <2> QED  BY <1>1, <1>7, <2>1 DEF CommandPrints, GuestTypes
<1>8. ASSUME NEW r \in RunIds, CommandExits(r) \/ WriteDone(r) \/ BeatCheck(r)
      PROVE  GuestTypes' /\ vmUp' \in BOOLEAN /\ unread' \in Seq(Texts)
  BY <1>1, <1>8 DEF CommandExits, WriteDone, BeatCheck, GuestTypes
<1>9. ASSUME NEW r \in RunIds, Beat(r)
      PROVE  GuestTypes' /\ vmUp' \in BOOLEAN /\ unread' \in Seq(Texts)
  <2>1. unread' \in Seq(Texts)
    BY <1>1, <1>9, PrintedIs DEF Beat, Texts
  <2>2. sinceBeat' \in 0..HbPolls
    BY <1>1, <1>9, PollsAre DEF Beat, GuestTypes
  <2> QED  BY <1>1, <1>9, <2>1, <2>2 DEF Beat, GuestTypes
<1>10. CASE VmDown \/ VmUp
  BY <1>1, <1>10 DEF VmDown, VmUp, GuestTypes
<1> QED  BY <1>2, <1>3, <1>4, <1>5, <1>6, <1>7, <1>8, <1>9, <1>10 DEF ScriptNext, HostStep, Guest

LEMMA ScriptTypesKeep ==
  ASSUME ScriptTypeOK, RunsInOrder, ScriptNext
  PROVE  ScriptTypeOK'
<1>1. GuestTypes' /\ vmUp' \in BOOLEAN /\ unread' \in Seq(Texts)
  BY GuestTyped
<1>2. HostTypes'
  <2>1. CASE HostStep \/ HostCrash
    BY <2>1, HostTyped
  <2>2. CASE ~(HostStep \/ HostCrash)
    <3>1. UNCHANGED host
      BY <2>2 DEF ScriptNext, CommandPrints, Guest, CommandExits, WriteDone, BeatCheck, Beat, VmDown, VmUp
    <3> QED  BY <3>1, TypesAre DEF HostTypes, host
  <2> QED  BY <2>1, <2>2
<1> QED  BY <1>1, <1>2 DEF ScriptTypeOK, HostTypes, GuestTypes, Texts

LEMMA OrderKeeps ==
  ASSUME ScriptTypeOK, RunsInOrder, ScriptNext
  PROVE  RunsInOrder'
<1>1. HostTypes /\ GuestTypes
  BY TypesAre
<1> USE DEF RunsInOrder, RunIds
<1>2. CASE Setup
  BY <1>1, <1>2, PollsAre DEF HostTypes, GuestTypes, Setup, StartScript
<1>3. CASE SetupFails
  BY <1>1, <1>3, PollsAre DEF HostTypes, GuestTypes, SetupFails, ScriptFinish, StartScript, guest
<1>4. CASE ReadDone
  BY <1>1, <1>4 DEF HostTypes, ReadDone
<1>5. CASE ReadTail \/ TailFails \/ SeeDone \/ PollAgain
  BY <1>1, <1>5 DEF HostTypes, ReadTail, TailFails, SeeDone, PollAgain, guest
<1>6. CASE ScriptCleanup \/ Stall \/ HostCrash
  <2>1. attempt' = attempt /\ hpc # "idle" /\ hpc' = "idle" /\ script' = script
    BY <1>6 DEF ScriptCleanup, Stall, HostCrash, ScriptFinish, guest
  <2>2. \E x : result' = [result EXCEPT ![attempt] = x]
    BY <1>6, Zenon DEF ScriptCleanup, Stall, HostCrash, ScriptFinish
  <2>3. \A r \in RunIds : r > attempt => result'[r] = result[r]
    BY <1>1, <2>2 DEF HostTypes
  <2> QED  BY <2>1, <2>3
<1>7. ASSUME UNCHANGED host, \A x \in RunIds : script[x] = "unborn" => script'[x] = "unborn"
      PROVE  RunsInOrder'
  BY <1>7 DEF host
<1>8. CASE CommandPrints \/ VmDown \/ VmUp
  <2>1. UNCHANGED host /\ \A x \in RunIds : script[x] = "unborn" => script'[x] = "unborn"
    BY <1>8 DEF CommandPrints, VmDown, VmUp
  <2> QED  BY <1>7, <2>1
<1>9. ASSUME NEW r \in RunIds, Guest(r)  PROVE RunsInOrder'
  <2>1. UNCHANGED host
    BY <1>9 DEF Guest, CommandExits, WriteDone, BeatCheck, Beat
  <2>2. script' = script \/ (script[r] # "unborn" /\ \E x : script' = [script EXCEPT ![r] = x])
    BY <1>9, Zenon DEF Guest, CommandExits, WriteDone, BeatCheck, Beat
  <2>3. \A x \in RunIds : script[x] = "unborn" => script'[x] = "unborn"
    BY <1>1, <2>2 DEF GuestTypes
  <2> QED  BY <1>7, <2>1, <2>3
<1> QED  BY <1>9, <1>2, <1>3, <1>4, <1>5, <1>6, <1>7, <1>8 DEF ScriptNext, HostStep
-----------------------------------------------------------------------------
(* While the execs of a poll come back and clawcli lives.                   *)

\* No run is live when the host stops watching.
LEMMA EndsDead ==
  ASSUME ScriptTypeOK, RunsInOrder, CalmInv, ScriptCleanup \/ Stall
  PROVE  \A r \in RunIds : ~Live(r)
<1>1. HostTypes /\ attempt \in RunIds
  BY TypesAre DEF HostTypes, RunsInOrder, ScriptCleanup, Stall, RunIds
<1>2. ~Live(attempt)
  <2>1. CASE ScriptCleanup
    BY <2>1 DEF ScriptCleanup, CalmInv, OwnCode
  <2>2. CASE Stall
    <3>1. idle >= IdlePolls /\ idle \in Nat /\ attempt > 0
      BY <1>1, <2>2, PollsAre DEF Stall, HostTypes, RunIds
    <3>2. ~(idle <= HbPolls)
      BY <3>1, PollsAre
    <3> QED  BY <3>1, <3>2 DEF CalmInv, HeartHeard
  <2> QED  BY <2>1, <2>2
<1> QED  BY <1>2 DEF CalmInv, OnlyWatchedLive

\* The host does one thing at a time, and what may not happen does not.
LEMMA CalmSteps ==
  ASSUME Calm, ScriptNext
  PROVE  /\ faults' = faults
         /\ \/ Setup
            \/ SetupFails /\ ~vmUp /\ UNCHANGED guest
            \/ ReadDone \/ ReadTail
            \/ TailFails /\ ~vmUp
            \/ SeeDone \/ ScriptCleanup \/ Stall \/ PollAgain
            \/ CommandPrints
            \/ \E r \in RunIds : Guest(r)
            \/ VmDown \/ VmUp
<1>1. "setup" \notin faults /\ "exec" \notin faults /\ "crash" \notin faults
  BY DEF Calm
<1> QED  BY <1>1 DEF ScriptNext, HostStep, SetupFails, TailFails, HostCrash, ExecFails
LEMMA TextKeeps ==
  ASSUME ScriptTypeOK, CalmInv, Calm, ScriptNext
  PROVE  unread' \in Seq({"text"})
<1>1. "blank" \notin faults /\ unread \in Seq({"text"}) /\ unread \in Seq(Texts)
  BY TypesAre DEF Calm, CalmInv
<1>2. CASE UNCHANGED unread
  BY <1>1, <1>2
<1>3. CASE unread' = <<>>
  BY <1>3, EmptySeq
<1>4. CASE ReadTail
  BY <1>1, <1>4, NewLinesIs, RestIs DEF ReadTail
<1>5. CASE CommandPrints
  <2>1. Append1("text")
    BY <1>1, <1>5 DEF CommandPrints
  <2> QED  BY <1>1, <2>1, PrintedIs
<1>6. ASSUME NEW r \in RunIds, Beat(r)  PROVE unread' \in Seq({"text"})
  BY <1>1, <1>6, PrintedIs DEF Beat
<1>7. unread' = unread \/ unread' = <<>> \/ ReadTail \/ CommandPrints \/ \E r \in RunIds : Beat(r)
  BY DEF ScriptNext, HostStep, Setup, SetupFails, StartScript, ReadDone, TailFails, SeeDone, ScriptCleanup, Stall,
         PollAgain, HostCrash, Guest, CommandExits, WriteDone, BeatCheck, VmDown, VmUp, guest
<1> QED  BY <1>1, <1>2, <1>3, <1>4, <1>5, <1>6, <1>7

LEMMA WatchedKeeps ==
  ASSUME ScriptTypeOK, RunsInOrder, CalmInv, Calm, ScriptNext
  PROVE  OnlyWatchedLive'
<1>1. HostTypes /\ GuestTypes
  BY TypesAre
<1>2. OnlyWatchedLive
  BY DEF CalmInv
<1> USE DEF OnlyWatchedLive, Live
<1>3. CASE Setup
  <2>1. attempt + 1 \in RunIds /\ attempt' = attempt + 1 /\ hpc' = "poll" /\ vmUp /\ vmUp' = vmUp /\ hpc = "idle"
    BY <1>1, <1>3, NextRun DEF Setup, StartScript
  <2>2. script' = [script EXCEPT ![attempt + 1] = "running"] /\ beat' = [beat EXCEPT ![attempt + 1] = "check"]
    BY <1>3 DEF Setup, StartScript
  <2> HIDE DEF RunIds
  <2>3. \A r \in RunIds : r # attempt' => ~(script'[r] \in {"running", "exited"})
    BY <1>1, <1>2, <2>1, <2>2 DEF GuestTypes
  <2>4. beat'[attempt'] # "off"
    BY <1>1, <2>1, <2>2 DEF GuestTypes
  <2> QED  BY <2>1, <2>3, <2>4
<1>4. CASE SetupFails /\ UNCHANGED guest
  <2>1. hpc = "idle" /\ script' = script
    BY <1>4 DEF SetupFails, guest
  <2> QED  BY <1>2, <2>1
<1>5. CASE ScriptCleanup \/ Stall
  <2>1. script' = script
    BY <1>5 DEF ScriptCleanup, Stall, guest
  <2> QED  BY <1>5, <2>1, EndsDead
<1>6. CASE ReadDone \/ ReadTail \/ TailFails \/ SeeDone \/ PollAgain \/ CommandPrints
  <2>1. /\ script' = script /\ beat' = beat /\ vmUp' = vmUp /\ attempt' = attempt
        /\ (hpc # "idle" => hpc' # "idle")
    BY <1>6 DEF ReadDone, ReadTail, TailFails, SeeDone, PollAgain, CommandPrints, guest, host
  <2> QED  BY <1>2, <2>1
<1>7. ASSUME NEW r \in RunIds, Guest(r)  PROVE OnlyWatchedLive'
  <2>1. attempt' = attempt /\ hpc' = hpc /\ vmUp' = vmUp
    BY <1>7 DEF Guest, CommandExits, WriteDone, BeatCheck, Beat, host
  <2>2. \A x \in RunIds : Live(x)' => Live(x) /\ (beat[x] # "off" => beat'[x] # "off")
    BY <1>1, <1>7 DEF Guest, CommandExits, WriteDone, BeatCheck, Beat, GuestTypes
  <2> QED  BY <1>2, <2>1, <2>2
<1>8. CASE VmDown
  BY <1>8 DEF VmDown
<1>9. CASE VmUp
  BY <1>2, <1>9 DEF VmUp, host
<1> QED  BY <1>3, <1>4, <1>5, <1>6, <1>7, <1>8, <1>9, CalmSteps

LEMMA CodeKeeps ==
  ASSUME ScriptTypeOK, RunsInOrder, CalmInv, Calm, ScriptNext
  PROVE  OwnCode'
<1>1. HostTypes /\ GuestTypes
  BY TypesAre
<1>2. OwnCode /\ OnlyWatchedLive
  BY DEF CalmInv
<1> USE DEF OwnCode
<1>3. CASE Setup
  BY <1>3 DEF Setup, StartScript
<1>4. CASE SetupFails \/ ScriptCleanup \/ Stall
  <2>1. hpc' = "idle"
    BY <1>4 DEF SetupFails, ScriptCleanup, Stall, ScriptFinish
  <2> QED  BY <2>1
<1>5. CASE ReadDone
  <2>1. /\ hpc = "poll" /\ hpc' = "tail" /\ UNCHANGED <<attempt, done, script, code>>
        /\ (doneVal' = done \/ doneVal' = NoMarker)
    BY <1>5 DEF ReadDone
  <2> QED  BY <1>2, <2>1 DEF Live
<1>6. CASE ReadTail \/ TailFails \/ SeeDone \/ PollAgain
  <2>1. /\ UNCHANGED <<attempt, done, doneVal, script, code>>
        /\ hpc' \in {"judge", "cleanup", "poll"} /\ hpc \in {"tail", "judge"} /\ (hpc' = "cleanup" => doneVal # NoMarker)
    BY <1>6 DEF ReadTail, TailFails, SeeDone, PollAgain, guest
  <2> QED  BY <1>2, <2>1 DEF Live
<1>7. CASE CommandPrints \/ VmUp
  BY <1>2, <1>7 DEF CommandPrints, VmUp, host, Live
<1>8. CASE VmDown
  <2>1. UNCHANGED host /\ UNCHANGED <<done, code>> /\ \A r \in RunIds : ~Live(r)'
    BY <1>8 DEF VmDown, Live
  <2>2. hpc # "idle" => attempt \in RunIds
    BY <1>1 DEF RunsInOrder, HostTypes, RunIds
  <2> QED  BY <1>2, <2>1, <2>2 DEF host
<1>9. ASSUME NEW r \in RunIds, CommandExits(r) \/ WriteDone(r)  PROVE OwnCode'
  <2>1. Live(r) /\ UNCHANGED host
    BY <1>9 DEF CommandExits, WriteDone, Live
  <2>2. r = attempt /\ hpc # "idle" /\ done = NoMarker /\ (hpc \in {"tail", "judge", "cleanup"} => doneVal = NoMarker)
    BY <1>2, <2>1 DEF OnlyWatchedLive
  <2>3. CASE CommandExits(r)
    BY <1>2, <2>1, <2>2, <2>3 DEF CommandExits, host
  <2>4. CASE WriteDone(r)
    <3>1. done' = code[r] /\ code' = code /\ script'[r] = "gone"
      BY <1>1, <2>4 DEF WriteDone, GuestTypes
    <3> QED  BY <1>2, <2>1, <2>2, <3>1 DEF host, Live
  <2> QED  BY <1>9, <2>3, <2>4
<1>10. ASSUME NEW r \in RunIds, BeatCheck(r) \/ Beat(r)  PROVE OwnCode'
  <2>1. UNCHANGED host /\ UNCHANGED <<done, script, code>>
    BY <1>10 DEF BeatCheck, Beat
  <2> QED  BY <1>2, <2>1 DEF host, Live
<1> QED  BY <1>3, <1>4, <1>5, <1>6, <1>7, <1>8, <1>9, <1>10, CalmSteps DEF Guest
LEMMA HeartKeeps ==
  ASSUME ScriptTypeOK, RunsInOrder, CalmInv, Calm, ScriptNext
  PROVE  HeartHeard'
<1>1. HostTypes /\ GuestTypes /\ unread \in Seq(Texts) /\ unread \in Seq({"text"})
  BY TypesAre DEF CalmInv, Calm
<1>2. OnlyWatchedLive /\ HeartHeard
  BY DEF CalmInv
<1>3. attempt \in Nat /\ idle \in Nat /\ sinceBeat \in Nat /\ sinceBeat <= HbPolls
  BY <1>1, PollsAre DEF HostTypes, GuestTypes
<1>4. SUFFICES ASSUME attempt' > 0, Live(attempt)'
               PROVE  idle' <= HbPolls /\ (unread' = <<>> => Waited' <= sinceBeat')
  BY DEF HeartHeard
<1>5. hpc' # "idle" /\ vmUp'
  <2>1. attempt' \in RunIds
    BY <1>4, ScriptTypesKeep DEF ScriptTypeOK, RunIds
  <2> QED  BY <1>4, <2>1, WatchedKeeps DEF OnlyWatchedLive
<1>6. CASE Setup
  BY <1>6, PollsAre DEF Setup, StartScript, Waited
<1>7. CASE ~Setup
  <2>1. ~(SetupFails \/ ScriptCleanup \/ Stall)
    BY <1>5 DEF SetupFails, ScriptCleanup, Stall, ScriptFinish
  <2>2. ~VmDown
    BY <1>5 DEF VmDown
  <2>3. attempt' = attempt /\ Live(attempt)
    <3>1. CASE ReadDone \/ ReadTail \/ TailFails \/ SeeDone \/ PollAgain \/ CommandPrints \/ VmUp
      BY <1>4, <3>1 DEF ReadDone, ReadTail, TailFails, SeeDone, PollAgain, CommandPrints, VmUp, host, guest, Live
    <3>2. ASSUME NEW r \in RunIds, Guest(r)  PROVE attempt' = attempt /\ Live(attempt)
      <4>1. attempt' = attempt /\ attempt \in RunIds
        BY <1>1, <1>4, <3>2 DEF Guest, CommandExits, WriteDone, BeatCheck, Beat, host, HostTypes, RunIds
      <4> QED  BY <1>1, <1>4, <3>2, <4>1 DEF Guest, CommandExits, WriteDone, BeatCheck, Beat, Live, GuestTypes
    <3> QED  BY <1>7, <2>1, <2>2, <3>1, <3>2, CalmSteps
  <2>4. attempt \in RunIds /\ attempt > 0
    BY <1>1, <1>4, <2>3 DEF HostTypes, RunIds
  <2>5. hpc # "idle" /\ vmUp /\ beat[attempt] # "off" /\ idle <= HbPolls /\ (unread = <<>> => Waited <= sinceBeat)
    BY <1>2, <2>3, <2>4 DEF OnlyWatchedLive, HeartHeard
  <2>6. CASE ReadDone
    <3>1. /\ hpc = "poll" /\ hpc' = "tail" /\ idle' = idle /\ unread' = unread
          /\ sinceBeat < HbPolls /\ sinceBeat' = sinceBeat + 1
      BY <2>5, <2>6 DEF ReadDone, PollTick
    <3>2. Waited = idle /\ Waited' = idle + 1
      BY <3>1 DEF Waited
    <3>3. idle' <= HbPolls
      BY <2>5, <3>1
    <3>4. ASSUME unread' = <<>>  PROVE Waited' <= sinceBeat'
      <4>1. idle <= sinceBeat
        BY <2>5, <3>1, <3>2, <3>4
      <4> QED  BY <1>3, <3>1, <3>2, <4>1
    <3> QED  BY <3>3, <3>4
  <2>7. CASE ReadTail
    <3>1. /\ hpc = "tail" /\ hpc' = "judge" /\ sinceBeat' = sinceBeat
          /\ idle' = IF NewLines = 0 THEN idle + 1 ELSE 0
      BY <2>7 DEF ReadTail
    <3>2. Waited = idle + 1 /\ Waited' = idle'
      BY <3>1 DEF Waited
    <3>3. CASE NewLines = 0
      <4>1. unread = <<>>
        BY <1>1, <3>3, NewLinesIs
      <4>2. idle + 1 <= sinceBeat
        BY <2>5, <3>2, <4>1
      <4> QED  BY <1>3, <3>1, <3>2, <3>3, <4>2, PollsAre
    <3>4. CASE NewLines # 0
      BY <1>3, <3>1, <3>2, <3>4, PollsAre
    <3> QED  BY <3>3, <3>4
  <2>8. CASE TailFails /\ ~vmUp
    BY <2>5, <2>8
  <2>9. CASE SeeDone \/ PollAgain
    <3>1. hpc = "judge" /\ hpc' \in {"cleanup", "poll"} /\ idle' = idle /\ unread' = unread /\ sinceBeat' = sinceBeat
      BY <2>9 DEF SeeDone, PollAgain, guest
    <3> QED  BY <2>5, <3>1 DEF Waited
  <2>10. CASE CommandPrints
    <3>1. unread' # <<>> /\ idle' = idle
      BY <1>1, <2>10, PrintedIs DEF CommandPrints, Texts, host
    <3> QED  BY <2>5, <3>1
  <2>11. ASSUME NEW r \in RunIds, Beat(r)  PROVE idle' <= HbPolls /\ (unread' = <<>> => Waited' <= sinceBeat')
    <3>1. unread' # <<>> /\ idle' = idle
      BY <1>1, <2>11, PrintedIs DEF Beat, Texts, host
    <3> QED  BY <2>5, <3>1
  <2>12. ASSUME NEW r \in RunIds, CommandExits(r) \/ WriteDone(r) \/ BeatCheck(r)
         PROVE  idle' <= HbPolls /\ (unread' = <<>> => Waited' <= sinceBeat')
    <3>1. hpc' = hpc /\ idle' = idle /\ unread' = unread /\ sinceBeat' = sinceBeat
      BY <2>12 DEF CommandExits, WriteDone, BeatCheck, host
    <3> QED  BY <2>5, <3>1 DEF Waited
  <2>13. ~VmUp
    BY <2>5 DEF VmUp
  <2> QED  BY <1>7, <2>1, <2>2, <2>6, <2>7, <2>8, <2>9, <2>10, <2>11, <2>12, <2>13, CalmSteps DEF Guest
<1> QED  BY <1>6, <1>7

LEMMA ResultsKeep ==
  ASSUME ScriptTypeOK, RunsInOrder, CalmInv, Calm, ScriptNext
  PROVE  ResultIsOwn' /\ NoFalseStall'
<1>1. HostTypes /\ GuestTypes
  BY TypesAre
<1>2. OnlyWatchedLive /\ OwnCode /\ ResultIsOwn /\ NoFalseStall
  BY DEF CalmInv
<1> USE DEF ResultIsOwn, NoFalseStall
<1>3. ASSUME NEW r \in RunIds, result[r] = "none", UNCHANGED result,
             \A x \in RunIds \ {r} : code'[x] = code[x] /\ (script'[x] = "running" => script[x] = "running")
      PROVE  ResultIsOwn' /\ NoFalseStall'
  BY <1>2, <1>3
<1>4. ASSUME UNCHANGED result, UNCHANGED code, \A x \in RunIds : script'[x] = "running" => script[x] = "running"
      PROVE  ResultIsOwn' /\ NoFalseStall'
  BY <1>2, <1>4
<1>5. CASE Setup
  <2>1. /\ attempt + 1 \in RunIds /\ result[attempt + 1] = "none" /\ UNCHANGED result /\ UNCHANGED code
        /\ script' = [script EXCEPT ![attempt + 1] = "running"]
    BY <1>1, <1>5, NextRun DEF Setup, StartScript, RunsInOrder, HostTypes
  <2> DEFINE n == attempt + 1
  <2>2. \A x \in RunIds \ {n} : script'[x] = script[x]
    BY <1>1, <2>1 DEF GuestTypes
  <2> HIDE DEF n
  <2> QED  BY <1>3, <2>1, <2>2 DEF n
<1>6. CASE SetupFails /\ UNCHANGED guest
  <2>1. attempt + 1 \in RunIds /\ result' = [result EXCEPT ![attempt + 1] = "error"] /\ script' = script /\ code' = code
    BY <1>1, <1>6, NextRun DEF SetupFails, ScriptFinish, guest
  <2>2. \A x \in RunIds : result'[x] = result[x] \/ result'[x] = "error"
    BY <1>1, <2>1 DEF HostTypes
  <2> QED  BY <1>2, <2>1, <2>2
<1>7. CASE ScriptCleanup
  <2>1. /\ attempt \in RunIds /\ script' = script /\ code' = code /\ doneVal = code[attempt] /\ doneVal \in ExitCodes
        /\ result' = [result EXCEPT ![attempt] = IF doneVal = 0 THEN "ok" ELSE "failed"]
    <3>1. hpc = "cleanup" /\ script' = script /\ code' = code
          /\ result' = [result EXCEPT ![attempt] = IF doneVal = 0 THEN "ok" ELSE "failed"]
      BY <1>7 DEF ScriptCleanup, ScriptFinish
    <3>2. attempt \in RunIds
      BY <1>1, <3>1 DEF HostTypes, RunIds, RunsInOrder
    <3> QED  BY <1>1, <1>2, <3>1, <3>2 DEF OwnCode, HostTypes
  <2>2. \A x \in RunIds : x # attempt => result'[x] = result[x]
    BY <1>1, <2>1 DEF HostTypes
  <2>3. /\ result'[attempt] \in {"ok", "failed"} /\ (result'[attempt] = "ok" => code[attempt] = 0)
        /\ (result'[attempt] = "failed" => code[attempt] = 1)
    BY <1>1, <2>1 DEF HostTypes, ExitCodes
  <2> QED  BY <1>2, <2>1, <2>2, <2>3
<1>8. CASE Stall
  <2>1. script' = script /\ code' = code /\ \E a : result' = [result EXCEPT ![a] = "stalled"]
    BY <1>8 DEF Stall, ScriptFinish, guest
  <2>2. \A x \in RunIds : result'[x] = result[x] \/ result'[x] = "stalled"
    BY <1>1, <2>1 DEF HostTypes
  <2> QED  BY <1>2, <1>8, <2>1, <2>2, EndsDead DEF Live
<1>9. CASE ReadDone \/ ReadTail \/ TailFails \/ SeeDone \/ PollAgain \/ CommandPrints \/ VmUp
  <2>1. UNCHANGED result /\ UNCHANGED code /\ UNCHANGED script
    BY <1>9 DEF ReadDone, ReadTail, TailFails, SeeDone, PollAgain, CommandPrints, VmUp, host, guest
  <2> QED  BY <1>4, <2>1
<1>10. CASE VmDown
  <2>1. UNCHANGED result /\ UNCHANGED code /\ \A x \in RunIds : script'[x] # "running"
    BY <1>10 DEF VmDown, host
  <2> QED  BY <1>4, <2>1
<1>11. ASSUME NEW r \in RunIds, CommandExits(r)  PROVE ResultIsOwn' /\ NoFalseStall'
  <2>1. result[r] = "none"
    BY <1>2, <1>11 DEF OnlyWatchedLive, Live, CommandExits, RunsInOrder
  <2>2. /\ UNCHANGED result
        /\ \A x \in RunIds \ {r} : code'[x] = code[x] /\ (script'[x] = "running" => script[x] = "running")
    BY <1>1, <1>11 DEF CommandExits, GuestTypes, host
  <2> QED  BY <1>3, <2>1, <2>2
<1>12. ASSUME NEW r \in RunIds, WriteDone(r) \/ BeatCheck(r) \/ Beat(r)  PROVE ResultIsOwn' /\ NoFalseStall'
  <2>1. UNCHANGED result /\ UNCHANGED code /\ \A x \in RunIds : script'[x] = "running" => script[x] = "running"
    BY <1>1, <1>12 DEF WriteDone, BeatCheck, Beat, GuestTypes, host
  <2> QED  BY <1>4, <2>1
<1> QED  BY <1>5, <1>6, <1>7, <1>8, <1>9, <1>10, <1>11, <1>12, CalmSteps DEF Guest

-----------------------------------------------------------------------------
LEMMA ScriptIInv_Init == ScriptInit => ScriptIInv
<1> SUFFICES ASSUME ScriptInit  PROVE ScriptIInv
  OBVIOUS
<1>1. /\ attempt = 0 /\ hpc = "idle" /\ idle = 0 /\ sinceBeat = 0 /\ unread = <<>>
      /\ doneVal = NoMarker /\ done = NoMarker /\ vmUp = TRUE
  BY DEF ScriptInit
<1>2. /\ result = [r \in RunIds |-> "none"] /\ script = [r \in RunIds |-> "unborn"]
      /\ code = [r \in RunIds |-> NoMarker] /\ beat = [r \in RunIds |-> "off"]
  BY DEF ScriptInit
<1>3. HostTypes /\ GuestTypes
  BY <1>1, <1>2, PollsAre DEF HostTypes, GuestTypes
<1>4. unread \in Seq(Texts) /\ unread \in Seq({"text"}) /\ vmUp \in BOOLEAN
  BY <1>1, EmptySeq
<1>5. RunsInOrder
  BY <1>1, <1>2 DEF RunsInOrder
<1>6. CalmInv
  BY <1>1, <1>2, <1>4 DEF CalmInv, OnlyWatchedLive, OwnCode, HeartHeard, Live, ResultIsOwn, NoFalseStall
<1> QED  BY <1>3, <1>4, <1>5, <1>6, TypesAre DEF ScriptIInv

LEMMA ScriptIInv_Step == ScriptIInv /\ [ScriptNext]_<<scripted, faults>> => ScriptIInv'
<1> SUFFICES ASSUME ScriptIInv, [ScriptNext]_<<scripted, faults>>  PROVE ScriptIInv'
  OBVIOUS
<1>1. CASE ScriptNext
  <2>1. ScriptTypeOK' /\ RunsInOrder'
    BY <1>1, ScriptTypesKeep, OrderKeeps DEF ScriptIInv
  <2>2. ASSUME Calm'  PROVE CalmInv'
    <3>1. Calm /\ CalmInv /\ faults' = faults
      BY <1>1, <2>2 DEF ScriptNext, Calm, ScriptIInv
    <3>2. unread' \in Seq({"text"})
      BY <1>1, <3>1, TextKeeps DEF ScriptIInv
    <3>3. OnlyWatchedLive' /\ OwnCode' /\ HeartHeard' /\ ResultIsOwn' /\ NoFalseStall'
      BY <1>1, <3>1, WatchedKeeps, CodeKeeps, HeartKeeps, ResultsKeep DEF ScriptIInv
    <3> QED  BY <3>2, <3>3 DEF CalmInv
  <2> QED  BY <2>1, <2>2 DEF ScriptIInv
<1>2. CASE UNCHANGED <<scripted, faults>>
  <2>1. UNCHANGED host /\ UNCHANGED guest /\ faults' = faults
    BY <1>2 DEF scripted
  <2>2. /\ attempt' = attempt /\ hpc' = hpc /\ result' = result /\ doneVal' = doneVal /\ idle' = idle
        /\ vmUp' = vmUp /\ done' = done /\ unread' = unread /\ script' = script /\ code' = code
        /\ beat' = beat /\ sinceBeat' = sinceBeat
    BY <2>1 DEF host, guest
  <2>3. ScriptTypeOK' /\ RunsInOrder' /\ (Calm' <=> Calm)
    BY <2>1, <2>2 DEF ScriptIInv, ScriptTypeOK, RunsInOrder, Calm
  <2>4. CalmInv => CalmInv'
    BY <2>1, <2>2 DEF CalmInv, OnlyWatchedLive, OwnCode, HeartHeard, Waited, Live, ResultIsOwn, NoFalseStall
  <2> QED  BY <2>3, <2>4 DEF ScriptIInv
<1> QED  BY <1>1, <1>2

\* However often a script is run, for any poll and heartbeat intervals with
\* the heartbeat shorter than the idle limit: a run reports the exit code of
\* its own command, and one whose command lives is not given up, while execs
\* answer and no blank lines are printed (background.rs:24, 94-178, 207).
THEOREM ScriptHolds == ScriptSpec => []ScriptInv
<1>1. ScriptIInv => ScriptInv
  BY DEF ScriptIInv, ScriptInv, CalmInv
<1> QED  BY ScriptIInv_Init, ScriptIInv_Step, <1>1, PTL DEF ScriptSpec

-----------------------------------------------------------------------------
(* The browser and its human: chains.                                       *)

ChainRecs == [kind : {"", "takeover", "return"}, of : Boxes \union {0}, by : {"", "page", "gone", "cli"},
              at : 0..6, state : {"unused", "running", "through", "failed", "over"}, clean : BOOLEAN]
Processes == Takeover \union {"headless"}

BoxTypes ==
  /\ runs \in [Boxes -> BOOLEAN] /\ equipped \in [Boxes -> BOOLEAN]
  /\ procs \in [Boxes -> SUBSET Processes]
  /\ turns \in 0..MaxTurns
PageTypes ==
  /\ here \in BOOLEAN /\ busy \in BOOLEAN /\ monitor \in BOOLEAN
  /\ listed \subseteq Boxes /\ panel \in Boxes \union {0} /\ seen \in Boxes \union {0}

\* A chain that has begun is of a box and at one of its five commands, or past them.
UnderWay(ch) == ch.state \in {"running", "through"}
Sound(ch) ==
  /\ ch.state \notin {"unused", "over"} => ch.kind \in {"takeover", "return"} /\ ch.of \in Boxes
  /\ ch.state = "running" => ch.at \in 1..5
  /\ ch.state = "through" => ch.at = 6
ChainTypes == chain \in [Chains -> ChainRecs] /\ \A c \in Chains : Sound(chain[c])

\* Two chains that are under way on one box have met, both of them.
Apart ==
  \A c, d \in Chains :
    c # d /\ UnderWay(chain[c]) /\ UnderWay(chain[d]) /\ chain[c].of = chain[d].of => ~chain[c].clean

\* What the commands of a chain have brought about, one after the other.
Brought(way, at, ps) ==
  IF way = "takeover"
  THEN /\ at >= 2 => "headless" \notin ps
       /\ at >= 3 => "Xvfb" \in ps
       /\ at >= 4 => "x11vnc" \in ps
       /\ at >= 5 => "websockify" \in ps
       /\ at = 6 => "chromium" \in ps
  ELSE /\ at >= 2 => "chromium" \notin ps
       /\ at \in 2..5 => "headless" \notin ps
       /\ at >= 3 => "x11vnc" \notin ps
       /\ at >= 4 => "websockify" \notin ps
       /\ at >= 5 => "Xvfb" \notin ps
       /\ at = 6 => "headless" \in ps
ByItself(ch) == UnderWay(ch) /\ ch.clean /\ equipped[ch.of]
Progress == \A c \in Chains : ByItself(chain[c]) => Brought(chain[c].kind, chain[c].at, procs[chain[c].of])

ChainInv == ChainTypes /\ Apart /\ Progress

-----------------------------------------------------------------------------
(* Clicks and answers.                                                      *)
Requests == [at : {"none", "waiting", "ok", "timeout"}, clicked : BOOLEAN]
Oks == {a \in Agents : request[a].at = "ok"}
Returns == {c \in Chains : chain[c].kind = "return" /\ chain[c].state = "over" /\ chain[c].clean}
ClickInv ==
  /\ request \in [Agents -> Requests] /\ stored \in BOOLEAN /\ clicks \in Nat
  /\ IsFiniteSet(Oks) /\ Cardinality(Oks) + (IF stored THEN 1 ELSE 0) <= clicks
  /\ clicks <= Cardinality(Returns)

HilIInv == BoxTypes /\ PageTypes /\ ChainInv /\ ClickInv

-----------------------------------------------------------------------------
(* The least of a set of numbers is one of it.                               *)

Below == {ss \in Nat \X Nat : ss[1] < ss[2]}

LEMMA BelowIs == IsWellFoundedOn(Below, Nat)
  BY NatLessThanWellFounded DEF OpToRel, Below

LEMMA FirstIs == ASSUME NEW s \in SUBSET Nat, s # {} PROVE First(s) \in s
<1>1. PICK b \in s : \A x \in s : ~(<<x, b>> \in Below)
  BY BelowIs, WFMin
<1>2. \A x \in s : ~(x < b)
  BY <1>1 DEF Below
<1>3. \A x \in s : b <= x
  BY <1>2
<1> QED  BY <1>3 DEF First

-----------------------------------------------------------------------------
(* What the steps do to the chains.                                         *)

\* Chains that others on their box have met are as they were, but not clean.
LEMMA MetIs ==
  ASSUME ChainTypes, NEW b \in Boxes
  PROVE  LET ch == Met(chain, b, Open(b))
         IN /\ ch \in [Chains -> ChainRecs]
            /\ \A c \in Chains : /\ Sound(ch[c]) /\ ch[c].state = chain[c].state /\ ch[c].of = chain[c].of
                                 /\ ch[c].kind = chain[c].kind /\ ch[c].at = chain[c].at
                                 /\ ch[c].clean => chain[c].clean
                                 /\ ~UnderWay(chain[c]) => ch[c] = chain[c]
                                 /\ UnderWay(chain[c]) /\ chain[c].of = b => ~ch[c].clean
<1> DEFINE ch == Met(chain, b, Open(b))
<1>1. ch = [c \in Chains |-> IF c \in Open(b) /\ chain[c].of = b THEN [chain[c] EXCEPT !.clean = FALSE] ELSE chain[c]]
  BY DEF Met
<1>2. ASSUME NEW c \in Chains
      PROVE  /\ ch[c] \in ChainRecs /\ Sound(ch[c]) /\ ch[c].state = chain[c].state /\ ch[c].of = chain[c].of
             /\ ch[c].kind = chain[c].kind /\ ch[c].at = chain[c].at
             /\ ch[c].clean => chain[c].clean
             /\ ~UnderWay(chain[c]) => ch[c] = chain[c]
             /\ UnderWay(chain[c]) /\ chain[c].of = b => ~ch[c].clean
  <2>1. chain[c] \in ChainRecs /\ Sound(chain[c])
    BY DEF ChainTypes
  <2>2. CASE c \in Open(b) /\ chain[c].of = b
    <3>1. ch[c] = [chain[c] EXCEPT !.clean = FALSE] /\ UnderWay(chain[c])
      BY <1>1, <2>2 DEF Open, UnderWay
    <3> HIDE DEF ch
    <3> QED  BY <2>1, <3>1 DEF ChainRecs, Sound
  <2>3. CASE ~(c \in Open(b) /\ chain[c].of = b)
    <3>1. ch[c] = chain[c] /\ ~(UnderWay(chain[c]) /\ chain[c].of = b)
      BY <1>1, <2>3 DEF Open, UnderWay
    <3> QED  BY <2>1, <3>1
  <2> QED  BY <2>2, <2>3
<1>3. ch = [c \in Chains |-> ch[c]]
  BY <1>1
<1> HIDE DEF ch
<1>4. ch \in [Chains -> ChainRecs]
  BY <1>2, <1>3
<1> QED  BY <1>2, <1>4 DEF ch

\* A box that is turned, crashes or gets its browser: its chains have met it.
LEMMA MetKeeps ==
  ASSUME ChainInv, NEW b \in Boxes, chain' = Met(chain, b, Open(b)),
         \A x \in Boxes \ {b} : procs'[x] = procs[x] /\ equipped'[x] = equipped[x]
  PROVE  ChainInv' /\ Returns' = Returns
<1>1. /\ chain' \in [Chains -> ChainRecs]
      /\ \A c \in Chains : /\ Sound(chain'[c]) /\ chain'[c].state = chain[c].state /\ chain'[c].of = chain[c].of
                           /\ chain'[c].kind = chain[c].kind /\ chain'[c].at = chain[c].at
                           /\ chain'[c].clean => chain[c].clean
                           /\ ~UnderWay(chain[c]) => chain'[c] = chain[c]
                           /\ UnderWay(chain[c]) /\ chain[c].of = b => ~chain'[c].clean
  BY MetIs DEF ChainInv
<1>2. ChainTypes' /\ Apart'
  BY <1>1 DEF ChainInv, ChainTypes, Apart, UnderWay
<1>3. Progress'
  <2> SUFFICES ASSUME NEW c \in Chains, ByItself(chain[c])'
               PROVE  Brought(chain'[c].kind, chain'[c].at, procs'[chain'[c].of])
    BY DEF Progress
  <2>1. UnderWay(chain[c]) /\ chain[c].clean /\ chain[c].of # b /\ chain[c].of \in Boxes
    BY <1>1 DEF ByItself, UnderWay, ChainInv, ChainTypes, Sound
  <2>2. ByItself(chain[c]) /\ procs'[chain[c].of] = procs[chain[c].of]
    BY <1>1, <2>1 DEF ByItself
  <2> QED  BY <1>1, <2>2 DEF ChainInv, Progress
<1>4. Returns' = Returns
  BY <1>1 DEF Returns, UnderWay
<1> QED  BY <1>2, <1>3, <1>4 DEF ChainInv

\* A chain begins.
LEMMA NewChainIs ==
  ASSUME NEW b \in Boxes, NEW way \in {"takeover", "return"}, NEW by \in {"page", "cli"}, NEW calm \in BOOLEAN
  PROVE  LET rec == [kind |-> way, of |-> b, by |-> by, at |-> 1, state |-> "running", clean |-> calm]
         IN /\ rec \in ChainRecs /\ Sound(rec) /\ rec.of = b /\ rec.at = 1 /\ rec.state = "running"
            /\ rec.kind = way /\ rec.clean = calm
<1> DEFINE rec == [kind |-> way, of |-> b, by |-> by, at |-> 1, state |-> "running", clean |-> calm]
<1>1. 1 \in 0..6 /\ 1 \in 1..5
  OBVIOUS
<1>2. rec \in ChainRecs
  BY <1>1, Zenon DEF ChainRecs
<1>3. rec.of = b /\ rec.at = 1 /\ rec.state = "running" /\ rec.kind = way /\ rec.clean = calm
  BY Zenon
<1> HIDE DEF rec
<1>4. Sound(rec)
  BY <1>1, <1>3 DEF Sound
<1> QED  BY <1>2, <1>3, <1>4 DEF rec

LEMMA BeginKeeps ==
  ASSUME HilAssumption, ChainInv, NEW b \in Boxes, NEW way \in {"takeover", "return"}, NEW by \in {"page", "cli"},
         Begin(way, b, by), UNCHANGED <<procs, equipped>>
  PROVE  ChainInv' /\ Returns' = Returns
<1> DEFINE new == First(Free)  ch == Met(chain, b, Open(b))
           calm == Open(b) = {}
           rec == [kind |-> way, of |-> b, by |-> by, at |-> 1, state |-> "running", clean |-> calm]
<1>1. new \in Chains /\ chain[new].state = "unused"
  <2>1. Free \in SUBSET Nat /\ Free # {}
    BY DEF Begin, Free, Chains, HilAssumption
  <2> QED  BY <2>1, FirstIs DEF Free
<1>2. /\ ch \in [Chains -> ChainRecs]
      /\ \A c \in Chains : /\ Sound(ch[c]) /\ ch[c].state = chain[c].state /\ ch[c].of = chain[c].of
                           /\ ch[c].kind = chain[c].kind /\ ch[c].at = chain[c].at
                           /\ ch[c].clean => chain[c].clean
                           /\ ~UnderWay(chain[c]) => ch[c] = chain[c]
                           /\ UnderWay(chain[c]) /\ chain[c].of = b => ~ch[c].clean
  BY MetIs DEF ChainInv
<1>3. chain' = [ch EXCEPT ![new] = rec]
  BY DEF Begin
<1>4. rec \in ChainRecs /\ Sound(rec) /\ rec.of = b /\ rec.at = 1 /\ rec.state = "running" /\ rec.kind = way
      /\ rec.clean = calm
  <2>1. calm \in BOOLEAN
    OBVIOUS
  <2> HIDE DEF calm
  <2> QED  BY <2>1, NewChainIs
<1> HIDE DEF new, ch, rec
<1>5. /\ chain'[new] = rec /\ \A c \in Chains \ {new} : chain'[c] = ch[c]
      /\ chain' \in [Chains -> ChainRecs]
  BY <1>1, <1>2, <1>3, <1>4
<1>6. ChainTypes'
  BY <1>2, <1>4, <1>5 DEF ChainTypes
<1>7. \A c \in Chains : UnderWay(chain[c]) /\ chain[c].of = b => c \in Open(b)
  BY DEF Open, UnderWay
<1>8. Apart'
  <2> SUFFICES ASSUME NEW c \in Chains, NEW d \in Chains, c # d, UnderWay(chain'[c]), UnderWay(chain'[d]),
                      chain'[c].of = chain'[d].of
               PROVE  ~chain'[c].clean
    BY DEF Apart
  <2>1. CASE c = new
    <3>1. UnderWay(chain[d]) /\ chain[d].of = b
      BY <1>2, <1>4, <1>5, <2>1 DEF UnderWay
    <3> QED  BY <1>4, <1>5, <1>7, <2>1, <3>1
  <2>2. CASE d = new
    <3>1. UnderWay(chain[c]) /\ chain[c].of = b
      BY <1>2, <1>4, <1>5, <2>2 DEF UnderWay
    <3> QED  BY <1>2, <1>5, <2>2, <3>1
  <2>3. CASE c # new /\ d # new
    BY <1>2, <1>5, <2>3 DEF ChainInv, Apart, UnderWay
  <2> QED  BY <2>1, <2>2, <2>3
<1>9. Progress'
  <2> SUFFICES ASSUME NEW c \in Chains, ByItself(chain[c])'
               PROVE  Brought(chain'[c].kind, chain'[c].at, procs'[chain'[c].of])
    BY DEF Progress
  <2>1. CASE c = new
    BY <1>4, <1>5, <2>1 DEF Brought
  <2>2. CASE c # new
    <3>1. ByItself(chain[c])
      BY <1>2, <1>5, <2>2 DEF ByItself, UnderWay
    <3> QED  BY <1>2, <1>5, <2>2, <3>1 DEF ChainInv, Progress
  <2> QED  BY <2>1, <2>2
<1>10. Returns' = Returns
  BY <1>1, <1>2, <1>4, <1>5 DEF Returns, UnderWay
<1> QED  BY <1>6, <1>8, <1>9, <1>10 DEF ChainInv

LEMMA ZeroIs == 0 \in 0..6
  OBVIOUS

LEMMA NoChainIs == NoChain \in ChainRecs
<1>1. 0 \in Boxes \union {0} /\ "" \in {"", "takeover", "return"} /\ "" \in {"", "page", "gone", "cli"}
      /\ "unused" \in {"unused", "running", "through", "failed", "over"} /\ TRUE \in BOOLEAN
  BY Zenon
<1> QED  BY ZeroIs, <1>1, Zenon DEF NoChain, ChainRecs

\* A chain that has answered is let go.
LEMMA OverKeeps ==
  ASSUME ChainInv, NEW c \in Chains, Answers(c), Over(c), UNCHANGED <<procs, equipped>>
  PROVE  /\ ChainInv' /\ c \notin Returns
         /\ Returns' = IF chain[c].kind = "return" /\ Through(c) THEN Returns \union {c} ELSE Returns
<1> DEFINE well == Through(c)
           rec == [NoChain EXCEPT !.kind = chain[c].kind, !.state = "over", !.clean = well]
<1>1. /\ chain \in [Chains -> ChainRecs] /\ chain' = [chain EXCEPT ![c] = rec]
      /\ well \in BOOLEAN /\ chain[c].kind \in {"", "takeover", "return"}
  <2>1. chain \in [Chains -> ChainRecs] /\ chain' = [chain EXCEPT ![c] = rec]
    BY DEF ChainInv, ChainTypes, Over
  <2>2. chain[c] \in ChainRecs
    BY <2>1
  <2>3. chain[c].kind \in {"", "takeover", "return"}
    BY <2>2 DEF ChainRecs
  <2>4. well \in BOOLEAN
    BY DEF Through
  <2> QED  BY <2>1, <2>3, <2>4
<1> HIDE DEF well
<1> DEFINE way == chain[c].kind
<1>0. way \in {"", "takeover", "return"}
  BY <1>1
<1> HIDE DEF way
<1>2. rec.state = "over" /\ rec.kind = chain[c].kind /\ rec.clean = well /\ rec \in ChainRecs
  <2>1. rec = [NoChain EXCEPT !.kind = way, !.state = "over", !.clean = well]
    BY Zenon DEF way
  <2>2. well \in BOOLEAN
    BY <1>1
  <2> HIDE DEF rec
  <2>3. rec \in ChainRecs /\ rec.state = "over" /\ rec.kind = way /\ rec.clean = well
    BY NoChainIs, <1>0, <2>1, <2>2 DEF ChainRecs
  <2> QED  BY <2>3, Zenon DEF way
<1> HIDE DEF rec
<1>4. Sound(rec) /\ ~UnderWay(rec)
  BY <1>2 DEF Sound, UnderWay
<1>5. chain' \in [Chains -> ChainRecs] /\ chain'[c] = rec /\ \A d \in Chains \ {c} : chain'[d] = chain[d]
  BY <1>1, <1>2
<1>6. ChainTypes' /\ Apart'
  BY <1>4, <1>5 DEF ChainInv, ChainTypes, Apart
<1>7. Progress'
  BY <1>4, <1>5 DEF ChainInv, Progress, ByItself
<1>8. c \notin Returns
  BY DEF Returns, Answers
<1>9. Returns' = IF chain[c].kind = "return" /\ Through(c) THEN Returns \union {c} ELSE Returns
  BY <1>2, <1>5, <1>8 DEF Returns, well
<1> QED  BY <1>6, <1>7, <1>8, <1>9 DEF ChainInv

\* The page that began it is gone.
LEMMA GoneKeeps ==
  ASSUME ChainInv, Unmount
  PROVE  ChainInv' /\ Returns' = Returns
<1>1. ASSUME NEW c \in Chains
      PROVE  /\ chain'[c] \in ChainRecs
             /\ chain'[c].kind = chain[c].kind /\ chain'[c].of = chain[c].of /\ chain'[c].at = chain[c].at
             /\ chain'[c].state = chain[c].state /\ chain'[c].clean = chain[c].clean
  <2>1. chain[c] \in ChainRecs
    BY DEF ChainInv, ChainTypes
  <2>2. chain'[c] = IF chain[c].by = "page" THEN [chain[c] EXCEPT !.by = "gone"] ELSE chain[c]
    BY DEF Unmount
  <2> QED  BY <2>1, <2>2 DEF ChainRecs
<1>2. chain' = [c \in Chains |-> chain'[c]] /\ procs' = procs /\ equipped' = equipped
  BY DEF Unmount, machines
<1>3. ChainTypes' /\ Apart'
  BY <1>1, <1>2 DEF ChainInv, ChainTypes, Apart, Sound, UnderWay
<1>4. Progress'
  BY <1>1, <1>2 DEF ChainInv, Progress, ByItself, UnderWay
<1>5. Returns' = Returns
  BY <1>1 DEF Returns
<1> QED  BY <1>3, <1>4, <1>5 DEF ChainInv

\* A chain goes on, on its own box.
LEMMA StepKeeps ==
  ASSUME ChainInv, NEW c \in Chains, NEW rec \in ChainRecs, chain[c].state = "running",
         chain' = [chain EXCEPT ![c] = rec], Sound(rec), rec.of = chain[c].of, rec.state \in {"running", "through", "failed"},
         rec.clean => chain[c].clean, equipped' = equipped,
         \A x \in Boxes \ {chain[c].of} : procs'[x] = procs[x],
         ByItself(rec) => Brought(rec.kind, rec.at, procs'[rec.of])
  PROVE  ChainInv' /\ Returns' = Returns
<1>1. /\ chain' \in [Chains -> ChainRecs] /\ chain'[c] = rec /\ (\A d \in Chains \ {c} : chain'[d] = chain[d])
      /\ chain \in [Chains -> ChainRecs] /\ UnderWay(chain[c]) /\ chain[c].of \in Boxes
  BY DEF ChainInv, ChainTypes, Sound, UnderWay
<1>2. ChainTypes' /\ Apart'
  BY <1>1 DEF ChainInv, ChainTypes, Apart
<1>3. Progress'
  <2> SUFFICES ASSUME NEW d \in Chains, ByItself(chain[d])'
               PROVE  Brought(chain'[d].kind, chain'[d].at, procs'[chain'[d].of])
    BY DEF Progress
  <2>1. CASE d = c
    BY <1>1, <2>1 DEF ByItself
  <2>2. CASE d # c
    <3>1. ByItself(chain[d]) /\ chain'[d] = chain[d] /\ chain[d].of \in Boxes
      BY <1>1, <2>2 DEF ByItself, ChainInv, ChainTypes, Sound, UnderWay
    <3>2. chain[d].of # chain[c].of
      BY <1>1, <2>2, <3>1 DEF ChainInv, Apart, ByItself
    <3> QED  BY <3>1, <3>2 DEF ChainInv, Progress
  <2> QED  BY <2>1, <2>2
<1>4. Returns' = Returns
  BY <1>1 DEF Returns
<1> QED  BY <1>2, <1>3, <1>4 DEF ChainInv

-----------------------------------------------------------------------------
(* The commands of a chain, one by one.                                     *)

LEMMA ScriptIs ==
  /\ Len(Script("takeover")) = 5 /\ Len(Script("return")) = 5
  /\ Script("takeover")[1] = Kill({"headless"}) /\ Script("takeover")[2] = Launch("Xvfb")
  /\ Script("takeover")[3] = Launch("x11vnc") /\ Script("takeover")[4] = Launch("websockify")
  /\ Script("takeover")[5] = Launch("chromium")
  /\ Script("return")[1] = Kill({"chromium", "headless"}) /\ Script("return")[2] = Kill({"x11vnc"})
  /\ Script("return")[3] = Kill({"websockify"}) /\ Script("return")[4] = Kill({"Xvfb"})
  /\ Script("return")[5] = Launch("headless")
  BY DEF Script

LEMMA KillIs == \A k : Kill(k).kill = k /\ Kill(k).run = ""
  BY DEF Kill
LEMMA LaunchIs == \A p : Launch(p).kill = {} /\ Launch(p).run = p
  BY DEF Launch

\* What a command brings about of what is there.
KillBrings(way, at, ps, k) ==
  /\ Script(way)[at] = Kill(k) /\ k # {}
  /\ Brought(way, at + 1, Settled(ps \ k)) /\ Settled(ps \ k) \in SUBSET Processes
LaunchBrings(way, at, ps, p) ==
  /\ Script(way)[at] = Launch(p) /\ p \in Processes /\ p # ""
  /\ Brought(way, at + 1, Settled(ps \union {p})) /\ Settled(ps \union {p}) \in SUBSET Processes

LEMMA FiveIs == \A at \in 1..5 : at \in {1, 2, 3, 4, 5}
  OBVIOUS

LEMMA CommandBrings ==
  ASSUME NEW way \in {"takeover", "return"}, NEW at \in 1..5, NEW ps \in SUBSET Processes, Brought(way, at, ps)
  PROVE  (\E k : KillBrings(way, at, ps, k)) \/ (\E p : LaunchBrings(way, at, ps, p))
<1>1. at \in {1, 2, 3, 4, 5}
  BY FiveIs
<1>2. CASE way = "takeover"
  <2>1. CASE at = 1
    <3>1. Script(way)[at] = Kill({"headless"})
      BY <1>2, <2>1, ScriptIs
    <3>2. Brought("takeover", 1, ps)
      BY <1>2, <2>1
    <3>3. Brought("takeover", 2, Settled(ps \ {"headless"})) /\ Settled(ps \ {"headless"}) \in SUBSET Processes
      BY <3>2 DEF Brought, Settled, Display, Processes, Takeover
    <3>4. at + 1 = 2
      BY <2>1
    <3> QED  BY <1>2, <3>1, <3>3, <3>4 DEF KillBrings
  <2>2. CASE at = 2
    <3>1. Script(way)[at] = Launch("Xvfb")
      BY <1>2, <2>2, ScriptIs
    <3>2. Brought("takeover", 2, ps)
      BY <1>2, <2>2
    <3>3. Brought("takeover", 3, Settled(ps \union {"Xvfb"})) /\ Settled(ps \union {"Xvfb"}) \in SUBSET Processes
      BY <3>2 DEF Brought, Settled, Display, Processes, Takeover
    <3>4. at + 1 = 3
      BY <2>2
    <3> QED  BY <1>2, <3>1, <3>3, <3>4 DEF LaunchBrings, Processes, Takeover, Display
  <2>3. CASE at = 3
    <3>1. Script(way)[at] = Launch("x11vnc")
      BY <1>2, <2>3, ScriptIs
    <3>2. Brought("takeover", 3, ps)
      BY <1>2, <2>3
    <3>3. Brought("takeover", 4, Settled(ps \union {"x11vnc"})) /\ Settled(ps \union {"x11vnc"}) \in SUBSET Processes
      BY <3>2 DEF Brought, Settled, Display, Processes, Takeover
    <3>4. at + 1 = 4
      BY <2>3
    <3> QED  BY <1>2, <3>1, <3>3, <3>4 DEF LaunchBrings, Processes, Takeover, Display
  <2>4. CASE at = 4
    <3>1. Script(way)[at] = Launch("websockify")
      BY <1>2, <2>4, ScriptIs
    <3>2. Brought("takeover", 4, ps)
      BY <1>2, <2>4
    <3>3. Brought("takeover", 5, Settled(ps \union {"websockify"})) /\ Settled(ps \union {"websockify"}) \in SUBSET Processes
      BY <3>2 DEF Brought, Settled, Display, Processes, Takeover
    <3>4. at + 1 = 5
      BY <2>4
    <3> QED  BY <1>2, <3>1, <3>3, <3>4 DEF LaunchBrings, Processes, Takeover, Display
  <2>5. CASE at = 5
    <3>1. Script(way)[at] = Launch("chromium")
      BY <1>2, <2>5, ScriptIs
    <3>2. Brought("takeover", 5, ps)
      BY <1>2, <2>5
    <3>3. Brought("takeover", 6, Settled(ps \union {"chromium"})) /\ Settled(ps \union {"chromium"}) \in SUBSET Processes
      BY <3>2 DEF Brought, Settled, Display, Processes, Takeover
    <3>4. at + 1 = 6
      BY <2>5
    <3> QED  BY <1>2, <3>1, <3>3, <3>4 DEF LaunchBrings, Processes, Takeover, Display
  <2> QED  BY <1>1, <2>1, <2>2, <2>3, <2>4, <2>5
<1>3. CASE way = "return"
  <2>1. CASE at = 1
    <3>1. Script(way)[at] = Kill({"chromium", "headless"})
      BY <1>3, <2>1, ScriptIs
    <3>2. Brought("return", 1, ps)
      BY <1>3, <2>1
    <3>3. Brought("return", 2, Settled(ps \ {"chromium", "headless"})) /\ Settled(ps \ {"chromium", "headless"}) \in SUBSET Processes
      BY <3>2 DEF Brought, Settled, Display, Processes, Takeover
    <3>4. at + 1 = 2
      BY <2>1
    <3> QED  BY <1>3, <3>1, <3>3, <3>4 DEF KillBrings
  <2>2. CASE at = 2
    <3>1. Script(way)[at] = Kill({"x11vnc"})
      BY <1>3, <2>2, ScriptIs
    <3>2. Brought("return", 2, ps)
      BY <1>3, <2>2
    <3>3. Brought("return", 3, Settled(ps \ {"x11vnc"})) /\ Settled(ps \ {"x11vnc"}) \in SUBSET Processes
      BY <3>2 DEF Brought, Settled, Display, Processes, Takeover
    <3>4. at + 1 = 3
      BY <2>2
    <3> QED  BY <1>3, <3>1, <3>3, <3>4 DEF KillBrings
  <2>3. CASE at = 3
    <3>1. Script(way)[at] = Kill({"websockify"})
      BY <1>3, <2>3, ScriptIs
    <3>2. Brought("return", 3, ps)
      BY <1>3, <2>3
    <3>3. Brought("return", 4, Settled(ps \ {"websockify"})) /\ Settled(ps \ {"websockify"}) \in SUBSET Processes
      BY <3>2 DEF Brought, Settled, Display, Processes, Takeover
    <3>4. at + 1 = 4
      BY <2>3
    <3> QED  BY <1>3, <3>1, <3>3, <3>4 DEF KillBrings
  <2>4. CASE at = 4
    <3>1. Script(way)[at] = Kill({"Xvfb"})
      BY <1>3, <2>4, ScriptIs
    <3>2. Brought("return", 4, ps)
      BY <1>3, <2>4
    <3>3. Brought("return", 5, Settled(ps \ {"Xvfb"})) /\ Settled(ps \ {"Xvfb"}) \in SUBSET Processes
      BY <3>2 DEF Brought, Settled, Display, Processes, Takeover
    <3>4. at + 1 = 5
      BY <2>4
    <3> QED  BY <1>3, <3>1, <3>3, <3>4 DEF KillBrings
  <2>5. CASE at = 5
    <3>1. Script(way)[at] = Launch("headless")
      BY <1>3, <2>5, ScriptIs
    <3>2. Brought("return", 5, ps)
      BY <1>3, <2>5
    <3>3. Brought("return", 6, Settled(ps \union {"headless"})) /\ Settled(ps \union {"headless"}) \in SUBSET Processes
      BY <3>2 DEF Brought, Settled, Display, Processes, Takeover
    <3>4. at + 1 = 6
      BY <2>5
    <3> QED  BY <1>3, <3>1, <3>3, <3>4 DEF LaunchBrings, Processes, Takeover, Display
  <2> QED  BY <1>1, <2>1, <2>2, <2>3, <2>4, <2>5
<1> QED  BY <1>2, <1>3-----------------------------------------------------------------------------
(* The actions.                                                             *)

LEMMA OnwardIs ==
  ASSUME ChainTypes, NEW c \in Chains, chain[c].state = "running"
  PROVE  /\ Onward(c) \in ChainRecs /\ Sound(Onward(c))
         /\ Onward(c).of = chain[c].of /\ Onward(c).kind = chain[c].kind /\ Onward(c).clean = chain[c].clean
         /\ Onward(c).at = chain[c].at + 1 /\ Onward(c).state \in {"running", "through"}
<1> DEFINE rec == chain[c]  next == rec.at + 1  state == IF Last(c) THEN "through" ELSE "running"
<1>1. rec \in ChainRecs /\ Sound(rec)
  BY DEF ChainTypes
<1>2. rec.at \in 1..5 /\ rec.kind \in {"takeover", "return"} /\ rec.of \in Boxes
  BY <1>1 DEF Sound
<1>3. next \in 1..6 /\ next \in 0..6 /\ (Last(c) => next = 6) /\ (~Last(c) => next \in 1..5)
  <2>1. Len(Script(rec.kind)) = 5
    BY <1>2, ScriptIs
  <2>2. Last(c) <=> rec.at = 5
    BY <2>1 DEF Last
  <2> HIDE DEF rec
  <2> QED  BY <1>2, <2>2
<1>4. state \in {"running", "through"} /\ (state = "through" => next = 6) /\ (state = "running" => next \in 1..5)
  BY <1>3
<1>5. Onward(c) = [rec EXCEPT !.at = next, !.state = state]
  BY DEF Onward
<1> HIDE DEF rec, next, state
<1>6. /\ Onward(c) \in ChainRecs /\ Onward(c).of = rec.of /\ Onward(c).kind = rec.kind /\ Onward(c).clean = rec.clean
      /\ Onward(c).at = next /\ Onward(c).state = state
  BY <1>1, <1>3, <1>4, <1>5 DEF ChainRecs
<1>7. Sound(Onward(c))
  BY <1>2, <1>4, <1>6 DEF Sound
<1> QED  BY <1>4, <1>6, <1>7 DEF rec, next

LEMMA UncleanIs ==
  ASSUME NEW rec \in ChainRecs, Sound(rec)
  PROVE  LET met == [rec EXCEPT !.clean = FALSE]
         IN met \in ChainRecs /\ Sound(met) /\ met.of = rec.of /\ met.state = rec.state /\ met.clean = FALSE
<1> DEFINE met == [rec EXCEPT !.clean = FALSE]
<1>1. /\ met \in ChainRecs /\ met.of = rec.of /\ met.state = rec.state /\ met.clean = FALSE
      /\ met.kind = rec.kind /\ met.at = rec.at
  BY DEF ChainRecs
<1> HIDE DEF met
<1>2. Sound(met)
  BY <1>1 DEF Sound
<1> QED  BY <1>1, <1>2 DEF met

LEMMA FailedIs ==
  ASSUME NEW rec \in ChainRecs, Sound(rec), rec.state = "running"
  PROVE  LET lost == [rec EXCEPT !.state = "failed"]
         IN lost \in ChainRecs /\ Sound(lost) /\ lost.of = rec.of /\ lost.state = "failed" /\ lost.clean = rec.clean
<1> DEFINE lost == [rec EXCEPT !.state = "failed"]
<1>1. /\ lost \in ChainRecs /\ lost.of = rec.of /\ lost.state = "failed" /\ lost.clean = rec.clean
      /\ lost.kind = rec.kind
  BY DEF ChainRecs
<1> HIDE DEF lost
<1>2. Sound(lost)
  BY <1>1 DEF Sound
<1> QED  BY <1>1, <1>2 DEF lost

LEMMA RunsProcess ==
  ASSUME NEW way \in {"takeover", "return"}, NEW at \in 1..5, Script(way)[at].run # ""
  PROVE  Script(way)[at].run \in Processes
<1>1. at \in {1, 2, 3, 4, 5}
  BY FiveIs
<1>2. Script(way)[at] \in {Kill({"headless"}), Launch("Xvfb"), Launch("x11vnc"), Launch("websockify"), Launch("chromium"),
                           Kill({"chromium", "headless"}), Kill({"x11vnc"}), Kill({"websockify"}), Kill({"Xvfb"}),
                           Launch("headless")}
  BY <1>1, ScriptIs
<1> DEFINE step == Script(way)[at]
<1>3. step.run # ""
  OBVIOUS
<1>4. \/ step \in {Kill({"headless"}), Kill({"chromium", "headless"}), Kill({"x11vnc"}), Kill({"websockify"}),
                   Kill({"Xvfb"})}
      \/ step \in {Launch("Xvfb"), Launch("x11vnc"), Launch("websockify"), Launch("chromium"), Launch("headless")}
  BY <1>2, Zenon
<1> HIDE DEF step
<1>5. step \notin {Kill({"headless"}), Kill({"chromium", "headless"}), Kill({"x11vnc"}), Kill({"websockify"}),
                    Kill({"Xvfb"})}
  BY <1>3, KillIs, Zenon
<1>6. step.run \in {"Xvfb", "x11vnc", "websockify", "chromium", "headless"}
  BY <1>4, <1>5, LaunchIs, Zenon
<1>7. step.run \in Processes
  BY <1>6 DEF Processes, Takeover, Display
<1> QED  BY <1>7 DEF step

LEMMA KillStepKeeps ==
  ASSUME BoxTypes, ChainInv, NEW c \in Chains, KillStep(c)
  PROVE  BoxTypes' /\ ChainInv' /\ Returns' = Returns
<1> DEFINE b == chain[c].of  k == Current(c).kill  way == chain[c].kind  at == chain[c].at
<1>1. /\ chain[c].state = "running" /\ k # {} /\ UNCHANGED <<runs, equipped, turns>>
      /\ chain[c] \in ChainRecs /\ b \in Boxes /\ way \in {"takeover", "return"} /\ at \in 1..5
  BY DEF KillStep, machines, ChainInv, ChainTypes, Sound
<1>2. /\ Onward(c) \in ChainRecs /\ Sound(Onward(c))
      /\ Onward(c).of = b /\ Onward(c).kind = way /\ Onward(c).clean = chain[c].clean
      /\ Onward(c).at = at + 1 /\ Onward(c).state \in {"running", "through"}
  BY OnwardIs, <1>1 DEF ChainInv
<1>3. CASE procs' = [procs EXCEPT ![b] = Settled(@ \ k)] /\ chain' = [chain EXCEPT ![c] = Onward(c)]
  <2>1. procs[b] \in SUBSET Processes /\ procs'[b] = Settled(procs[b] \ k)
        /\ \A x \in Boxes \ {b} : procs'[x] = procs[x]
    BY <1>1, <1>3 DEF BoxTypes
  <2>2. BoxTypes'
    BY <1>1, <1>3, <2>1 DEF BoxTypes, Settled
  <2>3. ByItself(Onward(c)) => Brought(way, at + 1, procs'[b])
    <3> SUFFICES ASSUME ByItself(Onward(c))
                 PROVE  Brought(way, at + 1, procs'[b])
      OBVIOUS
    <3>1. Brought(way, at, procs[b])
      BY <1>1, <1>2 DEF ByItself, UnderWay, ChainInv, Progress
    <3>2. (\E x : KillBrings(way, at, procs[b], x)) \/ (\E p : LaunchBrings(way, at, procs[b], p))
      BY <1>1, <2>1, <3>1, CommandBrings
    <3>3. Current(c) = Script(way)[at]
      BY DEF Current
    <3>4. \A p : ~LaunchBrings(way, at, procs[b], p)
      BY <1>1, <3>3, LaunchIs DEF LaunchBrings
    <3>5. PICK x : KillBrings(way, at, procs[b], x)
      BY <3>2, <3>4
    <3>6. x = k
      BY <3>3, <3>5, KillIs DEF KillBrings
    <3> QED  BY <2>1, <3>5, <3>6 DEF KillBrings
  <2> HIDE DEF b, way, at
  <2> QED  BY <1>1, <1>2, <1>3, <2>1, <2>2, <2>3, StepKeeps DEF b, way, at
<1>4. CASE chain' = [chain EXCEPT ![c] = [Onward(c) EXCEPT !.clean = FALSE]] /\ UNCHANGED procs
  <2> DEFINE met == [Onward(c) EXCEPT !.clean = FALSE]
  <2>1. met \in ChainRecs /\ Sound(met) /\ met.of = b /\ met.state \in {"running", "through"} /\ met.clean = FALSE
    BY <1>2, UncleanIs
  <2>2. chain' = [chain EXCEPT ![c] = met]
    BY <1>4
  <2> HIDE DEF met
  <2>3. ChainInv' /\ Returns' = Returns
    BY <1>1, <1>4, <2>1, <2>2, StepKeeps DEF ByItself
  <2> QED  BY <1>1, <1>4, <2>3 DEF BoxTypes
<1> QED  BY <1>3, <1>4 DEF KillStep

LEMMA LaunchStepKeeps ==
  ASSUME BoxTypes, ChainInv, NEW c \in Chains, LaunchStep(c)
  PROVE  BoxTypes' /\ ChainInv' /\ Returns' = Returns
<1> DEFINE b == chain[c].of  p == Current(c).run  way == chain[c].kind  at == chain[c].at
           lost == [chain[c] EXCEPT !.state = "failed"]
<1>1. /\ chain[c].state = "running" /\ p # "" /\ UNCHANGED <<runs, equipped, turns>>
      /\ chain[c] \in ChainRecs /\ Sound(chain[c]) /\ b \in Boxes /\ way \in {"takeover", "return"} /\ at \in 1..5
  BY DEF LaunchStep, machines, ChainInv, ChainTypes, Sound
<1>2. /\ Onward(c) \in ChainRecs /\ Sound(Onward(c))
      /\ Onward(c).of = b /\ Onward(c).kind = way /\ Onward(c).clean = chain[c].clean
      /\ Onward(c).at = at + 1 /\ Onward(c).state \in {"running", "through"}
  BY OnwardIs, <1>1 DEF ChainInv
<1>3. lost \in ChainRecs /\ Sound(lost) /\ lost.of = b /\ lost.state = "failed" /\ lost.clean = chain[c].clean
  BY <1>1, FailedIs
<1>4. Current(c) = Script(way)[at]
  BY DEF Current
<1>5. p \in Processes
  BY <1>1, <1>4, RunsProcess
<1>6. ASSUME procs' = [procs EXCEPT ![b] = Joined(b, p)]
      PROVE  /\ BoxTypes' /\ procs'[b] = Joined(b, p) /\ procs[b] \in SUBSET Processes
             /\ \A x \in Boxes \ {b} : procs'[x] = procs[x]
  <2>1. Joined(b, p) \in SUBSET Processes
    BY <1>1, <1>5 DEF Joined, Settled, BoxTypes
  <2> HIDE DEF b, p
  <2> QED  BY <1>1, <1>6, <2>1 DEF BoxTypes
<1>7. CASE procs' = [procs EXCEPT ![b] = Joined(b, p)] /\ chain' = [chain EXCEPT ![c] = Onward(c)]
  <2>1. ByItself(Onward(c)) => Brought(way, at + 1, procs'[b])
    <3> SUFFICES ASSUME ByItself(Onward(c))
                 PROVE  Brought(way, at + 1, procs'[b])
      OBVIOUS
    <3>1. Brought(way, at, procs[b]) /\ equipped[b]
      BY <1>1, <1>2 DEF ByItself, UnderWay, ChainInv, Progress
    <3>2. (\E x : KillBrings(way, at, procs[b], x)) \/ (\E x : LaunchBrings(way, at, procs[b], x))
      BY <1>1, <1>6, <1>7, <3>1, CommandBrings
    <3>3. \A x : ~KillBrings(way, at, procs[b], x)
      BY <1>1, <1>4, KillIs DEF KillBrings
    <3>4. PICK x : LaunchBrings(way, at, procs[b], x)
      BY <3>2, <3>3
    <3>5. x = p
      BY <1>4, <3>4, LaunchIs DEF LaunchBrings
    <3>6. Joined(b, p) = Settled(procs[b] \union {p})
      BY <3>1 DEF Joined
    <3> QED  BY <1>6, <1>7, <3>4, <3>5, <3>6 DEF LaunchBrings
  <2> HIDE DEF b, p, way, at
  <2> QED  BY <1>1, <1>2, <1>6, <1>7, <2>1, StepKeeps DEF b, way, at
<1>8. ASSUME chain' = [chain EXCEPT ![c] = lost], \A x \in Boxes \ {b} : procs'[x] = procs[x]
      PROVE  ChainInv' /\ Returns' = Returns
  <2> HIDE DEF lost
  <2>1. ~ByItself(lost)
    BY <1>3 DEF ByItself, UnderWay
  <2> QED  BY <1>1, <1>3, <1>8, <2>1, StepKeeps DEF LaunchStep
<1>9. CASE procs' = [procs EXCEPT ![b] = Joined(b, p)] /\ chain' = [chain EXCEPT ![c] = lost]
  BY <1>6, <1>8, <1>9
<1>10. CASE UNCHANGED procs /\ chain' = [chain EXCEPT ![c] = lost]
  <2>1. BoxTypes'
    BY <1>1, <1>10 DEF BoxTypes
  <2> QED  BY <1>8, <1>10, <2>1
<1> QED  BY <1>7, <1>9, <1>10 DEF LaunchStep
-----------------------------------------------------------------------------
(* Clicks and answers.                                                      *)

LEMMA ReturnsFinite ==
  ASSUME HilAssumption
  PROVE  IsFiniteSet(Returns) /\ Cardinality(Returns) \in 0..MaxChains
<1>1. IsFiniteSet(Chains) /\ Cardinality(Chains) = MaxChains
  BY FS_Interval DEF Chains, HilAssumption
<1>2. Returns \subseteq Chains
  BY DEF Returns
<1>3. IsFiniteSet(Returns) /\ Cardinality(Returns) <= MaxChains
  BY <1>1, <1>2, FS_Subset
<1> QED  BY <1>3, FS_CardinalityType DEF HilAssumption

\* A return may have come through that no one hears of.
LEMMA ReturnsGrow ==
  ASSUME HilAssumption, ClickInv, UNCHANGED bridge, NEW c \in Chains, c \notin Returns,
         Returns' = Returns \/ Returns' = Returns \union {c}
  PROVE  ClickInv'
<1> DEFINE m == Cardinality(Returns)
<1>1. clicks \in Nat /\ m \in Nat /\ clicks <= m /\ clicks' = clicks
  BY ReturnsFinite DEF ClickInv, HilAssumption, bridge
<1>2. Cardinality(Returns)' = m \/ Cardinality(Returns)' = m + 1
  BY ReturnsFinite, FS_AddElement
<1> HIDE DEF m
<1>3. clicks' <= Cardinality(Returns)'
  BY <1>1, <1>2
<1> QED  BY <1>3 DEF ClickInv, Requests, Oks, bridge

LEMMA ClicksSame ==
  ASSUME ClickInv, UNCHANGED bridge, Returns' = Returns
  PROVE  ClickInv'
  BY DEF ClickInv, Requests, Oks, bridge

\* The click of a return that came through reaches the bridge.
LEMMA CompleteKeeps ==
  ASSUME HilAssumption, ClickInv, Complete, NEW c \in Chains, c \notin Returns, Returns' = Returns \union {c}
  PROVE  ClickInv'
<1> DEFINE n == Cardinality(Oks)  m == Cardinality(Returns)
<1>1. n \in Nat /\ IsFiniteSet(Oks) /\ clicks \in Nat /\ clicks' = clicks + 1
      /\ (stored => n + 1 <= clicks) /\ (~stored => n <= clicks) /\ clicks <= m /\ m \in Nat
  BY ReturnsFinite, FS_CardinalityType DEF ClickInv, Complete, HilAssumption
<1>2. Cardinality(Returns)' = m + 1
  BY ReturnsFinite, FS_AddElement
<1>3. CASE line = <<>>
  <2>1. stored' = TRUE
        /\ request' = [a \in Agents |-> IF request[a].at = "none" THEN request[a] ELSE [request[a] EXCEPT !.clicked = TRUE]]
    BY <1>3 DEF Complete
  <2>2. \A a \in Agents : request'[a] \in Requests /\ request'[a].at = request[a].at
    BY <2>1 DEF ClickInv, Requests
  <2>3. request' \in [Agents -> Requests] /\ Oks' = Oks
    BY <2>1, <2>2 DEF Oks
  <2>4. Cardinality(Oks)' = n
    BY <2>3
  <2> HIDE DEF n, m
  <2>5. clicks' \in Nat /\ Cardinality(Oks)' + 1 <= clicks' /\ clicks' <= Cardinality(Returns)'
    BY <1>1, <1>2, <2>4
  <2>6. Cardinality(Oks)' + (IF stored' THEN 1 ELSE 0) <= clicks'
    BY <2>1, <2>5
  <2> QED  BY <1>1, <2>1, <2>3, <2>5, <2>6 DEF ClickInv
<1>4. CASE line # <<>>
  <2>1. stored' = stored
        /\ request' = [a \in Agents |-> [at |-> IF a = Head(line) THEN "ok" ELSE request[a].at,
                                         clicked |-> request[a].at # "none"]]
    BY <1>4 DEF Complete
  <2>2. \A a \in Agents : request'[a] \in Requests /\ request'[a].at = IF a = Head(line) THEN "ok" ELSE request[a].at
    BY <2>1 DEF ClickInv, Requests
  <2>3. request' \in [Agents -> Requests] /\ Oks' \subseteq Oks \union {Head(line)}
    BY <2>1, <2>2 DEF Oks
  <2>4. IsFiniteSet(Oks)' /\ Cardinality(Oks)' \in Nat /\ Cardinality(Oks)' <= n + 1
    <3>1. /\ IsFiniteSet(Oks \union {Head(line)})
          /\ Cardinality(Oks \union {Head(line)}) = IF Head(line) \in Oks THEN n ELSE n + 1
      BY <1>1, FS_AddElement
    <3>2. IsFiniteSet(Oks)' /\ Cardinality(Oks)' <= Cardinality(Oks \union {Head(line)})
      BY <2>3, <3>1, FS_Subset
    <3>3. Cardinality(Oks)' \in Nat
      BY <3>2, FS_CardinalityType
    <3> HIDE DEF n
    <3> QED  BY <1>1, <3>1, <3>2, <3>3
  <2> HIDE DEF n, m
  <2>5. /\ clicks' \in Nat /\ clicks' <= Cardinality(Returns)'
        /\ (stored => Cardinality(Oks)' + 1 <= clicks') /\ (~stored => Cardinality(Oks)' <= clicks')
    BY <1>1, <1>2, <2>4
  <2>6. Cardinality(Oks)' + (IF stored' THEN 1 ELSE 0) <= clicks'
    BY <2>1, <2>4, <2>5
  <2> QED  BY <1>1, <2>1, <2>3, <2>4, <2>5, <2>6 DEF ClickInv
<1> QED  BY <1>3, <1>4

LEMMA AskKeepsClicks ==
  ASSUME ClickInv, NEW a \in Agents, Ask(a), Returns' = Returns
  PROVE  ClickInv'
<1> DEFINE n == Cardinality(Oks)
<1>1. n \in Nat /\ IsFiniteSet(Oks) /\ clicks' = clicks /\ clicks \in Nat /\ stored' = FALSE
      /\ (stored => n + 1 <= clicks) /\ (~stored => n <= clicks) /\ clicks <= Cardinality(Returns)
      /\ request[a].at = "none" /\ request' = [request EXCEPT ![a].at = IF stored THEN "ok" ELSE "waiting"]
  BY FS_CardinalityType DEF ClickInv, Ask
<1>2. request' \in [Agents -> Requests] /\ a \notin Oks
      /\ Oks' = IF stored THEN Oks \union {a} ELSE Oks
  BY <1>1 DEF ClickInv, Requests, Oks
<1>3. IsFiniteSet(Oks)' /\ Cardinality(Oks)' = IF stored THEN n + 1 ELSE n
  BY <1>1, <1>2, FS_AddElement
<1> HIDE DEF n
<1>4. Cardinality(Oks)' <= clicks' /\ Cardinality(Oks)' \in Nat
  BY <1>1, <1>3
<1>5. Cardinality(Oks)' + (IF stored' THEN 1 ELSE 0) <= clicks'
  BY <1>1, <1>4
<1>6. clicks' \in Nat /\ clicks' <= Cardinality(Returns)' /\ stored' \in BOOLEAN
  BY <1>1
<1> QED  BY <1>2, <1>3, <1>5, <1>6 DEF ClickInv

LEMMA GiveUpKeepsClicks ==
  ASSUME ClickInv, NEW a \in Agents, GiveUp(a), Returns' = Returns
  PROVE  ClickInv'
<1>1. request' \in [Agents -> Requests] /\ Oks' = Oks /\ stored' = stored /\ clicks' = clicks
  BY DEF ClickInv, GiveUp, Requests, Oks
<1> QED  BY <1>1 DEF ClickInv

-----------------------------------------------------------------------------
LEMMA HilInit_Inv == HilAssumption /\ HilInit => HilIInv
<1> SUFFICES ASSUME HilAssumption, HilInit  PROVE HilIInv
  OBVIOUS
<1>1. \A c \in Chains : chain[c] = NoChain
  BY DEF HilInit
<1>2. NoChain.state = "unused"
  BY DEF NoChain
<1>3. ChainInv
  <2>1. ChainTypes
    BY <1>1, <1>2, NoChainIs DEF ChainTypes, Sound, HilInit
  <2> QED  BY <1>1, <1>2, <2>1 DEF ChainInv, Apart, Progress, ByItself, UnderWay
<1>4. BoxTypes /\ PageTypes
  <2>1. turns \in 0..MaxTurns
    BY DEF HilInit, HilAssumption
  <2>2. procs \in [Boxes -> SUBSET Processes]
    BY DEF HilInit
  <2>3. runs \in [Boxes -> BOOLEAN] /\ equipped \in [Boxes -> BOOLEAN]
    BY Zenon DEF HilInit
  <2>4. PageTypes
    BY Zenon DEF HilInit, PageTypes
  <2> QED  BY <2>1, <2>2, <2>3, <2>4 DEF BoxTypes
<1>5. ClickInv
  <2>1. Oks = {} /\ request \in [Agents -> Requests]
    BY DEF HilInit, Oks, Requests
  <2>2. IsFiniteSet(Oks) /\ Cardinality(Oks) = 0
    BY <2>1, FS_EmptySet
  <2>3. clicks = 0 /\ stored = FALSE
    BY DEF HilInit
  <2>4. clicks <= Cardinality(Returns) /\ clicks \in Nat /\ Cardinality(Oks) + 0 <= clicks
    BY <2>2, <2>3, ReturnsFinite
  <2>5. Cardinality(Oks) + (IF stored THEN 1 ELSE 0) <= clicks
    BY <2>3, <2>4
  <2> QED  BY <2>1, <2>2, <2>3, <2>4, <2>5 DEF ClickInv
<1> QED  BY <1>3, <1>4, <1>5 DEF HilIInv
-----------------------------------------------------------------------------
LEMMA FirstBox == ASSUME HilAssumption, NEW s \in SUBSET Boxes, s # {}  PROVE First(s) \in s
  BY FirstIs DEF HilAssumption

LEMMA PageSame == PageTypes /\ UNCHANGED <<page, watch>> => PageTypes'
  BY DEF PageTypes, page, watch

LEMMA BoxSame == BoxTypes /\ UNCHANGED <<machines, procs>> => BoxTypes'
  BY DEF BoxTypes, machines

LEMMA ChainSame == ChainInv /\ UNCHANGED <<chain, procs, equipped>> => ChainInv' /\ Returns' = Returns
  BY DEF ChainInv, ChainTypes, Apart, Progress, ByItself, UnderWay, Sound, Returns

\* The commands of a chain.
LEMMA CommandsKeep ==
  ASSUME HilIInv, NEW c \in Chains, KillStep(c) \/ LaunchStep(c)
  PROVE  HilIInv'
<1>1. UNCHANGED <<page, watch>> /\ UNCHANGED bridge
  BY DEF KillStep, LaunchStep, bridge
<1>2. BoxTypes' /\ ChainInv' /\ Returns' = Returns
  BY KillStepKeeps, LaunchStepKeeps DEF HilIInv
<1> QED  BY <1>1, <1>2, PageSame, ClicksSame DEF HilIInv

\* What a chain answers.
LEMMA AnswersKeep ==
  ASSUME HilAssumption, HilIInv, NEW c \in Chains, TakenOver(c) \/ Returned(c) \/ Unheard(c)
  PROVE  HilIInv'
<1>1. /\ UNCHANGED <<machines, procs>> /\ Answers(c) /\ Over(c) /\ equipped' = equipped
  BY DEF TakenOver, Returned, Unheard, machines
<1>2. /\ ChainInv' /\ c \notin Returns
      /\ Returns' = IF chain[c].kind = "return" /\ Through(c) THEN Returns \union {c} ELSE Returns
  BY <1>1, OverKeeps DEF HilIInv
<1>3. chain[c].of \in Boxes
  BY <1>1 DEF Answers, HilIInv, ChainInv, ChainTypes, Sound
<1>4. PageTypes'
  BY <1>3 DEF HilIInv, PageTypes, TakenOver, Returned, Unheard, page, watch
<1>5. ClickInv'
  <2>1. CASE TakenOver(c)
    BY <1>2, <2>1, ClicksSame DEF TakenOver, HilIInv
  <2>2. CASE Unheard(c)
    <3>1. UNCHANGED bridge
      BY <2>2 DEF Unheard
    <3> QED  BY <1>2, <3>1, ReturnsGrow DEF HilIInv
  <2>3. CASE Returned(c)
    <3>1. CASE Through(c) /\ Complete
      BY <1>2, <2>3, <3>1, CompleteKeeps DEF Returned, HilIInv
    <3>2. CASE UNCHANGED bridge
      BY <1>2, <3>2, ReturnsGrow DEF HilIInv
    <3> QED  BY <2>3, <3>1, <3>2 DEF Returned
  <2> QED  BY <2>1, <2>2, <2>3
<1> QED  BY <1>1, <1>2, <1>4, <1>5, BoxSame DEF HilIInv

\* Chains begin.
LEMMA BeginsKeep ==
  ASSUME HilAssumption, HilIInv, NEW b \in Boxes,
         NEW way \in {"takeover", "return"}, NEW by \in {"page", "cli"}, Begin(way, b, by),
         UNCHANGED <<machines, procs>>, UNCHANGED bridge, PageTypes'
  PROVE  HilIInv'
<1>1. ChainInv' /\ Returns' = Returns
  BY BeginKeeps DEF HilIInv, machines
<1> QED  BY <1>1, BoxSame, ClicksSame DEF HilIInv

\* Boxes are turned, browsers crash or are installed.
LEMMA MeetingsKeep ==
  ASSUME HilIInv, NEW b \in Boxes, Install(b) \/ Turn(b) \/ Crash(b)
  PROVE  HilIInv'
<1>1. /\ chain' = Met(chain, b, Open(b)) /\ UNCHANGED bridge
      /\ \A x \in Boxes \ {b} : procs'[x] = procs[x] /\ equipped'[x] = equipped[x]
  BY DEF Install, Installed, Turn, Turned, Crash, HilIInv, BoxTypes, machines, bridge
<1>2. ChainInv' /\ Returns' = Returns
  BY <1>1, MetKeeps DEF HilIInv
<1>3. PageTypes'
  BY DEF Install, Turn, Turned, Crash, HilIInv, PageTypes, page, watch
<1>4. BoxTypes'
  <2>1. turns' \in 0..MaxTurns
    <3>1. turns' = turns \/ (turns < MaxTurns /\ turns' = turns + 1)
      BY DEF Install, Turn, Crash
    <3>2. turns \in 0..MaxTurns
      BY DEF HilIInv, BoxTypes
    <3> QED  BY <3>1, <3>2, HilAssumption DEF HilAssumption
  <2>2. procs' \in [Boxes -> SUBSET Processes]
    BY DEF Install, Turn, Turned, Crash, HilIInv, BoxTypes, Settled
  <2>3. runs' \in [Boxes -> BOOLEAN] /\ equipped' \in [Boxes -> BOOLEAN]
    <3>1. runs \in [Boxes -> BOOLEAN] /\ equipped \in [Boxes -> BOOLEAN]
      BY DEF HilIInv, BoxTypes
    <3>2. /\ equipped' = equipped \/ equipped' = [equipped EXCEPT ![b] = TRUE]
          /\ runs' = runs \/ runs' = [runs EXCEPT ![b] = ~@]
      BY DEF Install, Installed, Turn, Turned, Crash
    <3> QED  BY <3>1, <3>2
  <2> QED  BY <2>1, <2>2, <2>3 DEF BoxTypes
<1> QED  BY <1>1, <1>2, <1>3, <1>4, ClicksSame DEF HilIInv

LEMMA AsksKeep ==
  ASSUME HilAssumption, HilIInv, NEW a \in Agents, Ask(a)
  PROVE  HilIInv'
<1>1. UNCHANGED <<machines, procs>> /\ equipped' = equipped
  BY DEF Ask, machines
<1>2. ChainInv' /\ Returns' = Returns
  <2>1. CASE here /\ listed # {} /\ Free # {}
    <3>1. First(listed) \in Boxes
      BY <2>1, FirstBox DEF HilIInv, PageTypes, watch
    <3>2. Begin("takeover", First(listed), "page")
      BY <2>1 DEF Ask
    <3> QED  BY <1>1, <3>1, <3>2, BeginKeeps DEF HilIInv
  <2>2. CASE ~(here /\ listed # {} /\ Free # {})
    BY <1>1, <2>2, ChainSame DEF Ask, HilIInv
  <2> QED  BY <2>1, <2>2
<1>3. PageTypes'
  BY DEF Ask, HilIInv, PageTypes, watch
<1> QED  BY <1>1, <1>2, <1>3, BoxSame, AskKeepsClicks DEF HilIInv

\* The rest of what the page, the monitor and the agents do.
LEMMA OthersKeep ==
  ASSUME HilAssumption, HilIInv,
         \/ Mount \/ Refresh \/ Raise \/ MonitorEnds \/ (\E b \in Boxes : Look(b)) \/ (\E a \in Agents : GiveUp(a))
  PROVE  HilIInv'
<1>1. UNCHANGED <<machines, procs>> /\ chain' = chain /\ equipped' = equipped
  BY DEF Mount, Refresh, Raise, MonitorEnds, Look, GiveUp, machines
<1>2. ChainInv' /\ Returns' = Returns
  BY <1>1, ChainSame DEF HilIInv
<1>3. PageTypes'
  BY DEF Mount, Refresh, Raise, MonitorEnds, Look, GiveUp, Managed, HilIInv, PageTypes, page, watch
<1>4. ClickInv'
  BY <1>2, ClicksSame, GiveUpKeepsClicks DEF Mount, Refresh, Raise, MonitorEnds, Look, HilIInv
<1> QED  BY <1>1, <1>2, <1>3, <1>4, BoxSame DEF HilIInv

LEMMA UnmountKeeps ==
  ASSUME HilIInv, Unmount
  PROVE  HilIInv'
<1>1. ChainInv' /\ Returns' = Returns
  BY GoneKeeps DEF HilIInv
<1>2. PageTypes' /\ UNCHANGED <<machines, procs>> /\ UNCHANGED bridge
  BY DEF Unmount, HilIInv, PageTypes, watch
<1> QED  BY <1>1, <1>2, BoxSame, ClicksSame DEF HilIInv

LEMMA HilIInv_Step == HilAssumption /\ HilIInv /\ [HilNext]_hil => HilIInv'
<1> SUFFICES ASSUME HilAssumption, HilIInv, [HilNext]_hil  PROVE HilIInv'
  OBVIOUS
<1>1. ASSUME NEW c \in Chains, KillStep(c) \/ LaunchStep(c)  PROVE HilIInv'
  BY <1>1, CommandsKeep
<1>2. ASSUME NEW c \in Chains, TakenOver(c) \/ Returned(c) \/ Unheard(c)  PROVE HilIInv'
  BY <1>2, AnswersKeep
<1>3. ASSUME NEW b \in Boxes, Press(b)  PROVE HilIInv'
  <2>1. Begin("takeover", b, "page") /\ UNCHANGED <<machines, procs>> /\ UNCHANGED bridge /\ PageTypes'
    BY <1>3 DEF Press, HilIInv, PageTypes, watch
  <2> QED  BY <2>1, BeginsKeep
<1>4. ASSUME Continue  PROVE HilIInv'
  <2>1. Begin("return", panel, "page") /\ UNCHANGED <<machines, procs>> /\ UNCHANGED bridge /\ panel \in Boxes
    BY <1>4 DEF Continue, HilIInv, PageTypes, watch
  <2>2. PageTypes'
    BY <1>4, PageSame DEF Continue, HilIInv
  <2> QED  BY <2>1, <2>2, BeginsKeep
<1>5. ASSUME NEW b \in Boxes, Command(b)  PROVE HilIInv'
  <2>1. PICK way \in {"takeover", "return"} : Begin(way, b, "cli")
    BY <1>5 DEF Command
  <2>2. UNCHANGED <<machines, procs>> /\ UNCHANGED bridge /\ PageTypes'
    BY <1>5, PageSame DEF Command, HilIInv
  <2> QED  BY <2>1, <2>2, BeginsKeep
<1>6. ASSUME NEW b \in Boxes, Install(b) \/ Turn(b) \/ Crash(b)  PROVE HilIInv'
  BY <1>6, MeetingsKeep
<1>7. ASSUME NEW a \in Agents, Ask(a)  PROVE HilIInv'
  BY <1>7, AsksKeep
<1>8. ASSUME Mount \/ Refresh \/ Raise \/ MonitorEnds \/ (\E b \in Boxes : Look(b)) \/ (\E a \in Agents : GiveUp(a))
      PROVE  HilIInv'
  BY <1>8, OthersKeep
<1>9. ASSUME Unmount  PROVE HilIInv'
  BY <1>9, UnmountKeeps
<1>10. ASSUME UNCHANGED hil  PROVE HilIInv'
  <2>1. UNCHANGED <<machines, procs>> /\ UNCHANGED <<page, watch>> /\ UNCHANGED bridge /\ chain' = chain /\ equipped' = equipped
    BY <1>10 DEF hil, machines, page, watch, bridge
  <2> QED  BY <2>1, BoxSame, PageSame, ChainSame, ClicksSame DEF HilIInv
<1> QED  BY <1>1, <1>2, <1>3, <1>4, <1>5, <1>6, <1>7, <1>8, <1>9, <1>10 DEF HilNext

LEMMA HilIInv_Inv == HilAssumption /\ HilIInv => HilInv
<1> SUFFICES ASSUME HilAssumption, HilIInv  PROVE HilInv
  OBVIOUS
<1>1. \A c \in Chains : chain[c] \in ChainRecs /\ Sound(chain[c])
  BY DEF HilIInv, ChainInv, ChainTypes
<1>2. HilTypeOK
  <2>1. \A c \in Chains : chain[c].at \in 0..6 /\ chain[c].state \in {"unused", "running", "through", "failed", "over"}
    BY <1>1 DEF ChainRecs
  <2>2. \A a \in Agents : request[a].at \in {"none", "waiting", "ok", "timeout"}
    BY DEF HilIInv, ClickInv, Requests
  <2>3. clicks \in 0..MaxChains
    BY ReturnsFinite DEF HilIInv, ClickInv, HilAssumption
  <2>4. stored \in BOOLEAN
    BY DEF HilIInv, ClickInv
  <2> QED  BY <2>1, <2>2, <2>3, <2>4 DEF HilTypeOK, HilIInv, BoxTypes, PageTypes, Processes, watch
<1>3. CleanChainsConvert
  <2> SUFFICES ASSUME NEW c \in Chains, chain[c].state = "through", chain[c].clean, equipped[chain[c].of]
               PROVE  procs[chain[c].of] = IF chain[c].kind = "takeover" THEN Takeover ELSE {"headless"}
    BY DEF CleanChainsConvert
  <2> DEFINE ps == procs[chain[c].of]  way == chain[c].kind
  <2>1. Brought(way, 6, ps)
    BY <1>1 DEF ByItself, UnderWay, Sound, HilIInv, ChainInv, Progress
  <2>2. ps \in SUBSET Processes /\ way \in {"takeover", "return"}
    BY <1>1 DEF Sound, HilIInv, BoxTypes
  <2> HIDE DEF ps, way
  <2>3. CASE way = "takeover"
    <3>1. "headless" \notin ps /\ "Xvfb" \in ps /\ "x11vnc" \in ps /\ "websockify" \in ps /\ "chromium" \in ps
      BY <2>1, <2>3 DEF Brought
    <3> QED  BY <2>2, <2>3, <3>1 DEF Processes, Takeover, Display, ps, way
  <2>4. CASE way = "return"
    <3>1. "headless" \in ps /\ "Xvfb" \notin ps /\ "x11vnc" \notin ps /\ "websockify" \notin ps /\ "chromium" \notin ps
      BY <2>1, <2>4 DEF Brought
    <3> QED  BY <2>2, <2>4, <3>1 DEF Processes, Takeover, Display, ps, way
  <2> QED  BY <2>2, <2>3, <2>4
<1>4. ClicksAreCounted
  BY DEF ClicksAreCounted, HilIInv, ClickInv, Oks, Returns
<1> QED  BY <1>2, <1>3, <1>4 DEF HilInv

\* Whatever takes over, returns, crashes and is turned, in any number of
\* boxes: a chain that met nothing converts its browser, and no agent is
\* answered without a return that came through (chromium.rs:53-103,
\* server.rs:424-431).
THEOREM HilHolds == HilSpec => []HilInv
<1>1. HilInit => HilIInv
  BY HilAssumption, HilInit_Inv
<1>2. HilIInv /\ [HilNext]_hil => HilIInv'
  BY HilAssumption, HilIInv_Step
<1>3. HilIInv => HilInv
  BY HilAssumption, HilIInv_Inv
<1> QED  BY <1>1, <1>2, <1>3, PTL DEF HilSpec

-----------------------------------------------------------------------------
\* In any behaviour in which the three parts move one at a time: the two
\* invariants above (background.rs, chromium.rs, server.rs).
THEOREM ServicesHold == MCSpec => []BrowserAndScriptsHold
<1>1. MCInit => HilIInv /\ ScriptIInv
  BY HilAssumption, HilInit_Inv, ScriptIInv_Init DEF MCInit
<1>2. [MCNext]_services => [HilNext]_hil /\ [ScriptNext]_<<scripted, faults>>
  <2> SUFFICES ASSUME [MCNext]_services  PROVE [HilNext]_hil /\ [ScriptNext]_<<scripted, faults>>
    OBVIOUS
  <2>1. CASE MCNext
    BY <2>1 DEF MCNext, RunScript, In, Request, Browser
  <2>2. CASE UNCHANGED services
    BY <2>2 DEF services
  <2> QED  BY <2>1, <2>2
<1>3. HilIInv /\ ScriptIInv /\ [MCNext]_services => HilIInv' /\ ScriptIInv'
  BY <1>2, HilAssumption, HilIInv_Step, ScriptIInv_Step
<1>4. HilIInv /\ ScriptIInv => BrowserAndScriptsHold
  BY HilAssumption, HilIInv_Inv DEF BrowserAndScriptsHold, ScriptIInv, ScriptInv, CalmInv
<1> QED  BY <1>1, <1>3, <1>4, PTL DEF MCSpec
=============================================================================
