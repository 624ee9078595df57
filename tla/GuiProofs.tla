------------------------------ MODULE GuiProofs ------------------------------
(***************************************************************************)
(* Proofs about the GUI: its calls of clawcli under the locks of the        *)
(* instances (CliBridge), an installation (InstallWizard), and what the     *)
(* main window shows (GuiSync), for any number of calls, events, attempts,  *)
(* instances, commands and handlers.                                        *)
(***************************************************************************)
EXTENDS MCGui, SequenceTheorems, WellFoundedInduction, TLAPS

-----------------------------------------------------------------------------
(* Sequences.                                                               *)

Once(s) == \A i, j \in 1..Len(s) : s[i] = s[j] => i = j

\* What is appended is there, and comes last.
LEMMA AppendIs ==
  ASSUME NEW S, NEW s \in Seq(S), NEW e \in S
  PROVE  /\ Append(s, e) \in Seq(S) /\ Len(s) \in Nat /\ Len(Append(s, e)) = Len(s) + 1
         /\ \A i \in 1..Len(s) : i \in 1..Len(Append(s, e)) /\ Append(s, e)[i] = s[i]
         /\ Len(s) + 1 \in 1..Len(Append(s, e)) /\ Append(s, e)[Len(s) + 1] = e
         /\ \A i \in 1..Len(Append(s, e)) : i \in 1..Len(s) \/ i = Len(s) + 1
<1>1. /\ Append(s, e) \in Seq(S) /\ Len(s) \in Nat /\ Len(Append(s, e)) = Len(s) + 1
      /\ \A i \in 1..Len(s) : Append(s, e)[i] = s[i]
      /\ Append(s, e)[Len(s) + 1] = e
  BY AppendProperties, LenProperties
<1> DEFINE m == Len(s)
           n == Len(Append(s, e))
<1>2. m \in Nat /\ n = m + 1
  BY <1>1
<1> HIDE DEF m, n
<1>3. /\ \A i \in 1..m : i \in 1..n
      /\ m + 1 \in 1..n
      /\ \A i \in 1..n : i \in 1..m \/ i = m + 1
  BY <1>2
<1> QED  BY <1>1, <1>3 DEF m, n

\* What comes after the head.
LEMMA TailIs ==
  ASSUME NEW S, NEW s \in Seq(S), s # <<>>
  PROVE  /\ Tail(s) \in Seq(S) /\ Head(s) \in S /\ Head(s) = s[1] /\ 1 \in 1..Len(s)
         /\ \A i \in 1..Len(Tail(s)) : i + 1 \in 1..Len(s) /\ i + 1 # 1 /\ Tail(s)[i] = s[i + 1]
         /\ \A i \in 1..Len(s) : i # 1 => i - 1 \in 1..Len(Tail(s)) /\ Tail(s)[i - 1] = s[i]
<1>1. /\ Len(s) \in Nat /\ Len(s) # 0
  BY LenProperties, EmptySeq
<1>2. /\ Head(s) \in S /\ Tail(s) \in Seq(S) /\ Len(Tail(s)) = Len(s) - 1
      /\ \A i \in 1..Len(Tail(s)) : Tail(s)[i] = s[i + 1]
  BY HeadTailProperties
<1>3. Head(s) = s[1]
  BY DEF Head
<1> DEFINE m == Len(s)
           n == Len(Tail(s))
<1>4. m \in Nat \ {0} /\ n = m - 1
  BY <1>1, <1>2
<1> HIDE DEF m, n
<1>5. /\ 1 \in 1..m /\ \A i \in 1..n : i + 1 \in 1..m /\ i + 1 # 1
      /\ \A i \in 1..m : i # 1 => i - 1 \in 1..n /\ (i - 1) + 1 = i
  BY <1>4
<1>6. \A i \in 1..m : i # 1 => Tail(s)[i - 1] = s[i]
  <2> TAKE i \in 1..m
  <2> HAVE i # 1
  <2>1. i - 1 \in 1..n /\ (i - 1) + 1 = i
    BY <1>5
  <2>2. Tail(s)[i - 1] = s[(i - 1) + 1]
    BY <2>1, <1>2 DEF n
  <2> QED  BY <2>1, <2>2
<1> QED  BY <1>2, <1>3, <1>5, <1>6 DEF m, n

\* What there is to find in a sequence that grows, and in one that is read.
LEMMA NothingContained == \A x : ~Contains(<<>>, x)
<1>1. Len(<<>>) = 0
  BY EmptySeq
<1> QED  BY <1>1 DEF Contains

LEMMA AppendContains ==
  ASSUME NEW S, NEW s \in Seq(S), NEW e \in S
  PROVE  /\ Contains(Append(s, e), e)
         /\ \A x : Contains(s, x) => Contains(Append(s, e), x)
  BY AppendIs DEF Contains

LEMMA HeadOrTail ==
  ASSUME NEW S, NEW s \in Seq(S), s # <<>>, NEW x, Contains(s, x)
  PROVE  x = Head(s) \/ Contains(Tail(s), x)
<1>1. PICK i \in 1..Len(s) : s[i] = x
  BY DEF Contains
<1>2. CASE i = 1
  BY <1>1, <1>2, TailIs
<1>3. CASE i # 1
  BY <1>1, <1>3, TailIs DEF Contains
<1> QED  BY <1>2, <1>3

-----------------------------------------------------------------------------
(* The locks of the instances.                                              *)

\* Where a call is, what there is of its clawcli and of what this has said.
CallOK(c) ==
  /\ cpc[c] \in {"new", "lock"} => kid[c] = "none" /\ pipe[c] = <<>> /\ got[c] = <<>> /\ out[c] = <<>>
  /\ kid[c] \in Alive => cpc[c] = "loop"
  /\ cpc[c] = "reap" => pipe[c] = <<>>
  /\ cpc[c] # "done" => answer[c] = "none"
  /\ cpc[c] # "gone" /\ kid[c] \in {"ok", "exit0"} =>
        Contains(got[c], "complete") \/ Contains(pipe[c], "complete")
  /\ cpc[c] \in {"lock", "loop", "reap"} /\ cjob[c].stream => out[c] = got[c]
  /\ answer[c] = "ok" => kid[c] = "exit0" /\ pipe[c] = <<>> /\ (cjob[c].stream => out[c] = got[c])

\* Whoever queues for a lock is under way and uses that lock; the first holds it.
Working == {"lock", "loop", "reap"}
Queue(n, q, at, jobs) == Once(q) /\ \A i \in 1..Len(q) : at[q[i]] \in Working /\ LockName(jobs[q[i]]) = n
Queues == \A n \in Names : Queue(n, lockq[n], cpc, cjob)
Holding == \A c \in Calls : cpc[c] \in {"loop", "reap"} /\ Locks(c) => Holds(c)

CliIInv == CliTypeOK /\ (\A c \in Calls : CallOK(c)) /\ Queues /\ Holding

LEMMA LockIsName ==
  ASSUME CliTypeOK, NEW c \in Calls, Locks(c)
  PROVE  Lock(c) \in Names
<1>1. cjob[c] \in Jobs
  BY DEF CliTypeOK
<1>2. cjob[c].name \in Names
  BY <1>1, CliAssumption DEF CliAssumption
<1> QED  BY <1>2 DEF Locks, Lock, LockName

LEMMA CliStart == CliInit => CliIInv
<1> SUFFICES ASSUME CliInit PROVE CliIInv
  OBVIOUS
<1>1. <<>> \in Seq(Calls) /\ <<>> \in Seq(Events) /\ Len(<<>>) = 0
  BY EmptySeq
<1>2. CliTypeOK
  <2>1. quits \in 0..MaxQuits
    BY CliAssumption DEF CliAssumption, CliInit
  <2> QED  BY <1>1, <2>1 DEF CliInit, CliTypeOK, Alive, Besides
<1>3. \A c \in Calls : CallOK(c)
  BY DEF CliInit, CallOK, Alive
<1>4. Queues
  BY <1>1 DEF CliInit, Queues, Queue, Once
<1>5. Holding
  BY DEF CliInit, Holding
<1> QED  BY <1>2, <1>3, <1>4, <1>5 DEF CliIInv

\* Whoever holds a lock is the only one to have passed it.
LEMMA OneHolder ==
  ASSUME CliIInv, NEW c \in Calls, NEW d \in Calls, Holds(c), cpc[d] \in {"loop", "reap"}, Locks(d),
         Lock(c) = Lock(d)
  PROVE  c = d
  BY DEF CliIInv, Holding, Holds

\* A queue stays one if nobody in it stops working.
LEMMA QueueStays ==
  ASSUME CliIInv, NEW n \in Names, NEW q \in Seq(Calls), Queue(n, q, cpc, cjob), cjob' = cjob,
         \A i \in 1..Len(q) : cpc[q[i]] \in Working => cpc'[q[i]] \in Working
  PROVE  Queue(n, q, cpc', cjob')
  BY DEF Queue

\* Steps that leave the queues, and take nobody past a lock or out of a queue.
LEMMA LocksStay ==
  ASSUME CliIInv, UNCHANGED <<cjob, lockq>>,
         \A d \in Calls : /\ cpc[d] \in Working => cpc'[d] \in Working
                          /\ cpc'[d] \in {"loop", "reap"} =>
                                cpc[d] \in {"loop", "reap"} \/ (Locks(d) => Holds(d))
  PROVE  Queues' /\ Holding'
<1>1. ASSUME NEW n \in Names PROVE Queue(n, lockq'[n], cpc', cjob')
  <2>1. lockq'[n] = lockq[n] /\ Queue(n, lockq[n], cpc, cjob) /\ lockq[n] \in Seq(Calls)
    BY DEF CliIInv, Queues, CliTypeOK
  <2>2. \A i \in 1..Len(lockq[n]) : lockq[n][i] \in Calls
    BY <2>1, ElementOfSeq
  <2> QED  BY <2>1, <2>2, QueueStays
<1>2. ASSUME NEW d \in Calls, cpc'[d] \in {"loop", "reap"}, Locks(d)' PROVE Holds(d)'
  <2>1. Locks(d) /\ Holds(d)
    BY <1>2 DEF Locks, Lock, LockName, CliIInv, Holding
  <2> QED  BY <2>1 DEF Holds, Locks, Lock, LockName
<1> QED  BY <1>1, <1>2 DEF Queues, Holding

LEMMA BeginLocks ==
  ASSUME CliIInv, NEW c \in Calls, Begin(c)
  PROVE  lockq' \in [Names -> Seq(Calls)] /\ Queues' /\ Holding'
<1>1. /\ cpc[c] = "new" /\ cpc' = [cpc EXCEPT ![c] = "lock"] /\ cjob' = cjob
      /\ lockq' = IF Locks(c) THEN [lockq EXCEPT ![Lock(c)] = Append(@, c)] ELSE lockq
      /\ cpc \in [Calls -> {"new", "lock", "loop", "reap", "done", "gone"}]
      /\ lockq \in [Names -> Seq(Calls)]
  BY DEF Begin, Goto, CliIInv, CliTypeOK
<1>2. \A d \in Calls : cpc[d] \in Working => cpc'[d] \in Working /\ d # c
  BY <1>1 DEF Working
<1>3. \A d \in Calls : cpc'[d] \in {"loop", "reap"} => cpc[d] \in {"loop", "reap"}
  BY <1>1
<1>4. CASE ~Locks(c)
  BY <1>1, <1>2, <1>3, <1>4, LocksStay
<1>5. CASE Locks(c)
  <2> DEFINE n == Lock(c)
             q == lockq[n]
  <2>1. n \in Names
    BY <1>5, LockIsName DEF CliIInv
  <2>2. q \in Seq(Calls) /\ Queue(n, q, cpc, cjob) /\ \A i \in 1..Len(q) : q[i] \in Calls
    BY <2>1, <1>1, ElementOfSeq DEF CliIInv, Queues
  <2>3. lockq' = [lockq EXCEPT ![n] = Append(q, c)]
    BY <1>1, <1>5
  <2>0. LockName(cjob[c]) = n
    BY DEF Lock
  <2> HIDE DEF q, n
  <2>4. /\ Append(q, c) \in Seq(Calls) /\ Len(q) \in Nat
        /\ \A i \in 1..Len(q) : i \in 1..Len(Append(q, c)) /\ Append(q, c)[i] = q[i]
        /\ Append(q, c)[Len(q) + 1] = c
        /\ \A i \in 1..Len(Append(q, c)) : i \in 1..Len(q) \/ i = Len(q) + 1
    BY <2>2, AppendIs
  <2>5. \A i \in 1..Len(q) : q[i] # c /\ cpc'[q[i]] \in Working /\ LockName(cjob'[q[i]]) = n
    BY <2>2, <1>2, <1>1 DEF Queue
  <2>6. Once(Append(q, c))
    BY <2>2, <2>4, <2>5 DEF Once, Queue
  <2>7. Queue(n, Append(q, c), cpc', cjob')
    <3>1. cpc'[c] \in Working /\ LockName(cjob'[c]) = n
      BY <1>1, <2>0 DEF Working
    <3> QED  BY <3>1, <2>4, <2>5, <2>6 DEF Queue
  <2>8. Queues'
    <3>1. ASSUME NEW m \in Names, m # n PROVE Queue(m, lockq'[m], cpc', cjob')
      <4>1. lockq'[m] = lockq[m] /\ Queue(m, lockq[m], cpc, cjob) /\ lockq[m] \in Seq(Calls)
        BY <3>1, <2>3, <1>1 DEF CliIInv, Queues
      <4>2. \A i \in 1..Len(lockq[m]) : lockq[m][i] \in Calls
        BY <4>1, ElementOfSeq
      <4> QED  BY <4>1, <4>2, <1>1, <1>2, QueueStays
    <3>2. lockq'[n] = Append(q, c)
      BY <2>1, <2>3, <1>1
    <3> QED  BY <3>1, <3>2, <2>7 DEF Queues
  <2>9. Holding'
    <3>1. ASSUME NEW d \in Calls, cpc'[d] \in {"loop", "reap"}, Locks(d)' PROVE Holds(d)'
      <4>1. Locks(d) /\ Holds(d) /\ Lock(d) \in Names /\ Lock(d)' = Lock(d) /\ Locks(d)'
        BY <3>1, <1>3, <1>1, LockIsName DEF Locks, Lock, CliIInv, Holding
      <4>2. CASE Lock(d) # n
        BY <4>1, <4>2, <2>3, <1>1 DEF Holds
      <4>3. CASE Lock(d) = n
        <5>1. q # <<>> /\ Head(q) = d
          BY <4>1, <4>3 DEF Holds, q
        <5>2. 1 \in 1..Len(q) /\ q[1] = d
          BY <5>1, <2>2, TailIs
        <5>3. Append(q, c) # <<>> /\ Head(Append(q, c)) = d
          <6>1. Append(q, c)[1] = d /\ 1 \in 1..Len(Append(q, c))
            BY <5>2, <2>4
          <6>2. Append(q, c) # <<>>
            BY <2>2, <2>4, AppendIs, EmptySeq
          <6> QED  BY <6>1, <6>2, <2>4, TailIs
        <5>4. lockq'[n] = Append(q, c)
          BY <2>1, <2>3, <1>1
        <5> QED  BY <5>3, <5>4, <4>1, <4>3 DEF Holds
      <4> QED  BY <4>2, <4>3
    <3> QED  BY <3>1 DEF Holding
  <2>10. lockq' \in [Names -> Seq(Calls)]
    BY <2>3, <2>4, <1>1
  <2> QED  BY <2>8, <2>9, <2>10
<1> QED  BY <1>4, <1>5, <1>1

\* A call that returns leaves its lock to the next in the queue.
LEMMA ReturnLocks ==
  ASSUME CliIInv, NEW c \in Calls, Locks(c) => Holds(c), NEW r, Return(c, r), cjob' = cjob
  PROVE  lockq' \in [Names -> Seq(Calls)] /\ Queues' /\ Holding'
<1>1. /\ cpc' = [cpc EXCEPT ![c] = "done"]
      /\ lockq' = IF Locks(c) THEN [lockq EXCEPT ![Lock(c)] = Tail(@)] ELSE lockq
      /\ cpc \in [Calls -> {"new", "lock", "loop", "reap", "done", "gone"}]
      /\ lockq \in [Names -> Seq(Calls)]
  BY DEF Return, Unlock, Goto, CliIInv, CliTypeOK, Holds
<1>2. \A d \in Calls : d # c /\ cpc[d] \in Working => cpc'[d] \in Working
  BY <1>1
<1>3. \A d \in Calls : cpc'[d] \in {"loop", "reap"} => cpc[d] \in {"loop", "reap"} /\ d # c
  BY <1>1
<1>4. ASSUME NEW m \in Names, lockq'[m] = lockq[m], LockName(cjob[c]) # m
      PROVE  Queue(m, lockq'[m], cpc', cjob')
  <2>1. Queue(m, lockq[m], cpc, cjob) /\ lockq[m] \in Seq(Calls)
    BY <1>1 DEF CliIInv, Queues
  <2>2. \A i \in 1..Len(lockq[m]) : lockq[m][i] \in Calls /\ lockq[m][i] # c
    BY <2>1, <1>4, ElementOfSeq DEF Queue
  <2> QED  BY <2>1, <2>2, <1>2, <1>4, QueueStays
<1>5. CASE ~Locks(c)
  <2>1. lockq' = lockq /\ \A m \in Names : LockName(cjob[c]) # m
    BY <1>1, <1>5, CliAssumption DEF Locks
  <2>2. Queues'
    BY <2>1, <1>4 DEF Queues
  <2>3. ASSUME NEW d \in Calls, cpc'[d] \in {"loop", "reap"}, Locks(d)' PROVE Holds(d)'
    <3>1. Locks(d) /\ Holds(d) /\ Locks(d)' /\ Lock(d)' = Lock(d)
      BY <2>3, <1>3 DEF Locks, Lock, CliIInv, Holding
    <3> QED  BY <3>1, <2>1 DEF Holds
  <2> QED  BY <2>1, <2>2, <2>3, <1>1 DEF Holding
<1>6. CASE Locks(c)
  <2> DEFINE n == Lock(c)
             q == lockq[n]
  <2>1. n \in Names /\ q # <<>> /\ Head(q) = c
    BY <1>6, LockIsName DEF CliIInv, Holds
  <2>2. q \in Seq(Calls) /\ Queue(n, q, cpc, cjob) /\ \A i \in 1..Len(q) : q[i] \in Calls
    BY <2>1, <1>1, ElementOfSeq DEF CliIInv, Queues
  <2>3. lockq' = [lockq EXCEPT ![n] = Tail(q)]
    BY <1>1, <1>6
  <2>0. \A m \in Names : m # n => LockName(cjob[c]) # m
    BY DEF Lock
  <2> HIDE DEF q
  <2>4. /\ Tail(q) \in Seq(Calls) /\ q[1] = c /\ 1 \in 1..Len(q)
        /\ \A i \in 1..Len(Tail(q)) : i + 1 \in 1..Len(q) /\ i + 1 # 1 /\ Tail(q)[i] = q[i + 1]
    BY <2>1, <2>2, TailIs
  <2>5. Once(Tail(q))
    <3>1. SUFFICES ASSUME NEW i \in 1..Len(Tail(q)), NEW j \in 1..Len(Tail(q)), Tail(q)[i] = Tail(q)[j]
                   PROVE  i = j
      BY Zenon DEF Once
    <3>2. i + 1 = j + 1
      BY <3>1, <2>4, <2>2 DEF Once, Queue
    <3>3. i \in Int /\ j \in Int
      BY <2>4, LenProperties
    <3> QED  BY <3>2, <3>3
  <2>6. Queue(n, Tail(q), cpc', cjob')
    <3>1. ASSUME NEW i \in 1..Len(Tail(q)) PROVE cpc'[Tail(q)[i]] \in Working /\ LockName(cjob'[Tail(q)[i]]) = n
      <4>1. i + 1 \in 1..Len(q) /\ i + 1 # 1 /\ Tail(q)[i] = q[i + 1]
        BY <2>4
      <4>2. q[i + 1] # c
        BY <4>1, <2>4, <2>2 DEF Once, Queue
      <4> QED  BY <4>1, <4>2, <2>2, <1>2 DEF Queue
    <3> QED  BY <3>1, <2>5 DEF Queue
  <2>7. lockq'[n] = Tail(q)
    BY <2>1, <2>3, <1>1
  <2>8. Queues'
    <3>1. \A m \in Names : m # n => lockq'[m] = lockq[m]
      BY <2>3, <1>1
    <3> QED  BY <3>1, <1>4, <2>0, <2>6, <2>7 DEF Queues
  <2>9. ASSUME NEW d \in Calls, cpc'[d] \in {"loop", "reap"}, Locks(d)' PROVE Holds(d)'
    <3>1. Locks(d) /\ Holds(d) /\ Lock(d) \in Names /\ Lock(d)' = Lock(d) /\ d # c /\ Locks(d)'
      BY <2>9, <1>3, LockIsName DEF Locks, Lock, CliIInv, Holding
    <3>2. Lock(d) # n
      BY <3>1, <1>6, <2>9, <1>3, OneHolder
    <3> QED  BY <3>1, <3>2, <2>3, <1>1 DEF Holds
  <2> QED  BY <2>3, <2>4, <2>8, <2>9, <1>1 DEF Holding
<1> QED  BY <1>5, <1>6

-----------------------------------------------------------------------------
(* The calls.                                                               *)

Same(d) ==
  /\ cpc'[d] = cpc[d] /\ kid'[d] = kid[d] /\ pipe'[d] = pipe[d] /\ got'[d] = got[d] /\ out'[d] = out[d]
  /\ answer'[d] = answer[d]

LEMMA SameStays ==
  ASSUME NEW d, CallOK(d), Same(d), cjob' = cjob
  PROVE  CallOK(d)'
  BY DEF CallOK, Same

\* What a clawcli does by itself.
LEMMA KidsKeep ==
  ASSUME CliIInv, NEW c \in Calls, Kids(c)
  PROVE  CliIInv' /\ \A d \in Calls : answer[d] = "ok" => out'[d] = out[d] /\ answer'[d] = "ok"
<1>0. CliTypeOK /\ CallOK(c) /\ UNCHANGED <<cjob, cpc, lockq, got, out, answer, quits>>
  BY DEF CliIInv, Kids, Emit, Conclude, KidExits, KidDies, OrphanPrints, Others
<1>01. side' \in [Calls -> Besides]
  BY <1>0 DEF Kids, Emit, Conclude, KidExits, KidDies, OrphanPrints, Others, CliTypeOK
<1>1. Queues' /\ Holding'
  BY <1>0, LocksStay
<1>2. ASSUME NEW d \in Calls, d # c PROVE Same(d)
  BY <1>0, <1>2 DEF Kids, Emit, Conclude, KidExits, KidDies, OrphanPrints, Others, Say, Same, CliTypeOK
<1>3. \A d \in Calls \ {c} : CallOK(d)'
  BY <1>2, <1>0, SameStays DEF CliIInv
<1>4. pipe \in [Calls -> Seq(Events)] /\ pipe[c] \in Seq(Events)
  BY <1>0 DEF CliTypeOK
<1>5. CASE Emit(c) \/ Conclude(c)
  <2>1. PICK e \in Events :
          /\ kid[c] = "running" /\ pipe' = [pipe EXCEPT ![c] = Append(@, e)]
          /\ \/ kid' = kid
             \/ kid' = [kid EXCEPT ![c] = "ok"] /\ e = "complete"
             \/ kid' = [kid EXCEPT ![c] = "failed"]
    BY <1>5 DEF Emit, Conclude, Say, Events
  <2>2. pipe'[c] = Append(pipe[c], e) /\ Append(pipe[c], e) \in Seq(Events) /\ Contains(Append(pipe[c], e), e)
    BY <2>1, <1>4, AppendIs, AppendContains
  <2>3. cpc[c] = "loop" /\ kid'[c] \in Alive /\ kid'[c] # "exit0" /\ (kid'[c] = "ok" => e = "complete")
    BY <2>1, <1>0 DEF CallOK, Alive, CliTypeOK
  <2>4. CallOK(c)'
    BY <2>2, <2>3, <1>0 DEF CallOK
  <2>5. CliTypeOK'
    BY <2>1, <2>2, <1>0, <1>01, <1>4 DEF CliTypeOK, Alive
  <2> QED  BY <2>4, <2>5, <1>0, <1>1, <1>3 DEF CliIInv
<1>6. CASE KidExits(c) \/ KidDies(c) \/ OrphanPrints(c)
  <2>1. /\ pipe' = pipe
        /\ \/ kid[c] \in {"ok", "failed"} /\ kid' = [kid EXCEPT ![c] = IF @ = "ok" THEN "exit0" ELSE "exit1"]
           \/ kid[c] \in {"running", "orphan"} /\ kid' = [kid EXCEPT ![c] = "exit1"]
    BY <1>6 DEF KidExits, KidDies, OrphanPrints
  <2>2. /\ kid[c] \in {"ok", "failed", "running", "orphan"} /\ kid'[c] \in {"exit0", "exit1"}
        /\ kid'[c] = "exit0" => kid[c] = "ok"
    BY <2>1, <1>0 DEF CliTypeOK
  <2>3. answer[c] # "ok"
    BY <2>2, <1>0 DEF CallOK
  <2>4. cpc[c] \notin {"new", "lock"}
    BY <2>2, <1>0 DEF CallOK
  <2>5. CallOK(c)'
    BY <2>1, <2>2, <2>3, <2>4, <1>0 DEF CallOK, Alive
  <2>6. CliTypeOK'
    BY <2>1, <1>0, <1>01 DEF CliTypeOK, Alive
  <2> QED  BY <2>5, <2>6, <1>0, <1>1, <1>3 DEF CliIInv
<1>7. CASE Others(c)
  <2>1. kid' = kid /\ pipe' = pipe
    BY <1>7 DEF Others
  <2>2. CallOK(c)' /\ CliTypeOK'
    BY <2>1, <1>0, <1>01 DEF CallOK, CliTypeOK
  <2> QED  BY <2>2, <1>0, <1>1, <1>3 DEF CliIInv
<1> QED  BY <1>5, <1>6, <1>7 DEF Kids

\* A call that begins queues for its lock, if it has one.
LEMMA BeginKeeps ==
  ASSUME CliIInv, NEW c \in Calls, Begin(c)
  PROVE  CliIInv' /\ UNCHANGED <<out, answer>>
<1>0. /\ CliTypeOK /\ CallOK(c) /\ UNCHANGED <<cjob, kid, pipe, got, out, side, answer, quits>>
      /\ cpc[c] = "new" /\ cpc' = [cpc EXCEPT ![c] = "lock"]
  BY DEF CliIInv, Begin, Goto
<1>1. lockq' \in [Names -> Seq(Calls)] /\ Queues' /\ Holding'
  BY BeginLocks
<1>2. \A d \in Calls \ {c} : Same(d)
  BY <1>0 DEF Same, CliTypeOK
<1>3. \A d \in Calls \ {c} : CallOK(d)'
  BY <1>2, <1>0, SameStays DEF CliIInv
<1>4. CallOK(c)'
  BY <1>0 DEF CallOK, CliTypeOK, Alive
<1>5. CliTypeOK'
  BY <1>0, <1>1 DEF CliTypeOK
<1> QED  BY <1>0, <1>1, <1>3, <1>4, <1>5 DEF CliIInv

\* A call that returns with an error has no clawcli that lives.
LEMMA ErrorKeeps ==
  ASSUME CliIInv, NEW c \in Calls, cpc[c] \in {"lock", "loop", "reap"}, Locks(c) => Holds(c), Return(c, "err"),
         \A d \in Calls \ {c} : kid'[d] = kid[d] /\ pipe'[d] = pipe[d] /\ got'[d] = got[d] /\ out'[d] = out[d],
         UNCHANGED <<cjob, quits>>, kid'[c] \notin Alive, kid'[c] \in {"ok", "exit0"} => kid'[c] = kid[c],
         kid' \in [Calls -> {"none", "orphan", "exit0", "exit1", "killed"} \union Alive],
         pipe' \in [Calls -> Seq(Events)], got' \in [Calls -> Seq(Events)], out' \in [Calls -> Seq(Events)],
         \A x : Contains(got[c], x) \/ Contains(pipe[c], x) => Contains(got'[c], x) \/ Contains(pipe'[c], x)
  PROVE  CliIInv' /\ \A d \in Calls : answer[d] = "ok" => out'[d] = out[d] /\ answer'[d] = "ok"
<1>0. /\ CliTypeOK /\ CallOK(c)
      /\ cpc' = [cpc EXCEPT ![c] = "done"] /\ answer' = [answer EXCEPT ![c] = "err"]
      /\ side' \in [Calls -> Besides]
  BY DEF CliIInv, CliTypeOK, Return, Goto, Besides
<1>1. lockq' \in [Names -> Seq(Calls)] /\ Queues' /\ Holding'
  BY ReturnLocks
<1>2. \A d \in Calls \ {c} : Same(d)
  BY <1>0 DEF Same, CliTypeOK
<1>3. \A d \in Calls \ {c} : CallOK(d)'
  BY <1>2, <1>0, SameStays DEF CliIInv
<1>4. cpc'[c] = "done" /\ answer'[c] = "err" /\ answer[c] = "none"
  BY <1>0 DEF CallOK, CliTypeOK
<1>5. CallOK(c)'
  BY <1>4, <1>0 DEF CallOK
<1>6. CliTypeOK'
  BY <1>0, <1>1 DEF CliTypeOK
<1> QED  BY <1>1, <1>2, <1>3, <1>4, <1>5, <1>6 DEF CliIInv, Same

\* Silence, and an error read by a call that is not streamed, kill the child.
LEMMA KillIs ==
  ASSUME CliTypeOK, NEW c \in Calls, kid' = Kill(c)
  PROVE  /\ kid' \in [Calls -> {"none", "orphan", "exit0", "exit1", "killed"} \union Alive]
         /\ kid'[c] \notin Alive /\ (kid'[c] \in {"ok", "exit0"} => kid'[c] = kid[c])
         /\ \A d \in Calls \ {c} : kid'[d] = kid[d]
<1>1. kid \in [Calls -> {"none", "orphan", "exit0", "exit1", "killed"} \union Alive]
  BY DEF CliTypeOK
<1>2. CASE kid[c] \in Alive
  BY <1>1, <1>2 DEF Kill, Alive
<1>3. CASE kid[c] \notin Alive
  BY <1>1, <1>3 DEF Kill
<1> QED  BY <1>2, <1>3

LEMMA SpawnKeeps ==
  ASSUME CliIInv, NEW c \in Calls, Spawn(c) \/ SpawnFails(c) \/ Closed(c)
  PROVE  CliIInv' /\ \A d \in Calls : answer[d] = "ok" => out'[d] = out[d] /\ answer'[d] = "ok"
<1>0. CliTypeOK /\ CallOK(c)
  BY DEF CliIInv
<1>1. CASE SpawnFails(c)
  <2>1. /\ cpc[c] = "lock" /\ (Locks(c) => Holds(c)) /\ Return(c, "err")
        /\ UNCHANGED <<cjob, kid, pipe, got, out, quits>> /\ kid[c] \notin Alive
    BY <1>1, <1>0 DEF SpawnFails, CallOK, Alive
  <2> QED  BY <2>1, <1>0, ErrorKeeps DEF CliTypeOK
<1>2. CASE Spawn(c)
  <2>1. /\ cpc[c] = "lock" /\ (Locks(c) => Holds(c)) /\ cpc' = [cpc EXCEPT ![c] = "loop"]
        /\ kid' = [kid EXCEPT ![c] = "running"] /\ UNCHANGED <<cjob, lockq, pipe, got, out, side, answer, quits>>
    BY <1>2 DEF Spawn, Goto
  <2>2. \A d \in Calls : /\ cpc[d] \in Working => cpc'[d] \in Working
                         /\ cpc'[d] \in {"loop", "reap"} =>
                               cpc[d] \in {"loop", "reap"} \/ (Locks(d) => Holds(d))
    BY <2>1, <1>0 DEF Working, CliTypeOK
  <2>3. Queues' /\ Holding'
    BY <2>1, <2>2, LocksStay
  <2>4. \A d \in Calls \ {c} : Same(d)
    BY <2>1, <1>0 DEF Same, CliTypeOK
  <2>5. \A d \in Calls \ {c} : CallOK(d)'
    BY <2>4, <2>1, SameStays DEF CliIInv
  <2>6. CallOK(c)'
    BY <2>1, <1>0 DEF CallOK, CliTypeOK, Alive
  <2>7. CliTypeOK'
    BY <2>1, <1>0 DEF CliTypeOK, Alive
  <2> QED  BY <2>1, <2>3, <2>5, <2>6, <2>7 DEF CliIInv
<1>3. CASE Closed(c)
  <2>1. /\ cpc[c] = "loop" /\ kid[c] \in {"exit0", "exit1"} /\ pipe[c] = <<>>
        /\ cpc' = [cpc EXCEPT ![c] = "reap"] /\ UNCHANGED <<cjob, kid, lockq, pipe, got, out, side, answer, quits>>
    BY <1>3 DEF Closed, Exited, Goto
  <2>2. \A d \in Calls : /\ cpc[d] \in Working => cpc'[d] \in Working
                         /\ cpc'[d] \in {"loop", "reap"} =>
                               cpc[d] \in {"loop", "reap"} \/ (Locks(d) => Holds(d))
    BY <2>1, <1>0 DEF Working, CliTypeOK
  <2>3. Queues' /\ Holding'
    BY <2>1, <2>2, LocksStay
  <2>4. \A d \in Calls \ {c} : Same(d)
    BY <2>1, <1>0 DEF Same, CliTypeOK
  <2>5. \A d \in Calls \ {c} : CallOK(d)'
    BY <2>4, <2>1, SameStays DEF CliIInv
  <2>6. CallOK(c)'
    BY <2>1, <1>0 DEF CallOK, CliTypeOK, Alive
  <2>7. CliTypeOK'
    BY <2>1, <1>0 DEF CliTypeOK
  <2> QED  BY <2>1, <2>3, <2>5, <2>6, <2>7 DEF CliIInv
<1> QED  BY <1>1, <1>2, <1>3

LEMMA SilenceKeeps ==
  ASSUME CliIInv, NEW c \in Calls, Silence(c)
  PROVE  CliIInv' /\ \A d \in Calls : answer[d] = "ok" => out'[d] = out[d] /\ answer'[d] = "ok"
<1>1. /\ CliTypeOK /\ CallOK(c) /\ cpc[c] = "loop" /\ Return(c, "err") /\ kid' = Kill(c)
      /\ out' = IF cjob[c].stream THEN [out EXCEPT ![c] = Append(@, "stalled")] ELSE out
      /\ UNCHANGED <<cjob, pipe, got, quits>> /\ (Locks(c) => Holds(c))
  BY DEF Silence, Silent, CliIInv, Holding
<1>2. out \in [Calls -> Seq(Events)] /\ Append(out[c], "stalled") \in Seq(Events)
  <2>1. out[c] \in Seq(Events) /\ "stalled" \in Events
    BY <1>1 DEF CliTypeOK, Events
  <2> QED  BY <2>1, <1>1, AppendIs DEF CliTypeOK
<1>3. out' \in [Calls -> Seq(Events)] /\ \A d \in Calls \ {c} : out'[d] = out[d]
  BY <1>1, <1>2
<1> QED  BY <1>1, <1>3, KillIs, ErrorKeeps DEF CliTypeOK

\* An event that is read goes from the pipe to what has been read.
LEMMA ReadMoves ==
  ASSUME CliTypeOK, NEW c \in Calls, pipe[c] # <<>>,
         got' = [got EXCEPT ![c] = Append(@, Head(pipe[c]))], pipe' = [pipe EXCEPT ![c] = Tail(@)]
  PROVE  /\ pipe' \in [Calls -> Seq(Events)] /\ got' \in [Calls -> Seq(Events)]
         /\ Head(pipe[c]) \in Events /\ got'[c] = Append(got[c], Head(pipe[c]))
         /\ \A d \in Calls \ {c} : pipe'[d] = pipe[d] /\ got'[d] = got[d]
         /\ \A x : Contains(got[c], x) \/ Contains(pipe[c], x) => Contains(got'[c], x) \/ Contains(pipe'[c], x)
<1> DEFINE e == Head(pipe[c])
<1>1. pipe \in [Calls -> Seq(Events)] /\ got \in [Calls -> Seq(Events)] /\ pipe[c] \in Seq(Events)
      /\ got[c] \in Seq(Events)
  BY DEF CliTypeOK
<1>2. e \in Events /\ Tail(pipe[c]) \in Seq(Events) /\ Append(got[c], e) \in Seq(Events)
  BY <1>1, TailIs, AppendIs
<1>3. pipe'[c] = Tail(pipe[c]) /\ got'[c] = Append(got[c], e)
  BY <1>1
<1>4. \A x : Contains(pipe[c], x) => x = e \/ Contains(Tail(pipe[c]), x)
  BY <1>1, HeadOrTail
<1>5. Contains(Append(got[c], e), e) /\ \A x : Contains(got[c], x) => Contains(Append(got[c], e), x)
  BY <1>1, <1>2, AppendContains
<1> HIDE DEF e
<1>6. pipe' \in [Calls -> Seq(Events)] /\ got' \in [Calls -> Seq(Events)]
      /\ \A d \in Calls \ {c} : pipe'[d] = pipe[d] /\ got'[d] = got[d]
  BY <1>1, <1>2 DEF e
<1> QED  BY <1>2, <1>3, <1>4, <1>5, <1>6 DEF e

LEMMA ReadKeeps ==
  ASSUME CliIInv, NEW c \in Calls, Read(c)
  PROVE  CliIInv' /\ \A d \in Calls : answer[d] = "ok" => out'[d] = out[d] /\ answer'[d] = "ok"
<1> DEFINE e == Head(pipe[c])
<1>1. /\ CliTypeOK /\ CallOK(c) /\ cpc[c] = "loop" /\ pipe[c] # <<>> /\ UNCHANGED <<cjob, quits>>
      /\ got' = [got EXCEPT ![c] = Append(@, Head(pipe[c]))] /\ pipe' = [pipe EXCEPT ![c] = Tail(@)]
      /\ (Locks(c) => Holds(c))
  BY DEF Read, CliIInv, Holding
<1>2. /\ pipe' \in [Calls -> Seq(Events)] /\ got' \in [Calls -> Seq(Events)]
      /\ e \in Events /\ got'[c] = Append(got[c], e)
      /\ \A d \in Calls \ {c} : pipe'[d] = pipe[d] /\ got'[d] = got[d]
      /\ \A x : Contains(got[c], x) \/ Contains(pipe[c], x) => Contains(got'[c], x) \/ Contains(pipe'[c], x)
  BY <1>1, ReadMoves
<1>3. CASE UNCHANGED <<cpc, answer, lockq, kid, side>>
  <2>1. \/ cjob[c].stream /\ out' = [out EXCEPT ![c] = Append(@, e)]
        \/ ~cjob[c].stream /\ out' = out
    BY <1>1, <1>3 DEF Read
  <2>2. /\ out' \in [Calls -> Seq(Events)] /\ \A d \in Calls \ {c} : out'[d] = out[d]
        /\ cjob[c].stream => out'[c] = Append(out[c], e)
    <3>1. out \in [Calls -> Seq(Events)] /\ Append(out[c], e) \in Seq(Events)
      BY <1>1, <1>2, AppendIs DEF CliTypeOK
    <3> HIDE DEF e
    <3> QED  BY <3>1, <2>1
  <2> HIDE DEF e
  <2>3. cpc'[c] = "loop" /\ answer[c] = "none" /\ answer'[c] = "none" /\ kid'[c] = kid[c]
    BY <1>1, <1>3 DEF CallOK
  <2>4. CallOK(c)'
    BY <1>1, <1>2, <1>3, <2>2, <2>3 DEF CallOK
  <2>5. \A d \in Calls \ {c} : Same(d)
    BY <1>2, <1>3, <2>2 DEF Same
  <2>6. \A d \in Calls \ {c} : CallOK(d)'
    BY <2>5, <1>1, SameStays DEF CliIInv
  <2>7. Queues' /\ Holding'
    BY <1>1, <1>3, LocksStay
  <2>8. CliTypeOK'
    BY <1>1, <1>2, <1>3, <2>2 DEF CliTypeOK
  <2>9. answer[c] # "ok"
    BY <2>3
  <2> QED  BY <2>4, <2>5, <2>6, <2>7, <2>8, <2>9, <1>3 DEF CliIInv, Same
<1>4. CASE ~UNCHANGED <<cpc, answer, lockq, kid, side>>
  <2>1. Return(c, "err") /\ kid' = Kill(c) /\ out' = out
    BY <1>4 DEF Read
  <2> QED  BY <2>1, <1>1, <1>2, KillIs, ErrorKeeps DEF CliTypeOK
<1> QED  BY <1>3, <1>4

LEMMA ReapKeeps ==
  ASSUME CliIInv, NEW c \in Calls, Reap(c)
  PROVE  CliIInv' /\ \A d \in Calls : answer[d] = "ok" => out'[d] = out[d] /\ answer'[d] = "ok"
<1> DEFINE r == IF kid[c] = "exit0" THEN "ok" ELSE "err"
<1>1. /\ CliTypeOK /\ CallOK(c) /\ cpc[c] = "reap" /\ Return(c, r)
      /\ UNCHANGED <<cjob, kid, pipe, got, out, quits>> /\ (Locks(c) => Holds(c))
  BY DEF Reap, CliIInv, Holding
<1>2. /\ cpc' = [cpc EXCEPT ![c] = "done"] /\ answer' = [answer EXCEPT ![c] = r] /\ r \in {"ok", "err"}
      /\ side' \in [Calls -> Besides]
  BY <1>1 DEF Return, Goto, CliTypeOK, Besides
<1>3. lockq' \in [Names -> Seq(Calls)] /\ Queues' /\ Holding'
  BY <1>1, ReturnLocks
<1>4. \A d \in Calls \ {c} : Same(d)
  BY <1>1, <1>2 DEF Same, CliTypeOK
<1>5. \A d \in Calls \ {c} : CallOK(d)'
  BY <1>4, <1>1, SameStays DEF CliIInv
<1>6. cpc'[c] = "done" /\ answer'[c] = r /\ answer[c] = "none"
  BY <1>1, <1>2 DEF CallOK, CliTypeOK
<1>7. CallOK(c)'
  BY <1>1, <1>6 DEF CallOK, Alive
<1>8. CliTypeOK'
  BY <1>1, <1>2, <1>3 DEF CliTypeOK
<1> QED  BY <1>3, <1>4, <1>5, <1>6, <1>7, <1>8 DEF CliIInv, Same

LEMMA QuitKeeps == ASSUME CliIInv, Quit PROVE CliIInv'
<1>1. /\ CliTypeOK /\ quits < MaxQuits /\ quits' = quits + 1
      /\ cpc' = [c \in Calls |-> IF Active(c) THEN "gone" ELSE cpc[c]]
      /\ lockq' = [n \in Names |-> <<>>]
      /\ kid' = [c \in Calls |-> IF kid[c] \in Alive THEN "orphan" ELSE kid[c]]
      /\ pipe' = [c \in Calls |-> IF Active(c) THEN <<>> ELSE pipe[c]]
      /\ side' \in [Calls -> Besides] /\ UNCHANGED <<cjob, got, out, answer>>
  BY DEF Quit, CliIInv, Besides
<1>2. <<>> \in Seq(Calls) /\ <<>> \in Seq(Events) /\ Len(<<>>) = 0
  BY EmptySeq
<1>3. CliTypeOK'
  <2>1. quits' \in 0..MaxQuits
    BY <1>1, CliAssumption DEF CliTypeOK, CliAssumption
  <2> QED  BY <1>1, <1>2, <2>1 DEF CliTypeOK, Alive
<1>4. ASSUME NEW c \in Calls PROVE CallOK(c)'
  <2>1. CallOK(c)
    BY DEF CliIInv
  <2>2. CASE Active(c)
    <3>1. cpc'[c] = "gone" /\ pipe'[c] = <<>> /\ kid'[c] \notin Alive /\ answer'[c] = "none"
      BY <1>1, <2>1, <2>2 DEF CallOK, Active, Alive
    <3> QED  BY <3>1, <1>1 DEF CallOK
  <2>3. CASE ~Active(c)
    <3>1. cpc'[c] = cpc[c] /\ pipe'[c] = pipe[c] /\ kid[c] \notin Alive /\ kid'[c] = kid[c]
      BY <1>1, <2>1, <2>3 DEF CallOK, Active
    <3> QED  BY <3>1, <2>1, <1>1 DEF CallOK
  <2> QED  BY <2>2, <2>3
<1>5. Queues'
  BY <1>1, <1>2 DEF Queues, Queue, Once
<1>6. Holding'
  BY <1>1 DEF Holding, Active
<1> QED  BY <1>3, <1>4, <1>5, <1>6 DEF CliIInv

\* A call's answer is given once, with what had been handed on by then.
LEMMA BridgeKeeps ==
  ASSUME CliIInv, NEW c \in Calls, Bridge(c)
  PROVE  CliIInv' /\ \A d \in Calls : answer[d] = "ok" => out'[d] = out[d] /\ answer'[d] = "ok"
  BY SpawnKeeps, ReadKeeps, SilenceKeeps, ReapKeeps DEF Bridge

LEMMA CliKeeps == ASSUME CliIInv, [CliNext]_cli PROVE CliIInv'
<1>1. CASE CliNext
  BY <1>1, QuitKeeps, BeginKeeps, KidsKeep, BridgeKeeps DEF CliNext
<1>2. CASE UNCHANGED cli
  <2>1. UNCHANGED <<cjob, cpc, lockq, kid, pipe, got, out, side, answer, quits>>
    BY <1>2 DEF cli
  <2>2. CliTypeOK' /\ \A c \in Calls : CallOK(c)'
    BY <2>1, SameStays DEF CliIInv, CliTypeOK, Same
  <2>3. Queues' /\ Holding'
    BY <2>1, LocksStay
  <2> QED  BY <2>2, <2>3 DEF CliIInv
<1> QED  BY <1>1, <1>2

LEMMA CliSafe == CliIInv => CliInv
<1> SUFFICES ASSUME CliIInv PROVE CliInv
  OBVIOUS
<1>1. OneCliPerInstance
  <2> SUFFICES ASSUME NEW c \in Calls, NEW d \in Calls, c # d, kid[c] \in Alive, kid[d] \in Alive, Locks(c),
                      Lock(c) = Lock(d)
               PROVE  FALSE
    BY DEF OneCliPerInstance
  <2>1. cpc[c] = "loop" /\ cpc[d] = "loop" /\ Locks(d)
    BY DEF CliIInv, CallOK, Locks, Lock
  <2> QED  BY <2>1, OneHolder DEF CliIInv, Holding
<1>2. NoKidOutlivesCall
  BY DEF NoKidOutlivesCall, CliIInv, CallOK
<1>3. OkIsWhole
  <2> SUFFICES ASSUME NEW c \in Calls, answer[c] = "ok"
               PROVE  /\ kid[c] = "exit0" /\ pipe[c] = <<>> /\ Contains(got[c], "complete")
                      /\ cjob[c].stream => out[c] = got[c]
    BY DEF OkIsWhole
  <2>1. CallOK(c)
    BY DEF CliIInv
  <2> QED  BY <2>1, NothingContained DEF CallOK
<1> QED  BY <1>1, <1>2, <1>3 DEF CliInv, CliIInv

\* The calls of the bridge, for any number of them and of instances, and
\* whatever clawcli says: one clawcli per locked instance while the GUI lives,
\* none left behind by a call that has returned, and an Ok only when all that
\* was said has been read and handed on (cli_bridge.rs:24-58, 185-230).
THEOREM CliHolds == CliSpec => []CliInv
  BY CliStart, CliKeeps, CliSafe, PTL DEF CliSpec

-----------------------------------------------------------------------------
(* An installation.                                                         *)

Answered(k, to, said) == to[k] = "ok" /\ Contains(said[k], "complete")
Real(k) == Answered(k, answer, out)
Messages == [kind : Listeners, from : Attempts]

\* What is on its way to the window: verdicts of tasks that have given one, and
\* only real ones of completion.
WireOK ==
  /\ wire \in Seq(Messages)
  /\ \A i \in 1..Len(wire) : /\ wire[i].kind # "progress" => task[wire[i].from] \in {"drop", "done"}
                             /\ wire[i].kind = "complete" => Real(wire[i].from)

\* A task is invoked once.
NotYet == \A k \in Attempts : page[k] # "invoked" => task[k] = "none"

WizardIInv == WizardTypeOK /\ NotYet /\ FlagIsOneTask /\ WireOK /\ VerdictIsLast /\ CompleteIsReal

LEMMA WizardStart == WizardInit => WizardIInv
<1> SUFFICES ASSUME WizardInit PROVE WizardIInv
  OBVIOUS
<1>1. <<>> \in Seq(Messages) /\ Len(<<>>) = 0
  BY EmptySeq
<1>2. 0 \in 0..MaxAttempts /\ 0 \in 0..6
  BY WizardAssumption DEF WizardAssumption
<1>3. WizardTypeOK
  <2>1. running \in BOOLEAN
    BY DEF WizardInit
  <2>2. hooks \subseteq (Listeners \X Attempts)
    BY DEF WizardInit
  <2>3. owned \in [Listeners -> 0..MaxAttempts] /\ armed \in [Attempts -> 0..6] /\ timer \in 0..MaxAttempts
    BY <1>2 DEF WizardInit
  <2> QED  BY <2>1, <2>2, <2>3 DEF WizardInit, WizardTypeOK
<1>4. FlagIsOneTask
  BY DEF WizardInit, FlagIsOneTask, Live
<1>5. WireOK /\ VerdictIsLast
  BY <1>1 DEF WizardInit, WireOK, VerdictIsLast
<1>6. NotYet /\ CompleteIsReal
  BY DEF WizardInit, NotYet, CompleteIsReal
<1> QED  BY <1>3, <1>4, <1>5, <1>6 DEF WizardIInv

\* What the bridge does is no business of the wizard's, but for the answers.
LEMMA BridgeSparesWizard ==
  ASSUME WizardIInv, UNCHANGED wizard, \A k \in Attempts : Real(k) => Real(k)'
  PROVE  WizardIInv'
<1>1. UNCHANGED <<running, task, sent, wire, hooks, owned, armed, page, finished, timer, view>>
  BY DEF wizard
<1>2. \A i \in 1..Len(wire) : wire[i] \in Messages
  BY ElementOfSeq DEF WizardIInv, WireOK
<1>3. WireOK'
  <2>1. ASSUME NEW i \in 1..Len(wire) PROVE wire'[i].kind = "complete" => Real(wire[i].from)'
    BY <1>1, <1>2 DEF WizardIInv, WireOK, Messages
  <2> QED  BY <2>1, <1>1 DEF WizardIInv, WireOK, Real, Answered
<1>4. CompleteIsReal'
  BY <1>1 DEF WizardIInv, CompleteIsReal, Real, Answered
<1>5. WizardTypeOK' /\ NotYet' /\ FlagIsOneTask' /\ VerdictIsLast'
  BY <1>1 DEF WizardIInv, WizardTypeOK, NotYet, FlagIsOneTask, Live, VerdictIsLast
<1> QED  BY <1>3, <1>4, <1>5 DEF WizardIInv

LEMMA DetachTypes ==
  ASSUME WizardTypeOK, DetachAll
  PROVE  hooks' \subseteq (Listeners \X Attempts) /\ owned' \in [Listeners -> 0..MaxAttempts] /\ timer' \in 0..MaxAttempts
  BY WizardAssumption DEF WizardTypeOK, DetachAll, WizardAssumption

\* What the page does by itself.
LEMMA HookedIs ==
  ASSUME WizardTypeOK, NEW k \in Attempts, armed[k] < 6
  PROVE  Hooked(k) \in Listeners /\ armed[k] + 1 \in 0..6
<1>1. armed[k] \in 0..5
  BY DEF WizardTypeOK
<1>2. armed[k] \div 2 + 1 \in 1..3 /\ armed[k] + 1 \in 0..6
  BY <1>1
<1> DEFINE m == armed[k] \div 2 + 1
<1> HIDE DEF m
<1>3. m \in 1..3
  BY <1>2 DEF m
<1>4. m = 1 \/ m = 2 \/ m = 3
  BY <1>3
<1>5. Kinds[m] \in Listeners
  BY <1>4 DEF Kinds, Listeners
<1> QED  BY <1>2, <1>5 DEF Hooked, m

LEMMA PageKeeps ==
  ASSUME WizardIInv, NEW k \in Attempts, Start(k) \/ Register(k) \/ Registered(k) \/ Stall
  PROVE  WizardIInv'
<1>0. /\ WizardTypeOK /\ UNCHANGED <<running, task, sent, wire>> /\ UNCHANGED cli
      /\ UNCHANGED <<cjob, cpc, lockq, kid, pipe, got, out, side, answer, quits>>
  BY DEF WizardIInv, Start, Register, Registered, Stall, cli
<1>1. FlagIsOneTask' /\ WireOK' /\ VerdictIsLast'
  BY <1>0 DEF WizardIInv, FlagIsOneTask, Live, WireOK, Real, Answered, VerdictIsLast
<1>2. CASE Start(k)
  <2>1. /\ page[k] = "idle" /\ page' = [page EXCEPT ![k] = "listen"] /\ view' = "installing" /\ timer' = k
        /\ hooks' \subseteq hooks /\ owned' = [x \in Listeners |-> 0] /\ armed' = armed
    BY <1>2 DEF Start
  <2>2. k \in 0..MaxAttempts /\ 0 \in 0..MaxAttempts
    BY WizardAssumption DEF WizardAssumption, Attempts
  <2>3. WizardTypeOK'
    BY <2>1, <2>2, <1>0 DEF WizardTypeOK
  <2>4. NotYet'
    BY <2>1, <1>0 DEF WizardIInv, NotYet, WizardTypeOK
  <2>5. CompleteIsReal'
    BY <2>1 DEF CompleteIsReal
  <2> QED  BY <1>1, <2>3, <2>4, <2>5 DEF WizardIInv
<1>3. CASE Register(k) \/ Registered(k)
  <2>0. armed[k] \in 0..6 /\ (armed[k] % 2 = 1 => armed[k] < 6)
    BY <1>0 DEF WizardTypeOK
  <2>1. /\ armed[k] < 6 /\ armed' = [armed EXCEPT ![k] = @ + 1]
        /\ UNCHANGED <<page, finished, timer, view>>
        /\ hooks' \subseteq hooks \union {<<Hooked(k), k>>}
        /\ owned' = owned \/ owned' = [owned EXCEPT ![Hooked(k)] = k]
    BY <1>3, <2>0 DEF Register, Registered
  <2>2. Hooked(k) \in Listeners /\ armed[k] + 1 \in 0..6
    BY <2>1, <1>0, HookedIs
  <2>3. k \in 0..MaxAttempts
    BY WizardAssumption DEF WizardAssumption, Attempts
  <2> DEFINE h == Hooked(k)
  <2> HIDE DEF h
  <2>4. hooks' \subseteq (Listeners \X Attempts)
    BY <2>1, <2>2, <1>0 DEF WizardTypeOK
  <2>5. owned' \in [Listeners -> 0..MaxAttempts]
    BY <2>1, <2>2, <2>3, <1>0 DEF WizardTypeOK
  <2>6. armed' \in [Attempts -> 0..6]
    BY <2>1, <2>2, <1>0 DEF WizardTypeOK
  <2>7. WizardTypeOK'
    BY <2>1, <2>4, <2>5, <2>6, <1>0 DEF WizardTypeOK
  <2>8. NotYet' /\ CompleteIsReal'
    BY <2>1, <1>0 DEF WizardIInv, NotYet, CompleteIsReal
  <2> QED  BY <1>1, <2>7, <2>8 DEF WizardIInv
<1>4. CASE Stall
  <2>1. DetachAll /\ view' = "stalled" /\ UNCHANGED <<armed, page, finished>>
    BY <1>4 DEF Stall
  <2>2. WizardTypeOK'
    BY <2>1, <1>0, DetachTypes DEF WizardTypeOK
  <2>3. NotYet' /\ CompleteIsReal'
    BY <2>1, <1>0 DEF WizardIInv, NotYet, CompleteIsReal
  <2> QED  BY <1>1, <2>2, <2>3 DEF WizardIInv
<1> QED  BY <1>2, <1>3, <1>4

LEMMA InvokeKeeps ==
  ASSUME WizardIInv, NEW k \in Attempts, Invoke(k)
  PROVE  WizardIInv'
<1>0. /\ WizardTypeOK /\ page[k] = "listen" /\ page' = [page EXCEPT ![k] = "invoked"] /\ running' = TRUE
      /\ UNCHANGED <<sent, wire, armed>> /\ task[k] = "none"
      /\ UNCHANGED <<cjob, cpc, lockq, kid, pipe, got, out, side, answer, quits>>
  BY DEF WizardIInv, Invoke, cli, NotYet
<1>1. CASE running
  <2>1. DetachAll /\ view' = "error" /\ task' = task
    BY <1>1 DEF Invoke, Finish
  <2>2. WizardTypeOK'
    BY <2>1, <1>0, DetachTypes DEF WizardTypeOK
  <2>3. NotYet' /\ CompleteIsReal'
    BY <2>1, <1>0 DEF WizardIInv, NotYet, CompleteIsReal, WizardTypeOK
  <2>4. FlagIsOneTask' /\ WireOK' /\ VerdictIsLast'
    BY <1>1, <2>1, <1>0 DEF WizardIInv, FlagIsOneTask, Live, WireOK, Real, Answered, VerdictIsLast
  <2> QED  BY <2>2, <2>3, <2>4 DEF WizardIInv
<1>2. CASE ~running
  <2>1. task' = [task EXCEPT ![k] = "probe"] /\ UNCHANGED <<hooks, owned, finished, timer, view>>
    BY <1>2 DEF Invoke
  <2>2. WizardTypeOK'
    BY <2>1, <1>0 DEF WizardTypeOK
  <2>3. NotYet' /\ CompleteIsReal'
    BY <2>1, <1>0 DEF WizardIInv, NotYet, CompleteIsReal, WizardTypeOK
  <2>4. FlagIsOneTask'
    <3>1. \A j \in Attempts : ~Live(j)
      BY <1>2 DEF WizardIInv, FlagIsOneTask
    <3>2. \A j \in Attempts : Live(j)' <=> j = k
      BY <2>1, <3>1, <1>0 DEF Live, WizardTypeOK
    <3> QED  BY <3>2, <1>0 DEF FlagIsOneTask
  <2>5. WireOK'
    <3>1. \A i \in 1..Len(wire) : task'[wire[i].from] = task[wire[i].from] \/ wire[i].kind = "progress"
      <4>1. \A i \in 1..Len(wire) : wire[i] \in Messages
        BY ElementOfSeq DEF WizardIInv, WireOK
      <4> QED  BY <4>1, <2>1, <1>0 DEF WizardIInv, WireOK, WizardTypeOK, Messages
    <3> QED  BY <3>1, <1>0 DEF WizardIInv, WireOK, Real, Answered
  <2>6. VerdictIsLast'
    BY <1>0 DEF WizardIInv, VerdictIsLast
  <2> QED  BY <2>2, <2>3, <2>4, <2>5, <2>6 DEF WizardIInv
<1> QED  BY <1>1, <1>2

\* What the page gets.
LEMMA DeliverKeeps ==
  ASSUME WizardIInv, Deliver
  PROVE  WizardIInv'
<1> DEFINE e == Head(wire)
           ears == {k \in Attempts : <<e.kind, k>> \in hooks}
<1>0. /\ WizardTypeOK /\ wire # <<>> /\ wire' = Tail(wire) /\ wire \in Seq(Messages)
      /\ UNCHANGED <<running, task, sent, armed, page>>
      /\ UNCHANGED <<cjob, cpc, lockq, kid, pipe, got, out, side, answer, quits>>
  BY DEF WizardIInv, WireOK, Deliver, cli
<1>1. /\ wire' \in Seq(Messages) /\ e \in Messages /\ e = wire[1] /\ 1 \in 1..Len(wire)
      /\ \A i \in 1..Len(wire') : i + 1 \in 1..Len(wire) /\ wire'[i] = wire[i + 1]
  BY <1>0, TailIs
<1>2. WireOK'
  BY <1>0, <1>1 DEF WizardIInv, WireOK, Real, Answered
<1>3. VerdictIsLast'
  <2>1. SUFFICES ASSUME NEW i \in 1..Len(wire'), NEW j \in 1..Len(wire'), i < j,
                        wire'[i].kind # "progress", wire'[j].kind = "progress"
                 PROVE  wire'[i].from # wire'[j].from
    BY DEF VerdictIsLast
  <2>2. i + 1 \in 1..Len(wire) /\ j + 1 \in 1..Len(wire) /\ wire'[i] = wire[i + 1] /\ wire'[j] = wire[j + 1]
    BY <1>1
  <2>3. i + 1 < j + 1
    BY <2>1, <1>1, LenProperties
  <2> QED  BY <2>1, <2>2, <2>3 DEF WizardIInv, VerdictIsLast
<1>4. FlagIsOneTask' /\ NotYet'
  BY <1>0 DEF WizardIInv, FlagIsOneTask, Live, NotYet
<1>5. e.kind = "complete" => \E k \in Attempts : Real(k)
  BY <1>1 DEF WizardIInv, WireOK, Messages
<1>6. WizardTypeOK' /\ CompleteIsReal'
  <2>1. CASE UNCHANGED <<hooks, owned, timer, view>>
    BY <2>1, <1>0 DEF WizardIInv, WizardTypeOK, CompleteIsReal
  <2>2. CASE UNCHANGED <<hooks, owned, view>> /\ timer' \in Attempts
    <3>1. timer' \in 0..MaxAttempts
      BY <2>2, WizardAssumption DEF WizardAssumption, Attempts
    <3> QED  BY <2>2, <3>1, <1>0 DEF WizardIInv, WizardTypeOK, CompleteIsReal
  <2>3. CASE DetachAll /\ view' = IF e.kind = "complete" THEN "complete" ELSE "error"
    <3>1. WizardTypeOK'
      BY <2>3, <1>0, DetachTypes DEF WizardTypeOK
    <3>2. CompleteIsReal'
      BY <2>3, <1>5, <1>0 DEF CompleteIsReal, Real, Answered
    <3> QED  BY <3>1, <3>2
  <2>4. \/ UNCHANGED <<hooks, owned, timer, view>>
        \/ UNCHANGED <<hooks, owned, view>> /\ timer' \in Attempts
        \/ DetachAll /\ view' = IF e.kind = "complete" THEN "complete" ELSE "error"
    BY DEF Deliver
  <2> QED  BY <2>1, <2>2, <2>3, <2>4
<1> QED  BY <1>2, <1>3, <1>4, <1>6 DEF WizardIInv

\* A task that goes on in its own way, with or without a message.
LEMMA TaskGoesOn ==
  ASSUME WizardIInv, NEW k \in Attempts, NEW s \in {"cli", "drop"}, Live(k), task[k] = s \/ task' = [task EXCEPT ![k] = s],
         task[k] = s => task' = task, task[k] # "drop",
         UNCHANGED <<running, hooks, owned, armed, page, finished, timer, view>>,
         \A j \in Attempts : Real(j) => Real(j)',
         \/ wire' = wire
         \/ \E m \in Messages : /\ wire' = Append(wire, m) /\ m.from = k
                                /\ m.kind = "progress" => s = "cli"
                                /\ m.kind # "progress" => s = "drop"
                                /\ m.kind = "complete" => Real(k)
  PROVE  WizardIInv'
<1>0. /\ WizardTypeOK /\ NotYet /\ FlagIsOneTask /\ WireOK /\ VerdictIsLast /\ CompleteIsReal
      /\ wire \in Seq(Messages)
  BY DEF WizardIInv, WireOK
<1>1. task' = [task EXCEPT ![k] = s]
  <2>1. task \in [Attempts -> {"none", "probe", "cli", "drop", "done"}]
    BY <1>0 DEF WizardTypeOK
  <2> QED  BY <2>1
<1>2. /\ task' \in [Attempts -> {"none", "probe", "cli", "drop", "done"}] /\ task'[k] = s
      /\ \A j \in Attempts : j # k => task'[j] = task[j]
  BY <1>0, <1>1 DEF WizardTypeOK
<1>3. WizardTypeOK'
  BY <1>0, <1>2 DEF WizardTypeOK
<1>4. \A j \in Attempts : Live(j)' <=> Live(j)
  BY <1>2 DEF Live
<1>5. FlagIsOneTask'
  BY <1>0, <1>4 DEF FlagIsOneTask
<1>6. NotYet'
  BY <1>0, <1>2 DEF NotYet, Live
<1>7. CompleteIsReal'
  BY <1>0 DEF CompleteIsReal, Real, Answered
<1>8. \A i \in 1..Len(wire) : wire[i] \in Messages /\ wire[i].from \in Attempts
  <2>1. \A i \in 1..Len(wire) : wire[i] \in Messages
    BY <1>0, ElementOfSeq
  <2> QED  BY <2>1 DEF Messages
<1>9. ASSUME NEW i \in 1..Len(wire)
      PROVE  /\ wire[i].kind # "progress" => task'[wire[i].from] \in {"drop", "done"} /\ wire[i].from # k
             /\ wire[i].kind = "complete" => Real(wire[i].from)'
  <2>1. wire[i].kind # "progress" => task[wire[i].from] \in {"drop", "done"}
    BY <1>0 DEF WireOK
  <2>2. task[k] \notin {"drop", "done"}
    BY DEF Live
  <2>3. wire[i].kind = "complete" => Real(wire[i].from)'
    <3>1. wire[i].from \in Attempts
      BY <1>8
    <3>2. Real(wire[i].from) => Real(wire[i].from)'
      BY <3>1
    <3> QED  BY <3>2, <1>0 DEF WireOK
  <2>4. wire[i].kind # "progress" => task'[wire[i].from] \in {"drop", "done"} /\ wire[i].from # k
    <3>1. wire[i].from \in Attempts
      BY <1>8
    <3> QED  BY <2>1, <2>2, <3>1, <1>2
  <2> QED  BY <2>3, <2>4
<1>10. CASE wire' = wire
  <2>1. WireOK'
    BY <1>0, <1>9, <1>10 DEF WireOK
  <2>2. VerdictIsLast'
    BY <1>0, <1>10 DEF VerdictIsLast
  <2> QED  BY <2>1, <2>2, <1>3, <1>5, <1>6, <1>7 DEF WizardIInv
<1>11. ASSUME NEW m \in Messages, wire' = Append(wire, m), m.from = k, m.kind = "progress" => s = "cli",
              m.kind # "progress" => s = "drop", m.kind = "complete" => Real(k)
       PROVE  WizardIInv'
  <2>1. /\ wire' \in Seq(Messages) /\ Len(wire) \in Nat
        /\ \A i \in 1..Len(wire) : wire'[i] = wire[i]
        /\ wire'[Len(wire) + 1] = m
        /\ \A i \in 1..Len(wire') : i \in 1..Len(wire) \/ i = Len(wire) + 1
    BY <1>0, <1>11, AppendIs
  <2>2. WireOK'
    <3>1. ASSUME NEW i \in 1..Len(wire')
          PROVE  /\ wire'[i].kind # "progress" => task'[wire'[i].from] \in {"drop", "done"}
                 /\ wire'[i].kind = "complete" => Answered(wire'[i].from, answer', out')
      <4>1. CASE i \in 1..Len(wire)
        BY <4>1, <2>1, <1>9 DEF Real, Answered
      <4>2. CASE i = Len(wire) + 1
        BY <4>2, <2>1, <1>11, <1>2 DEF Real, Answered
      <4> QED  BY <4>1, <4>2, <2>1
    <3> QED  BY <3>1, <2>1 DEF WireOK, Real, Answered
  <2>3. VerdictIsLast'
    <3>1. SUFFICES ASSUME NEW i \in 1..Len(wire'), NEW j \in 1..Len(wire'), i < j,
                          wire'[i].kind # "progress", wire'[j].kind = "progress"
                   PROVE  wire'[i].from # wire'[j].from
      BY DEF VerdictIsLast
    <3>2. CASE j \in 1..Len(wire)
      <4>1. i \in 1..Len(wire)
        BY <3>1, <3>2, <2>1
      <4>2. wire'[i] = wire[i] /\ wire'[j] = wire[j]
        BY <3>2, <4>1, <2>1
      <4> QED  BY <4>1, <4>2, <3>1, <3>2, <1>0 DEF VerdictIsLast
    <3>3. CASE j = Len(wire) + 1
      <4>1. i \in 1..Len(wire)
        BY <3>1, <3>3, <2>1
      <4>2. wire'[j] = m /\ wire'[i] = wire[i] /\ wire[i].kind # "progress"
        BY <4>1, <3>1, <3>3, <2>1
      <4>3. wire[i].from # k
        BY <4>1, <4>2, <1>9
      <4> QED  BY <4>2, <4>3, <1>11
    <3> QED  BY <3>2, <3>3, <2>1
  <2> QED  BY <2>2, <2>3, <1>3, <1>5, <1>6, <1>7 DEF WizardIInv
<1> QED  BY <1>10, <1>11

LEMMA TaskKeeps ==
  ASSUME CliIInv, WizardIInv, NEW k \in Attempts, TaskStep(k), \A c \in Calls : cjob[c].stream
  PROVE  WizardIInv' /\ CliIInv'
<1>0. Attempts = Calls /\ Listeners = {"progress", "complete", "failed"}
  BY WizardAssumption DEF WizardAssumption, Attempts, Listeners
<1>1. CASE ProbeOk(k)
  <2>1. /\ task[k] = "probe" /\ task' = [task EXCEPT ![k] = "cli"] /\ Begin(k)
        /\ UNCHANGED <<running, sent, wire, hooks, owned, armed, page, finished, timer, view>>
    BY <1>1 DEF ProbeOk, Task
  <2>2. CliIInv' /\ \A j \in Attempts : Real(j) => Real(j)'
    BY <2>1, <1>0, BeginKeeps DEF Real, Answered
  <2>3. WizardIInv'
    BY <2>1, <2>2, TaskGoesOn DEF Live
  <2> QED  BY <2>2, <2>3
<1>2. ASSUME NEW kind \in Listeners, Tell(kind, k), UNCHANGED cli
      PROVE  /\ wire' = Append(wire, [kind |-> kind, from |-> k]) /\ [kind |-> kind, from |-> k] \in Messages
             /\ CliIInv' /\ \A j \in Attempts : Real(j) <=> Real(j)'
  <2>1. UNCHANGED <<answer, out>> /\ CliIInv'
    BY <1>2, CliKeeps DEF cli
  <2> QED  BY <2>1, <1>2 DEF Tell, Messages, Real, Answered
<1>3. CASE ProbeFails(k)
  <2>1. /\ task[k] = "probe" /\ task' = [task EXCEPT ![k] = "drop"] /\ Tell("failed", k)
        /\ UNCHANGED <<running, hooks, owned, armed, page, finished, timer, view>> /\ UNCHANGED cli
    BY <1>3 DEF ProbeFails, Task
  <2> DEFINE m == [kind |-> "failed", from |-> k]
  <2>2. wire' = Append(wire, m) /\ m \in Messages /\ CliIInv' /\ \A j \in Attempts : Real(j) <=> Real(j)'
    BY <2>1, <1>0, <1>2
  <2>3. m.kind = "failed" /\ m.from = k
    OBVIOUS
  <2> HIDE DEF m
  <2>4. WizardIInv'
    BY <2>1, <2>2, <2>3, TaskGoesOn DEF Live
  <2> QED  BY <2>2, <2>4
<1>4. CASE Forward(k)
  <2>1. /\ task[k] = "cli" /\ task' = task /\ Tell("progress", k)
        /\ UNCHANGED <<running, hooks, owned, armed, page, finished, timer, view>> /\ UNCHANGED cli
    BY <1>4 DEF Forward
  <2> DEFINE m == [kind |-> "progress", from |-> k]
  <2>2. wire' = Append(wire, m) /\ m \in Messages /\ CliIInv' /\ \A j \in Attempts : Real(j) <=> Real(j)'
    BY <2>1, <1>0, <1>2
  <2>3. m.kind = "progress" /\ m.from = k
    OBVIOUS
  <2> HIDE DEF m
  <2>4. WizardIInv'
    BY <2>1, <2>2, <2>3, TaskGoesOn DEF Live
  <2> QED  BY <2>2, <2>4
<1>5. CASE Verdict(k)
  <2> DEFINE kind == IF answer[k] = "ok" THEN "complete" ELSE "failed"
             m == [kind |-> kind, from |-> k]
  <2>1. /\ task[k] = "cli" /\ task' = [task EXCEPT ![k] = "drop"] /\ Tell(kind, k)
        /\ UNCHANGED <<running, hooks, owned, armed, page, finished, timer, view>> /\ UNCHANGED cli
    BY <1>5 DEF Verdict, Task
  <2>2. wire' = Append(wire, m) /\ m \in Messages /\ CliIInv' /\ \A j \in Attempts : Real(j) <=> Real(j)'
    BY <2>1, <1>0, <1>2
  <2>3. m.kind = kind /\ m.from = k
    OBVIOUS
  <2>4. kind \in {"complete", "failed"} /\ (kind = "complete" => Real(k))
    <3>1. answer[k] = "ok" => Real(k)
      BY <1>0, CliSafe DEF CliInv, OkIsWhole, Real, Answered
    <3> QED  BY <3>1
  <2> HIDE DEF m, kind
  <2>5. WizardIInv'
    BY <2>1, <2>2, <2>3, <2>4, TaskGoesOn DEF Live
  <2> QED  BY <2>2, <2>5
<1>6. CASE DropGuard(k)
  <2>1. /\ task[k] = "drop" /\ task' = [task EXCEPT ![k] = "done"] /\ running' = FALSE
        /\ UNCHANGED <<sent, wire, hooks, owned, armed, page, finished, timer, view>> /\ UNCHANGED cli
        /\ UNCHANGED <<answer, out>>
    BY <1>6 DEF DropGuard, Task, cli
  <2>2. CliIInv'
    BY <2>1, CliKeeps
  <2>3. WizardTypeOK' /\ NotYet'
    BY <2>1 DEF WizardIInv, WizardTypeOK, NotYet
  <2>4. FlagIsOneTask'
    <3>1. \A j \in Attempts : Live(j) => j = k
      BY <2>1 DEF WizardIInv, FlagIsOneTask, Live
    <3>2. \A j \in Attempts : ~Live(j)'
      BY <2>1, <3>1 DEF WizardIInv, WizardTypeOK, Live
    <3> QED  BY <2>1, <3>2 DEF FlagIsOneTask
  <2>5. WireOK'
    <3>0. \A i \in 1..Len(wire) : wire[i] \in Messages
      BY ElementOfSeq DEF WizardIInv, WireOK
    <3>1. \A i \in 1..Len(wire) : wire[i].from \in Attempts
      BY <3>0 DEF Messages
    <3> QED  BY <2>1, <3>1 DEF WizardIInv, WizardTypeOK, WireOK, Real, Answered
  <2>6. VerdictIsLast' /\ CompleteIsReal'
    BY <2>1 DEF WizardIInv, VerdictIsLast, CompleteIsReal
  <2> QED  BY <2>2, <2>3, <2>4, <2>5, <2>6 DEF WizardIInv
<1> QED  BY <1>1, <1>3, <1>4, <1>5, <1>6 DEF TaskStep

-----------------------------------------------------------------------------
(* What the window shows: types.                                            *)

Verbs == {"start", "stop", "delete", "install"}
OpRecs == [at : {"new", "run", "emit", "refresh", "done"}, of : Instances \union {0}, verb : {"none"} \union Verbs]
EventRecs == [verb : Verbs, of : Instances]
ReaderRecs == [at : {"free", "list", "listed", "health"}, of : Instances \union {0}, verb : {"none"} \union Verbs,
               snap : SUBSET Instances, age : Nat]
ShownRecs == [list : SUBSET Instances, age : Nat]
PollRecs == [of : Instances, says : Healths \union {""}]
AskRecs == [of : Instances, gen : Nat]

WorldTypes == world \in [Instances -> {"absent", "stopped", "running"}] /\ gen \in [Instances -> Nat] /\ age \in Nat
OpTypes ==
  /\ op \in [Ops -> OpRecs]
  /\ \A o \in Ops : op[o].at # "new" => op[o].of \in Instances /\ op[o].verb \in Verbs
ReaderTypes ==
  /\ reader \in [Readers -> ReaderRecs]
  /\ \A r \in Readers : /\ reader[r].at = "health" => reader[r].of \in Instances
                        /\ reader[r].of = 0 => reader[r].verb = "none"
PageTypes == shown \in ShownRecs /\ tab \in Instances \union {0} /\ stage \in {"launch", "mounted", "listening"}
HealthTypes ==
  healths \in [Instances -> Healths] /\ polls \subseteq PollRecs /\ monitor \in {"alive", "off", "dead"}
TokenTypes ==
  asks \in Seq(AskRecs) /\ token \in [of : Instances \union {0}, gen : Nat] /\ (token.of # 0 => token.gen # 0)

SyncTypes ==
  WorldTypes /\ OpTypes /\ events \in Seq(EventRecs) /\ ReaderTypes /\ PageTypes /\ HealthTypes /\ TokenTypes

\* The first of some instances is one of them.
Below == {ss \in Nat \X Nat : ss[1] < ss[2]}

LEMMA BelowIs == IsWellFoundedOn(Below, Nat)
  BY NatLessThanWellFounded DEF OpToRel, Below

LEMMA FirstIs ==
  ASSUME NEW s \in SUBSET Instances
  PROVE  First(s) \in Instances \union {0} /\ (s # {} => First(s) \in s)
<1>1. CASE s = {}
  BY <1>1 DEF First
<1>2. CASE s # {}
  <2>1. s \subseteq Nat
    BY SyncAssumption
  <2>2. PICK i \in s : \A j \in s : ~(<<j, i>> \in Below)
    BY <1>2, <2>1, BelowIs, WFMin
  <2>3. \A j \in s : ~(j < i)
    BY <2>1, <2>2 DEF Below
  <2>4. First(s) \in s
    <3>1. \A j \in s : i <= j
      BY <2>1, <2>3
    <3> QED  BY <1>2, <3>1 DEF First
  <2> QED  BY <2>4
<1> QED  BY <1>1, <1>2

LEMMA HealIs ==
  ASSUME NEW sel \in Instances \union {0}, NEW list \in SUBSET Instances
  PROVE  Heal(sel, list) \in Instances \union {0} /\ (list # {} => Heal(sel, list) \in list)
  BY FirstIs DEF Heal

LEMMA ThereIs == There(world) \subseteq Instances
  BY DEF There

LEMMA NoReaderIs ==
  /\ NoReader \in ReaderRecs /\ NoReader.at = "free" /\ NoReader.of = 0 /\ NoReader.verb = "none"
  /\ NoReader.snap = {} /\ NoReader.age = 0
  BY DEF NoReader, ReaderRecs

LEMMA NoTokenIs == NoToken \in [of : Instances \union {0}, gen : Nat] /\ NoToken.of = 0
  BY DEF NoToken

LEMMA AskIs == ASSUME NEW i \in Instances PROVE Ask(i) \in AskRecs /\ Ask(i).of = i /\ Ask(i).gen = 0
  BY DEF Ask, AskRecs

LEMMA SyncTypesStart == SyncInit => SyncTypes
<1> SUFFICES ASSUME SyncInit PROVE SyncTypes
  OBVIOUS
<1>1. WorldTypes
  BY DEF SyncInit, WorldTypes
<1>2. NoOp \in OpRecs /\ NoOp.at = "new"
  BY DEF NoOp, OpRecs
<1>3. OpTypes
  BY <1>2 DEF SyncInit, OpTypes
<1>4. ReaderTypes
  BY NoReaderIs DEF SyncInit, ReaderTypes
<1>5. PageTypes
  BY DEF SyncInit, PageTypes, ShownRecs
<1>6. HealthTypes
  BY DEF SyncInit, HealthTypes, Healths
<1>7. TokenTypes
  BY NoTokenIs, EmptySeq DEF SyncInit, TokenTypes
<1>8. events \in Seq(EventRecs)
  BY EmptySeq DEF SyncInit
<1> QED  BY <1>1, <1>3, <1>4, <1>5, <1>6, <1>7, <1>8 DEF SyncTypes

\* Types of what the commands do.
LEMMA CommandTypes ==
  ASSUME SyncTypes, NEW o \in Ops,
         Command(o) \/ Effect(o) \/ Fails(o) \/ Announce(o) \/ \E r \in Readers : Refresh(o, r)
  PROVE  SyncTypes'
<1> USE DEF SyncTypes
<1>0. /\ op \in [Ops -> OpRecs] /\ op[o] \in OpRecs
      /\ \A x \in Ops : op[x].at # "new" => op[x].of \in Instances /\ op[x].verb \in Verbs
  BY DEF OpTypes
<1>1. CASE Command(o)
  <2>1. PICK i \in Instances, verb \in Verbs : op' = [op EXCEPT ![o] = [at |-> "run", verb |-> verb, of |-> i]]
    BY <1>1 DEF Command, Verbs
  <2>2. [at |-> "run", verb |-> verb, of |-> i] \in OpRecs
    BY DEF OpRecs
  <2>3. OpTypes'
    BY <2>1, <2>2, <1>0 DEF OpTypes
  <2> QED  BY <1>1, <2>3 DEF Command, WorldTypes, ReaderTypes, PageTypes, HealthTypes, TokenTypes
<1>2. ASSUME NEW at \in {"emit", "done", "refresh"}, op' = [op EXCEPT ![o].at = at], op[o].at # "new"
      PROVE  OpTypes'
  <2>1. /\ op'[o] \in OpRecs /\ op'[o].of = op[o].of /\ op'[o].verb = op[o].verb
        /\ op' \in [Ops -> OpRecs] /\ \A x \in Ops : x # o => op'[x] = op[x]
    BY <1>0, <1>2 DEF OpRecs
  <2> QED  BY <1>0, <1>2, <2>1 DEF OpTypes
<1>3. CASE Effect(o)
  <2>1. OpTypes'
    BY <1>3, <1>2 DEF Effect
  <2>2. op[o].of \in Instances /\ op[o].verb \in Verbs
    BY <1>3, <1>0 DEF Effect
  <2> DEFINE i == op[o].of
             v == op[o].verb
  <2>3. /\ world' = [world EXCEPT ![i] = After(v)]
        /\ gen' = IF v = "start" THEN [gen EXCEPT ![i] = @ + 1] ELSE gen
        /\ age' = IF v \in {"delete", "install"} THEN age + 1 ELSE age
    BY <1>3 DEF Effect
  <2>4. After(v) \in {"absent", "stopped", "running"}
    BY DEF After
  <2> HIDE DEF i, v
  <2>5. i \in Instances
    BY <2>2 DEF i
  <2>6. WorldTypes'
    BY <2>3, <2>4, <2>5 DEF WorldTypes
  <2> QED  BY <1>3, <2>1, <2>6 DEF Effect, ReaderTypes, PageTypes, HealthTypes, TokenTypes
<1>4. CASE Fails(o)
  <2>1. OpTypes'
    BY <1>4, <1>2 DEF Fails
  <2> QED  BY <1>4, <2>1 DEF Fails, WorldTypes, ReaderTypes, PageTypes, HealthTypes, TokenTypes
<1>5. CASE Announce(o)
  <2>1. op[o].at = "emit" /\ op' = [op EXCEPT ![o].at = IF op[o].verb = "install" THEN "done" ELSE "refresh"]
    BY <1>5 DEF Announce
  <2>2. OpTypes'
    BY <2>1, <1>2
  <2>3. op[o].of \in Instances /\ op[o].verb \in Verbs
    BY <2>1, <1>0
  <2> DEFINE e == [verb |-> op[o].verb, of |-> op[o].of]
  <2>4. e \in EventRecs
    BY <2>3 DEF EventRecs
  <2>5. events' = events \/ events' = Append(events, e)
    BY <1>5 DEF Announce
  <2> HIDE DEF e
  <2>6. events' \in Seq(EventRecs)
    BY <2>4, <2>5, AppendIs
  <2> QED  BY <1>5, <2>2, <2>6 DEF Announce, WorldTypes, ReaderTypes, PageTypes, HealthTypes, TokenTypes
<1>6. ASSUME NEW r \in Readers, Refresh(o, r) PROVE SyncTypes'
  <2>1. OpTypes'
    BY <1>6, <1>2 DEF Refresh
  <2>2. reader[r] = NoReader /\ reader' = [reader EXCEPT ![r].at = "list"] /\ reader \in [Readers -> ReaderRecs]
    BY <1>6 DEF Refresh, Free, ReaderTypes
  <2>3. /\ reader'[r] \in ReaderRecs /\ reader'[r].of = 0 /\ reader'[r].verb = "none" /\ reader'[r].at = "list"
        /\ reader' \in [Readers -> ReaderRecs] /\ \A q \in Readers : q # r => reader'[q] = reader[q]
    BY <2>2, NoReaderIs DEF ReaderRecs
  <2>4. ReaderTypes'
    BY <2>3 DEF ReaderTypes
  <2>5. shown \in ShownRecs /\ tab \in Instances \union {0} /\ shown.list \in SUBSET Instances
    BY DEF PageTypes, ShownRecs
  <2>6. tab' \in Instances \union {0}
    <3>1. First(shown.list \ {op[o].of}) \in Instances \union {0}
      BY <2>5, FirstIs
    <3> QED  BY <3>1, <2>5, <1>6, HealIs DEF Refresh
  <2> QED  BY <1>6, <2>1, <2>4, <2>6 DEF Refresh, WorldTypes, PageTypes, HealthTypes, TokenTypes
<1> QED  BY <1>1, <1>3, <1>4, <1>5, <1>6

\* Types of what the handlers do.
LEMMA PastIs ==
  ASSUME NEW rd \in ReaderRecs, rd.of # 0
  PROVE  LET past == [rd EXCEPT !.at = "health", !.snap = {}, !.age = 0]
         IN past \in ReaderRecs /\ past.at = "health" /\ past.of = rd.of /\ past.verb = rd.verb
  BY DEF ReaderRecs

LEMMA PastReads ==
  ASSUME ReaderTypes, NEW r \in Readers, reader' = [reader EXCEPT ![r] = Past(r)]
  PROVE  /\ ReaderTypes' /\ reader'[r] \in ReaderRecs /\ \A q \in Readers : q # r => reader'[q] = reader[q]
         /\ reader'[r].at \in {"free", "health"} /\ reader'[r].verb = reader[r].verb
         /\ (reader'[r].at = "free" => reader[r].verb = "none")
<1>1. reader \in [Readers -> ReaderRecs] /\ reader[r] \in ReaderRecs /\ reader'[r] = Past(r)
      /\ \A q \in Readers : q # r => reader'[q] = reader[q]
  BY DEF ReaderTypes
<1>2. reader[r].of \in Instances \union {0}
  BY <1>1 DEF ReaderRecs
<1>3. /\ Past(r) \in ReaderRecs /\ Past(r).at \in {"free", "health"} /\ Past(r).verb = reader[r].verb
      /\ Past(r).at = "free" => reader[r].verb = "none"
      /\ Past(r).at = "health" => Past(r).of \in Instances
      /\ Past(r).of = 0 => Past(r).verb = "none"
  <2>1. CASE reader[r].of = 0
    <3>1. Past(r) = NoReader /\ reader[r].verb = "none"
      BY <2>1 DEF Past, ReaderTypes
    <3> QED  BY <3>1, NoReaderIs
  <2>2. CASE reader[r].of # 0
    <3>1. /\ Past(r) \in ReaderRecs /\ Past(r).at = "health" /\ Past(r).of = reader[r].of
          /\ Past(r).verb = reader[r].verb
      BY <2>2, <1>1, PastIs DEF Past
    <3> QED  BY <3>1, <2>2, <1>2
  <2> QED  BY <2>1, <2>2
<1>4. ReaderTypes'
  <2>1. reader' \in [Readers -> ReaderRecs]
    BY <1>1, <1>3
  <2> QED  BY <1>1, <1>3, <2>1 DEF ReaderTypes
<1> QED  BY <1>1, <1>3, <1>4

\* A reader that has its list.
LEMMA ListedIs ==
  ASSUME ReaderTypes, age \in Nat, NEW r \in Readers, ListAnswers(r)
  PROVE  /\ ReaderTypes' /\ \A q \in Readers : q # r => reader'[q] = reader[q]
         /\ reader'[r].at = "listed" /\ reader'[r].snap = There(world) /\ reader'[r].age = age
         /\ reader'[r].verb = reader[r].verb
<1> DEFINE s == There(world)
<1>0. s \in SUBSET Instances /\ reader' = [reader EXCEPT ![r].at = "listed", ![r].snap = s, ![r].age = age]
  BY ThereIs DEF ListAnswers
<1> HIDE DEF s
<1>1. reader \in [Readers -> ReaderRecs] /\ reader[r] \in ReaderRecs
  BY DEF ReaderTypes
<1>2. /\ reader'[r] \in ReaderRecs /\ \A q \in Readers : q # r => reader'[q] = reader[q]
      /\ reader'[r].at = "listed" /\ reader'[r].snap = s /\ reader'[r].age = age
      /\ reader'[r].verb = reader[r].verb /\ reader'[r].of = reader[r].of
      /\ reader' \in [Readers -> ReaderRecs]
  BY <1>0, <1>1 DEF ReaderRecs
<1>3. ReaderTypes'
  BY <1>2 DEF ReaderTypes
<1> QED  BY <1>2, <1>3 DEF s

\* A reader that takes an event.
LEMMA TakenIs ==
  ASSUME ReaderTypes, NEW r \in Readers, NEW e \in EventRecs,
         reader' = [reader EXCEPT ![r] = [NoReader EXCEPT !.at = "list", !.of = e.of, !.verb = e.verb]]
  PROVE  /\ ReaderTypes' /\ \A q \in Readers : q # r => reader'[q] = reader[q]
         /\ reader'[r].at = "list" /\ reader'[r].verb = e.verb
<1> DEFINE rd == [NoReader EXCEPT !.at = "list", !.of = e.of, !.verb = e.verb]
<1>1. e.of \in Instances /\ e.verb \in Verbs /\ e.of # 0
  BY SyncAssumption DEF EventRecs
<1>2. rd \in ReaderRecs /\ rd.at = "list" /\ rd.of = e.of /\ rd.verb = e.verb
  BY <1>1, NoReaderIs DEF ReaderRecs
<1>3. reader \in [Readers -> ReaderRecs]
  BY DEF ReaderTypes
<1> HIDE DEF rd
<1>4. reader'[r] = rd /\ reader' \in [Readers -> ReaderRecs] /\ \A q \in Readers : q # r => reader'[q] = reader[q]
  BY <1>2, <1>3 DEF rd
<1>5. ReaderTypes'
  BY <1>1, <1>2, <1>4 DEF ReaderTypes
<1> QED  BY <1>2, <1>4, <1>5

LEMMA HeadIs ==
  ASSUME SyncTypes, events # <<>>
  PROVE  Head(events) \in EventRecs /\ Tail(events) \in Seq(EventRecs)
  BY TailIs DEF SyncTypes

LEMMA HandlerTypes ==
  ASSUME SyncTypes, NEW r \in Readers, Handle(r) \/ Reader(r) \/ ListFails(r)
  PROVE  SyncTypes'
<1> USE DEF SyncTypes
<1>1. CASE Handle(r)
  <2>1. /\ events # <<>> /\ events' = Tail(events)
        /\ reader' = [reader EXCEPT ![r] = [NoReader EXCEPT !.at = "list", !.of = Head(events).of,
                                                            !.verb = Head(events).verb]]
    BY <1>1 DEF Handle
  <2>2. Head(events) \in EventRecs /\ events' \in Seq(EventRecs)
    BY <2>1, HeadIs
  <2>3. ReaderTypes'
    BY <2>1, <2>2, TakenIs
  <2> QED  BY <1>1, <2>2, <2>3 DEF Handle, WorldTypes, OpTypes, PageTypes, HealthTypes, TokenTypes
<1>2. CASE ListAnswers(r)
  <2>1. ReaderTypes'
    BY <1>2, ListedIs DEF WorldTypes
  <2> QED  BY <1>2, <2>1 DEF ListAnswers, WorldTypes, OpTypes, PageTypes, HealthTypes, TokenTypes
<1>3. CASE Show(r)
  <2>1. ReaderTypes'
    BY <1>3, PastReads DEF Show
  <2>2. reader[r].snap \in SUBSET Instances /\ reader[r].age \in Nat
    BY DEF ReaderTypes, ReaderRecs
  <2>3. PageTypes'
    BY <1>3, <2>2, HealIs DEF Show, PageTypes, ShownRecs
  <2> QED  BY <1>3, <2>1, <2>3 DEF Show, WorldTypes, OpTypes, HealthTypes, TokenTypes
<1>4. CASE ListFails(r)
  <2>1. ReaderTypes'
    BY <1>4, PastReads DEF ListFails
  <2> QED  BY <1>4, <2>1 DEF ListFails, WorldTypes, OpTypes, PageTypes, HealthTypes, TokenTypes
<1>5. CASE FinishHandler(r)
  <2>1. reader[r].of \in Instances
    BY <1>5 DEF FinishHandler, ReaderTypes
  <2>2. Reading(reader[r].of) \in Healths
    BY <2>1 DEF Reading, Healths, WorldTypes
  <2>3. HealthTypes'
    BY <1>5, <2>1, <2>2 DEF FinishHandler, HealthTypes
  <2>4. ReaderTypes'
    BY <1>5, NoReaderIs DEF FinishHandler, ReaderTypes
  <2>5. asks' \in Seq(AskRecs)
    <3>1. asks' = asks \/ (tab # 0 /\ asks' = Append(asks, Ask(tab)))
      BY <1>5 DEF FinishHandler
    <3>2. asks \in Seq(AskRecs) /\ (tab # 0 => Ask(tab) \in AskRecs)
      BY AskIs DEF TokenTypes, PageTypes
    <3> QED  BY <3>1, <3>2, AppendIs
  <2> QED  BY <1>5, <2>3, <2>4, <2>5 DEF FinishHandler, WorldTypes, OpTypes, PageTypes, TokenTypes
<1> QED  BY <1>1, <1>2, <1>3, <1>4, <1>5 DEF Reader

\* A sequence without its k-th element.
LEMMA DropIs ==
  ASSUME NEW S, NEW s \in Seq(S), NEW k \in 1..Len(s)
  PROVE  LET d == SubSeq(s, 1, k - 1) \o SubSeq(s, k + 1, Len(s))
         IN  /\ d \in Seq(S)
             /\ k = 1 => \/ Len(s) = 1 /\ d = <<>>
                         \/ Len(s) # 1 /\ d # <<>> /\ d[Len(d)] = s[Len(s)]
<1> DEFINE n == Len(s)
           a == SubSeq(s, 1, k - 1)
           b == SubSeq(s, k + 1, n)
           d == a \o b
<1>1. n \in Nat /\ k \in 1..n /\ \A i \in 1..n : s[i] \in S
  BY LenProperties, ElementOfSeq
<1>2. a \in Seq(S) /\ b \in Seq(S)
  <2>1. (\A i \in 1..(k - 1) : s[i] \in S) /\ (\A i \in (k + 1)..n : s[i] \in S)
    <3> HIDE DEF n
    <3>1. (\A i \in 1..(k - 1) : i \in 1..n) /\ (\A i \in (k + 1)..n : i \in 1..n)
      BY <1>1
    <3> QED  BY <1>1, <3>1
  <2>2. 1 \in Int /\ k - 1 \in Int /\ k + 1 \in Int /\ n \in Int
    BY <1>1
  <2> HIDE DEF n
  <2>3. a \in Seq(S)
    BY <2>1, <2>2, SubSeqProperties
  <2>4. b \in Seq(S)
    BY <2>1, <2>2, SubSeqProperties
  <2> QED  BY <2>3, <2>4
<1>3. d \in Seq(S) /\ Len(d) = Len(a) + Len(b)
      /\ \A i \in 1..(Len(a) + Len(b)) : d[i] = IF i <= Len(a) THEN a[i] ELSE b[i - Len(a)]
  BY <1>2, ConcatProperties
<1>4. ASSUME k = 1 PROVE Len(a) = 0 /\ Len(b) = n - 1
  <2>1. Len(a) = 0
    <3>1. 1 \in Int /\ k - 1 \in Int /\ k - 1 < 1
      BY <1>4
    <3> HIDE DEF n
    <3> QED  BY <1>1, <1>4, <3>1, SubSeqProperties
  <2>2. Len(b) = n - 1
    <3>1. 2 \in Int /\ n \in Int /\ k + 1 = 2
      BY <1>1, <1>4
    <3> HIDE DEF n
    <3> QED  BY <1>1, <1>4, <3>1, SubSeqProperties
  <2> QED  BY <2>1, <2>2
<1>5. ASSUME k = 1, n = 1 PROVE d = <<>>
  <2>1. Len(d) = 0
    BY <1>3, <1>4, <1>5
  <2> QED  BY <1>3, <2>1, EmptySeq
<1>6. ASSUME k = 1, n # 1 PROVE d # <<>> /\ d[Len(d)] = s[Len(s)]
  <2> HIDE DEF n, d
  <2>1. Len(d) = n - 1 /\ n - 1 \in 1..(n - 1)
    BY <1>1, <1>3, <1>4, <1>6
  <2>2. d[n - 1] = b[n - 1]
    BY <1>1, <1>3, <1>4, <1>6, <2>1
  <2>3. b[n - 1] = s[n]
    BY <1>1, <1>6, <2>1, SubSeqProperties
  <2>4. d # <<>>
    BY <1>1, <1>6, <2>1, EmptySeq
  <2> QED  BY <2>1, <2>2, <2>3, <2>4 DEF n
<1> QED  BY <1>3, <1>5, <1>6

\* Types of the window's start, its token and its readings of health.
LEMMA WindowTypes ==
  ASSUME SyncTypes, Mount \/ Listen \/ \E i \in Instances : Select(i) \/ Poll(i) \/ Monitor(i)
  PROVE  SyncTypes'
<1> USE DEF SyncTypes
<1>1. CASE Mount
  <2>1. /\ shown' = [list |-> There(world), age |-> age] /\ tab' = First(There(world)) /\ stage' = "mounted"
        /\ asks' = IF tab' = 0 THEN <<>> ELSE <<Ask(tab')>>
    BY <1>1 DEF Mount
  <2>2. tab' \in Instances \union {0}
    BY <2>1, ThereIs, FirstIs
  <2>3. PageTypes'
    BY <2>1, <2>2, ThereIs DEF PageTypes, ShownRecs, WorldTypes
  <2>4. asks' \in Seq(AskRecs)
    <3>1. CASE tab' = 0
      BY <2>1, <3>1, EmptySeq
    <3>2. CASE tab' # 0
      <4>1. Ask(tab') \in AskRecs
        BY <2>2, <3>2, AskIs
      <4> QED  BY <2>1, <3>2, <4>1
    <3> QED  BY <3>1, <3>2
  <2> QED  BY <1>1, <2>3, <2>4 DEF Mount, WorldTypes, OpTypes, ReaderTypes, HealthTypes, TokenTypes
<1>2. CASE Listen
  BY <1>2 DEF Listen, WorldTypes, OpTypes, ReaderTypes, PageTypes, HealthTypes, TokenTypes
<1>3. ASSUME NEW i \in Instances, Select(i) PROVE SyncTypes'
  <2>1. asks' = Append(asks, Ask(i)) /\ Ask(i) \in AskRecs /\ asks \in Seq(AskRecs)
    BY <1>3, AskIs DEF Select, TokenTypes
  <2>2. asks' \in Seq(AskRecs)
    BY <2>1, AppendIs
  <2> QED  BY <1>3, <2>2 DEF Select, WorldTypes, OpTypes, ReaderTypes, PageTypes, HealthTypes, TokenTypes
<1>4. ASSUME NEW i \in Instances, Poll(i) PROVE SyncTypes'
  <2>1. [of |-> i, says |-> ""] \in PollRecs
    BY DEF PollRecs
  <2>2. HealthTypes'
    BY <1>4, <2>1 DEF Poll, HealthTypes
  <2> QED  BY <1>4, <2>2 DEF Poll, WorldTypes, OpTypes, ReaderTypes, PageTypes, TokenTypes
<1>5. ASSUME NEW i \in Instances, Monitor(i) PROVE SyncTypes'
  <2>1. world[i] \in Healths
    BY <1>5 DEF Monitor, WorldTypes, Healths
  <2>2. HealthTypes'
    BY <1>5, <2>1 DEF Monitor, HealthTypes, RefreshTray
  <2> QED  BY <1>5, <2>2 DEF Monitor, WorldTypes, OpTypes, ReaderTypes, PageTypes, TokenTypes
<1> QED  BY <1>1, <1>2, <1>3, <1>4, <1>5

\* A token request that gets an answer.
LEMMA AnsweredIs ==
  ASSUME SyncTypes, NEW k \in 1..Len(asks), TokenAnswers(k)
  PROVE  /\ asks' \in Seq(AskRecs) /\ asks # <<>> /\ asks' # <<>> /\ Len(asks') = Len(asks)
         /\ Len(asks) \in 1..Len(asks) /\ asks[Len(asks)] \in AskRecs
         /\ \/ asks'[Len(asks)] = asks[Len(asks)]
            \/ /\ asks'[Len(asks)].of = asks[Len(asks)].of
               /\ asks'[Len(asks)].gen = gen[asks[Len(asks)].of]
<1>1. asks \in Seq(AskRecs) /\ Len(asks) \in Nat
  BY LenProperties DEF SyncTypes, TokenTypes
<1>2. asks[k] \in AskRecs /\ asks' = [asks EXCEPT ![k].gen = gen[asks[k].of]]
  BY <1>1, ElementOfSeq DEF TokenAnswers
<1> DEFINE r == [asks[k] EXCEPT !.gen = gen[asks[k].of]]
<1>3. asks[k].of \in Instances /\ gen[asks[k].of] \in Nat
  BY <1>2 DEF AskRecs, SyncTypes, WorldTypes
<1>4. r \in AskRecs /\ r.of = asks[k].of /\ r.gen = gen[asks[k].of]
  BY <1>2, <1>3 DEF AskRecs
<1>5. asks' = [asks EXCEPT ![k] = r]
  BY <1>2
<1> HIDE DEF r
<1>6. asks' \in Seq(AskRecs) /\ Len(asks') = Len(asks) /\ \A i \in 1..Len(asks) : asks'[i] = IF i = k THEN r ELSE asks[i]
  BY <1>1, <1>4, <1>5, ExceptSeq
<1>7. Len(asks) \in 1..Len(asks) /\ Len(asks) # 0
  <2> DEFINE n == Len(asks)
  <2>1. n \in Nat /\ k \in 1..n
    BY <1>1
  <2> HIDE DEF n
  <2> QED  BY <2>1 DEF n
<1>8. asks # <<>> /\ asks' # <<>>
  BY <1>1, <1>6, <1>7, EmptySeq
<1>9. asks[Len(asks)] \in AskRecs
  BY <1>1, <1>7, ElementOfSeq
<1> QED  BY <1>4, <1>6, <1>7, <1>8, <1>9

LEMMA TokenStepTypes ==
  ASSUME SyncTypes, NEW k \in 1..Len(asks), TokenAnswers(k) \/ TokenShown(k) \/ TokenFails(k)
  PROVE  SyncTypes'
<1> USE DEF SyncTypes
<1>1. CASE TokenAnswers(k)
  <2>1. asks' \in Seq(AskRecs)
    BY <1>1, AnsweredIs
  <2> QED  BY <1>1, <2>1 DEF TokenAnswers, WorldTypes, OpTypes, ReaderTypes, PageTypes, HealthTypes, TokenTypes
<1>2. ASSUME NEW t \in [of : Instances \union {0}, gen : Nat], t.of # 0 => t.gen # 0, Gets(k, t) PROVE SyncTypes'
  <2>1. asks' \in Seq(AskRecs)
    BY <1>2, DropIs DEF Gets, TokenTypes
  <2> QED  BY <1>2, <2>1 DEF Gets, WorldTypes, OpTypes, ReaderTypes, PageTypes, HealthTypes, TokenTypes
<1>3. CASE TokenShown(k)
  <2>1. asks[k] \in AskRecs
    BY ElementOfSeq DEF TokenTypes
  <2> QED  BY <1>2, <1>3, <2>1 DEF TokenShown, AskRecs
<1>4. CASE TokenFails(k)
  BY <1>2, <1>4, NoTokenIs DEF TokenFails
<1> QED  BY <1>1, <1>3, <1>4

LEMMA PolledTypes ==
  ASSUME SyncTypes, Polled
  PROVE  SyncTypes'
<1> USE DEF SyncTypes
<1>0. PICK p \in polls : PollAnswers(p) \/ PollShown(p)
  BY DEF Polled
<1>1. polls \subseteq PollRecs /\ p \in PollRecs /\ p.of \in Instances /\ (p.says = "" \/ p.says \in Healths)
  BY DEF HealthTypes, PollRecs
<1>2. CASE PollAnswers(p)
  <2>1. Reading(p.of) \in Healths
    BY <1>1 DEF Reading, Healths, WorldTypes
  <2>2. [p EXCEPT !.says = Reading(p.of)] \in PollRecs
    BY <1>1, <2>1 DEF PollRecs
  <2>3. HealthTypes'
    BY <1>1, <1>2, <2>2 DEF PollAnswers, HealthTypes
  <2> QED  BY <1>2, <2>3 DEF PollAnswers, WorldTypes, OpTypes, ReaderTypes, PageTypes, TokenTypes
<1>3. CASE PollShown(p)
  <2>1. HealthTypes'
    BY <1>1, <1>3 DEF PollShown, HealthTypes
  <2> QED  BY <1>3, <2>1 DEF PollShown, WorldTypes, OpTypes, ReaderTypes, PageTypes, TokenTypes
<1> QED  BY <1>0, <1>2, <1>3

LEMMA SyncTypesKeep ==
  ASSUME SyncTypes, [SyncNext]_sync
  PROVE  SyncTypes'
<1>1. CASE UNCHANGED sync
  BY <1>1 DEF sync, SyncTypes, WorldTypes, OpTypes, ReaderTypes, PageTypes, HealthTypes, TokenTypes
<1>2. CASE SyncNext
  BY <1>2, CommandTypes, HandlerTypes, WindowTypes, TokenStepTypes, PolledTypes DEF SyncNext
<1> QED  BY <1>1, <1>2

-----------------------------------------------------------------------------
(* What the window shows: the invariant.                                    *)

\* Before the window shows, nothing has happened in it.
AtLaunch ==
  stage = "launch" =>
    /\ events = <<>> /\ asks = <<>> /\ token.of = 0 /\ shown.list = {}
    /\ \A o \in Ops : op[o].at = "new"
    /\ \A r \in Readers : reader[r].at = "free"

\* A snapshot that is as old as the set of instances is the set of instances,
\* and none is younger.
Snapshot(s, a) == a <= age /\ (a = age => s = There(world))

SnapsAreOfTheirAge == \A r \in Readers : reader[r].at = "listed" => Snapshot(reader[r].snap, reader[r].age)
ShownIsOfItsAge == stage # "launch" => Snapshot(shown.list, shown.age)

\* A list that is older is about to be asked for again, or has been.
ListExcused == "missed" \in excuses \/ "refused" \in excuses \/ "overtaken" \in excuses
NewsDue(o) == op[o].at = "emit" /\ op[o].verb \in {"delete", "install"}
ListDue(r) == reader[r].at = "list" \/ (reader[r].at = "listed" /\ reader[r].age = age)
OldListIsDue ==
  (stage # "launch" /\ ~ListExcused /\ shown.age # age) =>
    (\E o \in Ops : NewsDue(o)) \/ events # <<>> \/ (\E r \in Readers : ListDue(r))

\* What the page will show as its token when its requests have answered; it is
\* of the instance's last start, or that start is still to be handled.
Newest == IF asks = <<>> THEN token ELSE asks[Len(asks)]
TokenExcused == "missed" \in excuses \/ "token overtaken" \in excuses \/ "none selected" \in excuses
StartDue(o) == op[o].at = "emit" /\ op[o].verb = "start"
Told == \E e \in 1..Len(events) : events[e].verb = "start"
Handling(r) == reader[r].at # "free" /\ reader[r].verb = "start"
Fresh(t) == t.of # 0 => t.gen \in {0, gen[t.of]}
OldTokenIsDue ==
  ~TokenExcused => \/ \E o \in Ops : StartDue(o)
                   \/ Told
                   \/ \E r \in Readers : Handling(r)
                   \/ Fresh(Newest)

SyncIInv ==
  SyncTypes /\ AtLaunch /\ TabIsListed /\ SnapsAreOfTheirAge /\ ShownIsOfItsAge /\ OldListIsDue /\ OldTokenIsDue

LEMMA SyncStart == SyncInit => SyncIInv
<1> SUFFICES ASSUME SyncInit PROVE SyncIInv
  OBVIOUS
<1>1. SyncTypes
  BY SyncTypesStart
<1>2. AtLaunch /\ stage = "launch" /\ \A r \in Readers : reader[r].at # "listed"
  BY NoTokenIs, NoReaderIs DEF SyncInit, AtLaunch, NoOp
<1>3. Fresh(Newest)
  BY NoTokenIs DEF SyncInit, Fresh, Newest
<1> QED  BY <1>1, <1>2, <1>3 DEF SyncIInv, TabIsListed, SnapsAreOfTheirAge, ShownIsOfItsAge, OldListIsDue, OldTokenIsDue

\* What a step that leaves the parts of a group alone keeps of it.
LEMMA LaunchStays ==
  ASSUME AtLaunch, stage' # "launch" \/ UNCHANGED <<stage, events, asks, token, shown, op, reader>>
  PROVE  AtLaunch'
  BY DEF AtLaunch

LEMMA TabStays ==
  ASSUME TabIsListed, UNCHANGED <<stage, shown, tab>>
  PROVE  TabIsListed'
  BY DEF TabIsListed

ListIInv == SnapsAreOfTheirAge /\ ShownIsOfItsAge /\ OldListIsDue

LEMMA ListStays ==
  ASSUME ListIInv, UNCHANGED <<world, age, op, events, stage, reader, shown>>,
         excuses \subseteq excuses'
  PROVE  ListIInv'
<1>1. SnapsAreOfTheirAge' /\ ShownIsOfItsAge'
  BY DEF ListIInv, SnapsAreOfTheirAge, ShownIsOfItsAge, Snapshot, There
<1>2. OldListIsDue'
  BY DEF ListIInv, OldListIsDue, ListExcused, NewsDue, ListDue
<1> QED  BY <1>1, <1>2 DEF ListIInv

LEMMA TokenStays ==
  ASSUME OldTokenIsDue, UNCHANGED <<gen, op, events, reader, asks, token>>,
         excuses \subseteq excuses'
  PROVE  OldTokenIsDue'
  BY DEF OldTokenIsDue, TokenExcused, StartDue, Told, Handling, Fresh, Newest

\* A command that goes on, and the others, which do not.
LEMMA OpMoves ==
  ASSUME OpTypes, NEW o \in Ops, NEW at, op' = [op EXCEPT ![o].at = at]
  PROVE  /\ op'[o].at = at /\ op'[o].verb = op[o].verb
         /\ \A x \in Ops : x # o => op'[x] = op[x]
  BY DEF OpTypes, OpRecs

LEMMA CommandKeeps ==
  ASSUME SyncIInv, NEW o \in Ops, Command(o) \/ Fails(o)
  PROVE  SyncIInv'
<1>1. SyncTypes'
  BY CommandTypes DEF SyncIInv
<1>2. stage # "launch" /\ UNCHANGED <<world, gen, age, events, stage, reader, shown, tab, token, asks, excuses>>
  BY DEF SyncIInv, AtLaunch, Command, Fails
<1>3. \A x \in Ops : op[x].at = "emit" => op'[x] = op[x]
  <2>1. CASE Command(o)
    BY <2>1 DEF Command, SyncIInv, SyncTypes, OpTypes
  <2>2. CASE Fails(o)
    BY <2>2, OpMoves DEF Fails, SyncIInv, SyncTypes
  <2> QED  BY <2>1, <2>2
<1>4. AtLaunch' /\ TabIsListed'
  BY <1>2, LaunchStays, TabStays DEF SyncIInv
<1>5. SnapsAreOfTheirAge' /\ ShownIsOfItsAge'
  BY <1>2 DEF SyncIInv, SnapsAreOfTheirAge, ShownIsOfItsAge, Snapshot, There
<1>6. OldListIsDue'
  BY <1>2, <1>3 DEF SyncIInv, OldListIsDue, ListExcused, NewsDue, ListDue
<1>7. OldTokenIsDue'
  BY <1>2, <1>3 DEF SyncIInv, OldTokenIsDue, TokenExcused, StartDue, Told, Handling, Fresh, Newest
<1> QED  BY <1>1, <1>4, <1>5, <1>6, <1>7 DEF SyncIInv

LEMMA EffectKeeps ==
  ASSUME SyncIInv, NEW o \in Ops, Effect(o)
  PROVE  SyncIInv'
<1> DEFINE i == op[o].of
           v == op[o].verb
<1>1. SyncTypes'
  BY CommandTypes DEF SyncIInv
<1>2. stage # "launch" /\ UNCHANGED <<events, stage, reader, shown, tab, token, asks, excuses>>
  BY DEF SyncIInv, AtLaunch, Effect
<1>3. /\ op'[o].at = "emit" /\ op'[o].verb = v /\ op[o].at = "run"
      /\ \A x \in Ops : x # o => op'[x] = op[x]
  BY OpMoves DEF Effect, SyncIInv, SyncTypes
<1>4. AtLaunch' /\ TabIsListed'
  BY <1>2, LaunchStays, TabStays DEF SyncIInv
<1>5. /\ age \in Nat /\ i \in Instances /\ v \in Verbs /\ gen \in [Instances -> Nat]
      /\ world \in [Instances -> {"absent", "stopped", "running"}]
  BY <1>3 DEF SyncIInv, SyncTypes, WorldTypes, OpTypes
<1>6. /\ world' = [world EXCEPT ![i] = After(v)]
      /\ gen' = IF v = "start" THEN [gen EXCEPT ![i] = @ + 1] ELSE gen
      /\ age' = IF v \in {"delete", "install"} THEN age + 1 ELSE age
      /\ v = "install" <=> world[i] = "absent"
  BY DEF Effect
<1> HIDE DEF i, v
<1>7. ASSUME v \in {"delete", "install"} PROVE ListIInv'
  <2>1. age' = age + 1 /\ NewsDue(o)'
    BY <1>3, <1>6, <1>7 DEF NewsDue
  <2>2. SnapsAreOfTheirAge' /\ ShownIsOfItsAge'
    <3>1. \A s, a : a \in Nat /\ Snapshot(s, a) => a <= age' /\ a # age'
      BY <1>5, <2>1 DEF Snapshot
    <3>2. \A r \in Readers : reader[r].age \in Nat
      BY DEF SyncIInv, SyncTypes, ReaderTypes, ReaderRecs
    <3>3. shown.age \in Nat
      BY DEF SyncIInv, SyncTypes, PageTypes, ShownRecs
    <3>4. SnapsAreOfTheirAge'
      BY <1>2, <3>1, <3>2 DEF SyncIInv, SnapsAreOfTheirAge, Snapshot
    <3>5. ShownIsOfItsAge'
      BY <1>2, <3>1, <3>3 DEF SyncIInv, ShownIsOfItsAge, Snapshot
    <3> QED  BY <3>4, <3>5
  <2>3. OldListIsDue'
    BY <2>1 DEF OldListIsDue
  <2> QED  BY <2>2, <2>3 DEF ListIInv
<1>8. ASSUME v \notin {"delete", "install"} PROVE ListIInv'
  <2>1. age' = age /\ After(v) # "absent" /\ world[i] # "absent"
    BY <1>5, <1>6, <1>8 DEF After, Verbs
  <2>2. There(world)' = There(world)
    <3>1. \A j \in Instances : world'[j] # "absent" <=> world[j] # "absent"
      BY <1>5, <1>6, <2>1
    <3> QED  BY <3>1 DEF There
  <2>3. SnapsAreOfTheirAge' /\ ShownIsOfItsAge'
    BY <1>2, <2>1, <2>2 DEF SyncIInv, SnapsAreOfTheirAge, ShownIsOfItsAge, Snapshot
  <2>4. OldListIsDue'
    BY <1>2, <1>3, <2>1 DEF SyncIInv, OldListIsDue, ListExcused, NewsDue, ListDue
  <2> QED  BY <2>3, <2>4 DEF ListIInv
<1>9. OldTokenIsDue'
  <2>1. CASE v = "start"
    BY <1>3, <2>1 DEF OldTokenIsDue, StartDue
  <2>2. CASE v # "start"
    <3>1. gen' = gen
      BY <1>6, <2>2
    <3> QED
      BY <1>2, <1>3, <3>1 DEF SyncIInv, OldTokenIsDue, TokenExcused, StartDue, Told, Handling, Fresh, Newest
  <2> QED  BY <2>1, <2>2
<1> QED  BY <1>1, <1>4, <1>7, <1>8, <1>9 DEF SyncIInv, ListIInv

LEMMA AnnounceKeeps ==
  ASSUME SyncIInv, NEW o \in Ops, Announce(o)
  PROVE  SyncIInv'
<1> DEFINE e == [verb |-> op[o].verb, of |-> op[o].of]
<1>1. SyncTypes'
  BY CommandTypes DEF SyncIInv
<1>2. stage # "launch" /\ UNCHANGED <<world, gen, age, stage, reader, shown, tab, token, asks>>
  BY DEF SyncIInv, AtLaunch, Announce
<1>3. \A x \in Ops : x # o => op'[x] = op[x]
  BY OpMoves DEF Announce, SyncIInv, SyncTypes
<1>4. \/ events' = Append(events, e) /\ excuses' = excuses
      \/ "missed" \in excuses'
  BY DEF Announce
<1>5. AtLaunch' /\ TabIsListed'
  BY <1>2, LaunchStays, TabStays DEF SyncIInv
<1>6. SnapsAreOfTheirAge' /\ ShownIsOfItsAge'
  BY <1>2 DEF SyncIInv, SnapsAreOfTheirAge, ShownIsOfItsAge, Snapshot, There
<1>7. CASE "missed" \in excuses'
  <2>1. OldListIsDue' /\ OldTokenIsDue'
    BY <1>7 DEF OldListIsDue, ListExcused, OldTokenIsDue, TokenExcused
  <2> QED  BY <1>1, <1>5, <1>6, <2>1 DEF SyncIInv
<1>8. CASE events' = Append(events, e) /\ excuses' = excuses
  <2>1. op[o].verb \in Verbs /\ op[o].of \in Instances /\ events \in Seq(EventRecs)
    BY DEF SyncIInv, SyncTypes, OpTypes, Announce
  <2>2. e \in EventRecs /\ e.verb = op[o].verb
    BY <2>1 DEF EventRecs
  <2> HIDE DEF e
  <2>3. /\ \A k \in 1..Len(events) : k \in 1..Len(events') /\ events'[k] = events[k]
        /\ Len(events) + 1 \in 1..Len(events') /\ events'[Len(events) + 1] = e
    BY <1>8, <2>1, <2>2, AppendIs
  <2>4. events' # <<>>
    BY <1>8, <2>1, <2>2, AppendProperties
  <2>5. OldListIsDue'
    BY <2>4 DEF OldListIsDue
  <2>6. OldTokenIsDue'
    <3>1. Told => Told'
      BY <2>3 DEF Told
    <3>2. StartDue(o) => Told'
      BY <2>2, <2>3 DEF Told, StartDue
    <3>3. \A x \in Ops : x # o /\ StartDue(x) => StartDue(x)'
      BY <1>3 DEF StartDue
    <3>4. (\A r \in Readers : Handling(r) => Handling(r)') /\ (Fresh(Newest) => Fresh(Newest)')
          /\ (TokenExcused => TokenExcused')
      BY <1>2, <1>8 DEF Handling, Fresh, Newest, TokenExcused
    <3> QED  BY <3>1, <3>2, <3>3, <3>4 DEF SyncIInv, OldTokenIsDue
  <2> QED  BY <1>1, <1>5, <1>6, <2>5, <2>6 DEF SyncIInv
<1> QED  BY <1>4, <1>7, <1>8

LEMMA RefreshKeeps ==
  ASSUME SyncIInv, NEW o \in Ops, NEW r \in Readers, Refresh(o, r)
  PROVE  SyncIInv'
<1>1. SyncTypes'
  BY CommandTypes DEF SyncIInv
<1>2. /\ stage # "launch" /\ op[o].at = "refresh"
      /\ UNCHANGED <<world, gen, age, events, stage, shown, token, asks, excuses>>
  BY DEF SyncIInv, AtLaunch, Refresh
<1>3. \A x \in Ops : op[x].at = "emit" => op'[x] = op[x]
  BY <1>2, OpMoves DEF Refresh, SyncIInv, SyncTypes
<1>4. /\ reader[r] = NoReader /\ reader'[r].at = "list"
      /\ \A q \in Readers : q # r => reader'[q] = reader[q]
  BY NoReaderIs DEF Refresh, Free, SyncIInv, SyncTypes, ReaderTypes, ReaderRecs
<1>5. AtLaunch'
  BY <1>2, LaunchStays DEF SyncIInv
<1>6. TabIsListed'
  <2>1. shown.list \in SUBSET Instances
    BY DEF SyncIInv, SyncTypes, PageTypes, ShownRecs
  <2>2. First(shown.list \ {op[o].of}) \in Instances \union {0}
    BY <2>1, FirstIs
  <2>3. tab' = tab \/ tab' = Heal(First(shown.list \ {op[o].of}), shown.list)
    BY DEF Refresh
  <2> QED  BY <1>2, <2>1, <2>2, <2>3, HealIs DEF SyncIInv, TabIsListed
<1>7. SnapsAreOfTheirAge' /\ ShownIsOfItsAge'
  BY <1>2, <1>4 DEF SyncIInv, SnapsAreOfTheirAge, ShownIsOfItsAge, Snapshot, There
<1>8. OldListIsDue'
  BY <1>4 DEF OldListIsDue, ListDue
<1>9. OldTokenIsDue'
  <2>1. \A q \in Readers : Handling(q) => Handling(q)'
    BY <1>4, NoReaderIs DEF Handling
  <2> QED  BY <1>2, <1>3, <2>1 DEF SyncIInv, OldTokenIsDue, TokenExcused, StartDue, Told, Fresh, Newest
<1> QED  BY <1>1, <1>5, <1>6, <1>7, <1>8, <1>9 DEF SyncIInv

LEMMA HandleKeeps ==
  ASSUME SyncIInv, NEW r \in Readers, Handle(r)
  PROVE  SyncIInv'
<1>1. SyncTypes'
  BY HandlerTypes DEF SyncIInv
<1>2. /\ stage # "launch" /\ events # <<>> /\ events' = Tail(events) /\ reader[r] = NoReader
      /\ UNCHANGED <<world, gen, age, op, stage, shown, tab, token, asks, excuses>>
  BY DEF SyncIInv, AtLaunch, Handle, Free
<1>3. /\ Head(events) \in EventRecs /\ Head(events) = events[1] /\ events \in Seq(EventRecs)
      /\ \A k \in 1..Len(events) : k # 1 => k - 1 \in 1..Len(events') /\ events'[k - 1] = events[k]
  BY <1>2, TailIs DEF SyncIInv, SyncTypes
<1>4. /\ reader'[r].at = "list" /\ reader'[r].verb = Head(events).verb
      /\ \A q \in Readers : q # r => reader'[q] = reader[q]
  BY <1>3, TakenIs DEF Handle, SyncIInv, SyncTypes
<1>5. AtLaunch' /\ TabIsListed'
  BY <1>2, LaunchStays, TabStays DEF SyncIInv
<1>6. SnapsAreOfTheirAge' /\ ShownIsOfItsAge'
  BY <1>2, <1>4 DEF SyncIInv, SnapsAreOfTheirAge, ShownIsOfItsAge, Snapshot, There
<1>7. OldListIsDue'
  BY <1>4 DEF OldListIsDue, ListDue
<1>8. OldTokenIsDue'
  <2>1. Told => Told' \/ Handling(r)'
    <3>1. ASSUME NEW k \in 1..Len(events), events[k].verb = "start" PROVE Told' \/ Handling(r)'
      <4>1. CASE k = 1
        BY <1>3, <1>4, <3>1, <4>1 DEF Handling
      <4>2. CASE k # 1
        <5>1. k - 1 \in 1..Len(events') /\ events'[k - 1].verb = "start"
          BY <1>3, <3>1, <4>2
        <5> QED  BY <5>1 DEF Told
      <4> QED  BY <4>1, <4>2
    <3> QED  BY <3>1 DEF Told
  <2>2. \A q \in Readers : Handling(q) => Handling(q)'
    BY <1>2, <1>4, NoReaderIs DEF Handling
  <2> QED  BY <1>2, <2>1, <2>2 DEF SyncIInv, OldTokenIsDue, TokenExcused, StartDue, Fresh, Newest
<1> QED  BY <1>1, <1>5, <1>6, <1>7, <1>8 DEF SyncIInv

LEMMA AnswerKeeps ==
  ASSUME SyncIInv, NEW r \in Readers, ListAnswers(r)
  PROVE  SyncIInv'
<1>1. SyncTypes'
  BY HandlerTypes DEF SyncIInv, Reader
<1>2. /\ stage # "launch" /\ reader[r].at = "list"
      /\ UNCHANGED <<world, gen, age, op, events, stage, shown, tab, token, asks, excuses>>
  BY DEF SyncIInv, AtLaunch, ListAnswers
<1>3. /\ reader'[r].at = "listed" /\ reader'[r].snap = There(world) /\ reader'[r].age = age
      /\ reader'[r].verb = reader[r].verb
      /\ \A q \in Readers : q # r => reader'[q] = reader[q]
  BY ListedIs DEF SyncIInv, SyncTypes, WorldTypes
<1>4. AtLaunch' /\ TabIsListed'
  BY <1>2, LaunchStays, TabStays DEF SyncIInv
<1>5. SnapsAreOfTheirAge' /\ ShownIsOfItsAge'
  <2>1. Snapshot(There(world), age)
    BY DEF Snapshot, SyncIInv, SyncTypes, WorldTypes
  <2> QED  BY <1>2, <1>3, <2>1 DEF SyncIInv, SnapsAreOfTheirAge, ShownIsOfItsAge, Snapshot, There
<1>6. OldListIsDue'
  BY <1>2, <1>3 DEF OldListIsDue, ListDue
<1>7. OldTokenIsDue'
  <2>1. \A q \in Readers : Handling(q) => Handling(q)'
    BY <1>2, <1>3 DEF Handling
  <2> QED  BY <1>2, <2>1 DEF SyncIInv, OldTokenIsDue, TokenExcused, StartDue, Told, Fresh, Newest
<1> QED  BY <1>1, <1>4, <1>5, <1>6, <1>7 DEF SyncIInv

\* The readers that go past their list, or fail to get it.
LEMMA PastKeeps ==
  ASSUME SyncIInv, NEW r \in Readers, Show(r) \/ ListFails(r)
  PROVE  SyncIInv'
<1>1. SyncTypes'
  <2>1. SyncTypes /\ (Reader(r) \/ ListFails(r))
    BY DEF SyncIInv, Reader
  <2> QED  BY <2>1, HandlerTypes
<1>2. /\ stage # "launch" /\ reader[r].at \in {"list", "listed"} /\ excuses \subseteq excuses'
      /\ UNCHANGED <<world, gen, age, op, events, stage, token, asks>>
  BY DEF SyncIInv, AtLaunch, Show, ListFails
<1>3. /\ \A q \in Readers : q # r => reader'[q] = reader[q]
      /\ reader'[r].at \in {"free", "health"} /\ reader'[r].verb = reader[r].verb
      /\ reader'[r].at = "free" => reader[r].verb = "none"
  BY PastReads DEF Show, ListFails, SyncIInv, SyncTypes
<1>4. AtLaunch'
  BY <1>2, LaunchStays DEF SyncIInv
<1>5. SnapsAreOfTheirAge'
  BY <1>2, <1>3 DEF SyncIInv, SnapsAreOfTheirAge, Snapshot, There
<1>6. OldTokenIsDue'
  <2>1. \A q \in Readers : Handling(q) => Handling(q)'
    BY <1>2, <1>3 DEF Handling
  <2> QED  BY <1>2, <2>1 DEF SyncIInv, OldTokenIsDue, TokenExcused, StartDue, Told, Fresh, Newest
<1>7. CASE ListFails(r)
  <2>1. TabIsListed'
    BY <1>7, TabStays DEF SyncIInv, ListFails
  <2>2. ShownIsOfItsAge'
    BY <1>2, <1>7 DEF SyncIInv, ListFails, ShownIsOfItsAge, Snapshot, There
  <2>3. OldListIsDue'
    BY <1>7 DEF ListFails, OldListIsDue, ListExcused
  <2> QED  BY <1>1, <1>4, <1>5, <1>6, <2>1, <2>2, <2>3 DEF SyncIInv
<1>8. CASE Show(r)
  <2>1. /\ shown' = [list |-> reader[r].snap, age |-> reader[r].age] /\ reader[r].at = "listed"
        /\ tab' = Heal(tab, reader[r].snap)
        /\ excuses' = IF reader[r].age < shown.age THEN excuses \union {"overtaken"} ELSE excuses
    BY <1>8 DEF Show
  <2>2. /\ reader[r].snap \in SUBSET Instances /\ tab \in Instances \union {0}
        /\ reader[r].age \in Nat /\ shown.age \in Nat /\ age \in Nat
    BY DEF SyncIInv, SyncTypes, ReaderTypes, ReaderRecs, PageTypes, ShownRecs, WorldTypes
  <2>3. TabIsListed'
    BY <2>1, <2>2, HealIs DEF TabIsListed
  <2>4. Snapshot(reader[r].snap, reader[r].age)
    BY <2>1 DEF SyncIInv, SnapsAreOfTheirAge
  <2>5. ShownIsOfItsAge'
    BY <1>2, <2>1, <2>4 DEF ShownIsOfItsAge, Snapshot, There
  <2>6. OldListIsDue'
    <3>1. SUFFICES ASSUME ~ListExcused', reader[r].age # age
                   PROVE  \/ \E o \in Ops : NewsDue(o)'
                          \/ events' # <<>>
                          \/ \E q \in Readers : ListDue(q)'
      <4>1. shown'.age = reader[r].age /\ age' = age
        BY <1>2, <2>1
      <4> QED  BY <4>1 DEF OldListIsDue
    <3>2. reader[r].age < age
      BY <2>2, <2>4, <3>1 DEF Snapshot
    <3>3. ~(reader[r].age < shown.age)
      BY <2>1, <3>1 DEF ListExcused
    <3>4. shown.age # age /\ ~ListExcused
      BY <1>2, <3>1, <3>2, <3>3 DEF ListExcused
    <3>5. (\E o \in Ops : NewsDue(o)) \/ events # <<>> \/ (\E q \in Readers : ListDue(q))
      BY <1>2, <3>4 DEF SyncIInv, OldListIsDue
    <3>6. \A q \in Readers : ListDue(q) => ListDue(q)'
      BY <1>2, <1>3, <2>1, <3>1 DEF ListDue
    <3> QED  BY <1>2, <3>5, <3>6 DEF NewsDue
  <2> QED  BY <1>1, <1>4, <1>5, <1>6, <2>3, <2>5, <2>6 DEF SyncIInv
<1> QED  BY <1>7, <1>8

\* A request for the token makes it fresh.
LEMMA AskedIsFresh ==
  ASSUME SyncTypes, NEW i \in Instances, asks' = Append(asks, Ask(i))
  PROVE  Fresh(Newest)'
<1>1. asks \in Seq(AskRecs) /\ Ask(i) \in AskRecs /\ Ask(i).gen = 0
  BY AskIs DEF SyncTypes, TokenTypes
<1>2. asks' # <<>> /\ asks'[Len(asks')] = Ask(i)
  <2>1. asks' # <<>> /\ Len(asks') = Len(asks) + 1 /\ asks'[Len(asks) + 1] = Ask(i)
    BY <1>1, AppendProperties
  <2> QED  BY <2>1
<1> QED  BY <1>1, <1>2 DEF Fresh, Newest

LEMMA FinishKeeps ==
  ASSUME SyncIInv, NEW r \in Readers, FinishHandler(r)
  PROVE  SyncIInv'
<1>1. SyncTypes'
  BY HandlerTypes DEF SyncIInv, Reader
<1>2. /\ stage # "launch" /\ reader[r].at = "health" /\ excuses \subseteq excuses'
      /\ UNCHANGED <<world, gen, age, op, events, stage, shown, tab, token>>
  BY DEF SyncIInv, AtLaunch, FinishHandler
<1>3. reader'[r] = NoReader /\ \A q \in Readers : q # r => reader'[q] = reader[q]
  BY DEF FinishHandler, SyncIInv, SyncTypes, ReaderTypes
<1>4. AtLaunch' /\ TabIsListed'
  BY <1>2, LaunchStays, TabStays DEF SyncIInv
<1>5. SnapsAreOfTheirAge' /\ ShownIsOfItsAge'
  BY <1>2, <1>3, NoReaderIs DEF SyncIInv, SnapsAreOfTheirAge, ShownIsOfItsAge, Snapshot, There
<1>6. OldListIsDue'
  <2>1. \A q \in Readers : ListDue(q) => ListDue(q)'
    BY <1>2, <1>3 DEF ListDue
  <2>2. (\A o \in Ops : NewsDue(o) => NewsDue(o)') /\ (ListExcused => ListExcused')
    BY <1>2 DEF NewsDue, ListExcused
  <2> QED  BY <1>2, <2>1, <2>2 DEF SyncIInv, OldListIsDue
<1>7. OldTokenIsDue'
  <2>1. CASE reader[r].verb # "start"
    <3>1. asks' = asks /\ excuses' = excuses
      BY <2>1 DEF FinishHandler
    <3>2. \A q \in Readers : Handling(q) => Handling(q)'
      BY <1>3, <2>1 DEF Handling
    <3> QED  BY <1>2, <3>1, <3>2 DEF SyncIInv, OldTokenIsDue, TokenExcused, StartDue, Told, Fresh, Newest
  <2>2. CASE reader[r].verb = "start" /\ tab = 0
    BY <2>2 DEF FinishHandler, OldTokenIsDue, TokenExcused
  <2>3. CASE reader[r].verb = "start" /\ tab # 0
    <3>1. tab \in Instances /\ asks' = Append(asks, Ask(tab))
      BY <2>3 DEF FinishHandler, SyncIInv, SyncTypes, PageTypes
    <3> QED  BY <3>1, AskedIsFresh DEF SyncIInv, OldTokenIsDue
  <2> QED  BY <2>1, <2>2, <2>3
<1> QED  BY <1>1, <1>4, <1>5, <1>6, <1>7 DEF SyncIInv

LEMMA MountKeeps ==
  ASSUME SyncIInv, Mount
  PROVE  SyncIInv'
<1>1. SyncTypes'
  BY WindowTypes DEF SyncIInv
<1>2. /\ stage = "launch" /\ stage' = "mounted"
      /\ shown' = [list |-> There(world), age |-> age] /\ tab' = First(There(world))
      /\ asks' = (IF tab' = 0 THEN <<>> ELSE <<Ask(tab')>>)
      /\ UNCHANGED <<world, age, reader, token>>
  BY DEF Mount
<1>3. TabIsListed'
  BY <1>2, ThereIs, FirstIs DEF TabIsListed
<1>4. SnapsAreOfTheirAge'
  BY <1>2 DEF SyncIInv, AtLaunch, SnapsAreOfTheirAge
<1>5. ShownIsOfItsAge' /\ OldListIsDue'
  <2>1. age \in Nat
    BY DEF SyncIInv, SyncTypes, WorldTypes
  <2> QED  BY <1>2, <2>1 DEF ShownIsOfItsAge, Snapshot, There, OldListIsDue
<1>6. Fresh(Newest)'
  <2>1. CASE tab' = 0
    BY <1>2, <2>1 DEF SyncIInv, AtLaunch, Fresh, Newest
  <2>2. CASE tab' # 0
    <3>1. asks' = <<Ask(tab')>> /\ Ask(tab').gen = 0
      BY <1>2, <2>2 DEF Ask
    <3>2. asks' # <<>> /\ asks'[Len(asks')] = Ask(tab')
      BY <3>1
    <3> QED  BY <3>1, <3>2 DEF Fresh, Newest
  <2> QED  BY <2>1, <2>2
<1>7. AtLaunch'
  BY <1>2, LaunchStays DEF SyncIInv
<1> QED  BY <1>1, <1>3, <1>4, <1>5, <1>6, <1>7 DEF SyncIInv, OldTokenIsDue

LEMMA ListenKeeps ==
  ASSUME SyncIInv, Listen
  PROVE  SyncIInv'
<1>1. SyncTypes'
  BY WindowTypes DEF SyncIInv
<1>2. /\ stage # "launch" /\ stage' # "launch"
      /\ UNCHANGED <<world, gen, age, op, events, reader, shown, tab, token, asks, excuses>>
  BY DEF Listen
<1>3. AtLaunch' /\ TabIsListed' /\ OldTokenIsDue'
  BY <1>2, LaunchStays, TokenStays DEF SyncIInv, TabIsListed
<1>4. SnapsAreOfTheirAge' /\ ShownIsOfItsAge' /\ OldListIsDue'
  BY <1>2 DEF SyncIInv, SnapsAreOfTheirAge, ShownIsOfItsAge, OldListIsDue, Snapshot, There,
              ListExcused, NewsDue, ListDue
<1> QED  BY <1>1, <1>3, <1>4 DEF SyncIInv

LEMMA SelectKeeps ==
  ASSUME SyncIInv, NEW i \in Instances, Select(i)
  PROVE  SyncIInv'
<1>1. SyncTypes'
  BY WindowTypes DEF SyncIInv
<1>2. /\ i \in shown.list /\ tab' = i /\ asks' = Append(asks, Ask(i))
      /\ UNCHANGED <<world, age, op, events, stage, reader, shown, excuses>>
  BY DEF Select
<1>3. AtLaunch' /\ TabIsListed'
  <2>1. stage' # "launch"
    BY <1>2 DEF SyncIInv, AtLaunch
  <2> QED  BY <1>2, <2>1, LaunchStays DEF SyncIInv, TabIsListed
<1>4. ListIInv'
  BY <1>2, ListStays DEF SyncIInv, ListIInv
<1>5. OldTokenIsDue'
  BY <1>2, AskedIsFresh DEF SyncIInv, OldTokenIsDue
<1> QED  BY <1>1, <1>3, <1>4, <1>5 DEF SyncIInv, ListIInv

LEMMA TokenStepKeeps ==
  ASSUME SyncIInv, NEW k \in 1..Len(asks), TokenAnswers(k) \/ TokenShown(k) \/ TokenFails(k)
  PROVE  SyncIInv'
<1>1. SyncTypes'
  BY TokenStepTypes DEF SyncIInv
<1>2. excuses \subseteq excuses' /\ UNCHANGED <<world, gen, age, op, events, stage, reader, shown, tab>>
  BY DEF TokenAnswers, TokenShown, TokenFails, Gets
<1>3. AtLaunch' /\ TabIsListed'
  <2>1. asks # <<>>
    <3>1. asks = <<>> => Len(asks) = 0
      OBVIOUS
    <3> QED  BY <3>1
  <2> QED  BY <1>2, <2>1, LaunchStays, TabStays DEF SyncIInv, AtLaunch
<1>4. ListIInv'
  BY <1>2, ListStays DEF SyncIInv, ListIInv
<1>5. SUFFICES OldTokenIsDue'
  BY <1>1, <1>3, <1>4 DEF SyncIInv, ListIInv
<1>6. ASSUME TokenExcused' \/ (Fresh(Newest) => Fresh(Newest)') PROVE OldTokenIsDue'
  BY <1>2, <1>6 DEF SyncIInv, OldTokenIsDue, TokenExcused, StartDue, Told, Handling
<1>7. asks \in Seq(AskRecs) /\ asks[k] \in AskRecs
  BY ElementOfSeq DEF SyncIInv, SyncTypes, TokenTypes
<1>8. CASE TokenAnswers(k)
  <2>1. /\ asks # <<>> /\ asks' # <<>> /\ Len(asks') = Len(asks)
        /\ \/ asks'[Len(asks)] = asks[Len(asks)]
           \/ /\ asks'[Len(asks)].of = asks[Len(asks)].of
              /\ asks'[Len(asks)].gen = gen[asks[Len(asks)].of]
    BY <1>8, AnsweredIs DEF SyncIInv
  <2>2. Fresh(Newest) => Fresh(Newest)'
    BY <1>2, <2>1 DEF Fresh, Newest
  <2> QED  BY <1>6, <2>2
<1>9. ASSUME NEW t, Gets(k, t), t.of = 0 \/ t = asks[k] PROVE OldTokenIsDue'
  <2>1. CASE k # 1
    BY <1>6, <1>9, <2>1 DEF Gets, TokenExcused
  <2>2. CASE k = 1
    <3>1. token' = t /\ \/ Len(asks) = 1 /\ asks' = <<>>
                        \/ asks' # <<>> /\ asks'[Len(asks')] = asks[Len(asks)]
      <4> DEFINE d == SubSeq(asks, 1, k - 1) \o SubSeq(asks, k + 1, Len(asks))
      <4>1. \/ Len(asks) = 1 /\ d = <<>>
            \/ Len(asks) # 1 /\ d # <<>> /\ d[Len(d)] = asks[Len(asks)]
        <5>1. LET e == SubSeq(asks, 1, k - 1) \o SubSeq(asks, k + 1, Len(asks))
              IN  k = 1 => \/ Len(asks) = 1 /\ e = <<>>
                           \/ Len(asks) # 1 /\ e # <<>> /\ e[Len(e)] = asks[Len(asks)]
          BY <1>7, DropIs, Zenon
        <5> QED  BY <2>2, <5>1
      <4>2. asks' = d /\ token' = t
        BY <1>9 DEF Gets
      <4> HIDE DEF d
      <4> QED  BY <4>1, <4>2
    <3>2. asks # <<>>
      <4>1. asks = <<>> => Len(asks) = 0
        OBVIOUS
      <4> QED  BY <4>1
    <3>3. Fresh(Newest) => Fresh(Newest)'
      <4>1. CASE Len(asks) = 1 /\ asks' = <<>>
        BY <1>2, <1>9, <2>2, <3>1, <3>2, <4>1 DEF Fresh, Newest
      <4>2. CASE asks' # <<>> /\ asks'[Len(asks')] = asks[Len(asks)]
        BY <1>2, <3>2, <4>2 DEF Fresh, Newest
      <4> QED  BY <3>1, <4>1, <4>2
    <3> QED  BY <1>6, <3>3
  <2> QED  BY <2>1, <2>2
<1> QED  BY <1>8, <1>9, NoTokenIs DEF TokenShown, TokenFails

LEMMA HealthKeeps ==
  ASSUME SyncIInv, Polled \/ (\E i \in Instances : Poll(i) \/ Monitor(i)) \/ UNCHANGED sync
  PROVE  SyncIInv'
<1>1. SyncTypes'
  <2>1. SyncTypes /\ [SyncNext]_sync
    BY DEF SyncIInv, SyncNext
  <2> QED  BY <2>1, SyncTypesKeep
<1>2. UNCHANGED <<world, gen, age, op, events, stage, reader, shown, tab, token, asks, excuses>>
  BY DEF Polled, PollAnswers, PollShown, Poll, Monitor, sync
<1> QED  BY <1>1, <1>2, LaunchStays, TabStays, ListStays, TokenStays DEF SyncIInv, ListIInv

LEMMA SyncKeeps == ASSUME SyncIInv, [SyncNext]_sync PROVE SyncIInv'
  BY MountKeeps, ListenKeeps, CommandKeeps, EffectKeeps, AnnounceKeeps, RefreshKeeps, HandleKeeps, AnswerKeeps,
     PastKeeps, FinishKeeps, SelectKeeps, TokenStepKeeps, HealthKeeps DEF SyncNext, Reader

\* When all is settled nothing is due.
LEMMA SyncSafe == SyncIInv => SyncInv
<1> SUFFICES ASSUME SyncIInv PROVE SyncInv
  OBVIOUS
<1>1. SyncTypeOK
  BY DEF SyncIInv, SyncTypes, WorldTypes, OpTypes, OpRecs, Verbs, PageTypes, ShownRecs, HealthTypes, SyncTypeOK
<1>2. ASSUME Settled
      PROVE  /\ stage # "launch" /\ events = <<>>
             /\ \A o \in Ops : ~NewsDue(o) /\ ~StartDue(o)
             /\ \A r \in Readers : ~ListDue(r) /\ ~Handling(r)
  BY <1>2, NoReaderIs DEF Settled, NewsDue, StartDue, ListDue, Handling
<1>3. ListIsTrue
  <2>1. SUFFICES ASSUME Settled, ~ListExcused PROVE shown.list = There(world)
    BY DEF ListIsTrue, ListExcused
  <2>2. shown.age = age
    BY <1>2, <2>1 DEF SyncIInv, OldListIsDue
  <2> QED  BY <1>2, <2>1, <2>2 DEF SyncIInv, ShownIsOfItsAge, Snapshot
<1>4. TokenIsFresh
  <2>1. SUFFICES ASSUME Settled, asks = <<>>, token.of # 0, ~TokenExcused PROVE token.gen = gen[token.of]
    BY DEF TokenIsFresh, TokenExcused
  <2>2. ~Told
    <3>1. Len(events) = 0
      BY <1>2, <2>1
    <3> QED  BY <3>1 DEF Told
  <2>3. Fresh(token)
    BY <1>2, <2>1, <2>2 DEF SyncIInv, OldTokenIsDue, Newest
  <2>4. token.gen # 0
    BY <2>1 DEF SyncIInv, SyncTypes, TokenTypes
  <2> QED  BY <2>1, <2>3, <2>4 DEF Fresh
<1> QED  BY <1>1, <1>3, <1>4 DEF SyncIInv, SyncInv

\* When all is settled the window lists what is there and shows the token of the
\* last start, unless a call failed, an answer was overtaken, an event came too
\* early or nothing was selected; and it never shows a page of no instance while
\* it lists one: however many instances, commands, handlers and requests.
THEOREM SyncHolds == SyncSpec => []SyncInv
<1>1. SyncInit => SyncIInv
  BY SyncStart
<1>2. SyncIInv /\ [SyncNext]_sync => SyncIInv'
  BY SyncKeeps
<1>3. SyncIInv => SyncInv
  BY SyncSafe
<1> QED  BY <1>1, <1>2, <1>3, PTL DEF SyncSpec

-----------------------------------------------------------------------------
(* The three together.                                                      *)

\* What an answer of the bridge said stays said.
AnswersStay == \A d \in Calls : answer[d] = "ok" => out'[d] = out[d] /\ answer'[d] = "ok"

LEMMA RealStays ==
  ASSUME AnswersStay, NEW k \in Attempts
  PROVE  Real(k) => Real(k)'
<1>1. k \in Calls
  BY WizardAssumption DEF WizardAssumption, Attempts
<1> QED  BY <1>1 DEF AnswersStay, Real, Answered

LEMMA CliStepKeeps ==
  ASSUME CliIInv, CliNext
  PROVE  CliIInv' /\ AnswersStay
<1>1. CliIInv'
  BY CliKeeps
<1>2. CASE Quit
  BY <1>1, <1>2 DEF Quit, AnswersStay
<1>3. ASSUME NEW c \in Calls, Begin(c) \/ Kids(c) \/ Bridge(c) PROVE AnswersStay
  BY <1>3, BeginKeeps, KidsKeep, BridgeKeeps DEF AnswersStay
<1> QED  BY <1>1, <1>2, <1>3 DEF CliNext

Streamed == \A c \in Calls : cjob[c].stream

LEMMA WizardKeeps ==
  ASSUME CliIInv, WizardIInv, Streamed, WizardNext
  PROVE  CliIInv' /\ WizardIInv' /\ Streamed'
<1>0. Attempts = Calls /\ 1 \in Attempts
  BY WizardAssumption DEF WizardAssumption, Attempts
<1>1. cjob' = cjob
  <2>1. CASE Deliver \/ Stall
    BY <2>1 DEF Deliver, Stall, cli
  <2>2. ASSUME NEW k \in Attempts, Start(k) \/ Page(k) PROVE cjob' = cjob
    BY <2>2 DEF Start, Page, Register, Registered, Invoke, cli
  <2>3. ASSUME NEW k \in Attempts, TaskStep(k) PROVE cjob' = cjob
    BY <2>3 DEF TaskStep, ProbeOk, Begin, ProbeFails, Forward, Verdict, DropGuard, cli
  <2>4. ASSUME NEW k \in Attempts, Child(k) PROVE cjob' = cjob
    BY <2>4 DEF Child, Kids, Emit, Conclude, KidExits, KidDies, OrphanPrints, Others,
                Bridge, Spawn, SpawnFails, Read, Silence, Closed, Reap
  <2> QED  BY <2>1, <2>2, <2>3, <2>4 DEF WizardNext
<1>2. Streamed'
  BY <1>1 DEF Streamed
<1>3. ASSUME UNCHANGED cli PROVE CliIInv'
  BY <1>3, CliKeeps
<1>4. CASE Deliver \/ Stall
  <2>1. UNCHANGED cli
    BY <1>4 DEF Deliver, Stall
  <2>2. WizardIInv'
    BY <1>0, <1>4, DeliverKeeps, PageKeeps
  <2> QED  BY <1>2, <1>3, <2>1, <2>2
<1>5. ASSUME NEW k \in Attempts, Start(k) \/ Page(k) PROVE CliIInv' /\ WizardIInv'
  <2>1. UNCHANGED cli
    BY <1>5 DEF Start, Page, Register, Registered, Invoke
  <2>2. WizardIInv'
    BY <1>5, PageKeeps, InvokeKeeps DEF Page
  <2> QED  BY <1>3, <2>1, <2>2
<1>6. ASSUME NEW k \in Attempts, TaskStep(k) PROVE CliIInv' /\ WizardIInv'
  BY <1>6, TaskKeeps DEF Streamed
<1>7. ASSUME NEW k \in Attempts, Child(k) PROVE CliIInv' /\ WizardIInv'
  <2>1. k \in Calls /\ UNCHANGED wizard /\ (Kids(k) \/ Bridge(k))
    BY <1>0, <1>7 DEF Child
  <2>2. CliNext
    BY <2>1 DEF CliNext
  <2> QED  BY <2>1, <2>2, CliStepKeeps, RealStays, BridgeSparesWizard
<1> QED  BY <1>2, <1>4, <1>5, <1>6, <1>7 DEF WizardNext

MCGuiIInv == CliIInv /\ WizardIInv /\ SyncIInv /\ (mode # "calls" => Streamed)

LEMMA MCStart == MCInit => MCGuiIInv
<1> SUFFICES ASSUME MCInit PROVE MCGuiIInv
  OBVIOUS
<1>1. CliIInv /\ WizardIInv /\ SyncIInv
  BY CliStart, WizardStart, SyncStart DEF MCInit
<1>2. ASSUME mode # "calls" PROVE Streamed
  <2>1. cjob \in [Calls -> Jobs] /\ cjob = <<Install, Install>>
    BY <1>2 DEF MCInit, CliInit
  <2>2. Calls = 1..2
    <3>1. DOMAIN cjob = Calls /\ DOMAIN <<Install, Install>> = 1..2
      BY <2>1
    <3> QED  BY <2>1, <3>1
  <2>3. \A c \in 1..2 : cjob[c] = Install
    BY <2>1
  <2> QED  BY <2>2, <2>3 DEF Streamed, Install, Job
<1> QED  BY <1>1, <1>2 DEF MCGuiIInv

LEMMA MCKeeps == ASSUME MCGuiIInv, [MCNext]_gui PROVE MCGuiIInv'
<1>1. ASSUME UNCHANGED sync PROVE SyncIInv'
  BY <1>1, SyncKeeps DEF MCGuiIInv
<1>2. ASSUME UNCHANGED cli PROVE CliIInv' /\ AnswersStay /\ (Streamed => Streamed')
  <2>1. CliIInv'
    BY <1>2, CliKeeps DEF MCGuiIInv
  <2> QED  BY <1>2, <2>1 DEF AnswersStay, Streamed, cli
<1>3. ASSUME UNCHANGED wizard, AnswersStay PROVE WizardIInv'
  BY <1>3, RealStays, BridgeSparesWizard DEF MCGuiIInv
<1>4. CASE mode = "calls" /\ CliNext /\ Idle(<<wizard, sync, mode>>)
  <2>1. UNCHANGED wizard /\ UNCHANGED sync /\ mode' = mode
    BY <1>4 DEF Idle
  <2>2. CliIInv' /\ AnswersStay
    BY <1>4, CliStepKeeps DEF MCGuiIInv
  <2> QED  BY <1>1, <1>3, <1>4, <2>1, <2>2 DEF MCGuiIInv
<1>5. CASE mode = "wizard" /\ WizardNext /\ Idle(<<sync, mode>>)
  <2>1. UNCHANGED sync /\ mode' = mode
    BY <1>5 DEF Idle
  <2>2. CliIInv' /\ WizardIInv' /\ Streamed'
    BY <1>5, WizardKeeps DEF MCGuiIInv
  <2> QED  BY <1>1, <2>1, <2>2 DEF MCGuiIInv
<1>6. CASE SyncNext /\ Idle(<<cli, wizard, mode>>)
  <2>1. UNCHANGED cli /\ UNCHANGED wizard /\ mode' = mode
    BY <1>6 DEF Idle
  <2>2. SyncIInv'
    BY <1>6, SyncKeeps DEF MCGuiIInv
  <2> QED  BY <1>2, <1>3, <2>1, <2>2 DEF MCGuiIInv
<1>7. CASE UNCHANGED gui
  <2>1. UNCHANGED cli /\ UNCHANGED wizard /\ UNCHANGED sync /\ mode' = mode
    BY <1>7 DEF gui
  <2> QED  BY <1>1, <1>2, <1>3, <2>1 DEF MCGuiIInv
<1> QED  BY <1>4, <1>5, <1>6, <1>7 DEF MCNext

\* The GUI's calls, its installations and its window, each by itself as the run
\* lets them move, for any number of calls' events, quits, instances, commands
\* and handlers.
THEOREM GuiHolds == MCSpec => []MCGuiInv
<1>1. MCInit => MCGuiIInv
  BY MCStart
<1>2. MCGuiIInv /\ [MCNext]_gui => MCGuiIInv'
  BY MCKeeps
<1>3. MCGuiIInv => MCGuiInv
  <2>1. ASSUME WizardIInv PROVE WizardInv
    BY <2>1 DEF WizardIInv, WizardInv, CompleteIsReal
  <2> QED  BY <2>1, CliSafe, SyncSafe DEF MCGuiIInv, MCGuiInv
<1> QED  BY <1>1, <1>2, <1>3, PTL DEF MCSpec

=====
