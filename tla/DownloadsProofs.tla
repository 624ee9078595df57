--------------------------- MODULE DownloadsProofs ---------------------------
(***************************************************************************)
(* Proofs about what clawcli downloads: the download cache (DownloadCache),*)
(* for artifacts of any size; and the components (ComponentInstall) when   *)
(* each has one installer at a time, for all versions, archives and        *)
(* faults.  The scenarios of MCClawcli take instances of these theorems.   *)
(***************************************************************************)
EXTENDS ComponentInstall, DownloadCache, TLAPS

\* There is one of them, and no more.
Sole(processes) == \E one : processes = {one}

-----------------------------------------------------------------------------
(* Downloads: the types are inductive for any number of processes.          *)

\* What the cache does, whether or not the fetches go on.
Downloading == CacheInit /\ [][CacheNext]_cache

LEMMA FileIsNone == NoFile \notin Files /\ Blank \in Files /\ ~Good(NoFile)
  BY CacheAssumption DEF Files, Blank, Good

\* A fetch lets go of the file, if it had it, and the others' handles stay open.
LetsGo(p) ==
  /\ file' \in Files \union {NoFile}
  /\ handle' \in [Fetchers -> {"closed", "live", "orphan"}]
  /\ handle'[p] = "closed"
  /\ \A q \in Fetchers \ {p} : (handle'[q] = "closed") <=> (handle[q] = "closed")
  /\ \A q \in Fetchers : handle'[q] = "live" => file' # NoFile

\* And it goes on to a step at which it holds none.
GoesOn(p) ==
  /\ fpc' \in [Fetchers -> {"idle", "hash", "discard", "connect", "receive"}]
  /\ fpc'[p] # "receive" /\ \A q \in Fetchers \ {p} : fpc'[q] = fpc[q]
  /\ got' = got /\ body' = body /\ torn' \in BOOLEAN
  /\ attempt' \in [Fetchers -> 1..MAX_ATTEMPTS]
  /\ result' \in [Fetchers -> {"none", "ok", "err"}]

LEMMA Released ==
  ASSUME CacheTypeOK, NEW p \in Fetchers,
         Unlink(p) \/ CloseOnly(p) \/ (fpc[p] # "receive" /\ UNCHANGED <<file, handle>>)
  PROVE  LetsGo(p)
<1>1. CASE Unlink(p)
  BY <1>1 DEF CacheTypeOK, Unlink, LetsGo
<1>2. CASE CloseOnly(p)
  BY <1>2 DEF CacheTypeOK, CloseOnly, LetsGo
<1>3. CASE fpc[p] # "receive" /\ UNCHANGED <<file, handle>>
  BY <1>3 DEF CacheTypeOK, LetsGo
<1> QED  BY <1>1, <1>2, <1>3

LEMMA Advances ==
  ASSUME CacheTypeOK, NEW p \in Fetchers, torn' \in BOOLEAN,
         \/ \E r \in {"none", "ok", "err"} : Return(p, r)
         \/ Retry(p)
         \/ /\ \E step \in {"discard", "connect"} : FetchGoto(p, step)
            /\ UNCHANGED <<got, body, attempt, result>>
  PROVE  GoesOn(p)
<1>1. ASSUME NEW r \in {"none", "ok", "err"}, Return(p, r) PROVE GoesOn(p)
  BY <1>1 DEF CacheTypeOK, Return, FetchGoto, GoesOn
<1>2. CASE Retry(p)
  <2>1. CASE attempt[p] < MAX_ATTEMPTS
    <3>1. attempt[p] + 1 \in 1..MAX_ATTEMPTS
      BY <2>1, CacheAssumption DEF CacheTypeOK
    <3> QED  BY <1>2, <2>1, <3>1 DEF CacheTypeOK, Retry, FetchGoto, GoesOn
  <2>2. CASE ~(attempt[p] < MAX_ATTEMPTS)
    BY <1>2, <2>2 DEF CacheTypeOK, Retry, FetchGoto, GoesOn
  <2> QED  BY <2>1, <2>2
<1>3. ASSUME NEW step \in {"discard", "connect"}, FetchGoto(p, step), UNCHANGED <<got, body, attempt, result>>
      PROVE  GoesOn(p)
  BY <1>3 DEF CacheTypeOK, FetchGoto, GoesOn
<1> QED  BY <1>1, <1>2, <1>3

LEMMA ReleasedIsTyped ==
  ASSUME CacheTypeOK, NEW p \in Fetchers, LetsGo(p), GoesOn(p)
  PROVE  CacheTypeOK'
BY DEF CacheTypeOK, LetsGo, GoesOn

LEMMA CacheTypeStart == CacheInit => CacheTypeOK
<1> SUFFICES ASSUME CacheInit PROVE CacheTypeOK
  OBVIOUS
<1>1. torn \in BOOLEAN
  BY DEF CacheInit
<1>2. 1 \in 1..MAX_ATTEMPTS /\ 0 \in 0..Chunks
  BY CacheAssumption
<1> QED  BY <1>1, <1>2 DEF CacheInit, CacheTypeOK

LEMMA CacheTypeStep == CacheTypeOK /\ [CacheNext]_cache => CacheTypeOK'
<1> SUFFICES ASSUME CacheTypeOK, [CacheNext]_cache PROVE CacheTypeOK'
  OBVIOUS
<1>1. ASSUME NEW p \in Fetchers, BeginFetch(p) PROVE CacheTypeOK'
  <2>1. attempt' \in [Fetchers -> 1..MAX_ATTEMPTS]
    <3>1. 1 \in 1..MAX_ATTEMPTS
      BY CacheAssumption
    <3> QED  BY <1>1, <3>1 DEF BeginFetch, CacheTypeOK
  <2>2. result' \in [Fetchers -> {"none", "ok", "err"}]
    BY <1>1 DEF BeginFetch, CacheTypeOK
  <2>3. /\ fpc' \in [Fetchers -> {"idle", "hash", "discard", "connect", "receive"}]
        /\ \A q \in Fetchers : (fpc'[q] = "receive") <=> (fpc[q] = "receive")
    BY <1>1 DEF BeginFetch, CacheTypeOK, FetchGoto
  <2> QED  BY <1>1, <2>1, <2>2, <2>3 DEF BeginFetch, CacheTypeOK
<1>2. ASSUME NEW p \in Fetchers, HashCached(p) PROVE CacheTypeOK'
  BY <1>2, Released, Advances, ReleasedIsTyped DEF HashCached, CacheTypeOK
<1>3. ASSUME NEW p \in Fetchers, Discard(p) PROVE CacheTypeOK'
  BY <1>3, Released, Advances, ReleasedIsTyped DEF Discard, CacheTypeOK
<1>4. ASSUME NEW p \in Fetchers, Connect(p) PROVE CacheTypeOK'
  <2>1. torn' \in BOOLEAN
    BY <1>4 DEF Connect
  <2>2. 0 \in 0..Chunks
    BY CacheAssumption
  <2> QED  BY <1>4, <2>1, <2>2, FileIsNone DEF Connect, CacheTypeOK, FetchGoto
<1>5. ASSUME NEW p \in Fetchers, ConnectFails(p) PROVE CacheTypeOK'
  BY <1>5, Released, Advances, ReleasedIsTyped DEF ConnectFails, CacheTypeOK
<1>6. ASSUME NEW p \in Fetchers, Receive(p) PROVE CacheTypeOK'
  <2> USE CacheAssumption, FileIsNone DEF CacheTypeOK
  <2>1. got[p] \in 0..Chunks /\ got[p] < Chunks /\ Bytes(p) \in {"good", "bad"}
    BY <1>6 DEF Receive, Bytes
  <2>2. file' \in Files \union {NoFile} /\ (file # NoFile => file' # NoFile)
    <3>1. CASE handle[p] = "live"
      <4>1. file \in Files /\ file' = [file EXCEPT ![got[p] + 1] = Bytes(p)]
        BY <1>6, <3>1 DEF Receive
      <4>2. file' \in Files
        BY <2>1, <4>1 DEF Files
      <4> QED  BY <4>2
    <3>2. CASE handle[p] # "live"
      BY <1>6, <3>2 DEF Receive
    <3> QED  BY <3>1, <3>2
  <2>3. got' \in [Fetchers -> 0..Chunks]
    BY <1>6, <2>1 DEF Receive
  <2>4. UNCHANGED <<fpc, handle, body, attempt, result, torn>>
    BY <1>6 DEF Receive
  <2> QED  BY <2>2, <2>3, <2>4
<1>7. ASSUME NEW p \in Fetchers, StreamFails(p) \/ WriteFails(p) \/ VerifySum(p) \/ FetcherDies(p) PROVE CacheTypeOK'
  <2>1. CASE StreamFails(p) \/ WriteFails(p)
    BY <2>1, Released, Advances, ReleasedIsTyped DEF StreamFails, WriteFails, CacheTypeOK
  <2>2. CASE VerifySum(p)
    <3>1. torn' \in BOOLEAN
      BY <2>2 DEF VerifySum
    <3> QED  BY <2>2, <3>1, Released, Advances, ReleasedIsTyped DEF VerifySum
  <2>3. CASE FetcherDies(p)
    <3>1. torn' \in BOOLEAN
      BY <2>3 DEF FetcherDies
    <3> QED  BY <2>3, <3>1, Released, Advances, ReleasedIsTyped DEF FetcherDies
  <2> QED  BY <1>7, <2>1, <2>2, <2>3
<1>8. CASE Prune
  BY <1>8 DEF Prune, CacheTypeOK
<1>9. CASE UNCHANGED cache
  BY <1>9 DEF cache, CacheTypeOK
<1> QED  BY <1>1, <1>2, <1>3, <1>4, <1>5, <1>6, <1>7, <1>8, <1>9 DEF CacheNext, Fetching

(* Whatever fetches and prunes meet: a fetch holds the file open exactly    *)
(* while it receives, and a handle that is live is on a file that is there  *)
(* (core/src/download_ops/default.rs:131-205).                              *)
THEOREM CacheTyped == Downloading => []CacheTypeOK
<1>1. CacheInit => CacheTypeOK
  BY CacheTypeStart
<1> QED  BY <1>1, CacheTypeStep, PTL DEF Downloading

-----------------------------------------------------------------------------
(* Downloads by one process, beside which nothing prunes.                   *)
CacheTypes ==
  /\ CacheTypeOK
  /\ \A p \in Fetchers : handle[p] # "orphan" /\ (fpc[p] # "idle" => result[p] = "none")

\* What has arrived is in the file.
Arrived == \A p \in Fetchers : fpc[p] = "receive" => \A c \in 1..got[p] : file[c] = Bytes(p)

\* Where the bytes are right, what is left behind half-written is torn.
WholeOrGone ==
  /\ \A p \in Fetchers : body[p] # "bad"
  /\ (\A p \in Fetchers : fpc[p] # "receive") => file = NoFile \/ Good(file) \/ torn

LEMMA CacheStart == CacheInit => CacheTypes /\ Arrived /\ WholeOrGone
  BY CacheTypeStart DEF CacheInit, CacheTypes, Arrived, WholeOrGone

(* The file, its handle and its bytes as one process and its faults leave   *)
(* them.                                                                    *)
LEMMA CacheStep ==
  ASSUME NEW p, Fetchers = {p}, "prune" \notin CacheFaults, CacheTypes, Arrived, [CacheNext]_cache
  PROVE  CacheTypes' /\ Arrived'
<1> USE CacheAssumption, FileIsNone DEF CacheTypes, CacheTypeOK, Arrived, Bytes
<1>1. CASE BeginFetch(p)
  BY <1>1 DEF BeginFetch, FetchGoto
<1>2. CASE HashCached(p)
  BY <1>2 DEF HashCached, Return, FetchGoto
<1>3. CASE Discard(p)
  BY <1>3 DEF Discard, Unlink, Return, FetchGoto
<1>4. CASE Connect(p)
  <2>1. CacheTypeOK'
    BY <1>4, CacheTypeStep DEF CacheNext, Fetching
  <2>2. handle'[p] = "live" /\ result' = result /\ got'[p] = 0 /\ fpc[p] # "idle"
    BY <1>4 DEF Connect
  <2>3. \A c \in 1..got'[p] : file'[c] = Bytes(p)'
    BY <2>2
  <2> QED  BY <2>1, <2>2, <2>3 DEF Connect
<1>5. CASE ConnectFails(p)
  BY <1>5 DEF ConnectFails, Retry, FetchGoto
<1>6. CASE Receive(p)
  <2>1. /\ fpc[p] = "receive" /\ handle[p] = "live" /\ file # NoFile /\ file \in Files
        /\ got[p] \in 0..Chunks /\ got[p] < Chunks /\ Bytes(p) \in {"good", "bad"}
        /\ got' = [got EXCEPT ![p] = got[p] + 1]
        /\ file' = [file EXCEPT ![got[p] + 1] = Bytes(p)]
        /\ UNCHANGED <<fpc, handle, body, attempt, result, torn>>
    BY <1>6 DEF Receive
  <2>2. file' \in Files
    BY <2>1 DEF Files
  <2>3. got'[p] = got[p] + 1 /\ got' \in [Fetchers -> 0..Chunks]
    BY <2>1
  <2>4. \A c \in 1..got'[p] : file'[c] = Bytes(p)
    BY <2>1, <2>3 DEF Files
  <2>5. Arrived'
    BY <2>1, <2>4
  <2>6. CacheTypes'
    BY <2>1, <2>2, <2>3
  <2> QED  BY <2>5, <2>6
<1>7. CASE StreamFails(p)
  BY <1>7 DEF StreamFails, Unlink, Retry, FetchGoto
<1>8. CASE WriteFails(p)
  BY <1>8 DEF WriteFails, CloseOnly, Retry, FetchGoto
<1>9. CASE VerifySum(p)
  BY <1>9 DEF VerifySum, CloseOnly, Unlink, Retry, Return, FetchGoto
<1>10. CASE FetcherDies(p)
  BY <1>10 DEF FetcherDies, CloseOnly, Return, FetchGoto
<1>11. CASE UNCHANGED cache
  BY <1>11 DEF cache
<1> QED  BY <1>1, <1>2, <1>3, <1>4, <1>5, <1>6, <1>7, <1>8, <1>9, <1>10, <1>11 DEF CacheNext, Fetching, Prune

(* One process fetches an artifact with a pinned checksum: Ok means that    *)
(* the file is the whole, right artifact, however many chunks it has and    *)
(* whatever kills, failed writes and wrong bodies had left behind           *)
(* (core/src/download_ops/default.rs:80-205).                               *)
THEOREM PinnedFetchIsWhole ==
  ASSUME Sole(Fetchers), "prune" \notin CacheFaults, Pinned
  PROVE  Downloading => [][OkIsWholeStep]_cache
<1>1. CacheTypes /\ Arrived /\ [CacheNext]_cache => CacheTypes' /\ Arrived'
  BY CacheStep DEF Sole
<1>2. ASSUME NEW p, Fetchers = {p}, CacheTypes, Arrived, CacheNext, result'[p] = "ok", result[p] # "ok" \/ fpc[p] # "idle"
      PROVE  Good(file')
  <2>1. /\ result \in [Fetchers -> {"none", "ok", "err"}] /\ p \in Fetchers
        /\ file \in Files \union {NoFile}
        /\ fpc[p] = "receive" => handle[p] = "live" /\ file \in Files
        /\ body \in [Fetchers -> {"good", "bad", "endless"}] /\ (fpc[p] # "idle" => result[p] = "none")
    BY <1>2 DEF CacheTypes, CacheTypeOK
  <2>2. CASE BeginFetch(p)
    BY <1>2, <2>1, <2>2 DEF BeginFetch
  <2>3. CASE HashCached(p)
    <3>1. Good(file) /\ UNCHANGED file
      BY <1>2, <2>1, <2>3 DEF HashCached, Return, FetchGoto
    <3> QED  BY <3>1 DEF Good
  <2>4. CASE VerifySum(p)
    <3>1. got[p] = Chunks /\ body[p] = "good" /\ UNCHANGED file /\ file \in Files
      <4>1. ~(Pinned /\ (body[p] = "bad" \/ got[p] < Chunks))
        BY <1>2, <2>1, <2>4 DEF VerifySum, Retry
      <4>2. got[p] \in 0..Chunks /\ body[p] # "endless"
        BY <1>2, <2>4 DEF VerifySum, CacheTypes, CacheTypeOK
      <4> QED  BY <1>2, <2>1, <2>4, <4>1, <4>2, CacheAssumption DEF VerifySum, CloseOnly
    <3>2. \A c \in 1..Chunks : file[c] = "good"
      BY <1>2, <2>1, <2>4, <3>1 DEF Arrived, Bytes, VerifySum
    <3> QED  BY <3>1, <3>2, FileIsNone DEF Good
  <2>5. CASE Discard(p) \/ Connect(p) \/ ConnectFails(p) \/ Receive(p) \/ StreamFails(p) \/ WriteFails(p) \/ FetcherDies(p)
    <3>1. result'[p] \in {"none", "err"}
      BY <2>1, <2>5 DEF Discard, Connect, ConnectFails, Receive, StreamFails, WriteFails, FetcherDies, Return, Retry
    <3> QED  BY <1>2, <3>1
  <2> QED  BY <1>2, <2>2, <2>3, <2>4, <2>5 DEF CacheNext, Fetching, Prune
<1>3. CacheInit => CacheTypes /\ Arrived
  BY CacheStart
<1>4. CacheTypes /\ Arrived /\ [CacheNext]_cache => [OkIsWholeStep]_cache
  BY <1>2 DEF Sole, OkIsWholeStep
<1> QED  BY <1>1, <1>3, <1>4, PTL DEF Downloading

(* Without a checksum, and with a server that sends the right bytes, what   *)
(* is returned is whole unless a failed write, a kill or a body that ended  *)
(* early had left the file torn; and so is what a failed fetch leaves for   *)
(* the next to hit, if it leaves any (download_ops/default.rs:80-205).      *)
THEOREM UnpinnedFetchIsWhole ==
  ASSUME Sole(Fetchers), CacheFaults \subseteq FaultKinds \ {"prune", "body"}, ~Pinned
  PROVE  Downloading => [][OkIsWholeStep /\ ErrLeavesNothingStep]_cache
<1>1. CacheTypes /\ Arrived /\ [CacheNext]_cache => CacheTypes' /\ Arrived'
  BY CacheStep DEF Sole
<1>2. ASSUME NEW p, Fetchers = {p}, CacheTypes, Arrived, WholeOrGone, CacheNext
      PROVE  WholeOrGone' /\ OkIsWholeStep /\ ErrLeavesNothingStep
  <2> USE <1>2, CacheAssumption, FileIsNone DEF CacheTypes, CacheTypeOK, WholeOrGone, OkIsWholeStep, ErrLeavesNothingStep, FaultKinds
  <2>1. CASE BeginFetch(p)
    BY <2>1 DEF BeginFetch, FetchGoto, Good
  <2>2. CASE HashCached(p)
    BY <2>2 DEF HashCached, Return, FetchGoto, Good
  <2>3. CASE Discard(p)
    BY <2>3 DEF Discard, Unlink, Return, FetchGoto, Good
  <2>4. CASE Connect(p)
    BY <2>4 DEF Connect, FetchGoto
  <2>5. CASE ConnectFails(p)
    BY <2>5 DEF ConnectFails, Retry, FetchGoto, Good
  <2>6. CASE Receive(p)
    BY <2>6 DEF Receive
  <2>7. CASE StreamFails(p)
    BY <2>7 DEF StreamFails, Unlink, Retry, FetchGoto
  <2>8. CASE VerifySum(p)
    <3>1. /\ file \in Files /\ got[p] \in 0..Chunks /\ body[p] = "good"
          /\ torn' = (got[p] < Chunks)
      BY <2>8 DEF VerifySum
    <3>2. got[p] = Chunks => Good(file)
      <4>1. got[p] = Chunks => \A c \in 1..Chunks : file[c] = "good"
        BY <2>8, <3>1 DEF VerifySum, Arrived, Bytes
      <4> QED  BY <3>1, <4>1 DEF Good
    <3>3. got[p] # Chunks => got[p] < Chunks
      BY <3>1
    <3>4. Good(file) \/ torn'
      BY <3>1, <3>2, <3>3, Zenon
    <3> QED  BY <2>8, <3>4 DEF VerifySum, CloseOnly, Unlink, Retry, Return, FetchGoto, Good
  <2>9. CASE WriteFails(p) \/ FetcherDies(p)
    BY <2>9 DEF WriteFails, FetcherDies, CloseOnly, Retry, Return, FetchGoto
  <2> QED  BY <2>1, <2>2, <2>3, <2>4, <2>5, <2>6, <2>7, <2>8, <2>9 DEF CacheNext, Fetching, Prune
<1>3. CacheInit => CacheTypes /\ Arrived /\ WholeOrGone
  BY CacheStart
<1>4. WholeOrGone /\ CacheTypes /\ Arrived /\ [CacheNext]_cache
        => WholeOrGone' /\ [OkIsWholeStep /\ ErrLeavesNothingStep]_cache
  BY <1>2 DEF Sole, cache, WholeOrGone, Good
<1> QED  BY <1>1, <1>3, <1>4, PTL DEF Downloading

-----------------------------------------------------------------------------
(* Components: the types are inductive for any number of installers.       *)

LEMMA TypeInit == Init => TypeOK
  BY DEF Init, TypeOK, Dir, Steps

LEMMA TypeStep == TypeOK /\ [Next]_vars => TypeOK'
<1> SUFFICES ASSUME TypeOK, [Next]_vars PROVE TypeOK'
  OBVIOUS
<1> USE ComponentAssumption DEF TypeOK, Dir, Steps, Goto, Bail, DropGuards, Removed, EmptyDir
<1>1. CASE UNCHANGED vars
  BY <1>1 DEF vars
<1>2. ASSUME NEW p \in Installers, Step(p) PROVE TypeOK'
  <2>1. ASSUME NEW kind \in Kinds, NEW v \in Versions, Request(p, kind, v) PROVE TypeOK'
    BY <2>1 DEF Request
  <2>2. ASSUME NEW e \in Entries, RemoveEntry(p, e) PROVE TypeOK'
    BY <2>2 DEF RemoveEntry
  <2>3. ASSUME NEW e \in Entries, Unpack(p, e) PROVE TypeOK'
    BY <2>3 DEF Unpack
  <2>4. CASE RemoveDone(p)
    BY <2>4 DEF RemoveDone
  <2>5. CASE RemoveFails(p)
    BY <2>5 DEF RemoveFails
  <2>6. CASE Fetch(p)
    BY <2>6 DEF Fetch
  <2>7. CASE ClearStaging(p)
    BY <2>7 DEF ClearStaging
  <2>8. CASE MakeStaging(p)
    BY <2>8 DEF MakeStaging
  <2>9. CASE MakeFails(p)
    BY <2>9 DEF MakeFails
  <2>10. CASE UnpackFails(p)
    BY <2>10 DEF UnpackFails
  <2>11. CASE ClearBackup(p)
    BY <2>11 DEF ClearBackup
  <2>12. CASE MoveOld(p)
    BY <2>12 DEF MoveOld, CanRename
  <2>13. CASE MoveOldFails(p)
    BY <2>13 DEF MoveOldFails
  <2>14. CASE MoveNew(p)
    BY <2>14 DEF MoveNew, CanRename
  <2>15. CASE MoveNewFails(p)
    BY <2>15 DEF MoveNewFails
  <2>16. CASE Cleanup(p)
    BY <2>16 DEF Cleanup
  <2>17. CASE Crash(p)
    BY <2>17 DEF Crash
  <2> QED
    BY <1>2, <2>1, <2>2, <2>3, <2>4, <2>5, <2>6, <2>7, <2>8, <2>9, <2>10,
       <2>11, <2>12, <2>13, <2>14, <2>15, <2>16, <2>17 DEF Step
<1> QED
  BY <1>1, <1>2 DEF Next

(***************************************************************************)
(* The types hold in every reachable state: in particular the guard of the *)
(* backup directory is armed only between the two renames and the cleanup. *)
(***************************************************************************)
THEOREM ComponentTypes == Spec => []TypeOK
  BY TypeInit, TypeStep, PTL DEF Spec

-----------------------------------------------------------------------------
(***************************************************************************)
(* What a single installer knows about its staging directory at each step, *)
(* whether it installs or reinstalls and whatever fails.                   *)
(***************************************************************************)
Unpacked(p) ==
    /\ staging \in Dir
    /\ \A e \in Entries \ left[p] : staging[e] = version[p]

StagedInv ==
    \A p \in Installers :
        /\ pc[p] = "extract" => Unpacked(p)
        /\ pc[p] \in {"moveOld", "moveNew"} => staging = All(version[p])
        /\ pc[p] = "cleanup" => target = All(version[p])

LEMMA UnpackedIsWhole ==
  ASSUME NEW p \in Installers, TypeOK, Unpacked(p), left[p] = {}
  PROVE  staging = All(version[p])
BY DEF TypeOK, Unpacked, All, Dir

LEMMA StagedInit == Init => StagedInv
  BY DEF Init, StagedInv

LEMMA StagedStep ==
  ASSUME NEW me, Installers = {me}, TypeOK, StagedInv, [Next]_vars
  PROVE  StagedInv'
<1>1. CASE UNCHANGED vars
  BY <1>1 DEF vars, StagedInv, Unpacked
<1>2. CASE Step(me)
  <2> USE DEF StagedInv, TypeOK, Goto, Bail
  <2>1. ASSUME NEW kind \in Kinds, NEW v \in Versions, Request(me, kind, v) PROVE StagedInv'
    BY <2>1 DEF Request
  <2>2. ASSUME NEW e \in Entries, RemoveEntry(me, e) PROVE StagedInv'
    BY <2>2 DEF RemoveEntry
  <2>3. ASSUME NEW e \in Entries, Unpack(me, e) PROVE StagedInv'
    <3>1. Unpacked(me)'
      BY <2>3, ComponentAssumption DEF Unpack, Unpacked, Dir
    <3> QED
      BY <2>3, <3>1 DEF Unpack
  <2>4. CASE RemoveDone(me) \/ RemoveFails(me) \/ Fetch(me)
    BY <2>4 DEF RemoveDone, RemoveFails, Fetch
  <2>5. CASE ClearStaging(me)
    BY <2>5 DEF ClearStaging
  <2>6. CASE MakeStaging(me)
    <3>1. Unpacked(me)'
      BY <2>6 DEF MakeStaging, Unpacked, Dir, EmptyDir
    <3> QED
      BY <2>6, <3>1 DEF MakeStaging
  <2>7. CASE MakeFails(me) \/ UnpackFails(me) \/ MoveOldFails(me) \/ MoveNewFails(me)
    BY <2>7 DEF MakeFails, UnpackFails, MoveOldFails, MoveNewFails
  <2>8. CASE ClearBackup(me)
    <3>1. staging = All(version[me])
      BY <2>8, UnpackedIsWhole DEF ClearBackup
    <3> QED
      BY <2>8, <3>1 DEF ClearBackup
  <2>9. CASE MoveOld(me) \/ MoveNew(me)
    BY <2>9 DEF MoveOld, MoveNew
  <2>10. CASE Cleanup(me) \/ Crash(me)
    BY <2>10 DEF Cleanup, Crash
  <2> QED
    BY <1>2, <2>1, <2>2, <2>3, <2>4, <2>5, <2>6, <2>7, <2>8, <2>9, <2>10 DEF Step
<1> QED
  BY <1>1, <1>2 DEF Next

LEMMA SpecStaged ==
  ASSUME Sole(Installers)
  PROVE  Spec => [](TypeOK /\ StagedInv)
<1>1. TypeOK /\ StagedInv /\ [Next]_vars => StagedInv'
  BY StagedStep DEF Sole
<1> QED
  BY ComponentTypes, StagedInit, <1>1, PTL DEF Spec

(***************************************************************************)
(* With one installer Ok means the requested version is in place, for      *)
(* installs, upgrades and reinstalls, whatever fails and whenever it was   *)
(* killed before.                                                          *)
(***************************************************************************)
THEOREM OkIsInstalled ==
  ASSUME Sole(Installers)
  PROVE  Spec => []OkMeansInstalled
<1>1. StagedInv => OkMeansInstalled
  BY DEF StagedInv, OkMeansInstalled
<1> QED
  BY SpecStaged, <1>1, PTL

-----------------------------------------------------------------------------
(***************************************************************************)
(* What a single installer that does not reinstall knows about the         *)
(* component in use.                                                       *)
(***************************************************************************)
SoleInv ==
    /\ NeverBroken
    /\ \A p \in Installers :
        /\ pc[p] # "remove"
        /\ pc[p] = "moveOld" => Whole(target)
        /\ pc[p] = "moveNew" => target = NoDir

LEMMA SoleInit == Init => SoleInv
  BY DEF Init, SoleInv, NeverBroken

LEMMA SoleStep ==
  ASSUME NEW me, Installers = {me}, "reinstall" \notin Kinds,
         TypeOK, StagedInv, SoleInv, [Next]_vars
  PROVE  SoleInv'
<1>1. CASE UNCHANGED vars
  BY <1>1 DEF vars, SoleInv, NeverBroken
<1>2. CASE Step(me)
  <2> USE ComponentAssumption DEF SoleInv, NeverBroken, TypeOK, Goto, Bail
  <2>1. ASSUME NEW kind \in Kinds, NEW v \in Versions, Request(me, kind, v) PROVE SoleInv'
    BY <2>1 DEF Request
  <2>2. ASSUME NEW e \in Entries, RemoveEntry(me, e) \/ Unpack(me, e) PROVE SoleInv'
    BY <2>2 DEF RemoveEntry, Unpack
  <2>3. CASE RemoveDone(me) \/ RemoveFails(me) \/ Fetch(me)
    BY <2>3 DEF RemoveDone, RemoveFails, Fetch
  <2>4. CASE ClearStaging(me) \/ MakeStaging(me)
    BY <2>4 DEF ClearStaging, MakeStaging
  <2>5. CASE MakeFails(me) \/ UnpackFails(me) \/ MoveOldFails(me) \/ MoveNewFails(me)
    BY <2>5 DEF MakeFails, UnpackFails, MoveOldFails, MoveNewFails
  <2>6. CASE ClearBackup(me)
    BY <2>6 DEF ClearBackup
  <2>7. CASE MoveOld(me)
    BY <2>7 DEF MoveOld
  <2>8. CASE MoveNew(me)
    <3>1. target' = All(version[me]) /\ version[me] \in Versions
      BY <2>8 DEF MoveNew, StagedInv
    <3>2. Whole(target')
      BY <3>1 DEF Whole
    <3> QED
      BY <2>8, <3>2 DEF MoveNew
  <2>9. CASE Cleanup(me) \/ Crash(me)
    BY <2>9 DEF Cleanup, Crash
  <2> QED
    BY <1>2, <2>1, <2>2, <2>3, <2>4, <2>5, <2>6, <2>7, <2>8, <2>9 DEF Step
<1> QED
  BY <1>1, <1>2 DEF Next

LEMMA SpecSole ==
  ASSUME Sole(Installers), "reinstall" \notin Kinds
  PROVE  Spec => [](TypeOK /\ StagedInv /\ SoleInv)
<1>1. TypeOK /\ StagedInv /\ SoleInv /\ [Next]_vars => SoleInv'
  BY SoleStep DEF Sole
<1> QED
  BY SpecStaged, SoleInit, <1>1, PTL DEF Spec

(***************************************************************************)
(* With one installer and no reinstall, the component in use is never      *)
(* broken, whatever fails.                                                 *)
(***************************************************************************)
THEOREM SoleInstallerSafe ==
  ASSUME Sole(Installers), "reinstall" \notin Kinds
  PROVE  Spec => []NeverBroken
<1>1. SoleInv => NeverBroken
  BY DEF SoleInv
<1> QED
  BY SpecSole, <1>1, PTL

-----------------------------------------------------------------------------
(***************************************************************************)
(* With one installer, no reinstall and a second rename that works, no     *)
(* step destroys the last whole version: a crash may leave the component   *)
(* away, but then the old one is still there as the backup.                *)
(***************************************************************************)
LEMMA SoleKeeps ==
  ASSUME NEW me, Installers = {me}, "reinstall" \notin Kinds,
         "moveNew" \notin Faults, TypeOK, StagedInv, SoleInv, Next, Available
  PROVE  Available'
<1> USE DEF Available, StagedInv, SoleInv, NeverBroken, TypeOK, Goto, Bail, DropGuards, Removed
<1>1. Step(me)
  BY DEF Next
<1>2. ASSUME NEW kind \in Kinds, NEW v \in Versions, Request(me, kind, v) PROVE Available'
  BY <1>2 DEF Request
<1>3. ASSUME NEW e \in Entries, RemoveEntry(me, e) \/ Unpack(me, e) PROVE Available'
  BY <1>3 DEF RemoveEntry, Unpack
<1>4. CASE RemoveDone(me) \/ RemoveFails(me) \/ Fetch(me) \/ Crash(me)
  BY <1>4 DEF RemoveDone, RemoveFails, Fetch, Crash
<1>5. CASE ClearStaging(me) \/ MakeStaging(me)
  BY <1>5 DEF ClearStaging, MakeStaging
<1>6. CASE MakeFails(me) \/ UnpackFails(me) \/ MoveOldFails(me)
  BY <1>6 DEF MakeFails, UnpackFails, MoveOldFails
<1>7. CASE ClearBackup(me)
  BY <1>7 DEF ClearBackup
<1>8. CASE MoveOld(me)
  BY <1>8 DEF MoveOld
<1>9. CASE MoveNew(me)
  <2>1. target' = All(version[me]) /\ version[me] \in Versions
    BY <1>9 DEF MoveNew
  <2> QED
    BY <2>1 DEF Whole
<1>10. CASE MoveNewFails(me)
  <2>1. pc[me] = "moveNew" /\ target = NoDir
    BY <1>10 DEF MoveNewFails
  <2>2. staging = All(version[me]) /\ version[me] \in Versions
    BY <2>1
  <2>3. staging # NoDir
    BY <2>2, ComponentAssumption DEF All
  <2> QED
    BY <1>10, <2>1, <2>3 DEF MoveNewFails, RenameMayFail
<1>11. CASE Cleanup(me)
  <2>1. target' = All(version[me]) /\ version[me] \in Versions
    BY <1>11 DEF Cleanup
  <2> QED
    BY <2>1 DEF Whole
<1> QED
  BY <1>1, <1>2, <1>3, <1>4, <1>5, <1>6, <1>7, <1>8, <1>9, <1>10, <1>11 DEF Step

(* From the first install on, some whole version is on the disk at every   *)
(* step of an installer that is alone, does not reinstall and whose second *)
(* rename does not fail (core/src/native_ops/default.rs:146-167).           *)
THEOREM SoleInstallerKeeps ==
  ASSUME Sole(Installers), "reinstall" \notin Kinds,
         "moveNew" \notin Faults
  PROVE  Spec => KeepsAVersion
<1>1. TypeOK /\ StagedInv /\ SoleInv /\ [Next]_vars => [Available => Available']_vars
  BY SoleKeeps DEF Sole, vars
<1> QED
  BY SpecSole, <1>1, PTL DEF Spec, KeepsAVersion

-----------------------------------------------------------------------------
(***************************************************************************)
(* Where nothing is killed and removals work, the directories a call makes *)
(* are its own: staging from the unpacking to the commit point, the backup *)
(* while its guard is armed.                                               *)
(***************************************************************************)
OwnDirs ==
    \A p \in Installers :
        /\ pc[p] \notin {"extract", "moveOld", "moveNew"} => staging = NoDir
        /\ ~armed[p] => backup = NoDir

LEMMA OwnDirsStep ==
  ASSUME NEW me, Installers = {me}, "remove" \notin Faults, "crash" \notin Faults,
         TypeOK, OwnDirs, [Next]_vars
  PROVE  OwnDirs'
<1>1. CASE UNCHANGED vars
  BY <1>1 DEF vars, OwnDirs
<1>2. CASE Step(me)
  <2> USE DEF OwnDirs, TypeOK, Goto, Bail, DropGuards, Removed
  <2>1. ASSUME NEW kind \in Kinds, NEW v \in Versions, Request(me, kind, v) PROVE OwnDirs'
    BY <2>1 DEF Request
  <2>2. ASSUME NEW e \in Entries, RemoveEntry(me, e) \/ Unpack(me, e) PROVE OwnDirs'
    BY <2>2 DEF RemoveEntry, Unpack
  <2>3. CASE RemoveDone(me) \/ RemoveFails(me) \/ Fetch(me)
    BY <2>3 DEF RemoveDone, RemoveFails, Fetch
  <2>4. CASE ClearStaging(me) \/ MakeStaging(me)
    BY <2>4 DEF ClearStaging, MakeStaging
  <2>5. CASE MakeFails(me) \/ UnpackFails(me) \/ MoveOldFails(me) \/ MoveNewFails(me)
    BY <2>5 DEF MakeFails, UnpackFails, MoveOldFails, MoveNewFails
  <2>6. CASE ClearBackup(me)
    BY <2>6 DEF ClearBackup
  <2>7. CASE MoveOld(me) \/ MoveNew(me)
    BY <2>7 DEF MoveOld, MoveNew
  <2>8. CASE Cleanup(me) \/ Crash(me)
    BY <2>8 DEF Cleanup, Crash
  <2> QED
    BY <1>2, <2>1, <2>2, <2>3, <2>4, <2>5, <2>6, <2>7, <2>8 DEF Step
<1> QED
  BY <1>1, <1>2 DEF Next

(***************************************************************************)
(* With one installer, where nothing is killed and removals work, no call  *)
(* leaves its staging or its backup directory behind, however it ends.     *)
(***************************************************************************)
THEOREM GuardsLeaveNothing ==
  ASSUME Sole(Installers), "remove" \notin Faults, "crash" \notin Faults
  PROVE  Spec => []GuardsClean
<1>1. Init => OwnDirs
  BY DEF Init, OwnDirs
<1>2. TypeOK /\ OwnDirs /\ [Next]_vars => OwnDirs'
  BY OwnDirsStep DEF Sole
<1>3. TypeOK /\ OwnDirs => GuardsClean
  BY DEF Sole, TypeOK, OwnDirs, GuardsClean
<1> QED
  BY ComponentTypes, <1>1, <1>2, <1>3, PTL DEF Spec

=============================================================================
