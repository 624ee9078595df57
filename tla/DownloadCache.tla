---------------------------- MODULE DownloadCache ----------------------------
(***************************************************************************)
(* The download cache of core/src/download_ops/default.rs, for one         *)
(* artifact: the fetches of several processes share one cache file, written *)
(* in place while the bytes arrive, and prune_cache may remove it.         *)
(*                                                                         *)
(* The file is NoFile or the contents of its chunks: "good", "bad" (not    *)
(* what the catalog names) or "none" (a chunk not written, or a hole).     *)
(* A fetch that has opened the file keeps writing to it after it is        *)
(* unlinked: handle[p] is "live" while it is the file of that name,        *)
(* "orphan" afterwards.  The checksum is taken of the bytes received, not  *)
(* of the file.  Nothing limits how much a server sends, nor for how long: *)
(* of the timeouts one is for the connection, one for the next bytes, and  *)
(* the floor is of the bytes since the beginning.                          *)
(***************************************************************************)
EXTENDS Naturals

CONSTANTS
    Fetchers,
    Chunks,         \* an artifact is this many chunks
    Pinned,         \* the catalog pins a sha256 for the artifact
    CacheFaults,         \* a subset of FaultKinds
    MAX_ATTEMPTS,
    NoFile

FaultKinds == {"stream", "body", "short", "endless", "write", "crash", "prune"}

ASSUME CacheAssumption ==
    /\ Chunks \in Nat \ {0}
    /\ MAX_ATTEMPTS \in Nat \ {0}
    /\ Pinned \in BOOLEAN
    /\ CacheFaults \subseteq FaultKinds
    /\ NoFile \notin [1..Chunks -> {"none", "good", "bad"}]

VARIABLES
    file,
    fpc,             \* pc[p]: the next step of fetch p
    handle,         \* handle[p]: p's open cache file
    got,            \* got[p]: chunks received by this attempt
    body,           \* body[p]: what the server sends this attempt: the artifact
                    \* ("good"), something else ("bad"), or bytes without end
    attempt,        \* attempt[p]
    result,         \* result[p]: of the last fetch
    torn            \* (history) the file was left as it was by a write that failed,
                    \* a kill or a body that ended early

cache == <<file, fpc, handle, got, body, attempt, result, torn>>

Files == [1..Chunks -> {"none", "good", "bad"}]
Blank == [c \in 1..Chunks |-> "none"]
Good(f) == f # NoFile /\ \A c \in 1..Chunks : f[c] = "good"
\* The bytes of this attempt, the right ones or not.
Bytes(p) == IF body[p] = "good" THEN "good" ELSE "bad"
\* Bytes keep arriving, for ever.
Endless(p) == fpc[p] = "receive" /\ body[p] = "endless"

CacheInit ==
    /\ file = NoFile
    /\ fpc = [p \in Fetchers |-> "idle"]
    /\ handle = [p \in Fetchers |-> "closed"]
    /\ got = [p \in Fetchers |-> 0]
    /\ body = [p \in Fetchers |-> "good"]
    /\ attempt = [p \in Fetchers |-> 1]
    /\ result = [p \in Fetchers |-> "none"]
    /\ torn = FALSE

FetchGoto(p, step) == fpc' = [fpc EXCEPT ![p] = step]

\* Fault variant: unlinking the file closes the handles on it.
UnlinkKeepsLive(p) ==
    /\ file' = NoFile
    /\ handle' = [handle EXCEPT ![p] = "closed"]

\* remove_file(dest): whoever has the file open is left with an orphan.
\* The caller p has closed its own handle before.
Unlink(p) ==
    /\ file' = NoFile
    /\ handle' = [q \in Fetchers |->
                     IF q = p THEN "closed"
                     ELSE IF handle[q] = "live" THEN "orphan" ELSE handle[q]]

CloseOnly(p) ==
    /\ handle' = [handle EXCEPT ![p] = "closed"]
    /\ UNCHANGED file

Return(p, r) ==
    /\ FetchGoto(p, "idle")
    /\ result' = [result EXCEPT ![p] = r]
    /\ UNCHANGED <<got, body, attempt>>

\* Fault variant: the attempts are not counted.
RetryForever(p) ==
    /\ FetchGoto(p, "connect")
    /\ UNCHANGED <<got, body, attempt, result>>

\* fetch_with_retries: another attempt after the backoff, or the last error.
Retry(p) ==
    /\ IF attempt[p] < MAX_ATTEMPTS
       THEN /\ attempt' = [attempt EXCEPT ![p] = @ + 1]
            /\ FetchGoto(p, "connect")
            /\ UNCHANGED result
       ELSE /\ FetchGoto(p, "idle")
            /\ result' = [result EXCEPT ![p] = "err"]
            /\ UNCHANGED attempt
    /\ UNCHANGED <<got, body>>

-----------------------------------------------------------------------------
\* fetch: without a pinned checksum an existing file is a hit as it is.
BeginFetch(p) ==
    /\ fpc[p] = "idle"
    /\ attempt' = [attempt EXCEPT ![p] = 1]
    /\ IF file # NoFile /\ ~Pinned
       THEN UNCHANGED fpc /\ result' = [result EXCEPT ![p] = "ok"]
       ELSE /\ FetchGoto(p, IF file # NoFile THEN "hash" ELSE "connect")
            /\ result' = [result EXCEPT ![p] = "none"]
    /\ UNCHANGED <<file, handle, got, body, torn>>

\* compute_sha256 of the cached file; it fails when the file is gone.
HashCached(p) ==
    /\ fpc[p] = "hash"
    /\ IF file = NoFile THEN Return(p, "err")
       ELSE IF Good(file) THEN Return(p, "ok")
       ELSE FetchGoto(p, "discard") /\ UNCHANGED <<result, got, body, attempt>>
    /\ UNCHANGED <<file, handle, torn>>

Discard(p) ==
    /\ fpc[p] = "discard"
    /\ IF file = NoFile
       THEN Return(p, "err") /\ UNCHANGED <<file, handle>>
       ELSE /\ Unlink(p)
            /\ FetchGoto(p, "connect")
            /\ UNCHANGED <<got, body, attempt, result>>
    /\ UNCHANGED torn

\* fetch_once, up to File::create, which truncates the file of that name.
Connect(p) ==
    /\ fpc[p] = "connect"
    /\ file' = Blank
    /\ handle' = [handle EXCEPT ![p] = "live"]
    /\ got' = [got EXCEPT ![p] = 0]
    /\ \E b \in {"good", "bad", "endless"} :
          /\ b = "bad" => "body" \in CacheFaults
          /\ b = "endless" => "endless" \in CacheFaults
          /\ body' = [body EXCEPT ![p] = b]
    /\ torn' = FALSE
    /\ FetchGoto(p, "receive")
    /\ UNCHANGED <<attempt, result>>

ConnectFails(p) ==
    /\ fpc[p] = "connect"
    /\ "stream" \in CacheFaults
    /\ Retry(p)
    /\ UNCHANGED <<file, handle, torn>>

\* One chunk: hashed, then written at this handle's own offset.  Of a body
\* without end what follows the first Chunks is not told apart.
Receive(p) ==
    /\ fpc[p] = "receive"
    /\ got[p] < Chunks
    /\ got' = [got EXCEPT ![p] = @ + 1]
    /\ file' = IF handle[p] = "live"
               THEN [file EXCEPT ![got[p] + 1] = Bytes(p)]
               ELSE file
    /\ UNCHANGED <<fpc, handle, body, attempt, result, torn>>

\* Fault variant: the partial file is not removed.
StreamFailsKeeps(p) ==
    /\ fpc[p] = "receive"
    /\ "stream" \in CacheFaults
    /\ CloseOnly(p)
    /\ Retry(p)
    /\ UNCHANGED torn

\* Stall, HTTP error, throughput below the floor, cancel: the file is removed.
StreamFails(p) ==
    /\ fpc[p] = "receive"
    /\ "stream" \in CacheFaults
    /\ Unlink(p)
    /\ Retry(p)
    /\ UNCHANGED torn

\* write_all(..)? or flush()?: the file stays as it is, for the next fetch to
\* take for a hit if no checksum is pinned.
WriteFails(p) ==
    /\ fpc[p] = "receive"
    /\ "write" \in CacheFaults
    /\ CloseOnly(p)
    /\ Retry(p)
    /\ torn' = TRUE

\* Fault variant: whatever has arrived when the stream ends is taken for whole.
VerifySumSkipped(p) ==
    /\ fpc[p] = "receive"
    /\ CloseOnly(p)
    /\ Return(p, "ok")
    /\ UNCHANGED torn

\* The stream ended, of itself or cut short where its length was not
\* announced: the checksum of what was received, if one is pinned.  What was
\* received is not compared with what was announced.
VerifySum(p) ==
    /\ fpc[p] = "receive"
    /\ body[p] # "endless"
    /\ got[p] < Chunks => "short" \in CacheFaults
    /\ torn' = (got[p] < Chunks)
    /\ IF Pinned /\ (body[p] = "bad" \/ got[p] < Chunks)
       THEN Unlink(p) /\ Retry(p)
       ELSE CloseOnly(p) /\ Return(p, "ok")

\* The process dies: its partial file stays.
FetcherDies(p) ==
    /\ fpc[p] # "idle"
    /\ "crash" \in CacheFaults
    /\ CloseOnly(p)
    /\ Return(p, "none")
    /\ torn' = (torn \/ fpc[p] = "receive")

\* prune_cache of another process removes the file (an older version, or keep 0).
Prune ==
    /\ "prune" \in CacheFaults
    /\ file # NoFile
    /\ file' = NoFile
    /\ handle' = [q \in Fetchers |-> IF handle[q] = "live" THEN "orphan" ELSE handle[q]]
    /\ UNCHANGED <<fpc, got, body, attempt, result, torn>>

Fetching(p) ==
    \/ HashCached(p) \/ Discard(p)
    \/ Connect(p) \/ ConnectFails(p)
    \/ Receive(p) \/ StreamFails(p) \/ WriteFails(p)
    \/ VerifySum(p)

CacheNext ==
    \/ \E p \in Fetchers : BeginFetch(p) \/ Fetching(p) \/ FetcherDies(p)
    \/ Prune

(***************************************************************************)
(* A fetch goes on: connecting has a timeout of 15 s and each chunk one of *)
(* 60 s.  The wait for the response headers has none; the server is        *)
(* assumed to answer a request it accepted.  Nothing makes an end of a     *)
(* body that has none.                                                     *)
(***************************************************************************)
Advancing(p) == ~Endless(p) /\ Fetching(p)
CacheFairness == \A p \in Fetchers : WF_cache(Advancing(p))

CacheSpec == CacheInit /\ [][CacheNext]_cache /\ CacheFairness

-----------------------------------------------------------------------------
(***************************************************************************)
(* Types; a handle on the cache file is held exactly while receiving.      *)
(***************************************************************************)
CacheTypeOK ==
    /\ file \in Files \union {NoFile}
    /\ fpc \in [Fetchers -> {"idle", "hash", "discard", "connect", "receive"}]
    /\ handle \in [Fetchers -> {"closed", "live", "orphan"}]
    /\ got \in [Fetchers -> 0..Chunks]
    /\ body \in [Fetchers -> {"good", "bad", "endless"}]
    /\ torn \in BOOLEAN
    /\ attempt \in [Fetchers -> 1..MAX_ATTEMPTS]
    /\ result \in [Fetchers -> {"none", "ok", "err"}]
    /\ \A p \in Fetchers : (fpc[p] = "receive") <=> (handle[p] # "closed")
    /\ \A p \in Fetchers : handle[p] = "live" => file # NoFile

(***************************************************************************)
(* A fetch that returns Ok returns the path of the artifact: at that       *)
(* moment the cache file is whole and the right one; or no checksum was    *)
(* pinned, and a failed write, a kill or an early end had left it torn.    *)
(***************************************************************************)
OkIsWholeStep ==
    \A p \in Fetchers :
        (result'[p] = "ok" /\ (result[p] # "ok" \/ fpc[p] # "idle")) =>
            Good(file') \/ (~Pinned /\ torn')

(***************************************************************************)
(* A fetch that fails leaves no damaged file behind for the next one to    *)
(* hit, unless a write failed or a kill had left one.                      *)
(***************************************************************************)
ErrLeavesNothingStep ==
    \A p \in Fetchers :
        (fpc[p] # "idle" /\ result'[p] = "err") => (file' = NoFile \/ Good(file') \/ torn')

(***************************************************************************)
(* Every fetch ends, after two attempts and no more, unless the server     *)
(* sends it a body that has no end.                                        *)
(***************************************************************************)
FetchEnds == \A p \in Fetchers : (fpc[p] # "idle") ~> (fpc[p] = "idle" \/ Endless(p))

=============================================================================
