-------------------------- MODULE ComponentInstall --------------------------
(***************************************************************************)
(* Installing a bundled component (node, git) into <home>/<component>:     *)
(* DefaultNativeOps::install_component and reinstall_component of          *)
(* core/src/native_ops/default.rs, with the unpacking of extract/mod.rs.   *)
(*                                                                         *)
(* Three sibling directories hold the whole state: `target`, the component *)
(* in use; `staging`, where an archive is unpacked; `backup` (".old"), the *)
(* version moved aside.  A directory is NoDir or says of which version     *)
(* each of its entries is.  An installer is one process (a CLI call); all  *)
(* of them share the three directories, and nothing locks them.            *)
(*                                                                         *)
(* A fault is a file operation that returns an error, or a crash of the    *)
(* process, which runs none of its drop guards.                            *)
(***************************************************************************)
EXTENDS Naturals, FiniteSets

CONSTANTS
    Installers,     \* processes that install the component
    Kinds,          \* what they do: "install" (also upgrade), "reinstall"
    Versions,
    Entries,        \* the entries of an archive
    Faults,         \* which operations may fail, and "crash"
    NoDir,          \* the directory does not exist
    Absent          \* the entry is not in the directory

ASSUME ComponentAssumption ==
    /\ Kinds \subseteq {"install", "reinstall"}
    /\ Faults \subseteq {"fetch", "remove", "unpack", "moveOld", "moveNew", "crash"}
    /\ Absent \notin Versions
    /\ NoDir \notin [Entries -> Versions \union {Absent}]

VARIABLES
    target, staging, backup,
    pc,             \* pc[p]: the next step of installer p
    version,        \* version[p]: the version p installs
    left,           \* left[p]: entries of the archive not yet unpacked
    armed           \* armed[p]: p's guard on the backup directory is armed

vars == <<target, staging, backup, pc, version, left, armed>>

Dir == [Entries -> Versions \union {Absent}]
EmptyDir == [e \in Entries |-> Absent]
All(v) == [e \in Entries |-> v]
Whole(d) == \E v \in Versions : d = All(v)

Init ==
    /\ target = NoDir
    /\ staging = NoDir
    /\ backup = NoDir
    /\ pc = [p \in Installers |-> "idle"]
    /\ version \in [Installers -> Versions]
    /\ left = [p \in Installers |-> {}]
    /\ armed = [p \in Installers |-> FALSE]

\* A best-effort removal (`let _ = remove_dir_all(..)`) may leave d behind.
Removed(d) == {NoDir} \union (IF "remove" \in Faults THEN {d} ELSE {})

Goto(p, step) == pc' = [pc EXCEPT ![p] = step]

(***************************************************************************)
(* rename(2) of a directory: refused when the source is gone; the target   *)
(* name must be free (an empty directory gives way on Unix, not on         *)
(* Windows).                                                               *)
(***************************************************************************)
CanRename(from, to) == from # NoDir /\ to \in {NoDir, EmptyDir}
RenameMayFail(from, to, fault) == from = NoDir \/ to # NoDir \/ fault \in Faults

\* Fault variant: the backup directory gets no guard.
DropStagingGuard(p) ==
    /\ staging' \in Removed(staging)
    /\ UNCHANGED backup

(***************************************************************************)
(* Leaving install_component through `?`: the guards that are armed remove *)
(* their directories.                                                      *)
(***************************************************************************)
DropGuards(p) ==
    /\ staging' \in Removed(staging)
    /\ IF armed[p] THEN backup' \in Removed(backup) ELSE UNCHANGED backup

\* Fault variant: the backup guard is never defused.
BailArmed(p) ==
    /\ Goto(p, "idle")
    /\ left' = [left EXCEPT ![p] = {}]
    /\ UNCHANGED <<version, armed>>

Bail(p) ==
    /\ Goto(p, "idle")
    /\ left' = [left EXCEPT ![p] = {}]
    /\ armed' = [armed EXCEPT ![p] = FALSE]
    /\ UNCHANGED version

-----------------------------------------------------------------------------
(***************************************************************************)
(* The call: upgrade_node / upgrade_git / repair go straight to the        *)
(* download; reinstall_component first removes an existing target.         *)
(***************************************************************************)
Request(p, kind, v) ==
    /\ pc[p] = "idle"
    /\ Goto(p, IF kind = "reinstall" /\ target # NoDir THEN "remove" ELSE "fetch")
    /\ version' = [version EXCEPT ![p] = v]
    /\ UNCHANGED <<target, staging, backup, left, armed>>

\* remove_dir_all(target) deletes entry by entry, then the directory.
RemoveEntry(p, e) ==
    /\ pc[p] = "remove"
    /\ target # NoDir
    /\ target[e] # Absent
    /\ target' = [target EXCEPT ![e] = Absent]
    /\ UNCHANGED <<staging, backup, pc, version, left, armed>>

RemoveDone(p) ==
    /\ pc[p] = "remove"
    /\ target = EmptyDir
    /\ target' = NoDir
    /\ Goto(p, "fetch")
    /\ UNCHANGED <<staging, backup, version, left, armed>>

RemoveFails(p) ==
    /\ pc[p] = "remove"
    /\ target = NoDir \/ "remove" \in Faults
    /\ Bail(p)
    /\ UNCHANGED <<target, staging, backup>>

\* The archive is in the cache, or the download failed.
Fetch(p) ==
    /\ pc[p] = "fetch"
    /\ \/ Goto(p, "clear") /\ UNCHANGED <<version, left, armed>>
       \/ "fetch" \in Faults /\ Bail(p)
    /\ UNCHANGED <<target, staging, backup>>

\* Best-effort removal of an earlier staging directory.
ClearStaging(p) ==
    /\ pc[p] = "clear"
    /\ staging' \in Removed(staging)
    /\ Goto(p, "make")
    /\ UNCHANGED <<target, backup, version, left, armed>>

\* extract_archive with clean_dest: what is still there must go first.
MakeStaging(p) ==
    /\ pc[p] = "make"
    /\ staging' = EmptyDir
    /\ Goto(p, "extract")
    /\ left' = [left EXCEPT ![p] = Entries]
    /\ UNCHANGED <<target, backup, version, armed>>

MakeFails(p) ==
    /\ pc[p] = "make"
    /\ "remove" \in Faults \/ "unpack" \in Faults
    /\ DropGuards(p)
    /\ Bail(p)
    /\ UNCHANGED target

\* One entry is unpacked; its parent directories are made when missing.
Unpack(p, e) ==
    /\ pc[p] = "extract"
    /\ e \in left[p]
    /\ staging' = [(IF staging = NoDir THEN EmptyDir ELSE staging)
                      EXCEPT ![e] = version[p]]
    /\ left' = [left EXCEPT ![p] = @ \ {e}]
    /\ UNCHANGED <<target, backup, pc, version, armed>>

\* Fault variant: the result of the unpacking is dropped.
UnpackFailsUnseen(p) ==
    /\ pc[p] = "extract"
    /\ "unpack" \in Faults
    /\ left' = [left EXCEPT ![p] = {}]
    /\ UNCHANGED <<target, staging, backup, pc, version, armed>>

UnpackFails(p) ==
    /\ pc[p] = "extract"
    /\ left[p] # {}
    /\ "unpack" \in Faults
    /\ DropGuards(p)
    /\ Bail(p)
    /\ UNCHANGED target

\* target_dir.exists(): a stale backup is removed, best effort, to free its name.
ClearBackup(p) ==
    /\ pc[p] = "extract"
    /\ left[p] = {}
    /\ IF target = NoDir
       THEN Goto(p, "moveNew") /\ UNCHANGED backup
       ELSE /\ Goto(p, "moveOld")
            /\ backup' \in Removed(backup)
    /\ UNCHANGED <<target, staging, version, left, armed>>

\* Fault variant: the old version is deleted instead of moved aside.
MoveOldDeletes(p) ==
    /\ pc[p] = "moveOld"
    /\ target' = NoDir
    /\ Goto(p, "moveNew")
    /\ UNCHANGED <<staging, backup, version, left, armed>>

\* rename(target, backup); from here on the backup is guarded.
MoveOld(p) ==
    /\ pc[p] = "moveOld"
    /\ CanRename(target, backup)
    /\ backup' = target
    /\ target' = NoDir
    /\ armed' = [armed EXCEPT ![p] = TRUE]
    /\ Goto(p, "moveNew")
    /\ UNCHANGED <<staging, version, left>>

MoveOldFails(p) ==
    /\ pc[p] = "moveOld"
    /\ RenameMayFail(target, backup, "moveOld")
    /\ DropGuards(p)
    /\ Bail(p)
    /\ UNCHANGED target

\* rename(staging, target): the commit point.  The staging guard is defused.
MoveNew(p) ==
    /\ pc[p] = "moveNew"
    /\ CanRename(staging, target)
    /\ target' = staging
    /\ staging' = NoDir
    /\ Goto(p, "cleanup")
    /\ UNCHANGED <<backup, version, left, armed>>

\* Fault variant: the result of the second rename is dropped.
MoveNewFailsUnseen(p) ==
    /\ pc[p] = "moveNew"
    /\ RenameMayFail(staging, target, "moveNew")
    /\ Goto(p, "cleanup")
    /\ UNCHANGED <<target, staging, backup, version, left, armed>>

MoveNewFails(p) ==
    /\ pc[p] = "moveNew"
    /\ RenameMayFail(staging, target, "moveNew")
    /\ DropGuards(p)
    /\ Bail(p)
    /\ UNCHANGED target

\* The backup guard is defused and the backup removed, best effort: Ok.
Cleanup(p) ==
    /\ pc[p] = "cleanup"
    /\ IF armed[p] THEN backup' \in Removed(backup) ELSE UNCHANGED backup
    /\ Bail(p)
    /\ UNCHANGED <<target, staging>>

\* The process dies: no guard runs, the directories stay as they are.
Crash(p) ==
    /\ pc[p] # "idle"
    /\ "crash" \in Faults
    /\ Bail(p)
    /\ UNCHANGED <<target, staging, backup>>

Step(p) ==
    \/ \E kind \in Kinds, v \in Versions : Request(p, kind, v)
    \/ \E e \in Entries : RemoveEntry(p, e) \/ Unpack(p, e)
    \/ RemoveDone(p) \/ RemoveFails(p)
    \/ Fetch(p)
    \/ ClearStaging(p)
    \/ MakeStaging(p) \/ MakeFails(p)
    \/ UnpackFails(p)
    \/ ClearBackup(p)
    \/ MoveOld(p) \/ MoveOldFails(p)
    \/ MoveNew(p) \/ MoveNewFails(p)
    \/ Cleanup(p)
    \/ Crash(p)

Next == \E p \in Installers : Step(p)

Spec == Init /\ [][Next]_vars

-----------------------------------------------------------------------------
Steps == {"idle", "remove", "fetch", "clear", "make", "extract",
          "moveOld", "moveNew", "cleanup"}

(***************************************************************************)
(* Types.  The backup guard is armed between the two renames and the       *)
(* cleanup only.                                                           *)
(***************************************************************************)
TypeOK ==
    /\ target \in Dir \union {NoDir}
    /\ staging \in Dir \union {NoDir}
    /\ backup \in Dir \union {NoDir}
    /\ pc \in [Installers -> Steps]
    /\ version \in [Installers -> Versions]
    /\ left \in [Installers -> SUBSET Entries]
    /\ armed \in [Installers -> BOOLEAN]
    /\ \A p \in Installers : armed[p] => pc[p] \in {"moveNew", "cleanup"}

(***************************************************************************)
(* The component in use is never half a version or a mix of two: what      *)
(* install_component's "atomically swaps into `target_dir`" promises.      *)
(***************************************************************************)
NeverBroken == target # NoDir => Whole(target)

(***************************************************************************)
(* An upgrade never destroys the last whole version: once one is on disk,  *)
(* as the component or as its backup, one stays ("interrupted upgrades     *)
(* don't leave a broken install").                                         *)
(***************************************************************************)
Available == Whole(target) \/ Whole(backup)
KeepsAVersion == [][Available => Available']_vars

(***************************************************************************)
(* Ok is only returned with the requested version, whole, as the           *)
(* component.                                                              *)
(***************************************************************************)
OkMeansInstalled ==
    \A p \in Installers : pc[p] = "cleanup" => target = All(version[p])

(***************************************************************************)
(* The drop guards leave nothing behind: while no process crashes and no   *)
(* removal fails, neither a staging directory nor a backup outlives the    *)
(* call that made it.                                                      *)
(***************************************************************************)
GuardsClean ==
    (\A p \in Installers : pc[p] = "idle") => staging = NoDir /\ backup = NoDir

=============================================================================
