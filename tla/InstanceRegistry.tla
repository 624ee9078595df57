-------------------------- MODULE InstanceRegistry --------------------------
(***************************************************************************)
(* The instance registry: one TOML file, `<clawenv_root>/v2/instances.toml`,*)
(* that every clawcli process and the GUI read and rewrite                  *)
(* (core/src/instance/config.rs).  An operation loads the whole file,       *)
(* changes its copy and saves it: write `instances.tmp`, rename it over the *)
(* file.  Nothing locks the file, and every process uses the same `.tmp`.   *)
(*                                                                         *)
(* The module keeps the file-system steps apart: the open that truncates    *)
(* the temporary file, the write, the rename.  A process that has the file  *)
(* open keeps writing to the inode it opened, whatever name that inode has  *)
(* by then, which is what makes the shared temporary name interesting.      *)
(***************************************************************************)
EXTENDS Naturals, FiniteSets

CONSTANTS
    Procs,      \* processes (clawcli runs, GUI handlers) using the registry
    Writers,    \* those that also insert, update or remove
    Names,      \* instance names
    Recs,       \* the record bodies an insert or an update may write
    NoRec,      \* "the file has no record of this name"
    Torn,       \* bytes that do not parse as TOML
    Absent      \* no file of this name

ASSUME WritersAssumption == Writers \subseteq Procs
ASSUME NamesAssumption == IsFiniteSet(Names)
ASSUME NoRecAssumption == NoRec \notin Recs
ASSUME FileAssumption ==
    /\ Torn \notin [Names -> Recs \cup {NoRec}]
    /\ Absent \notin [Names -> Recs \cup {NoRec}]
    /\ Torn # Absent

-----------------------------------------------------------------------------
(* What a file holds.  The record list is a function: `insert` refuses a    *)
(* name the list has, so a name never occurs twice.                         *)

InstanceFile == [Names -> Recs \cup {NoRec}]

\* A zero-byte file parses: `instances` defaults to the empty list.
EmptyFile == [n \in Names |-> NoRec]

Contents == InstanceFile \cup {Torn}

\* The number of records stands for the length of the file.
Length(c) == Cardinality({n \in Names : c[n] # NoRec})

\* write_all from offset 0 of a file opened with O_TRUNC.  When another
\* process has written to the same inode since, a shorter text leaves the
\* tail of the longer one behind it.
Overwrite(old, new) ==
    IF old = Torn THEN Torn
    ELSE IF Length(new) >= Length(old) THEN new ELSE Torn

VARIABLES
    path,   \* contents of instances.toml, or Absent
    tmp,    \* contents of instances.tmp, or Absent
    fd,     \* which inode a saving process has open: none, tmp, path, orphan
    pc,     \* control state of each process
    op,     \* the operation a process is in
    file    \* its copy of the file; after a list, the list it returned

vars == <<path, tmp, fd, pc, op, file>>

NoOp == [kind |-> "none"]
Ops == [kind : {"list"}]
         \cup [kind : {"insert", "update"}, name : Names, rec : Recs]
         \cup [kind : {"remove"}, name : Names]

Calling == {"load", "open_tmp", "write_tmp", "rename"}

TypeOK ==
    /\ path \in Contents \cup {Absent}
    /\ tmp \in Contents \cup {Absent}
    /\ fd \in [Procs -> {"none", "tmp", "path", "orphan"}]
    /\ pc \in [Procs -> Calling \cup {"idle", "ok", "err"}]
    /\ op \in [Procs -> Ops \cup {NoOp}]
    /\ file \in [Procs -> InstanceFile]

Init ==
    /\ path = Absent
    /\ tmp = Absent
    /\ fd = [p \in Procs |-> "none"]
    /\ pc = [p \in Procs |-> "idle"]
    /\ op = [p \in Procs |-> NoOp]
    /\ file = [p \in Procs |-> EmptyFile]

-----------------------------------------------------------------------------
Goto(p, s) == pc' = [pc EXCEPT ![p] = s]

\* The operation ends; what it held is dropped, a list hands out `f`.
Return(p, s, f) ==
    /\ Goto(p, s)
    /\ op' = [op EXCEPT ![p] = NoOp]
    /\ file' = [file EXCEPT ![p] = f]

(* A caller starts an operation. *)
Begin(p, o) ==
    /\ pc[p] \notin Calling
    /\ o.kind = "list" \/ p \in Writers
    /\ Goto(p, "load")
    /\ op' = [op EXCEPT ![p] = o]
    /\ file' = [file EXCEPT ![p] = EmptyFile]
    /\ UNCHANGED <<path, tmp, fd>>

\* A missing file is the empty registry.
Loaded == IF path = Absent THEN EmptyFile ELSE path

(* load fails on a file that does not parse. *)
LoadUnparsable(p) ==
    /\ pc[p] = "load"
    /\ Loaded = Torn
    /\ Return(p, "err", EmptyFile)
    /\ UNCHANGED <<path, tmp, fd>>

(* list, and find, which reads the same snapshot: load and return. *)
List(p) ==
    /\ pc[p] = "load"
    /\ Loaded # Torn
    /\ op[p].kind = "list"
    /\ Return(p, "ok", Loaded)
    /\ UNCHANGED <<path, tmp, fd>>

\* The check each operation makes of the file it has loaded.
Allowed(f, o) ==
    \/ o.kind = "insert" /\ f[o.name] = NoRec
    \/ o.kind \in {"update", "remove"} /\ f[o.name] # NoRec

\* The edit it makes to its copy.
Edited(f, o) ==
    [f EXCEPT ![o.name] = IF o.kind = "remove" THEN NoRec ELSE o.rec]

\* Fault variant: the edit is made whatever the file has.
LoadToEditUnchecked(p) ==
    /\ pc[p] = "load"
    /\ Loaded # Torn
    /\ op[p].kind # "list"
    /\ file' = [file EXCEPT ![p] = Edited(Loaded, op[p])]
    /\ Goto(p, "open_tmp")
    /\ UNCHANGED <<path, tmp, fd, op>>

(* insert, update and remove: load, check, edit the copy in memory. *)
LoadToEdit(p) ==
    /\ pc[p] = "load"
    /\ Loaded # Torn
    /\ op[p].kind # "list"
    /\ Allowed(Loaded, op[p])
    /\ file' = [file EXCEPT ![p] = Edited(Loaded, op[p])]
    /\ Goto(p, "open_tmp")
    /\ UNCHANGED <<path, tmp, fd, op>>

(* insert of a name the file has, update or remove of one it has not. *)
Refuse(p) ==
    /\ pc[p] = "load"
    /\ Loaded # Torn
    /\ op[p].kind # "list"
    /\ ~Allowed(Loaded, op[p])
    /\ Return(p, "err", EmptyFile)
    /\ UNCHANGED <<path, tmp, fd>>

\* Fault variant: the temporary file is opened without O_TRUNC.
OpenTmpNoTruncate(p) ==
    /\ pc[p] = "open_tmp"
    /\ tmp' = IF tmp = Absent THEN EmptyFile ELSE tmp
    /\ fd' = [fd EXCEPT ![p] = "tmp"]
    /\ Goto(p, "write_tmp")
    /\ UNCHANGED <<path, op, file>>

\* Fault variant: the registry file itself is moved to `.tmp` and rewritten.
OpenTmpMovesFile(p) ==
    /\ pc[p] = "open_tmp"
    /\ tmp' = EmptyFile
    /\ path' = Absent
    /\ fd' = [fd EXCEPT ![p] = "tmp"]
    /\ Goto(p, "write_tmp")
    /\ UNCHANGED <<op, file>>

(* save, first half of fs::write: create or truncate the temporary file. *)
OpenTmp(p) ==
    /\ pc[p] = "open_tmp"
    /\ tmp' = EmptyFile
    /\ fd' = [fd EXCEPT ![p] = "tmp"]
    /\ Goto(p, "write_tmp")
    /\ UNCHANGED <<path, op, file>>

(* save, second half of fs::write: the text goes to the inode that was      *)
(* opened, under whatever name it has now.                                  *)
WriteTmp(p) ==
    /\ pc[p] = "write_tmp"
    /\ tmp' = IF fd[p] = "tmp" THEN Overwrite(tmp, file[p]) ELSE tmp
    /\ path' = IF fd[p] = "path" THEN Overwrite(path, file[p]) ELSE path
    /\ fd' = [fd EXCEPT ![p] = "none"]
    /\ Goto(p, "rename")
    /\ UNCHANGED <<op, file>>

(* save, fs::rename: takes the name `instances.tmp` as it is now; the       *)
(* inodes other processes have open change name with it.                    *)
RenameTmp(p) ==
    /\ pc[p] = "rename"
    /\ tmp # Absent
    /\ path' = tmp
    /\ tmp' = Absent
    /\ fd' = [q \in Procs |-> CASE fd[q] = "tmp"  -> "path"
                                [] fd[q] = "path" -> "orphan"
                                [] OTHER          -> fd[q]]
    /\ Return(p, "ok", EmptyFile)

\* Fault variant: the old file is removed before the new one takes its name,
\* which another process has renamed away.
RenameFailsRemoved(p) ==
    /\ pc[p] = "rename"
    /\ tmp = Absent
    /\ path' = Absent
    /\ Return(p, "err", EmptyFile)
    /\ UNCHANGED <<tmp, fd>>

(* ENOENT: another process has renamed the temporary file away. *)
RenameFails(p) ==
    /\ pc[p] = "rename"
    /\ tmp = Absent
    /\ Return(p, "err", EmptyFile)
    /\ UNCHANGED <<path, tmp, fd>>

(* The process is killed (the GUI drops its child, the user hits ^C) or an  *)
(* I/O error ends the operation: the files stay as they are.                *)
Crash(p) ==
    /\ pc[p] \in Calling
    /\ Return(p, "err", EmptyFile)
    /\ fd' = [fd EXCEPT ![p] = "none"]
    /\ UNCHANGED <<path, tmp>>

Step(p) ==
    \/ \E o \in Ops : Begin(p, o)
    \/ LoadUnparsable(p)
    \/ List(p)
    \/ LoadToEdit(p)
    \/ Refuse(p)
    \/ OpenTmp(p)
    \/ WriteTmp(p)
    \/ RenameTmp(p)
    \/ RenameFails(p)
    \/ Crash(p)

Next == \E p \in Procs : Step(p)

Spec == Init /\ [][Next]_vars

-----------------------------------------------------------------------------
(* Properties *)

(* A process that has a file open has it under a name that exists, or not   *)
(* under either name: what makes the types inductive.                       *)
OpenFilesExist ==
    \A p \in Procs : /\ fd[p] = "tmp" => tmp # Absent
                     /\ fd[p] = "path" => path # Absent

(* `load` takes a missing file for an empty registry (config.rs:123), so    *)
(* once the file exists no save, crash or race may leave a moment without   *)
(* it: every instance would look uninstalled.                               *)
FileStays == [][path # Absent => path' # Absent]_vars

(* "Read/write is atomic via temp-file + rename" (config.rs:103): every     *)
(* operation takes effect at one instant of its call or fails without       *)
(* effect.                                                                  *)
Phase(s) == IF s \in Calling THEN "called" ELSE s

Atomic == INSTANCE AtomicRegistry
            WITH reg <- Loaded,
                 phase <- [p \in Procs |-> Phase(pc[p])],
                 ret <- [p \in Procs |-> IF pc[p] = "ok" THEN file[p]
                                                        ELSE EmptyFile]

RegistryIsAtomic == Atomic!Spec

(* With one writer: only the writer has the temporary file open, what it    *)
(* will rename is its own edit of the table as it still stands, and the     *)
(* file always parses.                                                      *)
SoleWriterInv ==
    /\ path # Torn
    /\ \A p \in Procs \ Writers : pc[p] \in {"idle", "load", "ok", "err"}
    /\ \A p \in Procs : fd[p] = IF pc[p] = "write_tmp" THEN "tmp" ELSE "none"
    /\ \A p \in Procs : pc[p] \in Calling =>
          op[p] \in Ops /\ (op[p].kind = "list" \/ p \in Writers)
    /\ \A p \in Procs : pc[p] \in {"open_tmp", "write_tmp", "rename"} =>
          /\ p \in Writers
          /\ op[p].kind # "list"
          /\ Allowed(Loaded, op[p])
          /\ file[p] = Edited(Loaded, op[p])
          /\ pc[p] = "write_tmp" => tmp = EmptyFile
          /\ pc[p] = "rename" => tmp = file[p]

Inv == TypeOK /\ SoleWriterInv

=============================================================================
