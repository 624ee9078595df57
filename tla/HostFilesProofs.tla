-------------------------- MODULE HostFilesProofs --------------------------
(***************************************************************************)
(* Proofs about the files that several programs of the host rewrite:       *)
(* instances.toml (InstanceRegistry), for any set of processes, names and  *)
(* records; the sections of config.toml and the proxy in a VM's two files  *)
(* (ProxySettings), for any number of commands; the port forwards of       *)
(* sandboxed instances (PortForwards), for any number of VMs, editors,     *)
(* ports and tasks.                                                        *)
(***************************************************************************)
EXTENDS InstanceRegistry, ProxySettings, PortForwards, SequenceTheorems, FiniteSetTheorems,
        TLAPS

-----------------------------------------------------------------------------
(* Lemmas about the file contents *)

LEMMA EmptyFileType == EmptyFile \in InstanceFile
BY DEF EmptyFile, InstanceFile

\* Writing over anything gives a table or torn bytes.
LEMMA OverwriteType ==
    ASSUME NEW old \in Contents, NEW new \in InstanceFile
    PROVE  Overwrite(old, new) \in Contents
BY DEF Overwrite, Contents

\* The length of a table is a natural number: there are finitely many names.
LEMMA LengthType ==
    ASSUME NEW c
    PROVE  Length(c) \in Nat
<1>1. IsFiniteSet({n \in Names : c[n] # NoRec})
    BY NamesAssumption, FS_Subset
<1> QED
    BY <1>1, FS_CardinalityType DEF Length

\* A write to a file that has just been truncated leaves exactly the text.
LEMMA OverwriteEmpty ==
    ASSUME NEW new \in InstanceFile
    PROVE  Overwrite(EmptyFile, new) = new
<1>1. {n \in Names : EmptyFile[n] # NoRec} = {}
    BY DEF EmptyFile
<1>2. Length(EmptyFile) = 0
    BY <1>1, FS_EmptySet DEF Length
<1>3. Length(new) \in Nat
    BY LengthType
<1>4. EmptyFile # Torn
    BY FileAssumption DEF EmptyFile
<1> QED
    BY <1>2, <1>3, <1>4 DEF Overwrite

\* An edit of a table is a table.
LEMMA EditedType ==
    ASSUME NEW f \in InstanceFile, NEW o \in Ops, o.kind # "list"
    PROVE  Edited(f, o) \in InstanceFile
BY DEF Edited, Ops, InstanceFile

LEMMA LoadedType ==
    ASSUME TypeOK
    PROVE  Loaded \in Contents
BY EmptyFileType DEF Loaded, TypeOK, Contents

-----------------------------------------------------------------------------
(* Type correctness, whatever the writers do to each other: the strengthened *)
(* invariant first.                                                          *)
TypeInv == TypeOK /\ OpenFilesExist

LEMMA TypeInvStep == TypeInv /\ [Next]_vars => TypeInv'
<1> SUFFICES ASSUME TypeInv, [Next]_vars PROVE TypeInv'
    OBVIOUS
<1> USE DEF TypeInv, OpenFilesExist
<1>1. CASE UNCHANGED vars
    BY <1>1 DEF vars, TypeOK
<1>2. ASSUME NEW p \in Procs, Step(p) PROVE TypeInv'
  <2>1. ASSUME NEW o \in Ops, Begin(p, o) PROVE TypeInv'
      BY <2>1, EmptyFileType DEF Begin, Goto, TypeOK, Calling
  <2>2. CASE LoadUnparsable(p)
      BY <2>2, EmptyFileType DEF LoadUnparsable, Return, Goto, TypeOK
  <2>3. CASE List(p)
      BY <2>3, LoadedType DEF List, Return, Goto, TypeOK, Contents
  <2>4. CASE LoadToEdit(p)
    <3>1. op[p] \in Ops /\ Loaded \in InstanceFile
        BY <2>4, LoadedType DEF LoadToEdit, Allowed, NoOp, TypeOK, Contents
    <3>2. Edited(Loaded, op[p]) \in InstanceFile
        BY <2>4, <3>1, EditedType DEF LoadToEdit
    <3> QED
        BY <2>4, <3>2 DEF LoadToEdit, Goto, TypeOK, Calling
  <2>5. CASE Refuse(p)
      BY <2>5, EmptyFileType DEF Refuse, Return, Goto, TypeOK
  <2>6. CASE OpenTmp(p)
    <3>1. TypeOK'
        BY <2>6, EmptyFileType DEF OpenTmp, Goto, TypeOK, Calling, Contents
    <3>2. OpenFilesExist'
        BY <2>6, EmptyFileType, FileAssumption
           DEF OpenTmp, TypeOK, InstanceFile
    <3> QED
        BY <3>1, <3>2
  <2>7. CASE WriteTmp(p)
    <3>1. fd[p] = "tmp" => Overwrite(tmp, file[p]) \in Contents
        BY OverwriteType DEF TypeOK
    <3>2. fd[p] = "path" => Overwrite(path, file[p]) \in Contents
        BY OverwriteType DEF TypeOK
    <3>3. Absent \notin Contents
        BY FileAssumption DEF Contents, InstanceFile
    <3> QED
        BY <2>7, <3>1, <3>2, <3>3 DEF WriteTmp, Goto, TypeOK, Calling
  <2>8. CASE RenameTmp(p)
    <3>1. TypeOK'
        BY <2>8, EmptyFileType DEF RenameTmp, Return, Goto, TypeOK
    <3>2. OpenFilesExist'
        BY <2>8 DEF RenameTmp, TypeOK
    <3> QED
        BY <3>1, <3>2
  <2>9. CASE RenameFails(p)
      BY <2>9, EmptyFileType DEF RenameFails, Return, Goto, TypeOK
  <2>10. CASE Crash(p)
      BY <2>10, EmptyFileType DEF Crash, Return, Goto, TypeOK
  <2> QED
      BY <1>2, <2>1, <2>2, <2>3, <2>4, <2>5, <2>6, <2>7, <2>8, <2>9, <2>10
         DEF Step
<1> QED
    BY <1>1, <1>2 DEF Next

LEMMA TypeInvInit == Init => TypeInv
BY EmptyFileType DEF Init, TypeInv, OpenFilesExist, TypeOK

(* Every variable keeps its type and an open file keeps its name, with any   *)
(* number of writers racing (config.rs:110-185).                             *)
THEOREM TypeCorrect == Spec => [](TypeOK /\ OpenFilesExist)
BY TypeInvInit, TypeInvStep, PTL DEF Spec, TypeInv

(* No interleaving of saves and crashes takes the registry file away, so no  *)
(* reader ever mistakes a race for an empty registry by a missing file.      *)
THEOREM FileNeverVanishes == Spec => FileStays
<1>1. TypeInv /\ [Next]_vars => [path # Absent => path' # Absent]_vars
  <2> SUFFICES ASSUME TypeInv, Next, path # Absent PROVE path' # Absent
      BY DEF vars
  <2>1. PICK p \in Procs : Step(p)
      BY DEF Next
  <2>2. CASE WriteTmp(p)
    <3>1. fd[p] = "path" => Overwrite(path, file[p]) \in Contents
        BY OverwriteType DEF TypeInv, TypeOK
    <3>2. Absent \notin Contents
        BY FileAssumption DEF Contents, InstanceFile
    <3> QED
        BY <2>2, <3>1, <3>2 DEF WriteTmp
  <2>3. CASE RenameTmp(p)
      BY <2>3 DEF RenameTmp
  <2> QED
      BY <2>1, <2>2, <2>3
         DEF Step, Begin, LoadUnparsable, List, LoadToEdit, Refuse, OpenTmp,
             RenameFails, Crash
<1> QED
    BY <1>1, TypeInvInit, TypeInvStep, PTL DEF Spec, FileStays
-----------------------------------------------------------------------------
(* One writer.  The invariant first: the writer's copy is its edit of the    *)
(* file as it still stands, since nobody else renames over it, and the       *)
(* temporary file holds exactly what the writer put there.                   *)

LEMMA InvInit == Init => Inv
<1>1. Init => TypeOK
    BY TypeInvInit DEF TypeInv
<1>2. Init => SoleWriterInv
    BY FileAssumption DEF Init, SoleWriterInv, Calling
<1> QED
    BY <1>1, <1>2 DEF Inv

\* What the writer will rename loads as its own edit.
LEMMA SavedParses ==
    ASSUME Inv, NEW p \in Procs, pc[p] \in {"open_tmp", "write_tmp", "rename"}
    PROVE  /\ file[p] \in InstanceFile
           /\ file[p] # Torn /\ file[p] # Absent
BY FileAssumption DEF Inv, TypeOK, InstanceFile

LEMMA InvStep ==
    ASSUME NEW w, Writers = {w}, Inv, [Next]_vars
    PROVE  Inv'
<1>0. TypeInv'
  <2>1. TypeInv
      BY EmptyFileType, FileAssumption
         DEF Inv, SoleWriterInv, TypeInv, OpenFilesExist, InstanceFile
  <2> QED
      BY <2>1, TypeInvStep
<1>1. CASE UNCHANGED vars
    BY <1>1 DEF vars, Inv, SoleWriterInv, TypeOK, Loaded
<1>2. ASSUME NEW p \in Procs, Step(p) PROVE SoleWriterInv'
  <2> USE DEF Inv, SoleWriterInv
  <2>1. ASSUME NEW o \in Ops, Begin(p, o) PROVE SoleWriterInv'
      BY <2>1 DEF Begin, Goto, TypeOK, Calling, Loaded
  <2>2. CASE LoadUnparsable(p)
      BY <2>2, EmptyFileType, FileAssumption
         DEF LoadUnparsable, Loaded, InstanceFile
  <2>3. CASE List(p)
      BY <2>3 DEF List, Return, Goto, TypeOK, Calling, Loaded
  <2>4. CASE LoadToEdit(p)
      BY <2>4
         DEF LoadToEdit, Goto, TypeOK, Calling, Loaded
  <2>5. CASE Refuse(p)
      BY <2>5 DEF Refuse, Return, Goto, TypeOK, Calling, Loaded
  <2>6. CASE OpenTmp(p)
      BY <2>6 DEF OpenTmp, Goto, TypeOK, Calling, Loaded
  <2>7. CASE WriteTmp(p)
    <3>1. tmp' = file[p] /\ path' = path
        BY <2>7, SavedParses, OverwriteEmpty DEF WriteTmp
    <3> QED
        BY <2>7, <3>1 DEF WriteTmp, Goto, TypeOK, Calling, Loaded
  <2>8. CASE RenameTmp(p)
    <3>1. path' = file[p] /\ path' # Torn
        BY <2>8, SavedParses DEF RenameTmp
    <3>2. \A q \in Procs : q # p =>
             pc[q] \notin {"open_tmp", "write_tmp", "rename"}
        BY <2>8 DEF RenameTmp
    <3>3. fd' = [q \in Procs |-> "none"]
        BY <2>8, <3>2 DEF RenameTmp
    <3> QED
        BY <2>8, <3>1, <3>2, <3>3 DEF RenameTmp, Return, Goto, TypeOK, Calling
  <2>9. CASE RenameFails(p)
      BY <2>9, SavedParses DEF RenameFails
  <2>10. CASE Crash(p)
      BY <2>10 DEF Crash, Return, Goto, TypeOK, Calling, Loaded
  <2> QED
      BY <1>2, <2>1, <2>2, <2>3, <2>4, <2>5, <2>6, <2>7, <2>8, <2>9, <2>10
         DEF Step
<1> QED
    BY <1>0, <1>1, <1>2 DEF Next, Inv, TypeInv

(* With a single writer the file always parses, the temporary file is the    *)
(* writer's alone, and what it renames is its edit of the current table.     *)
THEOREM SoleWriterSafe ==
    ASSUME NEW w, Writers = {w}
    PROVE  Spec => []Inv
BY InvInit, InvStep, PTL DEF Spec
-----------------------------------------------------------------------------
(* Refinement: with a single writer the registry is the atomic table of      *)
(* AtomicRegistry, the rename being the instant a change takes effect.       *)

LEMMA AtomicInit == Init => Atomic!Init
BY DEF Init, Atomic!Init, Atomic!EmptyTable, Atomic!NoOp, NoOp, Loaded, Phase,
       Calling, EmptyFile

LEMMA AtomicStep ==
    ASSUME NEW w, Writers = {w}, Inv, [Next]_vars
    PROVE  [Atomic!Next]_(Atomic!vars)
<1> USE DEF Inv, SoleWriterInv
<1>a. Loaded \in InstanceFile /\ path # Torn
    BY EmptyFileType DEF Loaded, TypeOK, Contents
<1>1. CASE UNCHANGED vars
    BY <1>1 DEF vars, Atomic!vars, Loaded
<1>2. ASSUME NEW p \in Procs, Step(p)
      PROVE  Atomic!Step(p) \/ UNCHANGED Atomic!vars
  <2>f. ASSUME pc[p] \in Calling, Return(p, "err", EmptyFile), UNCHANGED path
        PROVE  Atomic!Fail(p)
      BY <2>f DEF Return, Goto, Atomic!Fail, Atomic!Return, Atomic!NoOp, NoOp,
                  Atomic!EmptyTable, Phase, Calling, TypeOK, Loaded, EmptyFile
  <2>1. ASSUME NEW o \in Ops, Begin(p, o) PROVE Atomic!Step(p)
    <3>1. o \in Atomic!Ops
        BY DEF Ops, Atomic!Ops
    <3>2. Atomic!Call(p, o)
        BY <2>1 DEF Begin, Goto, Atomic!Call, Phase, Calling, TypeOK, Loaded,
                    Atomic!EmptyTable, EmptyFile
    <3> QED
        BY <3>1, <3>2 DEF Atomic!Step
  <2>2. CASE LoadUnparsable(p)
      BY <2>2, <2>f DEF LoadUnparsable, Calling, Atomic!Step
  <2>3. CASE List(p)
    <3>1. Atomic!List(p)
        BY <2>3 DEF List, Return, Goto, Atomic!List, Atomic!Return, Atomic!NoOp,
                    NoOp, Phase, Calling, TypeOK, Loaded
    <3> QED
        BY <3>1 DEF Atomic!Step
  <2>4. CASE LoadToEdit(p)
      BY <2>4 DEF LoadToEdit, Goto, Atomic!vars, Phase, Calling, TypeOK, Loaded
  <2>5. CASE Refuse(p)
      BY <2>5, <2>f DEF Refuse, Calling, Atomic!Step
  <2>6. CASE OpenTmp(p)
      BY <2>6 DEF OpenTmp, Goto, Atomic!vars, Phase, Calling, TypeOK, Loaded
  <2>7. CASE WriteTmp(p)
    <3>1. path' = path
        BY <2>7 DEF WriteTmp
    <3> QED
        BY <2>7, <3>1 DEF WriteTmp, Goto, Atomic!vars, Phase, Calling, TypeOK,
                          Loaded
  <2>8. CASE RenameTmp(p)
    <3>1. /\ op[p] \in Ops /\ op[p].kind # "list"
          /\ Allowed(Loaded, op[p])
          /\ Loaded' = Edited(Loaded, op[p])
        BY <2>8, SavedParses DEF RenameTmp, Calling, Loaded
    <3>2. Atomic!Return(p, "ok", EmptyFile)
        BY <2>8 DEF RenameTmp, Return, Goto, Atomic!Return, Atomic!NoOp, NoOp,
                    Phase, Calling, TypeOK
    <3>3. EmptyFile = Atomic!EmptyTable
        BY DEF EmptyFile, Atomic!EmptyTable
    <3>4. CASE op[p].kind = "insert"
        BY <3>1, <3>2, <3>3, <3>4
           DEF Allowed, Edited, Atomic!Insert, Atomic!Step
    <3>5. CASE op[p].kind = "update"
        BY <3>1, <3>2, <3>3, <3>5
           DEF Allowed, Edited, Atomic!Update, Atomic!Step
    <3>6. CASE op[p].kind = "remove"
        BY <3>1, <3>2, <3>3, <3>6
           DEF Allowed, Edited, Atomic!Remove, Atomic!Step
    <3> QED
        BY <3>1, <3>4, <3>5, <3>6 DEF Allowed
  <2>9. CASE RenameFails(p)
      BY <2>9, SavedParses DEF RenameFails
  <2>10. CASE Crash(p)
      BY <2>10, <2>f DEF Crash, Atomic!Step
  <2> QED
      BY <1>2, <2>1, <2>2, <2>3, <2>4, <2>5, <2>6, <2>7, <2>8, <2>9, <2>10
         DEF Step
<1> QED
    BY <1>1, <1>2 DEF Next, Atomic!Next

(* "Read/write is atomic via temp-file + rename" (config.rs:103) holds for   *)
(* every number of readers and every crash as long as one process writes.    *)
THEOREM SoleWriterIsAtomic ==
    ASSUME NEW w, Writers = {w}
    PROVE  Spec => RegistryIsAtomic
BY SoleWriterSafe, AtomicInit, AtomicStep, PTL
   DEF Spec, RegistryIsAtomic, Atomic!Spec

-----------------------------------------------------------------------------
(* Types.                                                                   *)

Envs == Urls \union {"none"}
Triples == [url : Urls \union {"", "host"}, auth : BOOLEAN]
Configs == [proxy : Proxies, bridge : {"default", "own"}]
JobPcs == {"idle", "read", "truncate", "write", "resolve", "environment", "profile"}
JobRecs == [pc : JobPcs, kind : {"", "config", "set", "apply", "clear", "dialog"},
            section : Sections, value : Proxies \union {"own"},
            root : Configs, want : Triples, env : Envs]

\* A save gives a section what belongs there, and what is resolved has a scope.
JobOK(r) ==
  /\ r.pc # "idle" => IF r.section = "proxy" THEN r.value \in Proxies ELSE r.value = "own"
  /\ r.pc = "resolve" => r.kind \in {"dialog", "set", "apply"}
  /\ r.pc \in {"read", "truncate", "write"} => r.kind \in {"config", "set"}
  /\ r.kind = "set" => r.section = "proxy"

JobsOK == job \in [Jobs -> JobRecs] /\ \A j \in Jobs : JobOK(job[j])

HostTypes ==
  /\ cfg \in Configs /\ written \in Configs
  /\ os \in {"none", "far", "127", "pac"}
  /\ env \in Envs /\ override \in Overrides
  /\ baked \in [VmFiles -> Triples]
  /\ clash \in BOOLEAN /\ calm \in BOOLEAN

Types == HostTypes /\ JobsOK

LEMMA EnvTypes == ASSUME os \in {"none", "far", "127", "pac"}, NEW e \in Envs PROVE FromOs(e) \in Envs
  BY DEF FromOs, Detected, Envs, Urls

(* What is resolved is a URL the VM can use, or none: the loopback is named *)
(* only behind a password.                                                   *)
Reachable(p) == p \in Triples /\ p.url # "127" /\ (p.url = "localhost" => p.auth)

LEMMA RewriteReachable == ASSUME NEW p \in Proxies PROVE Reachable(Rewrite(p))
<1>1. p = Off \/ (p.url \in Urls /\ p.auth \in BOOLEAN /\ p = [url |-> p.url, auth |-> p.auth])
  BY DEF Proxies
<1>2. CASE p = Off
  BY <1>2 DEF Off, Rewrite, Plain, Reachable, Triples
<1>3. CASE p.url \in Urls /\ p.auth \in BOOLEAN /\ p = [url |-> p.url, auth |-> p.auth]
  BY <1>3 DEF Rewrite, Plain, Reachable, Triples, Urls
<1> QED  BY <1>1, <1>2, <1>3

LEMMA ResolveReachable ==
  ASSUME NEW own \in Overrides, NEW proxy \in Proxies, NEW environ \in Envs
  PROVE  Reachable(Resolve(own, proxy, environ))
<1>1. Off \in Proxies /\ Reachable(Off)
  BY DEF Off, Proxies, Reachable, Triples
<1>2. Reachable(FromConfig(proxy))
  BY <1>1, RewriteReachable DEF FromConfig
<1>3. \A u \in Urls : Plain(u) \in Proxies
  BY DEF Plain, Proxies
<1>4. Reachable(FromEnviron(environ))
  BY <1>1, <1>3, RewriteReachable DEF FromEnviron, Envs
<1>5. CASE own = "none"
  BY <1>5, <1>1 DEF Resolve, Urls
<1>6. CASE own \in Urls
  BY <1>6, <1>3, RewriteReachable DEF Resolve, Urls
<1>7. CASE own \in {"inherit", "sync-host"}
  BY <1>7, <1>2, <1>4 DEF Resolve, Urls
<1> QED  BY <1>5, <1>6, <1>7 DEF Overrides, Urls

LEMMA WantReachable ==
  ASSUME Types, NEW j \in Jobs, JobAt(j, "resolve") PROVE Reachable(Want(j))
<1>1. job[j] \in JobRecs /\ JobOK(job[j]) /\ job[j].kind \in {"dialog", "set", "apply"}
  BY DEF Types, JobsOK, JobOK, JobAt
<1>2. job[j].env \in Envs /\ "inherit" \in Overrides /\ Off \in Proxies
  BY <1>1 DEF JobRecs, Overrides, Proxies, Off
<1>3. CASE job[j].kind = "dialog"
  <2>1. cfg.proxy \in Proxies /\ env \in Envs /\ override \in Overrides
    BY DEF Types, HostTypes, Configs
  <2> QED  BY <1>3, <2>1, ResolveReachable DEF Want
<1>4. CASE job[j].kind = "set"
  <2>1. job[j].value \in Proxies
    BY <1>1, <1>4 DEF JobOK, JobAt
  <2> QED  BY <1>2, <1>4, <2>1, ResolveReachable DEF Want
<1>5. CASE job[j].kind = "apply"
  BY <1>2, <1>5, ResolveReachable DEF Want
<1> QED  BY <1>1, <1>3, <1>4, <1>5

-----------------------------------------------------------------------------
(* What the steps do, in the terms of the types.                            *)

LEMMA SectionGiven ==
  ASSUME NEW c \in Configs, NEW s \in Sections, NEW v,
         IF s = "proxy" THEN v \in Proxies ELSE v = "own"
  PROVE  [c EXCEPT ![s] = v] \in Configs
<1>1. CASE s = "proxy"
  <2>1. [c EXCEPT !["proxy"] = v] \in Configs
    BY <1>1 DEF Configs
  <2> QED  BY <1>1, <2>1
<1>2. CASE s = "bridge"
  <2>1. [c EXCEPT !["bridge"] = v] \in Configs
    BY <1>2 DEF Configs
  <2> QED  BY <1>2, <2>1
<1> QED  BY <1>1, <1>2 DEF Sections

LEMMA NoJobOK == NoJob \in JobRecs /\ JobOK(NoJob) /\ Reachable(NoJob.want)
<1>1. Off \in Proxies /\ Off \in Triples /\ Reachable(Off)
  BY DEF Off, Proxies, Triples, Reachable
<1>2. Empty \in Configs
  BY <1>1 DEF Empty, Configs
<1>3. NoJob \in JobRecs
  BY <1>1, <1>2 DEF NoJob, JobRecs, JobPcs, Sections, Envs, Urls
<1>4. JobOK(NoJob)
  BY DEF JobOK, NoJob
<1> QED  BY <1>1, <1>3, <1>4 DEF NoJob

Starting(j) == \/ SaveSettings(j) \/ ConfigSet(j) \/ SaveBridge(j) \/ ProxySet(j) \/ ProxyApply(j)
               \/ ProxyClear(j) \/ SetInstanceProxy(j)

LEMMA Launched ==
  ASSUME Types, NEW j \in Jobs, NEW kind \in {"config", "set", "apply", "clear", "dialog"},
         NEW section \in Sections, NEW value \in Proxies \union {"own"},
         NEW begin \in {"read", "resolve", "environment"},
         IF section = "proxy" THEN value \in Proxies ELSE value = "own",
         begin = "resolve" => kind \in {"dialog", "apply"},
         begin = "read" => kind \in {"config", "set"},
         kind = "set" => section = "proxy",
         LaunchJob(j, kind, section, value, begin)
  PROVE  \E r \in JobRecs : /\ JobOK(r) /\ r.pc = begin /\ r.kind = kind /\ Reachable(r.want)
                            /\ job' = [job EXCEPT ![j] = r]
<1>1. PICK e \in {env, "none"} :
        job' = [job EXCEPT ![j] = [NoJob EXCEPT !.pc = begin, !.kind = kind, !.section = section,
                                               !.value = value, !.env = e]]
  BY DEF LaunchJob
<1>2. e \in Envs
  BY DEF Types, HostTypes, Envs
<1> DEFINE r == [NoJob EXCEPT !.pc = begin, !.kind = kind, !.section = section, !.value = value, !.env = e]
<1>3. r \in JobRecs /\ r.want = NoJob.want
  BY <1>2, NoJobOK DEF JobRecs, JobPcs
<1>4. r.pc = begin /\ r.kind = kind /\ r.section = section /\ r.value = value
  BY NoJobOK DEF JobRecs
<1>5. JobOK(r)
  BY <1>4 DEF JobOK
<1> QED  BY <1>1, <1>3, <1>4, <1>5, NoJobOK

LEMMA StartingStep ==
  ASSUME Types, NEW j \in Jobs, Starting(j)
  PROVE  /\ ~JobRunning(j)
         /\ UNCHANGED <<cfg, written, clash, os, env, baked>>
         /\ override' \in Overrides /\ calm' \in BOOLEAN
         /\ \E r \in JobRecs :
              /\ JobOK(r) /\ r.pc \in {"read", "resolve", "environment"} /\ Reachable(r.want)
              /\ job' = [job EXCEPT ![j] = r]
              /\ calm' => /\ r.kind = "dialog" /\ r.pc = "resolve"
                          /\ \A k \in Jobs \ {j} : ~JobRunning(k)
<1> USE DEF cfgVars, hostVars
<1>0. Off \in Proxies /\ "proxy" \in Sections /\ "bridge" \in Sections /\ override \in Overrides
  BY DEF Off, Proxies, Sections, Types, HostTypes
<1>1. CASE SaveSettings(j)
  <2>1. PICK p \in Proxies : LaunchJob(j, "config", "proxy", p, "read")
    BY <1>1 DEF SaveSettings
  <2>2. calm' = FALSE /\ UNCHANGED <<cfg, written, clash, os, env, baked, override>> /\ ~JobRunning(j)
    BY <1>1, <2>1 DEF SaveSettings, LaunchJob
  <2>3. \E r \in JobRecs : /\ JobOK(r) /\ r.pc = "read" /\ r.kind = "config" /\ Reachable(r.want)
                            /\ job' = [job EXCEPT ![j] = r]
    BY <1>0, <2>1, Launched
  <2> QED  BY <1>0, <2>1, <2>2, <2>3
<1>2. CASE ConfigSet(j)
  <2>1. PICK p \in Proxies : LaunchJob(j, "config", "proxy", p, "read")
    BY <1>2 DEF ConfigSet
  <2>2. calm' = FALSE /\ UNCHANGED <<cfg, written, clash, os, env, baked, override>> /\ ~JobRunning(j)
    BY <1>2, <2>1 DEF ConfigSet, LaunchJob
  <2>3. \E r \in JobRecs : /\ JobOK(r) /\ r.pc = "read" /\ r.kind = "config" /\ Reachable(r.want)
                            /\ job' = [job EXCEPT ![j] = r]
    BY <1>0, <2>1, Launched
  <2> QED  BY <1>0, <2>1, <2>2, <2>3
<1>3. CASE SaveBridge(j)
  <2>1. LaunchJob(j, "config", "bridge", "own", "read")
    BY <1>3 DEF SaveBridge
  <2>2. calm' = FALSE /\ UNCHANGED <<cfg, written, clash, os, env, baked, override>> /\ ~JobRunning(j)
    BY <1>3, <2>1 DEF SaveBridge, LaunchJob
  <2>3. \E r \in JobRecs : /\ JobOK(r) /\ r.pc = "read" /\ r.kind = "config" /\ Reachable(r.want)
                            /\ job' = [job EXCEPT ![j] = r]
    BY <1>0, <2>1, Launched
  <2> QED  BY <1>0, <2>1, <2>2, <2>3
<1>4. CASE ProxySet(j)
  <2>1. PICK p \in Proxies : LaunchJob(j, "set", "proxy", p, "read")
    <3>1. \A u \in Urls : [cfg.proxy EXCEPT !.url = u] \in Proxies
      <4>1. cfg.proxy \in [url : Urls, auth : BOOLEAN] \/ cfg.proxy = Off
        BY DEF Types, HostTypes, Configs, Proxies
      <4>2. CASE cfg.proxy = Off
        <5>1. \A u \in Urls : [Off EXCEPT !.url = u] \in Proxies
          BY DEF Proxies, Off
        <5> QED  BY <4>2, <5>1
      <4>3. CASE cfg.proxy \in [url : Urls, auth : BOOLEAN]
        BY <4>3 DEF Proxies
      <4> QED  BY <4>1, <4>2, <4>3
    <3> QED  BY <1>0, <1>4, <3>1 DEF ProxySet
  <2>2. calm' = FALSE /\ UNCHANGED <<cfg, written, clash, os, env, baked, override>> /\ ~JobRunning(j)
    BY <1>4, <2>1 DEF ProxySet, LaunchJob
  <2>3. \E r \in JobRecs : /\ JobOK(r) /\ r.pc = "read" /\ r.kind = "set" /\ Reachable(r.want)
                            /\ job' = [job EXCEPT ![j] = r]
    BY <1>0, <2>1, Launched
  <2> QED  BY <1>0, <2>1, <2>2, <2>3
<1>5. CASE ProxyApply(j)
  <2>1. LaunchJob(j, "apply", "proxy", Off, "resolve")
    BY <1>5 DEF ProxyApply
  <2>2. calm' = FALSE /\ UNCHANGED <<cfg, written, clash, os, env, baked, override>> /\ ~JobRunning(j)
    BY <1>5, <2>1 DEF ProxyApply, LaunchJob
  <2>3. \E r \in JobRecs : /\ JobOK(r) /\ r.pc = "resolve" /\ r.kind = "apply" /\ Reachable(r.want)
                            /\ job' = [job EXCEPT ![j] = r]
    BY <1>0, <2>1, Launched
  <2> QED  BY <1>0, <2>1, <2>2, <2>3
<1>6. CASE ProxyClear(j)
  <2>1. LaunchJob(j, "clear", "proxy", Off, "environment")
    BY <1>6 DEF ProxyClear
  <2>2. calm' = FALSE /\ UNCHANGED <<cfg, written, clash, os, env, baked, override>> /\ ~JobRunning(j)
    BY <1>6, <2>1 DEF ProxyClear, LaunchJob
  <2>3. \E r \in JobRecs : /\ JobOK(r) /\ r.pc = "environment" /\ r.kind = "clear" /\ Reachable(r.want)
                            /\ job' = [job EXCEPT ![j] = r]
    BY <1>0, <2>1, Launched
  <2> QED  BY <1>0, <2>1, <2>2, <2>3
<1>7. CASE SetInstanceProxy(j)
  <2>1. LaunchJob(j, "dialog", "proxy", Off, "resolve") /\ override' \in Overrides
    BY <1>7 DEF SetInstanceProxy
  <2>2. /\ calm' = \A k \in Jobs \ {j} : ~JobRunning(k)
        /\ UNCHANGED <<cfg, written, clash, os, env, baked>> /\ ~JobRunning(j)
    BY <1>7, <2>1 DEF SetInstanceProxy, LaunchJob
  <2>3. \E r \in JobRecs : /\ JobOK(r) /\ r.pc = "resolve" /\ r.kind = "dialog" /\ Reachable(r.want)
                            /\ job' = [job EXCEPT ![j] = r]
    BY <1>0, <2>1, Launched
  <2> QED  BY <1>0, <2>1, <2>2, <2>3
<1> QED  BY <1>1, <1>2, <1>3, <1>4, <1>5, <1>6, <1>7 DEF Starting

-----------------------------------------------------------------------------
(* The inductive invariant.                                                 *)

\* As long as no two saves have met, one save at most is under way; it knows
\* the other section as it was last given.
SaveInv ==
  ~clash =>
    /\ \A j, k \in Jobs : Saving(j) /\ Saving(k) => j = k
    /\ \A j \in Jobs : Saving(j) => job[j].root = [written EXCEPT ![job[j].section] = job[j].value]
    /\ (\A j \in Jobs : ~JobAt(j, "write")) => cfg = written

WantInv == (\A j \in Jobs : Reachable(job[j].want)) /\ (\A f \in VmFiles : Reachable(baked[f]))

\* What the VM's files should say after set_instance_proxy.
Meant == Resolve(override, cfg.proxy, env)

\* In a calm nothing runs but the dialog's command, and what it has done so far
\* is what is meant.
CalmInv ==
  calm =>
    /\ \A j \in Jobs : JobRunning(j) =>
         job[j].kind = "dialog" /\ job[j].pc \in {"resolve", "environment", "profile"}
    /\ \A j, k \in Jobs : JobRunning(j) /\ JobRunning(k) => j = k
    /\ \A j \in Jobs : job[j].pc \in {"environment", "profile"} => job[j].want = Meant
    /\ \A j \in Jobs : JobAt(j, "profile") => baked["environment"] = Meant
    /\ (\A j \in Jobs : ~JobRunning(j)) => \A f \in VmFiles : baked[f] = Meant

HostFilesInv == Types /\ SaveInv /\ WantInv /\ CalmInv

LEMMA HostFilesInit == ProxyInit => HostFilesInv
<1> SUFFICES ASSUME ProxyInit PROVE HostFilesInv
  OBVIOUS
<1>1. Off \in Proxies /\ Off \in Triples /\ Reachable(Off)
  BY DEF Off, Proxies, Triples, Reachable
<1>2. cfg \in Configs
  <2>1. Empty \in Configs
    BY <1>1 DEF Empty, Configs
  <2>2. [url |-> "localhost", auth |-> TRUE] \in Proxies /\ Plain("far") \in Proxies
    BY DEF Proxies, Urls, Plain
  <2>3. \A p \in Proxies : [Empty EXCEPT !.proxy = p] \in Configs
    BY <2>1 DEF Configs
  <2> QED  BY <2>1, <2>2, <2>3 DEF ProxyInit
<1>3. Types
  BY <1>1, <1>2, NoJobOK DEF ProxyInit, Types, HostTypes, JobsOK, Envs, Urls, Overrides
<1>4. SaveInv
  BY DEF ProxyInit, SaveInv, Saving, NoJob
<1>5. WantInv
  BY <1>1, NoJobOK DEF ProxyInit, WantInv
<1>6. CalmInv
  BY DEF ProxyInit, CalmInv
<1> QED  BY <1>3, <1>4, <1>5, <1>6 DEF HostFilesInv

(* A command that begins has saved nothing yet; a calm begins with the      *)
(* dialog's, when nothing else runs.                                        *)
LEMMA StartingKeeps ==
  ASSUME HostFilesInv, NEW j \in Jobs, Starting(j) PROVE HostFilesInv'
<1>1. Types /\ SaveInv /\ WantInv /\ CalmInv
  BY DEF HostFilesInv
<1>2. /\ ~JobRunning(j)
      /\ UNCHANGED <<cfg, written, clash, os, env, baked>>
      /\ override' \in Overrides /\ calm' \in BOOLEAN
  BY <1>1, StartingStep
<1>3. PICK r \in JobRecs :
        /\ JobOK(r) /\ r.pc \in {"read", "resolve", "environment"} /\ Reachable(r.want)
        /\ job' = [job EXCEPT ![j] = r]
        /\ calm' => r.kind = "dialog" /\ r.pc = "resolve" /\ \A k \in Jobs \ {j} : ~JobRunning(k)
  BY <1>1, StartingStep
<1>4. job \in [Jobs -> JobRecs] /\ \A k \in Jobs : JobOK(job[k])
  BY <1>1 DEF Types, JobsOK
<1>5. Types'
  <2>1. HostTypes'
    BY <1>1, <1>2 DEF Types, HostTypes
  <2>2. JobsOK'
    BY <1>3, <1>4 DEF JobsOK
  <2> QED  BY <2>1, <2>2 DEF Types
<1>6. /\ job'[j] = r /\ \A k \in Jobs \ {j} : job'[k] = job[k]
      /\ r.pc \notin {"truncate", "write", "idle"}
  BY <1>3, <1>4
<1>7. SaveInv'
  <2>1. \A k \in Jobs : Saving(k)' <=> k # j /\ Saving(k)
    BY <1>2, <1>6 DEF Saving, JobRunning
  <2>2. \A k \in Jobs : JobAt(k, "write")' <=> k # j /\ JobAt(k, "write")
    BY <1>6 DEF JobAt
  <2>3. (\A k \in Jobs : ~JobAt(k, "write"))' => \A k \in Jobs : ~JobAt(k, "write")
    BY <1>2, <2>2 DEF JobRunning, JobAt
  <2> QED  BY <1>1, <1>2, <1>6, <2>1, <2>3 DEF SaveInv
<1>8. WantInv'
  BY <1>1, <1>2, <1>3, <1>6 DEF WantInv
<1>9. CalmInv'
  <2> SUFFICES ASSUME calm' PROVE CalmInv'
    BY DEF CalmInv
  <2>1. \A k \in Jobs : JobRunning(k)' => k = j
    BY <1>3, <1>6 DEF JobRunning
  <2>2. JobRunning(j)' /\ job'[j].kind = "dialog" /\ job'[j].pc = "resolve"
    BY <1>3, <1>6 DEF JobRunning
  <2> QED  BY <2>1, <2>2 DEF CalmInv, JobRunning, JobAt
<1> QED  BY <1>5, <1>7, <1>8, <1>9 DEF HostFilesInv

(* A save reads the file: of two that meet the second marks the clash.      *)
LEMMA ReadKeeps ==
  ASSUME HostFilesInv, NEW j \in Jobs, ReadConfig(j) PROVE HostFilesInv'
<1>1. Types /\ SaveInv /\ WantInv /\ CalmInv
  BY DEF HostFilesInv
<1>2. job \in [Jobs -> JobRecs] /\ \A k \in Jobs : JobOK(job[k])
  BY <1>1 DEF Types, JobsOK
<1> DEFINE root == [cfg EXCEPT ![job[j].section] = job[j].value]
<1>3. root \in Configs
  <2>1. job[j].section \in Sections /\ cfg \in Configs
    BY <1>1, <1>2 DEF JobRecs, Types, HostTypes
  <2>2. IF job[j].section = "proxy" THEN job[j].value \in Proxies ELSE job[j].value = "own"
    BY <1>2 DEF ReadConfig, JobAt, JobOK
  <2> QED  BY <2>1, <2>2, SectionGiven
<1> DEFINE r == [job[j] EXCEPT !.pc = "truncate", !.root = root]
<1>4. /\ job[j].pc = "read"
      /\ job' = [job EXCEPT ![j] = r]
      /\ clash' = (clash \/ \E k \in Jobs \ {j} : Saving(k))
      /\ UNCHANGED <<cfg, written, os, env, override, baked, calm>>
  BY <1>2 DEF ReadConfig, JobAt, hostVars
<1>5. /\ job'[j] = r
      /\ \A k \in Jobs \ {j} : job'[k] = job[k]
  BY <1>2, <1>4
<1>6. job[j] \in JobRecs /\ JobOK(job[j])
  BY <1>2
<1>7. /\ r \in JobRecs /\ r.pc = "truncate" /\ r.root = root
      /\ r.section = job[j].section /\ r.value = job[j].value /\ r.want = job[j].want
      /\ r.kind = job[j].kind
  BY <1>3, <1>6 DEF JobRecs, JobPcs
<1>11. JobOK(r)
  BY <1>4, <1>6, <1>7 DEF JobOK
<1>12. Types'
  <2>1. HostTypes'
    BY <1>1, <1>4 DEF Types, HostTypes
  <2> HIDE DEF r
  <2> QED  BY <1>2, <1>4, <1>7, <1>11, <2>1 DEF Types, JobsOK
<1>8. SaveInv'
  <2> SUFFICES ASSUME ~clash' PROVE SaveInv'
    BY DEF SaveInv
  <2>1. ~clash /\ \A k \in Jobs \ {j} : ~Saving(k)
    BY <1>4
  <2>2. cfg = written
    BY <1>1, <1>4, <2>1 DEF SaveInv, JobAt, Saving
  <2>3. \A k \in Jobs : Saving(k)' => k = j
    BY <1>5, <2>1 DEF Saving
  <2>4. job'[j].root = [written' EXCEPT ![job'[j].section] = job'[j].value]
    BY <1>4, <1>5, <1>7, <2>2
  <2>5. cfg' = written'
    BY <1>4, <2>2
  <2> QED  BY <2>3, <2>4, <2>5 DEF SaveInv
<1>9. WantInv'
  BY <1>1, <1>4, <1>5, <1>7 DEF WantInv
<1>10. CalmInv'
  BY <1>1, <1>4 DEF CalmInv, JobRunning
<1> QED  BY <1>12, <1>8, <1>9, <1>10 DEF HostFilesInv

(* The file is emptied and then given what was read: in a calm no save runs.*)
LEMMA TruncateKeeps ==
  ASSUME HostFilesInv, NEW j \in Jobs, TruncateConfig(j) PROVE HostFilesInv'
<1>1. Types /\ SaveInv /\ WantInv /\ CalmInv
  BY DEF HostFilesInv
<1>2. job \in [Jobs -> JobRecs] /\ \A k \in Jobs : JobOK(job[k])
  BY <1>1 DEF Types, JobsOK
<1> DEFINE r == [job[j] EXCEPT !.pc = "write"]
<1>3. /\ job[j].pc = "truncate"
      /\ job' = [job EXCEPT ![j] = r]
      /\ cfg' = Empty
      /\ UNCHANGED <<written, clash, os, env, override, baked, calm>>
  BY DEF TruncateConfig, JobAt, JobGoto, hostVars
<1>4. /\ job'[j] = r
      /\ \A k \in Jobs \ {j} : job'[k] = job[k]
  BY <1>2, <1>3
<1>10. job[j] \in JobRecs /\ JobOK(job[j])
  BY <1>2
<1>5. /\ r \in JobRecs /\ r.pc = "write" /\ r.root = job[j].root
      /\ r.section = job[j].section /\ r.value = job[j].value /\ r.want = job[j].want
      /\ r.kind = job[j].kind
  BY <1>10 DEF JobRecs, JobPcs
<1>11. JobOK(r)
  BY <1>3, <1>5, <1>10 DEF JobOK
<1>6. Types'
  <2>1. HostTypes'
    BY <1>1, <1>3, NoJobOK DEF Types, HostTypes, NoJob, JobRecs
  <2> HIDE DEF r
  <2> QED  BY <1>2, <1>3, <1>5, <1>11, <2>1 DEF Types, JobsOK
<1>7. SaveInv'
  <2>1. \A k \in Jobs : Saving(k)' <=> Saving(k)
    BY <1>3, <1>4, <1>5 DEF Saving
  <2>2. \A k \in Jobs : /\ job'[k].root = job[k].root /\ job'[k].section = job[k].section
                        /\ job'[k].value = job[k].value
    BY <1>4, <1>5
  <2>3. JobAt(j, "write")'
    BY <1>4, <1>5 DEF JobAt
  <2> QED  BY <1>1, <1>3, <2>1, <2>2, <2>3 DEF SaveInv
<1>8. WantInv'
  BY <1>1, <1>3, <1>4, <1>5 DEF WantInv
<1>9. CalmInv'
  BY <1>1, <1>3 DEF CalmInv, JobRunning
<1> QED  BY <1>6, <1>7, <1>8, <1>9 DEF HostFilesInv

LEMMA WriteKeeps ==
  ASSUME HostFilesInv, NEW j \in Jobs, WriteConfig(j) PROVE HostFilesInv'
<1>1. Types /\ SaveInv /\ WantInv /\ CalmInv
  BY DEF HostFilesInv
<1>2. job \in [Jobs -> JobRecs] /\ \A k \in Jobs : JobOK(job[k])
  BY <1>1 DEF Types, JobsOK
<1> DEFINE r == IF job[j].kind = "set" THEN [job[j] EXCEPT !.pc = "resolve"] ELSE NoJob
<1>3. /\ job[j].pc = "write"
      /\ job' = [job EXCEPT ![j] = r]
      /\ cfg' = job[j].root
      /\ written' = [written EXCEPT ![job[j].section] = job[j].value]
      /\ calm' = FALSE
      /\ UNCHANGED <<clash, os, env, override, baked>>
  BY DEF WriteConfig, JobAt, JobGoto, hostVars
<1>4. r \in JobRecs /\ JobOK(r) /\ r.pc \in {"resolve", "idle"} /\ Reachable(r.want)
  <2>1. CASE job[j].kind = "set"
    <3>1. JobOK(job[j]) /\ job[j] \in JobRecs /\ Reachable(job[j].want)
      BY <1>1, <1>2 DEF WantInv
    <3> QED  BY <1>3, <2>1, <3>1 DEF JobRecs, JobPcs, JobOK
  <2>2. CASE job[j].kind # "set"
    BY <2>2, NoJobOK DEF NoJob
  <2> QED  BY <2>1, <2>2
<1>5. job'[j] = r /\ \A k \in Jobs \ {j} : job'[k] = job[k]
  BY <1>2, <1>3
<1>6. Types'
  <2>1. job[j].root \in Configs /\ written' \in Configs
    <3>1. job[j].section \in Sections /\ written \in Configs /\ job[j].root \in Configs
      BY <1>1, <1>2 DEF JobRecs, Types, HostTypes
    <3>2. IF job[j].section = "proxy" THEN job[j].value \in Proxies ELSE job[j].value = "own"
      BY <1>2, <1>3 DEF JobOK
    <3> QED  BY <1>3, <3>1, <3>2, SectionGiven
  <2>2. HostTypes'
    BY <1>1, <1>3, <2>1 DEF Types, HostTypes
  <2> QED  BY <1>2, <1>3, <1>4, <2>2 DEF Types, JobsOK
<1>7. SaveInv'
  <2> SUFFICES ASSUME ~clash' PROVE SaveInv'
    BY DEF SaveInv
  <2>1. Saving(j) /\ ~clash
    BY <1>3 DEF Saving
  <2>2. \A k \in Jobs \ {j} : ~Saving(k)
    BY <1>1, <2>1 DEF SaveInv
  <2>3. \A k \in Jobs : ~Saving(k)'
    BY <1>4, <1>5, <2>2 DEF Saving
  <2>4. cfg' = written'
    BY <1>1, <1>3, <2>1 DEF SaveInv
  <2> QED  BY <2>3, <2>4 DEF SaveInv
<1>8. WantInv'
  BY <1>1, <1>3, <1>4, <1>5 DEF WantInv
<1>9. CalmInv'
  BY <1>3 DEF CalmInv
<1> QED  BY <1>6, <1>7, <1>8, <1>9 DEF HostFilesInv

(* What is wanted is fixed; from here on the files are written with it.     *)
LEMMA ResolveKeeps ==
  ASSUME HostFilesInv, NEW j \in Jobs, ResolveIt(j) PROVE HostFilesInv'
<1>1. Types /\ SaveInv /\ WantInv /\ CalmInv
  BY DEF HostFilesInv
<1>2. job \in [Jobs -> JobRecs] /\ \A k \in Jobs : JobOK(job[k])
  BY <1>1 DEF Types, JobsOK
<1> DEFINE drop == Want(j) = Off /\ job[j].kind \in {"set", "apply"}
           r == IF drop THEN NoJob ELSE [job[j] EXCEPT !.want = Want(j), !.pc = "environment"]
<1>3. /\ job[j].pc = "resolve" /\ JobAt(j, "resolve")
      /\ job' = [job EXCEPT ![j] = r]
      /\ UNCHANGED <<cfg, written, clash, os, env, override, baked, calm>>
  <2>1. job' = [job EXCEPT ![j] = r]
    <3>1. CASE drop
      BY <3>1 DEF ResolveIt, JobGoto
    <3>2. CASE ~drop
      BY <3>2, <1>2 DEF ResolveIt
    <3> QED  BY <3>1, <3>2
  <2> QED  BY <2>1 DEF ResolveIt, JobAt, cfgVars, hostVars
<1>4. Reachable(Want(j))
  BY <1>1, <1>3, WantReachable
<1>5. /\ r \in JobRecs /\ JobOK(r) /\ Reachable(r.want)
      /\ IF drop THEN r.pc = "idle"
         ELSE r.pc = "environment" /\ r.want = Want(j) /\ r.kind = job[j].kind
  <2>1. CASE drop
    BY <2>1, NoJobOK DEF NoJob
  <2>2. CASE ~drop
    <3>1. JobOK(job[j]) /\ job[j] \in JobRecs
      BY <1>2
    <3> QED  BY <1>3, <1>4, <2>2, <3>1 DEF JobRecs, JobPcs, JobOK, Reachable
  <2> QED  BY <2>1, <2>2
<1>6. job'[j] = r /\ \A k \in Jobs \ {j} : job'[k] = job[k]
  BY <1>2, <1>3
<1>7. Types'
  <2>1. HostTypes'
    BY <1>1, <1>3 DEF Types, HostTypes
  <2> QED  BY <1>2, <1>3, <1>5, <2>1 DEF Types, JobsOK
<1>8. SaveInv'
  <2>1. \A k \in Jobs : Saving(k)' <=> Saving(k)
    BY <1>3, <1>5, <1>6 DEF Saving
  <2>2. \A k \in Jobs : Saving(k) => job'[k] = job[k]
    BY <1>3, <1>6 DEF Saving
  <2>3. \A k \in Jobs : JobAt(k, "write")' <=> JobAt(k, "write")
    BY <1>3, <1>5, <1>6 DEF JobAt
  <2> QED  BY <1>1, <1>3, <2>1, <2>2, <2>3 DEF SaveInv
<1>9. WantInv'
  BY <1>1, <1>3, <1>5, <1>6 DEF WantInv
<1>10. CalmInv'
  <2> SUFFICES ASSUME calm' PROVE CalmInv'
    BY DEF CalmInv
  <2>1. calm /\ JobRunning(j) /\ job[j].kind = "dialog"
    BY <1>1, <1>3 DEF CalmInv, JobRunning
  <2>2. Want(j) = Meant /\ ~drop
    BY <2>1 DEF Want, Meant
  <2>3. \A k \in Jobs \ {j} : ~JobRunning(k)
    BY <1>1, <2>1 DEF CalmInv
  <2>4. Meant' = Meant
    BY <1>3 DEF Meant
  <2>5. \A k \in Jobs : JobRunning(k)' => k = j
    BY <1>6, <2>3 DEF JobRunning
  <2>6. job'[j].pc = "environment" /\ job'[j].want = Meant /\ job'[j].kind = "dialog"
    BY <1>5, <1>6, <2>1, <2>2
  <2> QED  BY <2>4, <2>5, <2>6 DEF CalmInv, JobRunning, JobAt
<1> QED  BY <1>7, <1>8, <1>9, <1>10 DEF HostFilesInv

LEMMA BakeKeeps ==
  ASSUME HostFilesInv, NEW j \in Jobs,
         Bake(j, "environment", "profile") \/ Bake(j, "profile", "idle")
  PROVE  HostFilesInv'
<1>1. Types /\ SaveInv /\ WantInv /\ CalmInv
  BY DEF HostFilesInv
<1>2. job \in [Jobs -> JobRecs] /\ \A k \in Jobs : JobOK(job[k])
  BY <1>1 DEF Types, JobsOK
<1>3. PICK which \in VmFiles : /\ Bake(j, which, IF which = "environment" THEN "profile" ELSE "idle")
                              /\ job[j].pc = which
  BY DEF VmFiles, Bake, JobAt
<1> DEFINE next == IF which = "environment" THEN "profile" ELSE "idle"
           good == baked' = [baked EXCEPT ![which] = job[j].want] /\ calm' = calm
<1>4. /\ \/ good
         \/ baked' = baked /\ calm' = FALSE
      /\ UNCHANGED <<cfg, written, clash, os, env, override>>
  BY <1>3 DEF Bake, WriteSandboxFile, cfgVars, hostVars
<1>5. \/ job' = [job EXCEPT ![j] = [job[j] EXCEPT !.pc = "profile"]] /\ which = "environment" /\ good
      \/ job' = [job EXCEPT ![j] = NoJob] /\ (good => which = "profile" \/ ~calm')
  <2>1. which = "environment" \/ which = "profile"
    BY DEF VmFiles
  <2>2. CASE baked' = [baked EXCEPT ![which] = job[j].want] /\ JobGoto(j, next) /\ UNCHANGED calm
    BY <1>2, <2>1, <2>2 DEF JobGoto
  <2>3. CASE baked' = baked /\ JobGoto(j, "idle") /\ calm' = FALSE
    BY <2>3 DEF JobGoto
  <2> QED  BY <1>3, <2>2, <2>3 DEF Bake, WriteSandboxFile
<1>6. job[j] \in JobRecs /\ JobOK(job[j]) /\ Reachable(job[j].want)
  BY <1>1, <1>2 DEF WantInv
<1>7. PICK q \in JobRecs :
        /\ JobOK(q) /\ Reachable(q.want) /\ job' = [job EXCEPT ![j] = q]
        /\ \/ q.pc = "profile" /\ q.want = job[j].want /\ q.kind = job[j].kind
              /\ which = "environment" /\ good
           \/ q.pc = "idle" /\ (good => which = "profile" \/ ~calm')
  <2>1. CASE job' = [job EXCEPT ![j] = [job[j] EXCEPT !.pc = "profile"]] /\ which = "environment" /\ good
    <3> DEFINE q == [job[j] EXCEPT !.pc = "profile"]
    <3>1. q \in JobRecs /\ q.pc = "profile" /\ q.want = job[j].want /\ q.kind = job[j].kind
          /\ q.section = job[j].section /\ q.value = job[j].value
      BY <1>6 DEF JobRecs, JobPcs
    <3>2. JobOK(q)
      BY <1>3, <1>6, <3>1 DEF JobOK, VmFiles
    <3> HIDE DEF q, good
    <3> QED  BY <1>6, <2>1, <3>1, <3>2 DEF q
  <2>2. CASE job' = [job EXCEPT ![j] = NoJob] /\ (good => which = "profile" \/ ~calm')
    <3>1. NoJob.pc = "idle"
      BY DEF NoJob
    <3> HIDE DEF good
    <3> QED  BY <2>2, <3>1, NoJobOK
  <2> QED  BY <1>5, <2>1, <2>2
<1>8. job'[j] = q /\ \A k \in Jobs \ {j} : job'[k] = job[k]
  BY <1>2, <1>7
<1>9. Types'
  <2>1. job[j].want \in Triples
    BY <1>6 DEF Reachable
  <2>2. HostTypes'
    BY <1>1, <1>3, <1>4, <2>1 DEF Types, HostTypes
  <2> QED  BY <1>2, <1>7, <2>2 DEF Types, JobsOK
<1>10. SaveInv'
  <2>1. \A k \in Jobs : Saving(k)' <=> Saving(k)
    BY <1>3, <1>7, <1>8 DEF Saving, VmFiles
  <2>2. \A k \in Jobs : Saving(k) => job'[k] = job[k]
    BY <1>3, <1>8 DEF Saving, VmFiles
  <2>3. \A k \in Jobs : JobAt(k, "write")' <=> JobAt(k, "write")
    BY <1>3, <1>7, <1>8 DEF JobAt, VmFiles
  <2> QED  BY <1>1, <1>4, <2>1, <2>2, <2>3 DEF SaveInv
<1>11. WantInv'
  <2>1. baked \in [VmFiles -> Triples]
    BY <1>1 DEF Types, HostTypes
  <2> QED  BY <1>1, <1>3, <1>4, <1>6, <1>7, <1>8, <2>1 DEF WantInv
<1>12. CalmInv'
  <2> SUFFICES ASSUME calm' PROVE CalmInv'
    BY DEF CalmInv
  <2>1. good /\ calm
    BY <1>4
  <2>2. Meant' = Meant
    BY <1>4 DEF Meant
  <2>3. JobRunning(j) /\ job[j].want = Meant /\ job[j].kind = "dialog"
    BY <1>1, <1>3, <2>1 DEF CalmInv, JobRunning, VmFiles
  <2>4. \A k \in Jobs \ {j} : ~JobRunning(k)
    BY <1>1, <2>1, <2>3 DEF CalmInv
  <2>5. \A k \in Jobs : JobRunning(k)' => k = j
    BY <1>8, <2>4 DEF JobRunning
  <2>6. baked \in [VmFiles -> Triples]
    BY <1>1 DEF Types, HostTypes
  <2>7. CASE q.pc = "profile"
    <3>1. job'[j].kind = "dialog" /\ job'[j].want = Meant /\ job'[j].pc = "profile"
      BY <1>7, <1>8, <2>3, <2>7
    <3>2. which = "environment"
      BY <1>7, <2>7
    <3>3. baked'["environment"] = Meant
      BY <2>1, <2>3, <2>6, <3>2 DEF VmFiles
    <3> QED  BY <2>2, <2>5, <3>1, <3>3 DEF CalmInv, JobRunning, JobAt
  <2>8. CASE q.pc = "idle"
    <3>1. which = "profile"
      BY <1>7, <2>1, <2>8
    <3>2. baked["environment"] = Meant
      BY <1>1, <1>3, <2>1, <3>1 DEF CalmInv, JobAt
    <3>3. baked'["environment"] = Meant /\ baked'["profile"] = Meant
      BY <2>1, <2>3, <2>6, <3>1, <3>2 DEF VmFiles
    <3>4. \A k \in Jobs : ~JobRunning(k)'
      BY <1>8, <2>5, <2>8 DEF JobRunning
    <3> QED  BY <2>2, <3>3, <3>4 DEF CalmInv, JobRunning, JobAt, VmFiles
  <2> QED  BY <1>7, <2>7, <2>8
<1> QED  BY <1>9, <1>10, <1>11, <1>12 DEF HostFilesInv

LEMMA DiesKeeps ==
  ASSUME HostFilesInv, NEW j \in Jobs, JobDies(j) PROVE HostFilesInv'
<1>1. Types /\ SaveInv /\ WantInv /\ CalmInv
  BY DEF HostFilesInv
<1>2. job \in [Jobs -> JobRecs] /\ \A k \in Jobs : JobOK(job[k])
  BY <1>1 DEF Types, JobsOK
<1>3. /\ job' = [job EXCEPT ![j] = NoJob]
      /\ clash' = (clash \/ JobAt(j, "write")) /\ calm' = FALSE
      /\ UNCHANGED <<cfg, written, os, env, override, baked>>
  BY DEF JobDies, JobGoto, hostVars
<1>4. job'[j] = NoJob /\ NoJob.pc = "idle" /\ \A k \in Jobs \ {j} : job'[k] = job[k]
  BY <1>2, <1>3 DEF NoJob
<1>5. Types'
  <2>1. HostTypes'
    BY <1>1, <1>3 DEF Types, HostTypes
  <2> QED  BY <1>2, <1>3, <2>1, NoJobOK DEF Types, JobsOK
<1>6. SaveInv'
  <2> SUFFICES ASSUME ~clash' PROVE SaveInv'
    BY DEF SaveInv
  <2>1. ~clash /\ ~JobAt(j, "write")
    BY <1>3
  <2>2. \A k \in Jobs : Saving(k)' => k # j /\ Saving(k)
    BY <1>4 DEF Saving
  <2>3. \A k \in Jobs : JobAt(k, "write")' <=> JobAt(k, "write")
    BY <1>4, <2>1 DEF JobAt
  <2> QED  BY <1>1, <1>3, <1>4, <2>1, <2>2, <2>3 DEF SaveInv
<1>7. WantInv'
  BY <1>1, <1>3, <1>4, NoJobOK DEF WantInv
<1>8. CalmInv'
  BY <1>3 DEF CalmInv
<1> QED  BY <1>5, <1>6, <1>7, <1>8 DEF HostFilesInv

(* What happens to the host's own proxy and to the GUI's environment.       *)
LEMMA HostKeeps ==
  ASSUME HostFilesInv,
         GuiStarts \/ Watch \/ StartInstance \/ OsTurns \/ UNCHANGED proxyVars
  PROVE  HostFilesInv'
<1>1. Types /\ SaveInv /\ WantInv /\ CalmInv
  BY DEF HostFilesInv
<1>2. /\ UNCHANGED <<cfg, written, clash, override, baked, job>>
      /\ calm' = FALSE \/ UNCHANGED <<calm, env>>
      /\ calm' \in BOOLEAN
  BY <1>1 DEF GuiStarts, Watch, StartInstance, OsTurns, proxyVars, cfgVars, Types, HostTypes
<1>3. os' \in {"none", "far", "127", "pac"}
  BY <1>1 DEF GuiStarts, Watch, StartInstance, OsTurns, proxyVars, Types, HostTypes
<1>4. env' \in Envs
  <2>1. /\ os \in {"none", "far", "127", "pac"} /\ env \in Envs /\ cfg.proxy \in Proxies
        /\ "none" \in Envs
    BY <1>1 DEF Types, HostTypes, Configs, Envs
  <2>2. FromOs(env) \in Envs /\ FromOs("none") \in Envs
    BY <2>1, EnvTypes
  <2>3. Enabled => cfg.proxy.url \in Envs
    <3>1. cfg.proxy \in [url : Urls, auth : BOOLEAN] \/ cfg.proxy = Off
      BY <2>1 DEF Proxies
    <3>2. Off.url = ""
      BY DEF Off
    <3> QED  BY <3>1, <3>2 DEF Enabled, Envs
  <2> QED  BY <2>1, <2>2, <2>3 DEF GuiStarts, Watch, StartInstance, OsTurns, proxyVars
<1>5. Types'
  BY <1>1, <1>2, <1>3, <1>4 DEF Types, HostTypes, JobsOK
<1>6. SaveInv' /\ WantInv'
  BY <1>1, <1>2 DEF SaveInv, WantInv, Saving, JobAt
<1>7. CalmInv'
  BY <1>1, <1>2 DEF CalmInv, JobRunning, JobAt, Meant
<1> QED  BY <1>5, <1>6, <1>7 DEF HostFilesInv

LEMMA HostFilesStep == HostFilesInv /\ [ProxyNext]_proxyVars => HostFilesInv'
<1> SUFFICES ASSUME HostFilesInv, [ProxyNext]_proxyVars PROVE HostFilesInv'
  OBVIOUS
<1>1. ASSUME NEW j \in Jobs, Job(j) PROVE HostFilesInv'
  <2>1. CASE Starting(j)
    BY <2>1, StartingKeeps
  <2>2. CASE ReadConfig(j) \/ TruncateConfig(j) \/ WriteConfig(j)
    BY <2>2, ReadKeeps, TruncateKeeps, WriteKeeps
  <2>3. CASE ResolveIt(j) \/ JobDies(j)
    BY <2>3, ResolveKeeps, DiesKeeps
  <2>4. CASE Bake(j, "environment", "profile") \/ Bake(j, "profile", "idle")
    BY <2>4, BakeKeeps
  <2>5. CASE WriteFails(j)
    <3>1. JobDies(j)
      BY <2>5 DEF WriteFails, JobDies, JobAt, JobRunning
    <3> QED  BY <3>1, DiesKeeps
  <2> QED  BY <1>1, <2>1, <2>2, <2>3, <2>4, <2>5 DEF Job, Starting
<1> QED  BY <1>1, HostKeeps DEF ProxyNext

-----------------------------------------------------------------------------

(* Whatever the number of commands: config.toml holds what each section was *)
(* last given as long as no saves met, no VM is told of the host's loopback *)
(* unless behind a password, and after set_instance_proxy both files of the *)
(* VM say what is meant (config_loader/mod.rs, proxy/resolver.rs, apply.rs). *)
THEOREM ProxyHolds == ProxySpec => []ProxyInv
<1>1. ProxyInit => HostFilesInv
  BY HostFilesInit
<1>2. HostFilesInv /\ [ProxyNext]_proxyVars => HostFilesInv'
  BY HostFilesStep
<1>3. HostFilesInv => ProxyInv
  <2> SUFFICES ASSUME HostFilesInv PROVE ProxyInv
    OBVIOUS
  <2>1. ProxyTypeOK
    BY DEF HostFilesInv, Types, HostTypes, ProxyTypeOK, Configs, Envs, Triples
  <2>2. SectionsKept
    BY DEF HostFilesInv, SaveInv, SectionsKept
  <2>3. BakedReachable
    BY DEF HostFilesInv, WantInv, BakedReachable, Reachable
  <2>4. DialogApplied
    BY DEF HostFilesInv, CalmInv, DialogApplied, Meant
  <2> QED  BY <2>1, <2>2, <2>3, <2>4 DEF ProxyInv
<1> QED  BY <1>1, <1>2, <1>3, PTL DEF ProxySpec

-----------------------------------------------------------------------------
(* Port forwards: types, and where an editor's task stands.  What one editor *)
(* does is stated of its own VM and task (Before, After); everything else is *)
(* framed (Frame), so that each of the thirteen steps is looked at once and  *)
(* the invariant of all is put together at the end.                          *)

Edits == {"add", "remove"}
Powers == {"start", "stop", "restart"}
Commands == [op : Edits, host : Hosts, guest : Guests, must : BOOLEAN]
            \union [op : Powers \union {"size"}, host : {NoHost}, guest : Guests, must : BOOLEAN]
Steps == {"begin", "load", "truncate", "fill", "probe", "stop", "start", "reset", "forward", "record"}
Tasks == [pc : Steps \union {"idle", "ok", "err"}, vm : Vms \union {""},
          kind : EditKinds \union Powers \union {"", "size", "fix"},
          todo : Seq(Commands), goal : PortLists, seen : RuleSets,
          body : {"old", "new", "none"}, left : RuleSets, was : RuleSets]

\* The command that is carried out, and whether an edit's rules are chosen.
Op(e) == Head(e.todo).op
Editing(e) == e.pc \notin {"begin", "record"} /\ Op(e) \in Edits
Resizing(e) == e.pc \in {"truncate", "fill"} /\ Op(e) = "size"

\* Each backend takes its own path, and a task is of edits or of one command.
OnCourse(e) ==
  /\ e.vm \in Vms
  /\ IF e.pc = "record" THEN e.todo = <<>> /\ e.kind = "create" ELSE e.todo # <<>>
  /\ \A i \in 1..Len(e.todo) : /\ e.todo[i].op \in Edits <=> e.kind \in EditKinds
                               /\ e.todo[i].op = "size" => backend = "lima"
  /\ \A i \in 1..Len(e.todo) : /\ e.todo[i].op \in {"add", "size"} => e.todo[i].must
                               /\ e.todo[i].op \in Edits /\ i = Len(e.todo) => e.todo[i].must
  /\ e.pc \in {"load", "probe"} => backend = "lima" /\ Op(e) \in Edits
  /\ e.pc \in {"truncate", "fill"} => backend = "lima" /\ Op(e) \in Edits \union {"size"}
  /\ e.pc \in {"reset", "forward"} => backend = "wsl2" /\ Op(e) \in Edits
  /\ e.pc \in {"stop", "start"} => Op(e) # "size" /\ (Op(e) \in Edits => backend = "lima")
  /\ e.kind \in Edits => Len(e.todo) = 1 /\ Op(e) = e.kind
  /\ e.kind \in {"configure", "create"} => IsInjective(e.goal) /\ (e.kind = "configure" => DOMAIN e.goal = DOMAIN GuestOf)

PortTypes ==
  /\ backend \in {"lima", "wsl2", "podman"}
  /\ yaml \in [Vms -> [size : {"old", "new", "none"}, rules : RuleSets]]
  /\ netsh \in UNION {[S -> [guest : Guests, to : Vms]] : S \in SUBSET Hosts}
  /\ running \in [Vms -> BOOLEAN] /\ live \in [Vms -> RuleSets]
  /\ record \in [Vms -> PortLists]
  /\ ed \in [Editors -> Tasks]
  /\ spoiled \subseteq Vms /\ missed \subseteq Vms

OnTheirWay == \A a \in Editors : Busy(a) => OnCourse(ed[a])

\* Two editors of one place have met there, which spoils all of it.
Meetings ==
  /\ \A a, b \in Editors : (a # b /\ Busy(a) /\ Busy(b) /\ SamePlace(ed[a].vm, ed[b].vm)) => ~Lone(ed[a].vm)
  /\ \A v, w \in Vms : SamePlace(v, w) /\ ~Lone(v) => ~Lone(w)

\* The file of a VM is empty only under the editor that fills it again, and
\* nobody writes back an empty file that was read.
Fills(a, v) == ed[a].vm = v /\ At(a, "fill")
WholeFiles ==
  /\ \A v \in Vms : Lone(v) /\ (\A a \in Editors : ~Fills(a, v)) => yaml[v].size # "none"
  /\ \A a \in Editors : (ed[a].pc \in {"truncate", "fill"} /\ Lone(ed[a].vm)) => ed[a].body # "none"

\* A VM that runs has the rules of its file, until an edit has changed the file
\* and while a resize has it empty: then it has those the resize writes back.
Reloads(a, v) == ed[a].vm = v /\ Busy(a) /\ ed[a].pc \in {"fill", "probe", "stop"} /\ Op(ed[a]) \in Edits
Refills(a, v) == Fills(a, v) /\ Op(ed[a]) = "size"
LoadedRules ==
  \A v \in Vms :
    (backend = "lima" /\ running[v] /\ Lone(v) /\ v \notin missed) =>
      \/ \E a \in Editors : Reloads(a, v)
      \/ \E a \in Editors : Refills(a, v) /\ ed[a].seen = live[v]
      \/ (\A a \in Editors : ~Refills(a, v)) /\ yaml[v].rules = live[v]

-----------------------------------------------------------------------------
(* What a task makes of the rules.                                           *)

\* The rules a task's current command leads to, and what is then left to do.
Reach(a) == IF Editing(ed[a]) \/ Resizing(ed[a]) THEN ed[a].seen ELSE Rules(ed[a].vm)
Rest(e) == IF e.pc \in {"begin", "record"} THEN e.todo ELSE Tail(e.todo)

Spares(todo, h) == \A i \in 1..Len(todo) : todo[i].host # h
Settles(todo, h, g) ==
  \E i \in 1..Len(todo) : /\ todo[i].op = "add" /\ todo[i].host = h /\ todo[i].guest = g
                          /\ \A j \in i+1..Len(todo) : todo[j].host # h

\* Port h leads to g, and nothing left to do is about it; or it is still to come.
Settled(rules, todo, h, g) == (h \in DOMAIN rules /\ rules[h] = g /\ Spares(todo, h)) \/ Settles(todo, h, g)

KeepsOthers(a) ==
  /\ OthersStay(a, Reach(a))
  /\ \A i \in 1..Len(ed[a].todo) : ed[a].kind \in EditKinds => ed[a].todo[i].host \in Named(a)
DoesItsOwn(a) ==
  LET e == ed[a]
  IN /\ e.kind = "add" /\ e.pc # "begin" => Now(a).host \in DOMAIN Reach(a)
     /\ e.kind = "remove" /\ e.pc # "begin" => Now(a).host \notin DOMAIN Reach(a)
     /\ e.kind \in {"configure", "create"} /\ ~Crossed(a) =>
          \A l \in DOMAIN e.goal : Settled(Reach(a), Rest(e), e.goal[l], GuestOf[l])

\* What the file still says while it is not written, should the edit fail.
Unwritten(a) ==
  LET e == ed[a]
  IN /\ OthersStay(a, Rules(e.vm))
     /\ Op(e) = "remove" /\ e.kind \in {"configure", "create"} /\ ~Crossed(a) =>
          \A l \in DOMAIN e.goal : Settled(Rules(e.vm), Tail(e.todo), e.goal[l], GuestOf[l])

\* An edit of lima's is in the file once it is filled; of netsh's rules those
\* that are not back yet are left, and those that are lead to the VM.
Underway(a) ==
  LET e == ed[a]
  IN /\ e.pc \in {"load", "truncate"} => Unwritten(a)
     /\ e.pc = "record" => Turned(a)
     /\ e.pc \in {"probe", "stop", "start"} /\ Op(e) \in Edits => yaml[e.vm].rules = e.seen
     /\ e.pc = "truncate" /\ Op(e) = "size" => yaml[e.vm].rules = e.seen
     /\ e.pc = "forward" => /\ DOMAIN netsh \union DOMAIN e.left = DOMAIN e.seen
                            /\ \A h \in DOMAIN e.left : e.left[h] = e.seen[h]
                            /\ \A h \in DOMAIN netsh \ DOMAIN e.left : netsh[h].guest = e.seen[h] /\ netsh[h].to = e.vm

\* With wsl2 an edit that passed over a failure promises nothing more.
Bound(a) == /\ Busy(a) /\ Lone(ed[a].vm) /\ backend # "podman"
            /\ backend = "wsl2" /\ ed[a].kind \in EditKinds => ed[a].vm \notin missed
Kept(a) == KeepsOthers(a) /\ DoesItsOwn(a) /\ Underway(a)
WordKept == \A a \in Editors : Bound(a) => Kept(a)

PortsIInv == PortTypes /\ OnTheirWay /\ Meetings /\ WholeFiles /\ LoadedRules /\ WordKept

-----------------------------------------------------------------------------
(* Rules and commands.                                                       *)

LEMMA NoRules == <<>> \in RuleSets /\ <<>> \in PortLists /\ DOMAIN <<>> = {}
<1>1. \A D : <<>> \in [{} -> D]
  OBVIOUS
<1> QED  BY <1>1 DEF RuleSets, PortLists

LEMMA RulesWith ==
  ASSUME NEW r \in RuleSets, NEW h \in Hosts, NEW g \in Guests
  PROVE  With(r, h, g) \in RuleSets
<1> PICK S \in SUBSET Hosts : r \in [S -> Guests]
  BY DEF RuleSets
<1>1. With(r, h, g) \in [S \union {h} -> Guests]
  BY DEF With
<1> QED  BY <1>1 DEF RuleSets

LEMMA RulesWithout ==
  ASSUME NEW r \in RuleSets, NEW h
  PROVE  Without(r, h) \in RuleSets
<1> PICK S \in SUBSET Hosts : r \in [S -> Guests]
  BY DEF RuleSets
<1>1. Without(r, h) \in [S \ {h} -> Guests]
  BY DEF Without, Restrict
<1> QED  BY <1>1 DEF RuleSets

LEMMA PortsOfRules == ASSUME NEW r \in RuleSets PROVE DOMAIN r \subseteq Hosts /\ \A h \in DOMAIN r : r[h] \in Guests
  BY DEF RuleSets

LEMMA RulesTyped ==
  ASSUME PortTypes, NEW v \in Vms
  PROVE  Rules(v) \in RuleSets
<1>1. NetshRules \in RuleSets
  <2> PICK S \in SUBSET Hosts : netsh \in [S -> [guest : Guests, to : Vms]]
    BY DEF PortTypes
  <2>1. NetshRules \in [S -> Guests]
    BY DEF NetshRules
  <2> QED  BY <2>1 DEF RuleSets
<1>2. LimaRules(v) \in RuleSets /\ PodmanRules(v) \in RuleSets
  BY NoRules DEF LimaRules, PodmanRules, PortTypes
<1> QED  BY <1>1, <1>2 DEF Rules, PortTypes

LEMMA IdleTask == Idle \in Tasks /\ ~(Idle.pc \in Steps)
<1>1. <<>> \in Seq(Commands)
  OBVIOUS
<1> QED  BY <1>1, NoRules DEF Idle, Tasks, Steps

LEMMA BusySteps == ASSUME ed \in [Editors -> Tasks], NEW a \in Editors PROVE Busy(a) <=> ed[a].pc \in Steps
  BY DEF Tasks, Steps, Busy

LEMMA HeadIsFirst ==
  ASSUME NEW e \in Tasks, e.todo # <<>>
  PROVE  /\ Head(e.todo) = e.todo[1] /\ Head(e.todo) \in Commands /\ Len(e.todo) \in Nat \ {0}
         /\ Tail(e.todo) \in Seq(Commands) /\ Len(Tail(e.todo)) = Len(e.todo) - 1
         /\ \A i \in 1..Len(Tail(e.todo)) : Tail(e.todo)[i] = e.todo[i + 1]
<1>1. e.todo \in Seq(Commands)
  BY DEF Tasks
<1>2. Len(e.todo) \in Nat \ {0}
  BY <1>1, EmptySeq, LenProperties
<1> QED  BY <1>1, <1>2, HeadTailProperties, ElementOfSeq
-----------------------------------------------------------------------------
(* One command: what every step keeps.                                       *)

\* The task goes on as e, which is as it was but for the step it is at.
Onward(b, e) ==
  /\ e \in Tasks
  /\ ed' = [ed EXCEPT ![b] = e]
  /\ e.vm = ed[b].vm /\ e.kind = ed[b].kind /\ e.goal = ed[b].goal /\ e.was = ed[b].was

\* The command has returned: the chain goes on behind it, or ends.
Ended(b, e) ==
  /\ e.seen = <<>> /\ e.left = <<>> /\ e.body = "none" /\ e.todo = Tail(ed[b].todo)
  /\ IF Len(ed[b].todo) > 1 THEN e.pc = "begin"
     ELSE IF e.kind = "create" THEN e.pc = "record" ELSE e.pc = "ok"

LEMMA ReturnMoves ==
  ASSUME ed \in [Editors -> Tasks], NEW b \in Editors, ed[b].todo # <<>>, NEW ok \in BOOLEAN, Returned(b, ed[b], ok)
  PROVE  \E e \in Tasks : /\ Onward(b, e)
                          /\ (Ended(b, e) /\ (ok \/ ~Now(b).must)) \/ (~ok /\ Now(b).must /\ e.pc = "err")
<1> DEFINE w == ed[b]
<1>1. /\ w \in Tasks /\ Tail(w.todo) \in Seq(Commands) /\ <<>> \in RuleSets
  BY HeadIsFirst, NoRules
<1>2. CASE ~ok /\ Now(b).must
  <2> DEFINE e == [w EXCEPT !.pc = "err"]
  <2>1. e \in Tasks /\ e.pc = "err" /\ e.vm = w.vm /\ e.kind = w.kind /\ e.goal = w.goal /\ e.was = w.was
    BY <1>1 DEF Tasks
  <2>2. ed' = [ed EXCEPT ![b] = e]
    BY <1>2 DEF Returned
  <2> QED  BY <1>2, <2>1, <2>2 DEF Onward
<1>3. CASE ~(~ok /\ Now(b).must)
  <2> DEFINE at == IF Len(w.todo) > 1 THEN "begin" ELSE IF w.kind = "create" THEN "record" ELSE "ok"
             e == [w EXCEPT !.todo = Tail(@), !.seen = <<>>, !.left = <<>>, !.body = "none", !.pc = at]
  <2>0. at \in Steps \union {"idle", "ok", "err"}
    BY DEF Steps
  <2>1. /\ e \in Tasks /\ e.vm = w.vm /\ e.kind = w.kind /\ e.goal = w.goal /\ e.was = w.was
        /\ e.seen = <<>> /\ e.left = <<>> /\ e.body = "none" /\ e.todo = Tail(w.todo)
        /\ e.pc = at
    <3> HIDE DEF at
    <3> QED  BY <1>1, <2>0 DEF Tasks
  <2>2. ed' = [ed EXCEPT ![b] = e]
    BY <1>3 DEF Returned
  <2> HIDE DEF e
  <2>3. Ended(b, e)
    BY <2>1 DEF Ended
  <2> QED  BY <1>3, <2>1, <2>2, <2>3 DEF Onward
<1> QED  BY <1>2, <1>3

LEMMA ReturnWell ==
  ASSUME ed \in [Editors -> Tasks], NEW b \in Editors, ed[b].todo # <<>>, Returned(b, ed[b], TRUE)
  PROVE  \E e \in Tasks : Onward(b, e) /\ Ended(b, e)
<1>1. \A ok \in BOOLEAN : (ok /\ Returned(b, ed[b], ok)) => \E e \in Tasks : Onward(b, e) /\ Ended(b, e)
  BY ReturnMoves, Zenon
<1> QED  BY <1>1

LEMMA ReturnIll ==
  ASSUME ed \in [Editors -> Tasks], NEW b \in Editors, ed[b].todo # <<>>, Returned(b, ed[b], FALSE)
  PROVE  \E e \in Tasks : Onward(b, e) /\ ((Ended(b, e) /\ ~Now(b).must) \/ e.pc = "err")
<1>1. \A ok \in BOOLEAN : (~ok /\ Returned(b, ed[b], ok)) =>
        \E e \in Tasks : Onward(b, e) /\ ((Ended(b, e) /\ ~Now(b).must) \/ e.pc = "err")
  BY ReturnMoves, Zenon
<1> QED  BY <1>1

LEMMA ReturnSomehow ==
  ASSUME ed \in [Editors -> Tasks], NEW b \in Editors, ed[b].todo # <<>>, NEW ok \in BOOLEAN, Returned(b, ed[b], ok)
  PROVE  \E e \in Tasks : Onward(b, e) /\ (Ended(b, e) \/ e.pc = "err")
<1>1. CASE ok = TRUE
  <2>1. Returned(b, ed[b], TRUE)
    BY <1>1
  <2> QED  BY <2>1, ReturnWell
<1>2. CASE ok = FALSE
  <2>1. Returned(b, ed[b], FALSE)
    BY <1>2
  <2> QED  BY <2>1, ReturnIll
<1> QED  BY <1>1, <1>2

LEMMA GotoMoves ==
  ASSUME ed \in [Editors -> Tasks], NEW b \in Editors, NEW at \in Steps \union {"idle", "ok", "err"}, EdGoto(b, at)
  PROVE  \E e \in Tasks : Onward(b, e) /\ e = [ed[b] EXCEPT !.pc = at]
<1> DEFINE e == [ed[b] EXCEPT !.pc = at]
<1>1. e \in Tasks /\ e.vm = ed[b].vm /\ e.kind = ed[b].kind /\ e.goal = ed[b].goal /\ e.was = ed[b].was
  BY ZenonT(60) DEF Tasks
<1> QED  BY <1>1 DEF EdGoto, Onward

LEMMA RulesMove ==
  ASSUME ed \in [Editors -> Tasks], NEW b \in Editors, NEW rules \in RuleSets, SetRules(b, rules)
  PROVE  \E e \in Tasks : /\ Onward(b, e) /\ e.seen = rules
                          /\ e.pc = (IF backend = "lima" THEN "load" ELSE "reset")
                          /\ e.todo = ed[b].todo /\ e.left = ed[b].left /\ e.body = ed[b].body
<1> DEFINE e == [ed[b] EXCEPT !.pc = IF backend = "lima" THEN "load" ELSE "reset", !.seen = rules]
<1>1. /\ e \in Tasks /\ e.vm = ed[b].vm /\ e.kind = ed[b].kind /\ e.goal = ed[b].goal /\ e.was = ed[b].was
      /\ e.seen = rules /\ e.pc = (IF backend = "lima" THEN "load" ELSE "reset")
      /\ e.todo = ed[b].todo /\ e.left = ed[b].left /\ e.body = ed[b].body
  BY ZenonT(60) DEF Tasks, Steps
<1>2. ed' = [ed EXCEPT ![b] = e]
  BY DEF SetRules
<1> QED  BY <1>1, <1>2 DEF Onward
-----------------------------------------------------------------------------
(* What is left to do, one command fewer.                                    *)

LEMMA SettleRest ==
  ASSUME NEW e \in Tasks, e.todo # <<>>, NEW r, NEW h, NEW g, Settled(r, e.todo, h, g)
  PROVE  \/ h \in DOMAIN r /\ r[h] = g /\ Head(e.todo).host # h /\ Spares(Tail(e.todo), h)
         \/ /\ Head(e.todo).op = "add" /\ Head(e.todo).host = h /\ Head(e.todo).guest = g
            /\ Spares(Tail(e.todo), h)
         \/ Settles(Tail(e.todo), h, g)
<1> DEFINE t == Tail(e.todo)
<1>1. /\ Head(e.todo) = e.todo[1] /\ Len(e.todo) \in Nat \ {0} /\ Len(t) = Len(e.todo) - 1
      /\ \A i \in 1..Len(t) : t[i] = e.todo[i + 1]
  BY HeadIsFirst
<1>2. ASSUME NEW k \in Nat, \A j \in k+1..Len(e.todo) : e.todo[j].host # h, k >= 1
      PROVE  \A j \in k..Len(t) : t[j].host # h
  <2> SUFFICES ASSUME NEW j \in k..Len(t) PROVE t[j].host # h
    OBVIOUS
  <2>1. j \in 1..Len(t) /\ j + 1 \in k+1..Len(e.todo)
    BY <1>1, <1>2
  <2> QED  BY <1>1, <1>2, <2>1
<1> HIDE DEF t
<1>3. CASE h \in DOMAIN r /\ r[h] = g /\ Spares(e.todo, h)
  <2>1. e.todo[1].host # h /\ \A j \in 1+1..Len(e.todo) : e.todo[j].host # h
    BY <1>1, <1>3 DEF Spares
  <2> QED  BY <1>1, <1>2, <1>3, <2>1 DEF Spares, t
<1>4. CASE Settles(e.todo, h, g)
  <2>1. PICK i \in 1..Len(e.todo) : /\ e.todo[i].op = "add" /\ e.todo[i].host = h /\ e.todo[i].guest = g
                                    /\ \A j \in i+1..Len(e.todo) : e.todo[j].host # h
    BY <1>4 DEF Settles
  <2>2. \A j \in i..Len(t) : t[j].host # h
    BY <1>1, <1>2, <2>1
  <2>3. CASE i = 1
    BY <1>1, <2>1, <2>2, <2>3 DEF Spares, t
  <2>4. CASE i # 1
    <3>1. i - 1 \in 1..Len(t) /\ t[i - 1] = e.todo[i] /\ (i - 1) + 1 = i
      BY <1>1, <2>4
    <3>2. Settles(t, h, g)
      BY <2>1, <2>2, <3>1 DEF Settles
    <3> QED  BY <3>2 DEF t
  <2> QED  BY <2>3, <2>4
<1> QED  BY <1>3, <1>4 DEF Settled

LEMMA SettleAdd ==
  ASSUME NEW e \in Tasks, e.todo # <<>>, Op(e) = "add", NEW r \in RuleSets, NEW h, NEW g, Settled(r, e.todo, h, g)
  PROVE  Settled(With(r, Head(e.todo).host, Head(e.todo).guest), Tail(e.todo), h, g)
  BY SettleRest DEF Settled, With

LEMMA SettleRemove ==
  ASSUME NEW e \in Tasks, e.todo # <<>>, Op(e) = "remove", NEW r \in RuleSets, NEW h, NEW g, Settled(r, e.todo, h, g)
  PROVE  /\ Settled(Without(r, Head(e.todo).host), Tail(e.todo), h, g)
         /\ Settled(r, Tail(e.todo), h, g)
  BY SettleRest DEF Settled, Without, Restrict, Op

LEMMA SettleNone == ASSUME NEW r, NEW h, NEW g, Settled(r, <<>>, h, g) PROVE h \in DOMAIN r /\ r[h] = g
  BY DEF Settled, Settles
-----------------------------------------------------------------------------
(* What a step owes to the task it is of.                                    *)

Word(a) == KeepsOthers(a) /\ DoesItsOwn(a)

\* The step has led the editor on, and the rules it leads to are the same.
LEMMA StayKeeps ==
  ASSUME NEW b \in Editors, NEW e \in Tasks, ed \in [Editors -> Tasks], Onward(b, e), e.todo = ed[b].todo,
         UNCHANGED <<backend, record>>, Word(b), Reach(b)' = Reach(b),
         \/ ed[b].kind \notin EditKinds
         \/ ed[b].pc \notin {"begin", "record"} /\ e.pc \notin {"begin", "record"}
  PROVE  Word(b)'
<1>1. ed'[b] = e
  BY DEF Onward
<1>2. Named(b)' = Named(b) /\ Crossed(b)' = Crossed(b)
  BY <1>1 DEF Named, Crossed, Now, Onward
<1>3. KeepsOthers(b)'
  BY <1>1, <1>2 DEF KeepsOthers, OthersStay, Word, Onward
<1>4. DoesItsOwn(b)'
  <2>1. CASE ed[b].kind \notin EditKinds
    BY <1>1, <2>1 DEF DoesItsOwn, EditKinds, Onward
  <2>2. CASE ed[b].pc \notin {"begin", "record"} /\ e.pc \notin {"begin", "record"}
    BY <1>1, <1>2, <2>2 DEF DoesItsOwn, Word, Onward, Rest, Now
  <2> QED  BY <2>1, <2>2
<1> QED  BY <1>3, <1>4 DEF Word

\* What a command that returns has brought about; what is not, is still to do.
Achieved(a, rules) ==
  LET e == ed[a]
  IN /\ e.kind = "add" => Now(a).host \in DOMAIN rules
     /\ e.kind = "remove" => Now(a).host \notin DOMAIN rules
     /\ e.kind \in {"configure", "create"} /\ ~Crossed(a) =>
          \A l \in DOMAIN e.goal : Settled(rules, Tail(e.todo), e.goal[l], GuestOf[l])
Achieves(a) == Achieved(a, Reach(a))

LEMMA EditAchieves ==
  ASSUME NEW b \in Editors, Word(b), ed[b].pc \notin {"begin", "record"}
  PROVE  Achieves(b)
  BY DEF Achieves, Achieved, Word, DoesItsOwn, Rest

\* The command has returned, and the rules are what it led to.
LEMMA EndKeeps ==
  ASSUME NEW b \in Editors, NEW e \in Tasks, ed \in [Editors -> Tasks], OnCourse(ed[b]), ed[b].pc # "record", Onward(b, e), Ended(b, e),
         UNCHANGED <<backend, record>>, KeepsOthers(b),
         NEW r, Rules(ed[b].vm)' = r, OthersStay(b, r), Achieved(b, r)
  PROVE  /\ e.pc # "ok" => Word(b)'
         /\ e.pc = "ok" /\ backend # "podman" => Promise(b, r)
<1>1. ed'[b] = e
  BY DEF Onward
<1>2. /\ ed[b].todo # <<>> /\ Len(ed[b].todo) \in Nat \ {0} /\ e.todo = Tail(ed[b].todo)
      /\ Len(e.todo) = Len(ed[b].todo) - 1
      /\ \A i \in 1..Len(e.todo) : e.todo[i] = ed[b].todo[i + 1]
  BY HeadIsFirst DEF OnCourse, Ended
<1>3. ASSUME e.pc # "ok" PROVE Word(b)'
  <2>1. ed[b].kind \notin Edits /\ e.pc \in {"begin", "record"}
    <3>1. e.pc \in {"begin", "record"} /\ (Len(ed[b].todo) > 1 \/ e.kind = "create")
      BY <1>3 DEF Ended
    <3>2. ed[b].kind \in Edits => Len(ed[b].todo) = 1
      BY DEF OnCourse
    <3>3. Len(ed[b].todo) = 1 => ~(Len(ed[b].todo) > 1)
      OBVIOUS
    <3>4. ed[b].kind \in Edits => e.kind # "create"
      BY DEF Onward, Edits
    <3> QED  BY Zenon, <3>1, <3>2, <3>3, <3>4
  <2>2. Named(b)' = Named(b) /\ Crossed(b)' = Crossed(b)
    BY <1>1, <2>1 DEF Named, Crossed, Onward, Edits
  <2>3. Reach(b)' = r
    BY <1>1, <2>1 DEF Reach, Editing, Resizing, Onward
  <2>4. \A i \in 1..Len(e.todo) : ed[b].kind \in EditKinds => e.todo[i].host \in Named(b)
    <3> SUFFICES ASSUME NEW i \in 1..Len(e.todo), ed[b].kind \in EditKinds PROVE e.todo[i].host \in Named(b)
      OBVIOUS
    <3>1. i + 1 \in 1..Len(ed[b].todo)
      BY <1>2
    <3> QED  BY <1>2, <3>1 DEF KeepsOthers, OthersStay
  <2>5. KeepsOthers(b)'
    BY <1>1, <2>2, <2>3, <2>4 DEF KeepsOthers, OthersStay, Onward
  <2>6. DoesItsOwn(b)'
    BY <1>1, <1>2, <2>1, <2>2, <2>3 DEF DoesItsOwn, Achieved, Onward, Rest, Edits
  <2> QED  BY <2>5, <2>6 DEF Word
<1>4. ASSUME e.pc = "ok", backend # "podman" PROVE Promise(b, r)
  <2>1. Len(e.todo) = 0 /\ e.todo = <<>>
    <3> DEFINE n == Len(ed[b].todo)
    <3>1. n \in Nat \ {0} /\ Len(e.todo) = n - 1 /\ ~(n > 1)
      BY <1>2, <1>4 DEF Ended
    <3> HIDE DEF n
    <3>2. Len(e.todo) = 0
      BY <3>1
    <3> QED  BY <3>2, EmptySeq DEF Tasks
  <2>3. /\ ed[b].kind = "add" => Now(b).host \in DOMAIN r
        /\ ed[b].kind = "remove" => Now(b).host \notin DOMAIN r
        /\ ed[b].kind \in {"configure", "create"} /\ ~Crossed(b) =>
             \A l \in DOMAIN ed[b].goal : Settled(r, <<>>, ed[b].goal[l], GuestOf[l])
    BY <1>2, <2>1 DEF Achieved
  <2>4. ed[b].kind \in {"configure", "create"} /\ ~Crossed(b) =>
             \A l \in DOMAIN ed[b].goal : ed[b].goal[l] \in DOMAIN r /\ r[ed[b].goal[l]] = GuestOf[l]
    BY <2>3, SettleNone
  <2> QED  BY <2>3, <2>4 DEF Promise
<1> QED  BY <1>3, <1>4
-----------------------------------------------------------------------------
(* The steps of a command, one by one.  Each moves its own editor and VM, and *)
(* for a VM that is not spoiled keeps what is true of its editor.             *)

FileOf(b) == LET e == ed[b] IN /\ e.pc # "fill" => yaml[e.vm].size # "none"
                               /\ e.pc \in {"truncate", "fill"} => e.body # "none"
LoadedOf(b) ==
  LET e == ed[b]
  IN backend = "lima" /\ running[e.vm] /\ e.vm \notin missed =>
       \/ e.pc \in {"fill", "probe", "stop"} /\ Op(e) \in Edits
       \/ e.pc = "fill" /\ Op(e) = "size" /\ e.seen = live[e.vm]
       \/ e.pc # "fill" /\ yaml[e.vm].rules = live[e.vm]

Frame(b) ==
  /\ PortTypes' /\ (Busy(b)' => OnCourse(ed[b])')
  /\ ed[b]'.vm = ed[b].vm /\ \A a \in Editors \ {b} : ed[a]' = ed[a]
  /\ backend' = backend /\ (backend # "wsl2" => netsh' = netsh)
  /\ \A v \in Vms \ {ed[b].vm} : /\ yaml[v]' = yaml[v] /\ running[v]' = running[v] /\ live[v]' = live[v]
                                 /\ record[v]' = record[v] /\ (v \in missed' <=> v \in missed)
  /\ spoiled' = spoiled \/ spoiled' = spoiled \union {w \in Vms : SamePlace(ed[b].vm, w)}

Before(b) == Lone(ed[b].vm) /\ FileOf(b) /\ LoadedOf(b) /\ (Bound(b) => Kept(b))
After(b) == /\ FileOf(b)' /\ LoadedOf(b)' /\ (Bound(b)' => Kept(b)')
            /\ EndsLone(b) => Outcome(b)

LEMMA OnwardTypes ==
  ASSUME ed \in [Editors -> Tasks], NEW b \in Editors, NEW e \in Tasks, Onward(b, e)
  PROVE  /\ ed' \in [Editors -> Tasks] /\ ed'[b] = e /\ e.vm = ed[b].vm
         /\ \A a \in Editors \ {b} : ed'[a] = ed[a]
  BY DEF Onward

LEMMA SameRules ==
  ASSUME PortTypes, NEW b \in Editors, ed[b]'.vm = ed[b].vm, UNCHANGED backend, backend # "podman",
         backend = "lima" => yaml[ed[b].vm]'.rules = yaml[ed[b].vm].rules,
         backend = "wsl2" => UNCHANGED netsh
  PROVE  Rules(ed[b].vm)' = Rules(ed[b].vm)
<1>1. backend = "wsl2" => NetshRules' = NetshRules
  BY DEF NetshRules
<1> QED  BY <1>1 DEF Rules, LimaRules, PortTypes

(* A begun power command goes on to its first step.                         *)
LEMMA BeginPowerKeeps ==
  ASSUME PortTypes, OnTheirWay, NEW b \in Editors, BeginPower(b)
  PROVE  Frame(b) /\ (Before(b) => After(b))
<1>1. /\ At(b, "begin") /\ Now(b).op \in Powers /\ UNCHANGED Unmoved /\ Busy(b)
      /\ \E at \in {"start", "stop"} : EdGoto(b, at)
  BY DEF BeginPower, Powers, At, Busy
<1>2. PICK e \in Tasks : Onward(b, e) /\ e.pc \in {"start", "stop"} /\ e.todo = ed[b].todo
  <2>1. PICK at \in {"start", "stop"} : EdGoto(b, at)
    BY <1>1
  <2>2. PICK e \in Tasks : Onward(b, e) /\ e = [ed[b] EXCEPT !.pc = at]
    BY <2>1, GotoMoves DEF Steps, PortTypes
  <2>3. e.pc = at /\ e.todo = ed[b].todo
    BY <2>2 DEF PortTypes, Tasks
  <2> QED  BY <2>2, <2>3
<1>3. /\ ed' \in [Editors -> Tasks] /\ ed'[b] = e /\ e.vm = ed[b].vm /\ e.kind = ed[b].kind
      /\ \A a \in Editors \ {b} : ed'[a] = ed[a]
  BY <1>2, OnwardTypes DEF PortTypes, Onward
<1>4. OnCourse(ed[b])
  BY <1>1 DEF OnTheirWay
<1>5. ed[b].kind \notin EditKinds /\ Op(ed[b]) \in Powers
  BY <1>1, <1>4, HeadIsFirst, SMTT(30) DEF OnCourse, At, Now, Op, Powers, Edits, PortTypes
<1>6. Frame(b)
  <2>1. PortTypes'
    BY <1>1, <1>3 DEF PortTypes, Unmoved
  <2>2. OnCourse(ed[b])'
    BY <1>1, <1>2, <1>3, <1>4, <1>5 DEF OnCourse, At, Unmoved, Op, Powers, Edits, Onward
  <2> QED  BY <1>1, <1>3, <2>1, <2>2 DEF Frame, Unmoved
<1>7. ASSUME Before(b) PROVE After(b)
  <2>1. FileOf(b)' /\ LoadedOf(b)'
    BY <1>1, <1>2, <1>3, <1>7 DEF Before, FileOf, LoadedOf, Unmoved, At
  <2>2. ASSUME Bound(b)' PROVE Kept(b)'
    <3>1. Bound(b)
      BY <1>1, <1>3, <2>2 DEF Bound, Unmoved, Lone
    <3>2. Reach(b)' = Reach(b)
      <4>1. ~Editing(ed[b]) /\ ~Resizing(ed[b]) /\ ~Editing(e) /\ ~Resizing(e)
        BY <1>1, <1>2, <1>5 DEF Editing, Resizing, At, Op, Powers, Edits
      <4>2. Reach(b) = Rules(ed[b].vm) /\ Reach(b)' = Rules(ed[b].vm)'
        BY <1>3, <4>1 DEF Reach
      <4>3. Rules(ed[b].vm)' = Rules(ed[b].vm)
        BY <1>1, <1>3, <3>1, SameRules DEF Unmoved, Bound
      <4> QED  BY <4>2, <4>3
    <3>3. Word(b)'
      BY <1>1, <1>2, <1>5, <1>7, <3>1, <3>2, StayKeeps DEF Before, Kept, Word, Unmoved, PortTypes
    <3>4. Underway(b)'
      BY <1>2, <1>3, <1>5 DEF Underway, Op, Powers, Edits
    <3> QED  BY <3>3, <3>4 DEF Kept, Word
  <2> QED  BY <1>2, <1>3, <2>1, <2>2 DEF After, EndsLone
<1> QED  BY <1>6, <1>7

(* A resize takes the rules of the file with it.                            *)
LEMMA LoadSizeKeeps ==
  ASSUME PortTypes, OnTheirWay, NEW b \in Editors, LoadSize(b)
  PROVE  Frame(b) /\ (Before(b) => After(b))
<1>1. ed[b].pc = "begin" /\ Op(ed[b]) = "size" /\ Busy(b) /\ UNCHANGED Unmoved
  BY DEF LoadSize, At, Now, Op, Busy
<1>2. OnCourse(ed[b])
  BY <1>1 DEF OnTheirWay
<1>3. ed[b].kind \notin EditKinds /\ backend = "lima" /\ ed[b].vm \in Vms /\ ed[b].todo # <<>>
  BY <1>1, <1>2, HeadIsFirst, SMTT(30) DEF OnCourse, Op, Edits, PortTypes
<1>4. PICK e \in Tasks : /\ Onward(b, e) /\ e.pc = "truncate" /\ e.todo = ed[b].todo
                         /\ e.body = "new" /\ e.seen = yaml[ed[b].vm].rules
  <2> DEFINE e == [ed[b] EXCEPT !.pc = "truncate", !.body = "new", !.seen = yaml[ed[b].vm].rules]
  <2>1. ed[b] \in Tasks /\ yaml[ed[b].vm].rules \in RuleSets
    BY <1>3 DEF PortTypes
  <2>2. /\ e \in Tasks /\ e.vm = ed[b].vm /\ e.kind = ed[b].kind /\ e.goal = ed[b].goal /\ e.was = ed[b].was
        /\ e.pc = "truncate" /\ e.todo = ed[b].todo /\ e.body = "new" /\ e.seen = yaml[ed[b].vm].rules
    BY <2>1 DEF Tasks, Steps
  <2>3. ed' = [ed EXCEPT ![b] = e]
    BY DEF LoadSize
  <2> QED  BY <2>2, <2>3 DEF Onward
<1>5. /\ ed' \in [Editors -> Tasks] /\ ed'[b] = e /\ e.vm = ed[b].vm /\ e.kind = ed[b].kind
      /\ \A a \in Editors \ {b} : ed'[a] = ed[a]
  BY <1>4, OnwardTypes DEF PortTypes, Onward
<1>6. Frame(b)
  <2>1. PortTypes'
    BY <1>1, <1>5 DEF PortTypes, Unmoved
  <2>2. OnCourse(ed[b])'
    BY <1>1, <1>2, <1>3, <1>4, <1>5 DEF OnCourse, Unmoved, Op, Edits, Onward
  <2> QED  BY <1>1, <1>5, <2>1, <2>2 DEF Frame, Unmoved
<1>7. ASSUME Before(b) PROVE After(b)
  <2>1. FileOf(b)' /\ LoadedOf(b)'
    BY <1>1, <1>4, <1>5, <1>7 DEF Before, FileOf, LoadedOf, Unmoved
  <2>2. ASSUME Bound(b)' PROVE Kept(b)'
    <3>1. Bound(b)
      BY <1>1, <1>5, <2>2 DEF Bound, Unmoved, Lone
    <3>2. Reach(b)' = Reach(b)
      <4>1. ~Editing(ed[b]) /\ ~Resizing(ed[b]) /\ Resizing(e)
        BY <1>1, <1>4 DEF Editing, Resizing, Op
      <4>2. Reach(b) = yaml[ed[b].vm].rules /\ Reach(b)' = e.seen
        BY <1>3, <1>5, <4>1 DEF Reach, Rules, LimaRules
      <4> QED  BY <1>4, <4>2
    <3>3. Word(b)'
      BY <1>1, <1>3, <1>4, <1>7, <3>1, <3>2, StayKeeps DEF Before, Kept, Word, Unmoved, PortTypes
    <3>4. Unwritten(b)'
      <4>1. Rules(ed[b].vm)' = Reach(b)
        <5>1. Rules(ed[b].vm)' = Rules(ed[b].vm)
          BY <1>1, <1>3, <1>5, SameRules DEF Unmoved
        <5>2. Reach(b) = Rules(ed[b].vm)
          BY <1>1 DEF Reach, Editing, Resizing
        <5> QED  BY <5>1, <5>2
      <4>2. OthersStay(b, Reach(b))
        BY <1>7, <3>1 DEF Before, Kept, KeepsOthers
      <4>3. Named(b)' = Named(b) /\ ed'[b].was = ed[b].was
        BY <1>1, <1>4, <1>5 DEF Named, Now, Onward, Unmoved
      <4>4. OthersStay(b, Rules(ed[b].vm))'
        BY <4>1, <4>2, <4>3 DEF OthersStay
      <4>5. Op(ed'[b]) # "remove"
        BY <1>1, <1>4, <1>5 DEF Op
      <4> QED  BY <4>4, <4>5 DEF Unwritten
    <3>5. Underway(b)'
      BY <1>1, <1>4, <1>5, <3>4 DEF Underway, Unmoved
    <3> QED  BY <3>3, <3>5 DEF Kept, Word
  <2> QED  BY <1>4, <1>5, <2>1, <2>2 DEF After, EndsLone
<1> QED  BY <1>6, <1>7

(* The file is read once more, for the size it has.                         *)
LEMMA LoadKeeps ==
  ASSUME PortTypes, OnTheirWay, NEW b \in Editors, Load(b)
  PROVE  Frame(b) /\ (Before(b) => After(b))
<1>1. ed[b].pc = "load" /\ Busy(b) /\ UNCHANGED Unmoved
  BY DEF Load, At, Busy
<1>2. OnCourse(ed[b])
  BY <1>1 DEF OnTheirWay
<1>3. Op(ed[b]) \in Edits /\ backend = "lima" /\ ed[b].vm \in Vms
  BY <1>1, <1>2 DEF OnCourse
<1>4. PICK e \in Tasks : /\ Onward(b, e) /\ e.pc = "truncate" /\ e.todo = ed[b].todo
                         /\ e.body = yaml[ed[b].vm].size /\ e.seen = ed[b].seen
  <2> DEFINE e == [ed[b] EXCEPT !.pc = "truncate", !.body = yaml[ed[b].vm].size]
  <2>1. ed[b] \in Tasks /\ yaml[ed[b].vm].size \in {"old", "new", "none"}
    BY <1>3 DEF PortTypes
  <2>2. /\ e \in Tasks /\ e.vm = ed[b].vm /\ e.kind = ed[b].kind /\ e.goal = ed[b].goal /\ e.was = ed[b].was
        /\ e.pc = "truncate" /\ e.todo = ed[b].todo /\ e.body = yaml[ed[b].vm].size /\ e.seen = ed[b].seen
    BY <2>1 DEF Tasks, Steps
  <2>3. ed' = [ed EXCEPT ![b] = e]
    BY DEF Load
  <2> QED  BY <2>2, <2>3 DEF Onward
<1>5. /\ ed' \in [Editors -> Tasks] /\ ed'[b] = e /\ e.vm = ed[b].vm /\ e.kind = ed[b].kind
      /\ \A a \in Editors \ {b} : ed'[a] = ed[a]
  BY <1>4, OnwardTypes DEF PortTypes, Onward
<1>6. Frame(b)
  <2>1. PortTypes'
    BY <1>1, <1>5 DEF PortTypes, Unmoved
  <2>2. OnCourse(ed[b])'
    BY <1>1, <1>2, <1>3, <1>4, <1>5 DEF OnCourse, Unmoved, Op, Edits, Onward
  <2> QED  BY <1>1, <1>5, <2>1, <2>2 DEF Frame, Unmoved
<1>7. ASSUME Before(b) PROVE After(b)
  <2>1. FileOf(b)' /\ LoadedOf(b)'
    BY <1>1, <1>4, <1>5, <1>7 DEF Before, FileOf, LoadedOf, Unmoved
  <2>2. ASSUME Bound(b)' PROVE Kept(b)'
    <3>1. Bound(b)
      BY <1>1, <1>5, <2>2 DEF Bound, Unmoved, Lone
    <3>2. Reach(b)' = Reach(b)
      BY <1>1, <1>3, <1>4, <1>5 DEF Reach, Editing, Op
    <3>3. Word(b)'
      BY <1>1, <1>3, <1>4, <1>7, <3>1, <3>2, StayKeeps DEF Before, Kept, Word, Unmoved, PortTypes
    <3>4. Unwritten(b)'
      <4>1. Rules(ed[b].vm)' = Rules(ed[b].vm)
        BY <1>1, <1>3, <1>5, SameRules DEF Unmoved
      <4>2. Unwritten(b)
        BY <1>1, <1>7, <3>1 DEF Before, Kept, Underway
      <4>3. /\ Named(b)' = Named(b) /\ Crossed(b)' = Crossed(b) /\ ed'[b].was = ed[b].was
            /\ ed'[b].goal = ed[b].goal /\ ed'[b].kind = ed[b].kind /\ ed'[b].todo = ed[b].todo
        BY <1>1, <1>4, <1>5 DEF Named, Crossed, Now, Onward, Unmoved
      <4>4. OthersStay(b, Rules(ed[b].vm))'
        BY <4>1, <4>2, <4>3 DEF OthersStay, Unwritten
      <4> QED  BY <4>1, <4>2, <4>3, <4>4 DEF Unwritten, Op
    <3>5. Underway(b)'
      BY <1>1, <1>3, <1>4, <1>5, <3>4 DEF Underway, Unmoved, Op, Edits
    <3> QED  BY <3>3, <3>5 DEF Kept, Word
  <2> QED  BY <1>4, <1>5, <2>1, <2>2 DEF After, EndsLone
<1> QED  BY <1>6, <1>7

(* The file is emptied before it is written.                                *)
LEMMA PortsTruncateKeeps ==
  ASSUME PortTypes, OnTheirWay, NEW b \in Editors, Truncate(b)
  PROVE  Frame(b) /\ (Before(b) => After(b))
<1>1. /\ ed[b].pc = "truncate" /\ Busy(b) /\ EdGoto(b, "fill")
      /\ yaml' = [yaml EXCEPT ![ed[b].vm] = Emptied]
      /\ UNCHANGED <<backend, netsh, running, live, record, spoiled, missed>>
  BY DEF Truncate, At, Busy
<1>2. OnCourse(ed[b])
  BY <1>1 DEF OnTheirWay
<1>3. Op(ed[b]) \in Edits \union {"size"} /\ backend = "lima" /\ ed[b].vm \in Vms
  BY <1>1, <1>2 DEF OnCourse
<1>4. PICK e \in Tasks : /\ Onward(b, e) /\ e.pc = "fill" /\ e.todo = ed[b].todo
                         /\ e.body = ed[b].body /\ e.seen = ed[b].seen
  <2>1. PICK e \in Tasks : Onward(b, e) /\ e = [ed[b] EXCEPT !.pc = "fill"]
    BY <1>1, GotoMoves DEF Steps, PortTypes
  <2>2. e.pc = "fill" /\ e.todo = ed[b].todo /\ e.body = ed[b].body /\ e.seen = ed[b].seen
    BY <2>1 DEF PortTypes, Tasks
  <2> QED  BY <2>1, <2>2
<1>5. /\ ed' \in [Editors -> Tasks] /\ ed'[b] = e /\ e.vm = ed[b].vm /\ e.kind = ed[b].kind
      /\ \A a \in Editors \ {b} : ed'[a] = ed[a]
  BY <1>4, OnwardTypes DEF PortTypes, Onward
<1>6. Frame(b)
  <2>1. yaml' \in [Vms -> [size : {"old", "new", "none"}, rules : RuleSets]]
    BY <1>1, NoRules DEF PortTypes, Emptied
  <2>2. PortTypes'
    BY <1>1, <1>5, <2>1 DEF PortTypes
  <2>3. OnCourse(ed[b])'
    BY <1>1, <1>2, <1>3, <1>4, <1>5 DEF OnCourse, Op, Edits, Onward
  <2>4. \A v \in Vms \ {ed[b].vm} : yaml'[v] = yaml[v]
    BY <1>1 DEF PortTypes
  <2> QED  BY <1>1, <1>5, <2>2, <2>3, <2>4 DEF Frame
<1>7. ASSUME Before(b) PROVE After(b)
  <2>1. FileOf(b)'
    BY <1>1, <1>4, <1>5, <1>7 DEF Before, FileOf
  <2>2. ASSUME Bound(b)' PROVE Kept(b)'
    <3>1. Bound(b)
      BY <1>1, <1>5, <2>2 DEF Bound, Lone
    <3>2. Reach(b)' = Reach(b)
      BY <1>1, <1>3, <1>4, <1>5 DEF Reach, Editing, Resizing, Op
    <3>3. Word(b)'
      BY <1>1, <1>4, <1>7, <3>1, <3>2, StayKeeps DEF Before, Kept, Word, PortTypes
    <3>4. Underway(b)'
      BY <1>4, <1>5 DEF Underway
    <3> QED  BY <3>3, <3>4 DEF Kept, Word
  <2>3. LoadedOf(b)'
    <3>1. CASE Op(ed[b]) \in Edits
      BY <1>4, <1>5, <3>1 DEF LoadedOf, Op
    <3>2. CASE Op(ed[b]) = "size"
      <4>1. Bound(b)
        BY <1>1, <1>3, <1>7 DEF Bound, Before
      <4>2. yaml[ed[b].vm].rules = ed[b].seen
        BY <1>1, <1>7, <3>2, <4>1 DEF Before, Kept, Underway
      <4>3. running[ed[b].vm] /\ ed[b].vm \notin missed => yaml[ed[b].vm].rules = live[ed[b].vm]
        BY <1>1, <1>3, <1>7 DEF Before, LoadedOf
      <4> QED  BY <1>1, <1>4, <1>5, <3>2, <4>2, <4>3 DEF LoadedOf, Op
    <3> QED  BY <1>3, <3>1, <3>2
  <2> QED  BY <1>4, <1>5, <2>1, <2>2, <2>3 DEF After, EndsLone
<1> QED  BY <1>6, <1>7
-----------------------------------------------------------------------------
(* A command that returns.                                                   *)

LEMMA EndCourse ==
  ASSUME PortTypes, NEW b \in Editors, OnCourse(ed[b]), ed[b].pc # "record", NEW e \in Tasks, Onward(b, e), Ended(b, e)
  PROVE  /\ e.pc \in {"begin", "record", "ok"}
         /\ e.pc \in Steps => OnCourse(e)
<1>1. /\ ed[b].todo # <<>> /\ Len(ed[b].todo) \in Nat \ {0} /\ e.todo = Tail(ed[b].todo)
      /\ Len(e.todo) = Len(ed[b].todo) - 1
      /\ \A i \in 1..Len(e.todo) : e.todo[i] = ed[b].todo[i + 1]
  BY HeadIsFirst DEF OnCourse, Ended, PortTypes
<1>2. /\ e.pc \in {"begin", "record", "ok"}
      /\ e.pc = "begin" => Len(ed[b].todo) > 1
      /\ e.pc = "record" => e.kind = "create" /\ ~(Len(ed[b].todo) > 1)
      /\ e.kind # "create" /\ ~(Len(ed[b].todo) > 1) => e.pc = "ok"
  BY DEF Ended
<1>3. e.pc = "begin" => e.todo # <<>>
  <2> DEFINE n == Len(ed[b].todo)  t == e.todo
  <2>1. n \in Nat \ {0} /\ Len(t) = n - 1 /\ (e.pc = "begin" => n > 1)
    BY <1>1, <1>2
  <2> HIDE DEF n, t
  <2>2. e.pc = "begin" => Len(t) # 0
    BY <2>1
  <2> QED  BY <2>2, EmptySeq DEF t
<1>4. e.pc = "record" => e.todo = <<>>
  <2> DEFINE n == Len(ed[b].todo)  t == e.todo
  <2>1. n \in Nat \ {0} /\ Len(t) = n - 1 /\ (e.pc = "record" => ~(n > 1)) /\ t \in Seq(Commands)
    BY <1>1, <1>2 DEF Tasks
  <2> HIDE DEF n, t
  <2>2. e.pc = "record" => Len(t) = 0
    BY <2>1
  <2> QED  BY <2>1, <2>2, EmptySeq DEF t
<1>5. \A i \in 1..Len(e.todo) : /\ e.todo[i].op \in Edits <=> e.kind \in EditKinds
                                /\ e.todo[i].op = "size" => backend = "lima"
  <2> SUFFICES ASSUME NEW i \in 1..Len(e.todo)
               PROVE  /\ e.todo[i].op \in Edits <=> e.kind \in EditKinds
                      /\ e.todo[i].op = "size" => backend = "lima"
    OBVIOUS
  <2>1. i + 1 \in 1..Len(ed[b].todo) /\ e.todo[i] = ed[b].todo[i + 1] /\ e.kind = ed[b].kind
    BY <1>1 DEF Onward
  <2> QED  BY <2>1 DEF OnCourse
<1>9. \A i \in 1..Len(e.todo) : /\ e.todo[i].op \in {"add", "size"} => e.todo[i].must
                                /\ e.todo[i].op \in Edits /\ i = Len(e.todo) => e.todo[i].must
  <2> SUFFICES ASSUME NEW i \in 1..Len(e.todo)
               PROVE  /\ e.todo[i].op \in {"add", "size"} => e.todo[i].must
                      /\ e.todo[i].op \in Edits /\ i = Len(e.todo) => e.todo[i].must
    OBVIOUS
  <2>1. i + 1 \in 1..Len(ed[b].todo) /\ e.todo[i] = ed[b].todo[i + 1] /\ (i = Len(e.todo) => i + 1 = Len(ed[b].todo))
    BY <1>1
  <2> QED  BY <2>1 DEF OnCourse
<1>6. e.pc \in Steps => e.kind \notin Edits
  <2>1. e.kind \in Edits => Len(ed[b].todo) = 1 /\ e.kind # "create"
    BY DEF OnCourse, Onward, Edits
  <2> DEFINE n == Len(ed[b].todo)
  <2>2. e.kind \in Edits => n = 1 /\ e.kind # "create"
    BY <2>1
  <2>3. e.kind # "create" /\ ~(n > 1) => e.pc = "ok"
    BY <1>2
  <2> HIDE DEF n
  <2>4. e.kind \in Edits => e.pc = "ok"
    BY <2>2, <2>3
  <2> QED  BY <2>4 DEF Steps
<1>7. e.vm \in Vms /\ (e.kind \in {"configure", "create"} => IsInjective(e.goal) /\ (e.kind = "configure" => DOMAIN e.goal = DOMAIN GuestOf))
  BY DEF OnCourse, Onward
<1>8. ASSUME e.pc \in Steps PROVE OnCourse(e)
  <2>1. e.pc \in {"begin", "record"}
    BY <1>2, <1>8 DEF Steps
  <2> QED  BY <1>2, <1>3, <1>4, <1>5, <1>6, <1>7, <1>8, <1>9, <2>1 DEF OnCourse
<1> QED  BY <1>2, <1>8

LEMMA EndAfter ==
  ASSUME PortTypes, NEW b \in Editors, OnCourse(ed[b]), ed[b].pc # "record", NEW e \in Tasks, Onward(b, e),
         Ended(b, e) \/ e.pc = "err", UNCHANGED <<backend, record>>, Before(b),
         ed[b].pc \notin {"begin", "record"} \/ (Bound(b) => Achieves(b)) \/ e.pc = "err",
         (backend = "wsl2" /\ ed[b].kind \in EditKinds /\ Ended(b, e) /\ Len(ed[b].todo) = 1 /\ ed[b].vm \notin missed')
            => Turned(b)',
         (backend # "podman" /\ (backend = "wsl2" /\ ed[b].kind \in EditKinds => ed[b].vm \notin missed'))
            => Bound(b) /\ Rules(ed[b].vm)' = Reach(b)
  PROVE  /\ Bound(b)' => Kept(b)'
         /\ EndsLone(b) => Outcome(b)
<1>1. ed'[b] = e /\ ed' \in [Editors -> Tasks] /\ e.vm = ed[b].vm /\ e.kind = ed[b].kind
  BY OnwardTypes DEF PortTypes, Onward
<1>2. Bound(b) => KeepsOthers(b)
  BY DEF Before, Kept
<1>3. CASE e.pc = "err"
  <2>1. EndsLone(b) => Bound(b) /\ Rules(ed[b].vm)' = Reach(b)
    BY DEF EndsLone
  <2>2. EndsLone(b) => OthersStay(b, Rules(ed[b].vm)')
    BY <1>2, <2>1 DEF KeepsOthers
  <2> QED  BY <1>1, <1>3, <2>2 DEF Bound, Busy, Outcome
<1>4. CASE Ended(b, e)
  <2>0. Bound(b) => Achieves(b)
    BY <1>4, EditAchieves DEF Ended, Before, Kept, Word
  <2>1. ASSUME Bound(b)' PROVE Kept(b)'
    <3>1. Bound(b) /\ Rules(ed[b].vm)' = Reach(b)
      BY <1>1, <2>1 DEF Bound
    <3>2. e.pc # "ok" /\ e.pc \in {"begin", "record"}
      BY <1>1, <1>4, <2>1 DEF Ended, Bound, Busy
    <3>3. Word(b)'
      BY <1>2, <1>4, <2>0, <3>1, <3>2, EndKeeps DEF PortTypes, KeepsOthers, Achieves
    <3>4. e.pc = "record" => Turned(b)'
      <4>1. e.pc = "record" => Len(ed[b].todo) = 1 /\ ed[b].kind = "create"
        <5>1. e.pc = "record" => ~(Len(ed[b].todo) > 1) /\ ed[b].kind = "create"
          BY <1>1, <1>4 DEF Ended
        <5>2. Len(ed[b].todo) \in Nat \ {0}
          BY HeadIsFirst DEF OnCourse, PortTypes
        <5> DEFINE n == Len(ed[b].todo)
        <5> HIDE DEF n
        <5>3. n \in Nat \ {0} /\ (e.pc = "record" => ~(n > 1) /\ ed[b].kind = "create")
          BY <5>1, <5>2 DEF n
        <5>4. e.pc = "record" => n = 1 /\ ed[b].kind = "create"
          BY <5>3
        <5> QED  BY <5>4 DEF n
      <4>2. backend = "wsl2" /\ ed[b].kind = "create" => ed[b].vm \notin missed'
        BY <1>1, <2>1 DEF Bound, EditKinds
      <4>3. backend # "wsl2" => Turned(b)'
        BY DEF Turned
      <4> QED  BY <1>4, <4>1, <4>2, <4>3 DEF EditKinds
    <3>5. Underway(b)'
      BY <1>1, <3>2, <3>4 DEF Underway
    <3> QED  BY <3>3, <3>5 DEF Kept, Word
  <2>2. ASSUME EndsLone(b) PROVE Outcome(b)
    <3>1. e.pc = "ok" /\ ed[b].vm \notin missed' /\ backend # "podman"
      BY <1>1, <1>4, <2>2 DEF EndsLone, Ended
    <3>2. Bound(b) /\ Rules(ed[b].vm)' = Reach(b)
      BY <3>1
    <3>3. Promise(b, Rules(ed[b].vm)')
      BY <1>2, <1>4, <2>0, <3>1, <3>2, EndKeeps DEF PortTypes, KeepsOthers, Achieves
    <3>4. ed[b].kind \in EditKinds => Turned(b)'
      <4>1. Len(ed[b].todo) = 1
        <5>1. ~(Len(ed[b].todo) > 1)
          BY <1>4, <3>1 DEF Ended
        <5>2. Len(ed[b].todo) \in Nat \ {0}
          BY HeadIsFirst DEF OnCourse, PortTypes
        <5> DEFINE n == Len(ed[b].todo)
        <5> HIDE DEF n
        <5>3. n \in Nat \ {0} /\ ~(n > 1)
          BY <5>1, <5>2 DEF n
        <5>4. n = 1
          BY <5>3
        <5> QED  BY <5>4 DEF n
      <4>2. backend # "wsl2" => Turned(b)'
        BY DEF Turned
      <4> QED  BY <1>4, <3>1, <4>1, <4>2
    <3> QED  BY <1>1, <1>2, <3>1, <3>2, <3>3, <3>4 DEF Outcome, KeepsOthers
  <2> QED  BY <2>1, <2>2
<1> QED  BY <1>3, <1>4

(* What a command on a running VM does, and that of an edit is lima's.       *)
LEMMA OpsOf ==
  ASSUME PortTypes, NEW b \in Editors, OnCourse(ed[b]), ed[b].pc # "record"
  PROVE  /\ Op(ed[b]) \in Edits <=> ed[b].kind \in EditKinds
         /\ Op(ed[b]) \in Edits \union Powers \union {"size"}
         /\ ed[b].todo # <<>> /\ ed[b].vm \in Vms /\ Now(b) \in Commands /\ Op(ed[b]) = Now(b).op
<1>1. ed[b].todo # <<>> /\ ed[b].vm \in Vms /\ ed[b] \in Tasks
  BY DEF OnCourse, PortTypes
<1>2. Now(b) = ed[b].todo[1] /\ Now(b) \in Commands /\ 1 \in 1..Len(ed[b].todo)
  BY <1>1, HeadIsFirst DEF Now
<1>3. Now(b).op \in Edits \union Powers \union {"size"}
  BY <1>2 DEF Commands
<1>4. Now(b).op \in Edits <=> ed[b].kind \in EditKinds
  BY <1>2 DEF OnCourse
<1> QED  BY <1>1, <1>2, <1>3, <1>4 DEF Op, Now

(* The file gets the rules and the size that were chosen for it.            *)
LEMMA FillKeeps ==
  ASSUME PortTypes, OnTheirWay, NEW b \in Editors, Fill(b)
  PROVE  Frame(b) /\ (Before(b) => After(b))
<1>1. /\ ed[b].pc = "fill" /\ Busy(b)
      /\ yaml' = [yaml EXCEPT ![ed[b].vm] = [size |-> ed[b].body, rules |-> ed[b].seen]]
      /\ UNCHANGED <<backend, netsh, running, live, record, spoiled, missed>>
  BY DEF Fill, At, Busy
<1>2. OnCourse(ed[b])
  BY <1>1 DEF OnTheirWay
<1>3. /\ Op(ed[b]) \in Edits \union {"size"} /\ backend = "lima" /\ ed[b].vm \in Vms /\ ed[b].todo # <<>>
      /\ ed[b] \in Tasks /\ Op(ed[b]) = Now(b).op
  BY <1>1, <1>2 DEF OnCourse, PortTypes, Now, Op
<1>4. PICK e \in Tasks : /\ Onward(b, e)
                         /\ IF Op(ed[b]) = "size" THEN Ended(b, e)
                            ELSE e.pc = "probe" /\ e.todo = ed[b].todo /\ e.seen = ed[b].seen
  <2>1. CASE Op(ed[b]) = "size"
    <3>1. Returned(b, ed[b], TRUE)
      BY <1>3, <2>1 DEF Fill
    <3>2. PICK e \in Tasks : Onward(b, e) /\ Ended(b, e)
      BY <1>3, <3>1, ReturnWell DEF PortTypes
    <3> QED  BY <2>1, <3>2
  <2>2. CASE Op(ed[b]) # "size"
    <3>1. EdGoto(b, "probe")
      BY <1>3, <2>2 DEF Fill
    <3>2. PICK e \in Tasks : Onward(b, e) /\ e = [ed[b] EXCEPT !.pc = "probe"]
      BY <3>1, GotoMoves DEF Steps, PortTypes
    <3>3. e.pc = "probe" /\ e.todo = ed[b].todo /\ e.seen = ed[b].seen
      BY <1>3, <3>2 DEF Tasks
    <3> QED  BY <2>2, <3>2, <3>3
  <2> QED  BY <2>1, <2>2
<1>5. /\ ed' \in [Editors -> Tasks] /\ ed'[b] = e /\ e.vm = ed[b].vm /\ e.kind = ed[b].kind
      /\ \A a \in Editors \ {b} : ed'[a] = ed[a]
  BY <1>4, OnwardTypes DEF PortTypes, Onward
<1>6. Op(ed[b]) = "size" => e.pc \in {"begin", "record", "ok"}
  BY <1>1, <1>2, <1>4, EndCourse
<1>7. yaml'[ed[b].vm] = [size |-> ed[b].body, rules |-> ed[b].seen]
  BY <1>1, <1>3 DEF PortTypes
<1>8. Frame(b)
  <2>1. yaml' \in [Vms -> [size : {"old", "new", "none"}, rules : RuleSets]]
    BY <1>1, <1>3 DEF PortTypes, Tasks
  <2>2. PortTypes'
    BY <1>1, <1>5, <2>1 DEF PortTypes
  <2>3. e.pc \in Steps => OnCourse(e)
    <3>1. CASE Op(ed[b]) = "size"
      BY <1>1, <1>2, <1>4, <3>1, EndCourse
    <3>2. CASE Op(ed[b]) # "size"
      BY <1>1, <1>2, <1>3, <1>4, <3>2 DEF OnCourse, Op, Edits, Onward
    <3> QED  BY <3>1, <3>2
  <2>4. Busy(b)' => OnCourse(ed[b])'
    BY <1>1, <1>5, <2>3 DEF Busy, OnCourse, Tasks
  <2>5. \A v \in Vms \ {ed[b].vm} : yaml'[v] = yaml[v]
    BY <1>1 DEF PortTypes
  <2> QED  BY <1>1, <1>5, <2>2, <2>4, <2>5 DEF Frame
<1>9. ASSUME Before(b) PROVE After(b)
  <2>1. FileOf(b)'
    BY <1>1, <1>4, <1>5, <1>6, <1>7, <1>9 DEF Before, FileOf
  <2>2. LoadedOf(b)'
    <3>1. CASE Op(ed[b]) # "size"
      BY <1>3, <1>4, <1>5, <3>1 DEF LoadedOf, Op
    <3>2. CASE Op(ed[b]) = "size"
      <4>1. running[ed[b].vm] /\ ed[b].vm \notin missed => ed[b].seen = live[ed[b].vm]
        BY <1>1, <1>3, <1>9, <3>2 DEF Before, LoadedOf, Edits
      <4> QED  BY <1>1, <1>5, <1>6, <1>7, <3>2, <4>1 DEF LoadedOf
    <3> QED  BY <3>1, <3>2
  <2>3. Bound(b)
    BY <1>1, <1>3, <1>9 DEF Bound, Before
  <2>4. Reach(b) = ed[b].seen
    BY <1>1, <1>3 DEF Reach, Editing, Resizing
  <2>5. /\ Bound(b)' => Kept(b)'
        /\ EndsLone(b) => Outcome(b)
    <3>1. CASE Op(ed[b]) = "size"
      <4>1. Rules(ed[b].vm)' = Reach(b)
        BY <1>1, <1>3, <1>5, <1>7, <2>4 DEF Rules, LimaRules
      <4>9. ~(backend = "wsl2" /\ ed[b].kind \in EditKinds) /\ UNCHANGED <<backend, record>>
        BY <1>1, <1>3
      <4> QED  BY <1>1, <1>2, <1>4, <1>9, <2>3, <3>1, <4>1, <4>9, EndAfter
    <3>2. CASE Op(ed[b]) # "size"
      <4>1. Reach(b)' = Reach(b)
        BY <1>3, <1>4, <1>5, <2>4, <3>2 DEF Reach, Editing, Op
      <4>2. Word(b)'
        BY <1>1, <1>4, <1>9, <2>3, <3>2, <4>1, StayKeeps DEF Before, Kept, Word, PortTypes
      <4>3. Underway(b)'
        BY <1>4, <1>5, <1>7, <3>2 DEF Underway
      <4> QED  BY <1>4, <1>5, <3>2, <4>2, <4>3 DEF Kept, Word, EndsLone
    <3> QED  BY <3>1, <3>2
  <2> QED  BY <2>1, <2>2, <2>5 DEF After
<1> QED  BY <1>8, <1>9

(* The VM is stopped next if it runs, unless the probe fails.               *)
LEMMA ProbeKeeps ==
  ASSUME PortTypes, OnTheirWay, NEW b \in Editors, Probe(b)
  PROVE  Frame(b) /\ (Before(b) => After(b))
<1>1. /\ ed[b].pc = "probe" /\ Busy(b)
      /\ UNCHANGED <<backend, yaml, netsh, running, live, record, spoiled>>
  BY DEF Probe, At, Busy
<1>2. OnCourse(ed[b])
  BY <1>1 DEF OnTheirWay
<1>3. /\ Op(ed[b]) \in Edits /\ backend = "lima" /\ ed[b].vm \in Vms /\ ed[b].todo # <<>> /\ ed[b] \in Tasks
  BY <1>1, <1>2 DEF OnCourse, PortTypes
<1>4. PICK e \in Tasks :
        /\ Onward(b, e)
        /\ \/ Ended(b, e) /\ missed' = (IF running[ed[b].vm] THEN missed \union {ed[b].vm} ELSE missed)
           \/ e.pc = "stop" /\ e.todo = ed[b].todo /\ e.seen = ed[b].seen /\ missed' = missed
  <2>1. CASE Returned(b, ed[b], TRUE) /\ Pass(ed[b].vm, running[ed[b].vm])
    <3>1. PICK e \in Tasks : Onward(b, e) /\ Ended(b, e)
      BY <1>3, <2>1, ReturnWell DEF PortTypes
    <3> QED  BY <2>1, <3>1 DEF Pass
  <2>2. CASE EdGoto(b, "stop") /\ UNCHANGED missed
    <3>1. PICK e \in Tasks : Onward(b, e) /\ e = [ed[b] EXCEPT !.pc = "stop"]
      BY <2>2, GotoMoves DEF Steps, PortTypes
    <3>2. e.pc = "stop" /\ e.todo = ed[b].todo /\ e.seen = ed[b].seen
      BY <1>3, <3>1 DEF Tasks
    <3> QED  BY <2>2, <3>1, <3>2
  <2> QED  BY <2>1, <2>2 DEF Probe
<1>5. /\ ed' \in [Editors -> Tasks] /\ ed'[b] = e /\ e.vm = ed[b].vm /\ e.kind = ed[b].kind
      /\ \A a \in Editors \ {b} : ed'[a] = ed[a]
  BY <1>4, OnwardTypes DEF PortTypes, Onward
<1>6. Ended(b, e) => e.pc \in {"begin", "record", "ok"} /\ (e.pc \in Steps => OnCourse(e))
  BY <1>1, <1>2, <1>4, EndCourse
<1>7. e.pc = "stop" /\ e.todo = ed[b].todo => OnCourse(e)
  BY <1>1, <1>2, <1>3, <1>4 DEF OnCourse, Op, Edits, Onward
<1>8. Frame(b)
  <2>1. PortTypes'
    BY <1>1, <1>3, <1>4, <1>5 DEF PortTypes
  <2>2. Busy(b)' => OnCourse(ed[b])'
    BY <1>1, <1>4, <1>5, <1>6, <1>7 DEF Busy, OnCourse, Tasks
  <2> QED  BY <1>1, <1>4, <1>5, <2>1, <2>2 DEF Frame
<1>9. ASSUME Before(b) PROVE After(b)
  <2>1. FileOf(b)'
    BY <1>1, <1>4, <1>5, <1>6, <1>9 DEF Before, FileOf
  <2>2. LoadedOf(b)'
    BY <1>1, <1>3, <1>4, <1>5 DEF LoadedOf, Op
  <2>3. Bound(b)
    BY <1>1, <1>3, <1>9 DEF Bound, Before
  <2>4. Reach(b) = ed[b].seen /\ yaml[ed[b].vm].rules = ed[b].seen
    BY <1>1, <1>3, <1>9, <2>3 DEF Reach, Editing, Before, Kept, Underway
  <2>5. /\ Bound(b)' => Kept(b)'
        /\ EndsLone(b) => Outcome(b)
    <3>1. CASE Ended(b, e)
      <4>1. Rules(ed[b].vm)' = Reach(b)
        BY <1>1, <1>3, <1>5, <2>4 DEF Rules, LimaRules
      <4>9. ~(backend = "wsl2" /\ ed[b].kind \in EditKinds) /\ UNCHANGED <<backend, record>>
        BY <1>1, <1>3
      <4> QED  BY <1>1, <1>2, <1>4, <1>9, <2>3, <3>1, <4>1, <4>9, EndAfter
    <3>2. CASE e.pc = "stop" /\ e.todo = ed[b].todo /\ e.seen = ed[b].seen
      <4>1. Reach(b)' = Reach(b)
        BY <1>3, <1>4, <1>5, <2>4, <3>2 DEF Reach, Editing, Op
      <4>2. Word(b)'
        BY <1>1, <1>4, <1>9, <2>3, <3>2, <4>1, StayKeeps DEF Before, Kept, Word, PortTypes
      <4>3. Underway(b)'
        BY <1>1, <1>5, <2>4, <3>2 DEF Underway
      <4> QED  BY <1>5, <3>2, <4>2, <4>3 DEF Kept, Word, EndsLone
    <3> QED  BY <1>4, <3>1, <3>2
  <2> QED  BY <2>1, <2>2, <2>5 DEF After
<1> QED  BY <1>8, <1>9

(* A VM is stopped, to be started again if that is what is asked.           *)
LEMMA StopKeeps ==
  ASSUME PortTypes, OnTheirWay, NEW b \in Editors, Stop(b)
  PROVE  Frame(b) /\ (Before(b) => After(b))
<1>1. /\ ed[b].pc = "stop" /\ Busy(b)
      /\ UNCHANGED <<backend, yaml, netsh, live, record, spoiled>>
  BY DEF Stop, At, Busy
<1>2. OnCourse(ed[b])
  BY <1>1 DEF OnTheirWay
<1>3. /\ Op(ed[b]) \in Edits => backend = "lima"
      /\ Op(ed[b]) # "size" /\ (Op(ed[b]) \in Edits <=> ed[b].kind \in EditKinds)
      /\ ed[b].vm \in Vms /\ ed[b].todo # <<>> /\ ed[b] \in Tasks /\ Op(ed[b]) = Now(b).op
  BY <1>1, <1>2, OpsOf DEF OnCourse, PortTypes
<1>4. PICK e \in Tasks :
        /\ Onward(b, e)
        /\ \/ (Ended(b, e) \/ e.pc = "err") /\ Op(ed[b]) \notin Edits
           \/ e.pc = "start" /\ e.todo = ed[b].todo /\ e.seen = ed[b].seen
        /\ \/ running' = [running EXCEPT ![ed[b].vm] = FALSE] /\ missed' = missed \ {ed[b].vm}
           \/ /\ running' = running
              /\ missed' = IF Op(ed[b]) \in Edits /\ running[ed[b].vm] THEN missed \union {ed[b].vm} ELSE missed
  <2>1. CASE \E ok \in BOOLEAN : Returned(b, ed[b], ok) /\ Op(ed[b]) \notin Edits
    <3>1. PICK ok \in BOOLEAN : Returned(b, ed[b], ok)
      BY <2>1
    <3>2. PICK e \in Tasks : Onward(b, e) /\ (Ended(b, e) \/ e.pc = "err")
      BY <1>3, <3>1, ReturnSomehow DEF PortTypes
    <3> QED  BY <1>3, <2>1, <3>2 DEF Stop, Pass, Edits
  <2>2. CASE EdGoto(b, "start")
    <3>1. PICK e \in Tasks : Onward(b, e) /\ e = [ed[b] EXCEPT !.pc = "start"]
      BY <2>2, GotoMoves DEF Steps, PortTypes
    <3>2. e.pc = "start" /\ e.todo = ed[b].todo /\ e.seen = ed[b].seen
      BY <1>3, <3>1 DEF Tasks
    <3> QED  BY <1>3, <3>1, <3>2 DEF Stop, Pass, Edits
  <2> QED  BY <1>3, <2>1, <2>2 DEF Stop, Edits
<1>5. /\ ed' \in [Editors -> Tasks] /\ ed'[b] = e /\ e.vm = ed[b].vm /\ e.kind = ed[b].kind
      /\ \A a \in Editors \ {b} : ed'[a] = ed[a]
  BY <1>4, OnwardTypes DEF PortTypes, Onward
<1>6. Ended(b, e) => e.pc \in {"begin", "record", "ok"} /\ (e.pc \in Steps => OnCourse(e))
  BY <1>1, <1>2, <1>4, EndCourse
<1>7. e.pc = "start" /\ e.todo = ed[b].todo => OnCourse(e)
  BY <1>1, <1>2, <1>3, <1>4 DEF OnCourse, Op, Edits, Onward
<1>8. Frame(b)
  <2>1. PortTypes'
    BY <1>1, <1>3, <1>4, <1>5 DEF PortTypes
  <2>2. Busy(b)' => OnCourse(ed[b])'
    BY <1>1, <1>4, <1>5, <1>6, <1>7 DEF Busy, OnCourse, Tasks
  <2>3. \A v \in Vms \ {ed[b].vm} : running'[v] = running[v] /\ (v \in missed' <=> v \in missed)
    BY <1>4 DEF PortTypes
  <2> QED  BY <1>1, <1>5, <2>1, <2>2, <2>3 DEF Frame
<1>9. ASSUME Before(b) PROVE After(b)
  <2>1. FileOf(b)'
    BY <1>1, <1>4, <1>5, <1>6, <1>9 DEF Before, FileOf
  <2>2. LoadedOf(b)'
    <3>1. CASE running' = [running EXCEPT ![ed[b].vm] = FALSE]
      BY <1>3, <1>5, <3>1 DEF LoadedOf, PortTypes
    <3>2. CASE running' = running /\ Op(ed[b]) \in Edits
      BY <1>3, <1>4, <1>5, <3>2 DEF LoadedOf, PortTypes
    <3>3. CASE running' = running /\ missed' = missed /\ Op(ed[b]) \notin Edits
      <4>1. e.pc # "fill"
        BY <1>4, <1>6
      <4>2. backend = "lima" /\ running[ed[b].vm] /\ ed[b].vm \notin missed => yaml[ed[b].vm].rules = live[ed[b].vm]
        BY <1>1, <1>9, <3>3 DEF Before, LoadedOf
      <4> QED  BY <1>1, <1>5, <3>3, <4>1, <4>2 DEF LoadedOf
    <3> QED  BY <1>4, <3>1, <3>2, <3>3
  <2>3. backend # "podman" => Bound(b)
    BY <1>1, <1>3, <1>9 DEF Bound, Before
  <2>4. backend # "podman" => Rules(ed[b].vm)' = Rules(ed[b].vm)
    BY <1>1, <1>5, SameRules
  <2>5. /\ Bound(b)' => Kept(b)'
        /\ EndsLone(b) => Outcome(b)
    <3>1. CASE (Ended(b, e) \/ e.pc = "err") /\ Op(ed[b]) \notin Edits
      <4>1. Reach(b) = Rules(ed[b].vm)
        BY <1>1, <3>1 DEF Reach, Editing, Resizing
      <4>9. ~(backend = "wsl2" /\ ed[b].kind \in EditKinds) /\ UNCHANGED <<backend, record>>
        BY <1>1, <1>3, <3>1
      <4> QED  BY <1>1, <1>2, <1>4, <1>9, <2>3, <2>4, <3>1, <4>1, <4>9, EndAfter
    <3>2. CASE e.pc = "start" /\ e.todo = ed[b].todo /\ e.seen = ed[b].seen
      <4>1. ASSUME Bound(b)' PROVE Kept(b)'
        <5>1. backend # "podman" /\ Bound(b)
          BY <1>1, <2>3, <4>1 DEF Bound
        <5>2. Reach(b)' = Reach(b)
          <6>1. Op(ed[b]) \in Edits => Reach(b) = ed[b].seen /\ Reach(b)' = e.seen
            BY <1>1, <1>5, <3>2 DEF Reach, Editing, Op
          <6>2. Op(ed[b]) \notin Edits => Reach(b) = Rules(ed[b].vm) /\ Reach(b)' = Rules(ed[b].vm)'
            BY <1>1, <1>5, <3>2 DEF Reach, Editing, Resizing, Op
          <6> QED  BY <2>4, <3>2, <5>1, <6>1, <6>2
        <5>3. Word(b)'
          BY <1>1, <1>4, <1>9, <3>2, <5>1, <5>2, StayKeeps DEF Before, Kept, Word, PortTypes
        <5>4. Underway(b)'
          BY <1>1, <1>5, <1>9, <3>2, <5>1 DEF Underway, Before, Kept, Op
        <5> QED  BY <5>3, <5>4 DEF Kept, Word
      <4> QED  BY <1>5, <3>2, <4>1 DEF EndsLone
    <3> QED  BY <1>4, <3>1, <3>2
  <2> QED  BY <2>1, <2>2, <2>5 DEF After
<1> QED  BY <1>8, <1>9

(* A VM that was down starts with the rules of its file.                    *)
LEMMA StartKeeps ==
  ASSUME PortTypes, OnTheirWay, NEW b \in Editors, Start(b)
  PROVE  Frame(b) /\ (Before(b) => After(b))
<1>1. /\ ed[b].pc = "start" /\ Busy(b)
      /\ UNCHANGED <<backend, yaml, netsh, record, spoiled, missed>>
  BY DEF Start, At, Busy
<1>2. OnCourse(ed[b])
  BY <1>1 DEF OnTheirWay
<1>3. /\ Op(ed[b]) \in Edits => backend = "lima"
      /\ Op(ed[b]) # "size" /\ (Op(ed[b]) \in Edits <=> ed[b].kind \in EditKinds)
      /\ ed[b].vm \in Vms /\ ed[b].todo # <<>> /\ ed[b] \in Tasks
  BY <1>1, <1>2, OpsOf DEF OnCourse, PortTypes
<1>4. PICK e \in Tasks :
        /\ Onward(b, e) /\ (Ended(b, e) \/ e.pc = "err")
        /\ \/ /\ running' = [running EXCEPT ![ed[b].vm] = TRUE]
              /\ live' = IF running[ed[b].vm] \/ backend # "lima" THEN live
                         ELSE [live EXCEPT ![ed[b].vm] = yaml[ed[b].vm].rules]
           \/ running' = running /\ live' = live
  <2>1. PICK ok \in BOOLEAN : Returned(b, ed[b], ok)
    BY DEF Start
  <2>2. PICK e \in Tasks : Onward(b, e) /\ (Ended(b, e) \/ e.pc = "err")
    BY <1>3, <2>1, ReturnSomehow DEF PortTypes
  <2> QED  BY <2>2 DEF Start
<1>5. /\ ed' \in [Editors -> Tasks] /\ ed'[b] = e /\ e.vm = ed[b].vm /\ e.kind = ed[b].kind
      /\ \A a \in Editors \ {b} : ed'[a] = ed[a]
  BY <1>4, OnwardTypes DEF PortTypes, Onward
<1>6. e.pc \in {"begin", "record", "ok", "err"} /\ (e.pc \in Steps => OnCourse(e))
  <2>1. Ended(b, e) => e.pc \in {"begin", "record", "ok"} /\ (e.pc \in Steps => OnCourse(e))
    BY <1>1, <1>2, <1>4, EndCourse
  <2> QED  BY <1>4, <2>1 DEF Steps
<1>7. Frame(b)
  <2>1. running' \in [Vms -> BOOLEAN] /\ live' \in [Vms -> RuleSets]
    BY <1>3, <1>4 DEF PortTypes
  <2>2. PortTypes'
    BY <1>1, <1>5, <2>1 DEF PortTypes
  <2>3. Busy(b)' => OnCourse(ed[b])'
    BY <1>1, <1>5, <1>6 DEF Busy, OnCourse, Tasks
  <2>4. \A v \in Vms \ {ed[b].vm} : running'[v] = running[v] /\ live'[v] = live[v]
    BY <1>4 DEF PortTypes
  <2> QED  BY <1>1, <1>5, <2>2, <2>3, <2>4 DEF Frame
<1>8. ASSUME Before(b) PROVE After(b)
  <2>1. FileOf(b)'
    BY <1>1, <1>5, <1>6, <1>8 DEF Before, FileOf
  <2>2. LoadedOf(b)'
    <3>1. backend = "lima" /\ running[ed[b].vm] /\ ed[b].vm \notin missed => yaml[ed[b].vm].rules = live[ed[b].vm]
      BY <1>1, <1>8 DEF Before, LoadedOf
    <3>2. backend = "lima" /\ running'[ed[b].vm] /\ ed[b].vm \notin missed => yaml[ed[b].vm].rules = live'[ed[b].vm]
      BY <1>3, <1>4, <3>1 DEF PortTypes
    <3> QED  BY <1>1, <1>5, <1>6, <3>2 DEF LoadedOf
  <2>3. backend # "podman" => Bound(b)
    BY <1>1, <1>3, <1>8 DEF Bound, Before
  <2>4. backend # "podman" => Rules(ed[b].vm)' = Rules(ed[b].vm)
    BY <1>1, <1>5, SameRules
  <2>5. backend # "podman" => Rules(ed[b].vm)' = Reach(b)
    <3>1. Op(ed[b]) \in Edits => Reach(b) = ed[b].seen
      BY <1>1 DEF Reach, Editing
    <3>2. Op(ed[b]) \in Edits => yaml[ed[b].vm].rules = ed[b].seen /\ Rules(ed[b].vm) = yaml[ed[b].vm].rules
      BY <1>1, <1>3, <1>8, <2>3 DEF Before, Kept, Underway, Rules, LimaRules
    <3>3. Op(ed[b]) \notin Edits => Reach(b) = Rules(ed[b].vm)
      BY <1>1 DEF Reach, Editing, Resizing
    <3> QED  BY <2>4, <3>1, <3>2, <3>3
  <2>6. /\ Bound(b)' => Kept(b)'
        /\ EndsLone(b) => Outcome(b)
    <3>1. ~(backend = "wsl2" /\ ed[b].kind \in EditKinds) /\ UNCHANGED <<backend, record>>
      BY <1>1, <1>3
    <3> QED  BY <1>1, <1>2, <1>4, <1>8, <2>3, <2>5, <3>1, EndAfter
  <2> QED  BY <2>1, <2>2, <2>6 DEF After
<1> QED  BY <1>7, <1>8

(* create's last step.                                                      *)
LEMMA RecordKeeps ==
  ASSUME PortTypes, OnTheirWay, NEW b \in Editors, Record(b)
  PROVE  Frame(b) /\ (Before(b) => After(b))
<1>1. /\ ed[b].pc = "record" /\ Busy(b) /\ EdGoto(b, "ok")
      /\ record' = [record EXCEPT ![ed[b].vm] = ed[b].goal]
      /\ UNCHANGED <<backend, yaml, netsh, running, live, spoiled, missed>>
  BY DEF Record, At, Busy
<1>2. /\ OnCourse(ed[b]) /\ ed[b].vm \in Vms /\ ed[b].todo = <<>> /\ ed[b].kind = "create" /\ ed[b] \in Tasks
  BY <1>1 DEF OnTheirWay, OnCourse, PortTypes
<1>3. PICK e \in Tasks : Onward(b, e) /\ e.pc = "ok"
  <2>1. PICK e \in Tasks : Onward(b, e) /\ e = [ed[b] EXCEPT !.pc = "ok"]
    BY <1>1, GotoMoves DEF PortTypes
  <2> QED  BY <1>2, <2>1 DEF Tasks
<1>4. /\ ed' \in [Editors -> Tasks] /\ ed'[b] = e /\ e.vm = ed[b].vm
      /\ \A a \in Editors \ {b} : ed'[a] = ed[a]
  BY <1>3, OnwardTypes DEF PortTypes
<1>5. Frame(b)
  <2>1. PortTypes'
    <3>1. record' \in [Vms -> PortLists]
      BY <1>1, <1>2 DEF PortTypes, Tasks
    <3> QED  BY <1>1, <1>4, <3>1 DEF PortTypes
  <2>2. ~Busy(b)'
    BY <1>3, <1>4 DEF Busy
  <2>3. \A v \in Vms \ {ed[b].vm} : record'[v] = record[v]
    BY <1>1 DEF PortTypes
  <2> QED  BY <1>1, <1>4, <2>1, <2>2, <2>3 DEF Frame
<1>6. ASSUME Before(b) PROVE After(b)
  <2>1. FileOf(b)' /\ LoadedOf(b)'
    BY <1>1, <1>3, <1>4, <1>6 DEF Before, FileOf, LoadedOf
  <2>2. ~Bound(b)'
    BY <1>3, <1>4 DEF Bound, Busy
  <2>3. ASSUME EndsLone(b) PROVE Outcome(b)
    <3>1. Bound(b) /\ backend # "podman"
      BY <1>1, <1>6, <2>3 DEF Bound, EndsLone, Lone, Before
    <3>2. Rules(ed[b].vm)' = Reach(b)
      <4>1. Rules(ed[b].vm)' = Rules(ed[b].vm)
        BY <1>1, <1>4, <3>1, SameRules
      <4>2. Reach(b) = Rules(ed[b].vm)
        BY <1>1 DEF Reach, Editing, Resizing
      <4> QED  BY <4>1, <4>2
    <3>3. ~Crossed(b) => \A l \in DOMAIN ed[b].goal : Settled(Reach(b), <<>>, ed[b].goal[l], GuestOf[l])
      BY <1>1, <1>2, <1>6, <3>1 DEF Before, Kept, DoesItsOwn, Rest
    <3>4. ~Crossed(b) => \A l \in DOMAIN ed[b].goal : /\ ed[b].goal[l] \in DOMAIN Reach(b)
                                                      /\ Reach(b)[ed[b].goal[l]] = GuestOf[l]
      BY <3>3, SettleNone
    <3>5. KeepsOthers(b)
      BY <1>6, <3>1 DEF Before, Kept
    <3>6. Promise(b, Reach(b)) /\ OthersStay(b, Reach(b))
      BY <1>2, <3>4, <3>5 DEF Promise, KeepsOthers
    <3>7. Turned(b)'
      BY <1>1, <1>4, <1>6, <3>1 DEF Before, Kept, Underway, Turned
    <3> QED  BY <3>2, <3>6, <3>7 DEF Outcome
  <2> QED  BY <2>1, <2>2, <2>3 DEF After
<1> QED  BY <1>5, <1>6

(* What is left of a file and of a VM that the step has nothing to do with. *)
LEMMA SameFile ==
  ASSUME PortTypes, NEW b \in Editors, NEW e \in Tasks, ed'[b] = e, e.vm = ed[b].vm,
         UNCHANGED <<backend, yaml, running, live>>, backend = "lima" => UNCHANGED missed, Before(b),
         ed[b].pc \notin {"fill", "probe", "stop"}, e.pc \notin {"truncate", "fill"}
  PROVE  FileOf(b)' /\ LoadedOf(b)'
<1>1. FileOf(b)'
  BY DEF FileOf, Before
<1>2. LoadedOf(b)'
  BY DEF LoadedOf, Before
<1> QED  BY <1>1, <1>2

(* The rules with one more.                                                 *)
LEMMA AddPortKeeps ==
  ASSUME PortTypes, OnTheirWay, NEW b \in Editors, AddPort(b)
  PROVE  Frame(b) /\ (Before(b) => After(b))
<1>1. /\ ed[b].pc = "begin" /\ Op(ed[b]) = "add" /\ Busy(b)
      /\ UNCHANGED <<backend, yaml, netsh, running, live, record, spoiled>>
  BY DEF AddPort, At, Now, Op, Busy
<1>2. OnCourse(ed[b])
  BY <1>1 DEF OnTheirWay
<1>3. /\ ed[b].kind \in EditKinds /\ ed[b].vm \in Vms /\ ed[b].todo # <<>> /\ ed[b] \in Tasks
      /\ Now(b).host \in Hosts /\ Now(b).guest \in Guests /\ Now(b) = Head(ed[b].todo)
  <2>1. Now(b) \in Commands /\ Now(b).op = "add"
    BY <1>1, <1>2, OpsOf
  <2> QED  BY <1>1, <1>2, <2>1, OpsOf DEF Commands, Edits, Powers, PortTypes, Now
<1> DEFINE new == With(Rules(ed[b].vm), Now(b).host, Now(b).guest)
<1>4. new \in RuleSets
  BY <1>3, RulesTyped, RulesWith
<1>5. PICK e \in Tasks :
        /\ Onward(b, e)
        /\ \/ backend = "podman" /\ (Ended(b, e) \/ e.pc = "err") /\ missed' = missed
           \/ /\ backend # "podman" /\ e.todo = ed[b].todo
              /\ e.pc = (IF backend = "lima" THEN "load" ELSE "reset")
              /\ \/ e.seen = new /\ missed' = missed
                 \/ backend = "wsl2" /\ missed' = missed \union {ed[b].vm}
  <2>1. CASE PortsFixed /\ Returned(b, ed[b], FALSE) /\ UNCHANGED missed
    <3>1. PICK e \in Tasks : Onward(b, e) /\ (Ended(b, e) \/ e.pc = "err")
      BY <1>3, <2>1, ReturnSomehow DEF PortTypes
    <3> QED  BY <2>1, <3>1 DEF PortsFixed
  <2>2. CASE ~PortsFixed /\ SetRules(b, new) /\ UNCHANGED missed
    <3>1. PICK e \in Tasks : /\ Onward(b, e) /\ e.seen = new /\ e.todo = ed[b].todo
                             /\ e.pc = (IF backend = "lima" THEN "load" ELSE "reset")
      BY <1>4, <2>2, RulesMove DEF PortTypes
    <3> QED  BY <2>2, <3>1 DEF PortsFixed
  <2>3. CASE ShowFails /\ SetRules(b, With(<<>>, Now(b).host, Now(b).guest)) /\ Pass(ed[b].vm, TRUE)
    <3>1. With(<<>>, Now(b).host, Now(b).guest) \in RuleSets
      BY <1>3, NoRules, RulesWith
    <3>2. PICK e \in Tasks : /\ Onward(b, e) /\ e.todo = ed[b].todo
                             /\ e.pc = (IF backend = "lima" THEN "load" ELSE "reset")
      BY <2>3, <3>1, RulesMove DEF PortTypes
    <3> QED  BY <2>3, <3>2 DEF ShowFails, Pass
  <2> QED  BY <2>1, <2>2, <2>3 DEF AddPort
<1>6. /\ ed' \in [Editors -> Tasks] /\ ed'[b] = e /\ e.vm = ed[b].vm /\ e.kind = ed[b].kind
      /\ e.goal = ed[b].goal /\ e.was = ed[b].was
      /\ \A a \in Editors \ {b} : ed'[a] = ed[a]
  BY <1>5, OnwardTypes DEF PortTypes, Onward
<1>7. e.pc \in {"begin", "record", "ok", "err", "load", "reset"} /\ (e.pc \in Steps => OnCourse(e))
  <2>1. Ended(b, e) => e.pc \in {"begin", "record", "ok"} /\ (e.pc \in Steps => OnCourse(e))
    BY <1>1, <1>2, <1>5, EndCourse
  <2>2. ASSUME backend # "podman", e.todo = ed[b].todo, e.pc = (IF backend = "lima" THEN "load" ELSE "reset")
        PROVE  e.pc \in {"load", "reset"} /\ OnCourse(e)
    BY <1>1, <1>2, <1>6, <2>2 DEF OnCourse, Op, Edits, PortTypes
  <2> QED  BY <1>5, <2>1, <2>2 DEF Steps
<1>8. Frame(b)
  <2>1. PortTypes'
    BY <1>1, <1>3, <1>5, <1>6 DEF PortTypes
  <2>2. Busy(b)' => OnCourse(ed[b])'
    BY <1>1, <1>6, <1>7 DEF Busy, OnCourse, Tasks
  <2> QED  BY <1>1, <1>5, <1>6, <2>1, <2>2 DEF Frame
<1> HIDE DEF new
<1>9. ASSUME Before(b) PROVE After(b)
  <2>1. FileOf(b)' /\ LoadedOf(b)'
    BY <1>1, <1>5, <1>6, <1>7, <1>9, SameFile
  <2>2. ~EndsLone(b)
    BY <1>5, <1>6 DEF EndsLone
  <2>3. ASSUME Bound(b)' PROVE Kept(b)'
    <3>1. Bound(b) /\ backend # "podman" /\ missed' = missed
      BY <1>1, <1>3, <1>5, <1>6, <2>3 DEF Bound, Lone
    <3>0. e.seen = new
      BY <1>3, <1>5, <3>1, <1>1, <1>6, <2>3 DEF Bound
    <3>2. /\ Rules(ed[b].vm) \in RuleSets /\ Reach(b) = Rules(ed[b].vm) /\ Reach(b)' = new
          /\ e.todo = ed[b].todo /\ e.pc \in {"load", "reset"}
      BY <1>1, <1>3, <1>5, <1>6, <3>0, <3>1, RulesTyped DEF Reach, Editing, Resizing, Op, Edits
    <3>3. KeepsOthers(b) /\ DoesItsOwn(b)
      BY <1>9, <3>1 DEF Before, Kept
    <3>4. Now(b).host \in Named(b) /\ Named(b)' = Named(b) /\ Crossed(b)' = Crossed(b)
      <4>1. 1 \in 1..Len(ed[b].todo) /\ Now(b) = ed[b].todo[1]
        BY <1>3, HeadIsFirst
      <4>2. Now(b).host \in Named(b)
        BY <1>3, <3>3, <4>1 DEF KeepsOthers, OthersStay
      <4> QED  BY <1>1, <1>6, <3>2, <4>2 DEF Named, Crossed, Now
    <3>5. KeepsOthers(b)'
      <4>1. /\ DOMAIN new \ Named(b) = DOMAIN Reach(b) \ Named(b)
            /\ \A h \in DOMAIN Reach(b) \ Named(b) : new[h] = Reach(b)[h]
        BY <3>2, <3>4 DEF With, new
      <4>2. /\ DOMAIN new \ Named(b) = DOMAIN ed[b].was \ Named(b)
            /\ \A h \in DOMAIN ed[b].was \ Named(b) : new[h] = ed[b].was[h]
        BY <3>3, <4>1 DEF KeepsOthers, OthersStay
      <4>3. \A i \in 1..Len(ed[b].todo) : ed[b].kind \in EditKinds => ed[b].todo[i].host \in Named(b)
        BY <3>3 DEF KeepsOthers, OthersStay
      <4> QED  BY <1>6, <3>2, <3>4, <4>2, <4>3 DEF KeepsOthers, OthersStay
    <3>6. DoesItsOwn(b)'
      <4>1. e.kind # "remove" /\ Now(b)' = Now(b) /\ Now(b).host \in DOMAIN new
        BY <1>1, <1>2, <1>6, <3>2 DEF OnCourse, Edits, Now, With, new
      <4>2. Rest(e) = Tail(ed[b].todo) /\ Rest(ed[b]) = ed[b].todo
        BY <1>1, <3>2 DEF Rest
      <4>3. e.kind \in {"configure", "create"} /\ ~Crossed(b) =>
              \A l \in DOMAIN e.goal : Settled(new, Tail(ed[b].todo), e.goal[l], GuestOf[l])
        <5>1. ASSUME e.kind \in {"configure", "create"}, ~Crossed(b), NEW l \in DOMAIN e.goal
              PROVE  Settled(Rules(ed[b].vm), ed[b].todo, e.goal[l], GuestOf[l])
          BY <1>6, <3>2, <3>3, <4>2, <5>1 DEF DoesItsOwn
        <5>2. ASSUME NEW h, NEW g, Settled(Rules(ed[b].vm), ed[b].todo, h, g)
              PROVE  Settled(new, Tail(ed[b].todo), h, g)
          <6>1. Settled(With(Rules(ed[b].vm), Head(ed[b].todo).host, Head(ed[b].todo).guest), Tail(ed[b].todo), h, g)
            BY <1>1, <1>3, <3>2, <5>2, SettleAdd
          <6> QED  BY <1>3, <6>1 DEF new
        <5> QED  BY <5>1, <5>2
      <4> QED  BY <1>6, <3>2, <3>4, <4>1, <4>2, <4>3 DEF DoesItsOwn
    <3>7. Unwritten(b)'
      <4>1. Rules(ed[b].vm)' = Rules(ed[b].vm)
        BY <1>1, <1>6, <3>1, SameRules
      <4>2. OthersStay(b, Rules(ed[b].vm))'
        BY <1>6, <3>2, <3>3, <3>4, <4>1 DEF KeepsOthers, OthersStay
      <4>3. Op(e) = "add"
        BY <1>1, <3>2 DEF Op
      <4> QED  BY <1>6, <4>2, <4>3 DEF Unwritten
    <3>8. Underway(b)'
      BY <1>6, <3>2, <3>7 DEF Underway
    <3> QED  BY <3>5, <3>6, <3>8 DEF Kept
  <2> QED  BY <2>1, <2>2, <2>3 DEF After
<1> QED  BY <1>8, <1>9

(* The rules with one less, or an error when it is not there.               *)
LEMMA RemovePortKeeps ==
  ASSUME PortTypes, OnTheirWay, NEW b \in Editors, RemovePort(b)
  PROVE  Frame(b) /\ (Before(b) => After(b))
<1>1. ed[b].pc = "begin" /\ Op(ed[b]) = "remove" /\ Busy(b) /\ UNCHANGED Unmoved
  BY DEF RemovePort, At, Now, Op, Busy
<1>2. OnCourse(ed[b])
  BY <1>1 DEF OnTheirWay
<1>3. /\ ed[b].kind \in EditKinds /\ ed[b].vm \in Vms /\ ed[b].todo # <<>> /\ ed[b] \in Tasks
      /\ Now(b) = Head(ed[b].todo)
  BY <1>1, <1>2, OpsOf DEF Edits, PortTypes, Now
<1> DEFINE new == Without(Rules(ed[b].vm), Now(b).host)
<1>4. new \in RuleSets
  BY <1>3, RulesTyped, RulesWithout
<1>5. PICK e \in Tasks :
        /\ Onward(b, e)
        /\ \/ /\ backend = "podman" \/ Now(b).host \notin DOMAIN Rules(ed[b].vm)
              /\ (Ended(b, e) /\ Len(ed[b].todo) # 1) \/ e.pc = "err"
           \/ /\ backend # "podman" /\ e.seen = new /\ e.todo = ed[b].todo
              /\ e.pc = (IF backend = "lima" THEN "load" ELSE "reset")
  <2>1. CASE backend = "podman" \/ Now(b).host \notin DOMAIN Rules(ed[b].vm)
    <3>1. PICK e \in Tasks : Onward(b, e) /\ ((Ended(b, e) /\ ~Now(b).must) \/ e.pc = "err")
      BY <1>3, <2>1, ReturnIll DEF RemovePort, PortsFixed, PortTypes
    <3>2. ~Now(b).must => Len(ed[b].todo) # 1
      <4> SUFFICES ASSUME Len(ed[b].todo) = 1 PROVE Now(b).must
        OBVIOUS
      <4>1. 1 \in 1..Len(ed[b].todo) /\ Now(b) = ed[b].todo[1] /\ Now(b).op \in Edits
        BY <1>1, <1>3, HeadIsFirst DEF Op, Edits
      <4> QED  BY <1>2, <4>1 DEF OnCourse
    <3> QED  BY <2>1, <3>1, <3>2
  <2>2. CASE ~(backend = "podman" \/ Now(b).host \notin DOMAIN Rules(ed[b].vm))
    <3>1. SetRules(b, new)
      BY <2>2 DEF RemovePort, PortsFixed
    <3> QED  BY <1>4, <2>2, <3>1, RulesMove DEF PortTypes
  <2> QED  BY <2>1, <2>2
<1>6. /\ ed' \in [Editors -> Tasks] /\ ed'[b] = e /\ e.vm = ed[b].vm /\ e.kind = ed[b].kind
      /\ e.goal = ed[b].goal /\ e.was = ed[b].was
      /\ \A a \in Editors \ {b} : ed'[a] = ed[a]
  BY <1>5, OnwardTypes DEF PortTypes, Onward
<1>7. e.pc \in {"begin", "record", "ok", "err", "load", "reset"} /\ (e.pc \in Steps => OnCourse(e))
  <2>1. Ended(b, e) => e.pc \in {"begin", "record", "ok"} /\ (e.pc \in Steps => OnCourse(e))
    BY <1>1, <1>2, <1>5, EndCourse
  <2>2. ASSUME backend # "podman", e.todo = ed[b].todo, e.pc = (IF backend = "lima" THEN "load" ELSE "reset")
        PROVE  e.pc \in {"load", "reset"} /\ OnCourse(e)
    BY <1>1, <1>2, <1>6, <2>2 DEF OnCourse, Op, Edits, PortTypes
  <2> QED  BY <1>5, <2>1, <2>2 DEF Steps
<1>8. Frame(b)
  <2>1. PortTypes'
    BY <1>1, <1>6 DEF PortTypes, Unmoved
  <2>2. Busy(b)' => OnCourse(ed[b])'
    BY <1>1, <1>6, <1>7 DEF Busy, OnCourse, Tasks, Unmoved
  <2> QED  BY <1>1, <1>6, <2>1, <2>2 DEF Frame, Unmoved
<1> HIDE DEF new
<1>9. Rules(ed[b].vm) \in RuleSets /\ Reach(b) = Rules(ed[b].vm)
  BY <1>1, <1>3, RulesTyped DEF Reach, Editing, Resizing
<1>10. ASSUME Before(b) PROVE After(b)
  <2>1. FileOf(b)' /\ LoadedOf(b)'
    BY <1>1, <1>6, <1>7, <1>10, SameFile DEF Unmoved
  <2>2. ASSUME Bound(b) PROVE KeepsOthers(b) /\ DoesItsOwn(b) /\ Rest(ed[b]) = ed[b].todo
    BY <1>1, <1>10, <2>2 DEF Before, Kept, Rest
  <2>3. CASE /\ backend = "podman" \/ Now(b).host \notin DOMAIN Rules(ed[b].vm)
             /\ (Ended(b, e) /\ Len(ed[b].todo) # 1) \/ e.pc = "err"
    <3>1. backend # "podman" => Rules(ed[b].vm)' = Reach(b)
      BY <1>1, <1>6, <1>9, SameRules DEF Unmoved
    <3>2. backend # "podman" /\ Bound(b) => Achieves(b)
      <4> SUFFICES ASSUME backend # "podman", Bound(b) PROVE Achieves(b)
        OBVIOUS
      <4>1. ed[b].kind # "add" /\ Now(b).host \notin DOMAIN Reach(b)
        BY <1>1, <1>2, <1>9, <2>3 DEF OnCourse, Edits
      <4>2. ed[b].kind \in {"configure", "create"} /\ ~Crossed(b) =>
              \A l \in DOMAIN ed[b].goal : Settled(Reach(b), Tail(ed[b].todo), ed[b].goal[l], GuestOf[l])
        BY <1>1, <1>3, <1>9, <2>2, SettleRemove DEF DoesItsOwn
      <4> QED  BY <4>1, <4>2 DEF Achieves, Achieved
    <3>3. (backend # "podman" /\ (backend = "wsl2" /\ ed[b].kind \in EditKinds => ed[b].vm \notin missed'))
             => Bound(b) /\ Rules(ed[b].vm)' = Reach(b)
      BY <1>1, <1>10, <3>1 DEF Bound, Before, Unmoved
    <3>4. CASE backend # "podman"
      <4>1. /\ Bound(b)' => Kept(b)'
            /\ EndsLone(b) => Outcome(b)
        <5>1. (Bound(b) => Achieves(b)) /\ (Ended(b, e) \/ e.pc = "err") /\ UNCHANGED <<backend, record>>
          BY <1>1, <2>3, <3>2, <3>4 DEF Unmoved
        <5>2. /\ e.pc = "err" => ~Ended(b, e)
              /\ ~(Ended(b, e) /\ Len(ed[b].todo) = 1)
          BY <2>3 DEF Ended
        <5> QED  BY <1>1, <1>2, <1>5, <1>10, <3>3, <5>1, <5>2, EndAfter
      <4> QED  BY <2>1, <4>1 DEF After
    <3>5. CASE backend = "podman"
      BY <1>1, <2>1, <3>5 DEF After, Bound, Unmoved, EndsLone
    <3> QED  BY <3>4, <3>5
  <2>4. CASE /\ backend # "podman" /\ e.seen = new /\ e.todo = ed[b].todo
             /\ e.pc = (IF backend = "lima" THEN "load" ELSE "reset")
    <3>1. ~EndsLone(b)
      BY <1>6, <2>4 DEF EndsLone
    <3>2. ASSUME Bound(b)' PROVE Kept(b)'
      <4>1. Bound(b)
        BY <1>1, <1>6, <3>2 DEF Bound, Unmoved, Lone
      <4>2. Reach(b)' = new /\ e.pc \in {"load", "reset"}
        BY <1>1, <1>6, <2>4 DEF Reach, Editing, Op, Edits
      <4>3. KeepsOthers(b) /\ DoesItsOwn(b) /\ Rest(ed[b]) = ed[b].todo
        BY <2>2, <4>1
      <4>4. Now(b).host \in Named(b) /\ Named(b)' = Named(b) /\ Crossed(b)' = Crossed(b)
        <5>1. 1 \in 1..Len(ed[b].todo) /\ Now(b) = ed[b].todo[1]
          BY <1>3, HeadIsFirst
        <5>2. Now(b).host \in Named(b)
          BY <1>3, <4>3, <5>1 DEF KeepsOthers, OthersStay
        <5> QED  BY <1>1, <1>6, <2>4, <5>2 DEF Named, Crossed, Now, Unmoved
      <4>5. KeepsOthers(b)'
        <5>1. /\ DOMAIN new \ Named(b) = DOMAIN Reach(b) \ Named(b)
              /\ \A h \in DOMAIN Reach(b) \ Named(b) : new[h] = Reach(b)[h]
          BY <1>9, <4>4 DEF Without, Restrict, new
        <5>2. /\ DOMAIN new \ Named(b) = DOMAIN ed[b].was \ Named(b)
              /\ \A h \in DOMAIN ed[b].was \ Named(b) : new[h] = ed[b].was[h]
          BY <4>3, <5>1 DEF KeepsOthers, OthersStay
        <5>3. \A i \in 1..Len(ed[b].todo) : ed[b].kind \in EditKinds => ed[b].todo[i].host \in Named(b)
          BY <4>3 DEF KeepsOthers, OthersStay
        <5> QED  BY <1>6, <2>4, <4>2, <4>4, <5>2, <5>3 DEF KeepsOthers, OthersStay
      <4>6. DoesItsOwn(b)'
        <5>1. e.kind # "add" /\ Now(b)' = Now(b) /\ Now(b).host \notin DOMAIN new
          BY <1>1, <1>2, <1>6, <2>4 DEF OnCourse, Edits, Now, Without, Restrict, new
        <5>2. Rest(e) = Tail(ed[b].todo)
          BY <2>4, <4>2 DEF Rest
        <5>3. e.kind \in {"configure", "create"} /\ ~Crossed(b) =>
                \A l \in DOMAIN e.goal : Settled(new, Tail(ed[b].todo), e.goal[l], GuestOf[l])
          BY <1>1, <1>3, <1>6, <1>9, <4>3, SettleRemove DEF DoesItsOwn, new
        <5> QED  BY <1>6, <4>2, <4>4, <5>1, <5>2, <5>3 DEF DoesItsOwn
      <4>7. Unwritten(b)'
        <5>1. Rules(ed[b].vm)' = Rules(ed[b].vm)
          BY <1>1, <1>6, <2>4, SameRules DEF Unmoved
        <5>2. OthersStay(b, Rules(ed[b].vm))'
          BY <1>6, <1>9, <4>3, <4>4, <5>1 DEF KeepsOthers, OthersStay
        <5>3. ed[b].kind \in {"configure", "create"} /\ ~Crossed(b) =>
                \A l \in DOMAIN ed[b].goal : Settled(Rules(ed[b].vm), Tail(ed[b].todo), ed[b].goal[l], GuestOf[l])
          BY <1>1, <1>3, <1>9, <4>3, SettleRemove DEF DoesItsOwn
        <5> QED  BY <1>6, <2>4, <4>4, <5>1, <5>2, <5>3 DEF Unwritten
      <4>8. Underway(b)'
        BY <1>6, <4>2, <4>7 DEF Underway
      <4> QED  BY <4>5, <4>6, <4>8 DEF Kept
    <3> QED  BY <2>1, <3>1, <3>2 DEF After
  <2> QED  BY <1>5, <2>3, <2>4
<1> QED  BY <1>8, <1>10

(* What is read before anything is written fails: a removal goes on, else    *)
(* the task ends, the rules as they were.                                    *)
LEMMA EditFailsKeeps ==
  ASSUME PortTypes, OnTheirWay, NEW b \in Editors, EditFails(b)
  PROVE  Frame(b) /\ (Before(b) => After(b))
<1>1. /\ ed[b].pc \in {"begin", "load", "truncate"} /\ Busy(b) /\ UNCHANGED Unmoved /\ Returned(b, ed[b], FALSE)
      /\ ed[b].pc = "begin" => Now(b).op \in Edits \union {"size"}
  BY DEF EditFails, At, Busy, Edits
<1>2. OnCourse(ed[b])
  BY <1>1 DEF OnTheirWay
<1>3. /\ Op(ed[b]) \in Edits \union {"size"} /\ (Op(ed[b]) \in Edits <=> ed[b].kind \in EditKinds)
      /\ ed[b].vm \in Vms /\ ed[b].todo # <<>> /\ ed[b] \in Tasks /\ Op(ed[b]) = Now(b).op
  BY <1>1, <1>2, OpsOf DEF OnCourse, PortTypes
<1>4. ~Now(b).must => Op(ed[b]) = "remove" /\ ed[b].kind \in {"configure", "create"} /\ Len(ed[b].todo) > 1
  <2>1. /\ 1 \in 1..Len(ed[b].todo) /\ Now(b) = ed[b].todo[1] /\ Len(ed[b].todo) \in Nat \ {0}
    BY <1>3, HeadIsFirst DEF Now
  <2>2. /\ Now(b).op \in {"add", "size"} => Now(b).must
        /\ Now(b).op \in Edits /\ 1 = Len(ed[b].todo) => Now(b).must
    BY <1>2, <2>1 DEF OnCourse
  <2> DEFINE n == Len(ed[b].todo)
  <2>3. n \in Nat \ {0} /\ (~Now(b).must => Op(ed[b]) = "remove" /\ n # 1)
    BY <1>3, <2>1, <2>2 DEF Edits
  <2>4. ed[b].kind \in Edits => n = 1
    BY <1>2 DEF OnCourse
  <2> HIDE DEF n
  <2>5. ~Now(b).must => Op(ed[b]) = "remove" /\ n > 1 /\ ed[b].kind \in EditKinds \ Edits
    BY <1>3, <2>3, <2>4 DEF Edits
  <2> QED  BY <2>5 DEF n, EditKinds, Edits
<1>5. PICK e \in Tasks : Onward(b, e) /\ ((Ended(b, e) /\ ~Now(b).must) \/ e.pc = "err")
  BY <1>1, <1>3, ReturnIll DEF PortTypes
<1>6. /\ ed' \in [Editors -> Tasks] /\ ed'[b] = e /\ e.vm = ed[b].vm /\ e.kind = ed[b].kind
      /\ \A a \in Editors \ {b} : ed'[a] = ed[a]
  BY <1>5, OnwardTypes DEF PortTypes, Onward
<1>7. e.pc \in {"begin", "err"} /\ (e.pc \in Steps => OnCourse(e))
  <2>1. Ended(b, e) => (e.pc \in Steps => OnCourse(e))
    BY <1>1, <1>2, <1>5, EndCourse
  <2> QED  BY <1>4, <1>5, <2>1 DEF Steps, Ended
<1>8. Frame(b)
  <2>1. PortTypes'
    BY <1>1, <1>6 DEF PortTypes, Unmoved
  <2>2. Busy(b)' => OnCourse(ed[b])'
    BY <1>1, <1>6, <1>7 DEF Busy, OnCourse, Tasks, Unmoved
  <2> QED  BY <1>1, <1>6, <2>1, <2>2 DEF Frame, Unmoved
<1>9. ASSUME Before(b) PROVE After(b)
  <2>1. FileOf(b)' /\ LoadedOf(b)'
    BY <1>1, <1>6, <1>7, <1>9, SameFile DEF Unmoved
  <2>2. ASSUME Bound(b)
        PROVE  KeepsOthers(b) /\ OthersStay(b, Rules(ed[b].vm)) /\ Rules(ed[b].vm)' = Rules(ed[b].vm)
    <3>1. Kept(b) /\ backend # "podman"
      BY <1>9, <2>2 DEF Before, Bound
    <3>2. ed[b].pc = "begin" => Reach(b) = Rules(ed[b].vm)
      BY DEF Reach, Editing, Resizing
    <3>3. ed[b].pc # "begin" => Unwritten(b)
      BY <1>1, <3>1 DEF Kept, Underway
    <3>4. Rules(ed[b].vm)' = Rules(ed[b].vm)
      BY <1>1, <1>6, <3>1, SameRules DEF Unmoved
    <3> QED  BY <3>1, <3>2, <3>3, <3>4 DEF Kept, KeepsOthers, Unwritten
  <2>3. ASSUME Bound(b)' PROVE Kept(b)'
    <3>1. Bound(b) /\ e.pc = "begin" /\ Ended(b, e) /\ ~Now(b).must
      BY <1>1, <1>5, <1>6, <1>7, <2>3 DEF Bound, Busy, Unmoved, Lone
    <3>2. /\ Op(ed[b]) = "remove" /\ ed[b].kind \in {"configure", "create"}
          /\ KeepsOthers(b) /\ OthersStay(b, Rules(ed[b].vm)) /\ Rules(ed[b].vm)' = Rules(ed[b].vm)
      BY <1>4, <2>2, <3>1
    <3>3. ~Crossed(b) => \A l \in DOMAIN ed[b].goal :
                           Settled(Rules(ed[b].vm), Tail(ed[b].todo), ed[b].goal[l], GuestOf[l])
      <4>1. CASE ed[b].pc = "begin"
        <5>1. Reach(b) = Rules(ed[b].vm) /\ Rest(ed[b]) = ed[b].todo
          BY <4>1 DEF Reach, Editing, Resizing, Rest
        <5>2. Rules(ed[b].vm) \in RuleSets /\ DoesItsOwn(b)
          BY <1>3, <1>9, <3>1, RulesTyped DEF Before, Kept
        <5> QED  BY <1>3, <3>2, <5>1, <5>2, SettleRemove DEF DoesItsOwn
      <4>2. CASE ed[b].pc # "begin"
        BY <1>1, <1>9, <3>1, <3>2, <4>2 DEF Before, Kept, Underway, Unwritten
      <4> QED  BY <4>1, <4>2
    <3>4. Achieved(b, Rules(ed[b].vm))
      BY <3>2, <3>3 DEF Achieved
    <3>5. Word(b)'
      BY <1>1, <1>2, <1>5, <3>1, <3>2, <3>4, EndKeeps DEF PortTypes, Unmoved
    <3>6. Underway(b)'
      BY <1>6, <3>1 DEF Underway
    <3> QED  BY <3>5, <3>6 DEF Kept, Word
  <2>4. ASSUME EndsLone(b) PROVE Outcome(b)
    <3>1. e.pc = "err" /\ Bound(b)
      BY <1>1, <1>6, <1>7, <1>9, <2>4 DEF EndsLone, Bound, Before, Unmoved
    <3> QED  BY <1>6, <2>2, <3>1 DEF Outcome
  <2> QED  BY <2>1, <2>3, <2>4 DEF After
<1> QED  BY <1>8, <1>9

(* netsh's table is emptied, or the failure to do so passed over.           *)
LEMMA ResetKeeps ==
  ASSUME PortTypes, OnTheirWay, NEW b \in Editors, Reset(b)
  PROVE  Frame(b) /\ (Before(b) => After(b))
<1>1. /\ ed[b].pc = "reset" /\ Busy(b)
      /\ (netsh' = <<>> /\ missed' = missed) \/ (netsh' = netsh /\ missed' = missed \union {ed[b].vm})
      /\ UNCHANGED <<backend, yaml, running, live, record, spoiled>>
  BY DEF Reset, At, Busy, Pass
<1>2. OnCourse(ed[b])
  BY <1>1 DEF OnTheirWay
<1>3. /\ Op(ed[b]) \in Edits /\ backend = "wsl2" /\ ed[b].vm \in Vms /\ ed[b].todo # <<>> /\ ed[b] \in Tasks
      /\ ed[b].kind \in EditKinds
  BY <1>1, <1>2, OpsOf DEF OnCourse, PortTypes
<1>4. PICK e \in Tasks : /\ Onward(b, e) /\ e.pc = "forward" /\ e.todo = ed[b].todo
                         /\ e.seen = ed[b].seen /\ e.left = ed[b].seen
  <2> DEFINE e == [ed[b] EXCEPT !.pc = "forward", !.left = ed[b].seen]
  <2>1. /\ e \in Tasks /\ e.vm = ed[b].vm /\ e.kind = ed[b].kind /\ e.goal = ed[b].goal /\ e.was = ed[b].was
        /\ e.pc = "forward" /\ e.todo = ed[b].todo /\ e.seen = ed[b].seen /\ e.left = ed[b].seen
    BY <1>3 DEF Tasks, Steps
  <2>2. ed' = [ed EXCEPT ![b] = e]
    BY DEF Reset
  <2> QED  BY <2>1, <2>2 DEF Onward
<1>5. /\ ed' \in [Editors -> Tasks] /\ ed'[b] = e /\ e.vm = ed[b].vm /\ e.kind = ed[b].kind
      /\ \A a \in Editors \ {b} : ed'[a] = ed[a]
  BY <1>4, OnwardTypes DEF PortTypes, Onward
<1>6. Frame(b)
  <2>1. netsh' \in UNION {[S -> [guest : Guests, to : Vms]] : S \in SUBSET Hosts} /\ missed' \subseteq Vms
    <3>1. \A D : <<>> \in [{} -> D]
      OBVIOUS
    <3>2. <<>> \in UNION {[S -> [guest : Guests, to : Vms]] : S \in SUBSET Hosts}
      BY <3>1
    <3>3. netsh \in UNION {[S -> [guest : Guests, to : Vms]] : S \in SUBSET Hosts}
      BY DEF PortTypes
    <3>4. missed' \subseteq Vms
      BY <1>1, <1>3 DEF PortTypes
    <3> QED  BY <1>1, <3>2, <3>3, <3>4
  <2>2. PortTypes'
    BY <1>1, <1>5, <2>1 DEF PortTypes
  <2>3. OnCourse(ed[b])'
    BY <1>1, <1>2, <1>3, <1>4, <1>5 DEF OnCourse, Op, Edits, Onward
  <2> QED  BY <1>1, <1>3, <1>5, <2>2, <2>3 DEF Frame
<1>7. ASSUME Before(b) PROVE After(b)
  <2>1. FileOf(b)' /\ LoadedOf(b)'
    BY <1>1, <1>3, <1>4, <1>5, <1>7 DEF FileOf, LoadedOf, Before
  <2>2. ASSUME Bound(b)' PROVE Kept(b)'
    <3>1. Bound(b) /\ netsh' = <<>>
      BY <1>1, <1>3, <1>5, <2>2 DEF Bound, Lone
    <3>2. Reach(b)' = Reach(b)
      BY <1>1, <1>3, <1>4, <1>5 DEF Reach, Editing, Op
    <3>3. Word(b)'
      BY <1>1, <1>4, <1>7, <3>1, <3>2, StayKeeps DEF Before, Kept, Word, PortTypes
    <3>4. DOMAIN netsh' = {}
      BY <3>1
    <3>5. Underway(b)'
      BY <1>4, <1>5, <3>4 DEF Underway
    <3> QED  BY <3>3, <3>5 DEF Kept, Word
  <2> QED  BY <1>4, <1>5, <2>1, <2>2 DEF After, EndsLone
<1> QED  BY <1>6, <1>7

(* One rule is led to the VM, which it wakes; none is left; or one fails.   *)
LEMMA ForwardKeeps ==
  ASSUME PortTypes, OnTheirWay, NEW b \in Editors, Forward(b)
  PROVE  Frame(b) /\ (Before(b) => After(b))
<1>1. /\ ed[b].pc = "forward" /\ Busy(b)
      /\ UNCHANGED <<backend, yaml, live, record, spoiled>>
  BY DEF Forward, At, Busy
<1>2. OnCourse(ed[b])
  BY <1>1 DEF OnTheirWay
<1>3. /\ Op(ed[b]) \in Edits /\ backend = "wsl2" /\ ed[b].vm \in Vms /\ ed[b].todo # <<>> /\ ed[b] \in Tasks
      /\ ed[b].kind \in EditKinds /\ ed[b].left \in RuleSets /\ ed[b].seen \in RuleSets
      /\ DOMAIN ed[b].left \subseteq Hosts /\ \A h \in DOMAIN ed[b].left : ed[b].left[h] \in Guests
  <2>1. /\ Op(ed[b]) \in Edits /\ backend = "wsl2" /\ ed[b].vm \in Vms /\ ed[b].todo # <<>> /\ ed[b] \in Tasks
        /\ ed[b].kind \in EditKinds
    BY <1>1, <1>2, OpsOf DEF OnCourse, PortTypes
  <2>2. ed[b].left \in RuleSets /\ ed[b].seen \in RuleSets
    BY <2>1 DEF Tasks
  <2> QED  BY <2>1, <2>2, PortsOfRules
<1> DEFINE goesOn == ed[b].left = <<>> /\ Returned(b, ed[b], TRUE) /\ UNCHANGED <<netsh, running, missed>>
           gives == ed[b].left # <<>> /\ Returned(b, ed[b], FALSE) /\ Pass(ed[b].vm, TRUE) /\ UNCHANGED <<netsh, running>>
           leads(h) == /\ UNCHANGED missed /\ running' = [running EXCEPT ![ed[b].vm] = TRUE]
                       /\ netsh' = With(netsh, h, [guest |-> ed[b].left[h], to |-> ed[b].vm])
                       /\ ed' = [ed EXCEPT ![b].left = Without(ed[b].left, h)]
<1>4. goesOn \/ gives \/ \E h \in DOMAIN ed[b].left : leads(h)
  BY DEF Forward
<1>5. ASSUME goesOn \/ gives PROVE Frame(b) /\ (Before(b) => After(b))
  <2>1. PICK e \in Tasks : Onward(b, e) /\ (Ended(b, e) \/ e.pc = "err")
    <3>1. PICK ok \in BOOLEAN : Returned(b, ed[b], ok)
      BY <1>5
    <3> QED  BY <1>3, <3>1, ReturnSomehow DEF PortTypes
  <2>2. /\ ed' \in [Editors -> Tasks] /\ ed'[b] = e /\ e.vm = ed[b].vm /\ e.kind = ed[b].kind
        /\ \A a \in Editors \ {b} : ed'[a] = ed[a]
    BY <2>1, OnwardTypes DEF PortTypes, Onward
  <2>3. e.pc \in {"begin", "record", "ok", "err"} /\ (e.pc \in Steps => OnCourse(e))
    <3>1. Ended(b, e) => e.pc \in {"begin", "record", "ok"} /\ (e.pc \in Steps => OnCourse(e))
      BY <1>1, <1>2, <2>1, EndCourse
    <3> QED  BY <2>1, <3>1 DEF Steps
  <2>4. /\ UNCHANGED <<netsh, running>>
        /\ (missed' = missed /\ ed[b].left = <<>>) \/ missed' = missed \union {ed[b].vm}
    BY <1>5 DEF Pass
  <2>0. ed[b].vm \notin missed' => e.pc # "err" /\ ed[b].left = <<>>
    <3>1. gives => missed' = missed \union {ed[b].vm}
      BY DEF Pass
    <3>2. goesOn => e.pc # "err"
      <4>1. goesOn => \E x \in Tasks : Onward(b, x) /\ Ended(b, x)
        BY <1>3, ReturnWell DEF PortTypes
      <4>2. \A x \in Tasks : Onward(b, x) => x = e
        BY <2>1 DEF Onward, PortTypes
      <4> QED  BY <4>1, <4>2 DEF Ended
    <3> QED  BY <1>5, <3>1, <3>2
  <2>5. Frame(b)
    <3>1. PortTypes'
      BY <1>1, <1>3, <2>2, <2>4 DEF PortTypes
    <3>2. Busy(b)' => OnCourse(ed[b])'
      BY <1>1, <2>2, <2>3 DEF Busy, OnCourse, Tasks
    <3> QED  BY <1>1, <2>2, <2>4, <3>1, <3>2 DEF Frame
  <2>6. ASSUME Before(b) PROVE After(b)
    <3>1. FileOf(b)' /\ LoadedOf(b)'
      BY <1>1, <1>3, <2>2, <2>3, <2>6 DEF FileOf, LoadedOf, Before
    <3>2. ed[b].vm \notin missed' => Bound(b) /\ Rules(ed[b].vm)' = Reach(b)
      <4> SUFFICES ASSUME ed[b].vm \notin missed' PROVE Bound(b) /\ Rules(ed[b].vm)' = Reach(b)
        OBVIOUS
      <4>1. missed' = missed /\ ed[b].left = <<>> /\ DOMAIN ed[b].left = {}
        BY <2>4, NoRules
      <4>2. Bound(b)
        BY <1>1, <1>3, <2>6, <4>1 DEF Bound, Before
      <4>3. DOMAIN netsh = DOMAIN ed[b].seen /\ \A h \in DOMAIN netsh : netsh[h].guest = ed[b].seen[h]
        BY <1>1, <2>6, <4>1, <4>2 DEF Before, Kept, Underway
      <4>4. NetshRules = ed[b].seen
        BY <1>3, <4>3 DEF NetshRules, RuleSets
      <4>5. Rules(ed[b].vm)' = Rules(ed[b].vm)
        BY <1>1, <1>3, <2>2, <2>4, SameRules
      <4>6. Rules(ed[b].vm) = ed[b].seen /\ Reach(b) = ed[b].seen
        BY <1>1, <1>3, <4>4 DEF Rules, Reach, Editing
      <4> QED  BY <4>2, <4>5, <4>6
    <3>3. (backend # "podman" /\ (backend = "wsl2" /\ ed[b].kind \in EditKinds => ed[b].vm \notin missed'))
            => Bound(b) /\ Rules(ed[b].vm)' = Reach(b)
      BY <1>3, <3>2
    <3>4. /\ Bound(b)' => Kept(b)'
          /\ EndsLone(b) => Outcome(b)
      <4>1. ed[b].vm \notin missed' => Turned(b)'
        <5> SUFFICES ASSUME ed[b].vm \notin missed' PROVE Turned(b)'
          OBVIOUS
        <5>1. Bound(b) /\ DOMAIN ed[b].left = {}
          BY <2>0, <3>2, NoRules
        <5>2. \A h \in DOMAIN netsh : netsh[h].to = ed[b].vm
          BY <1>1, <2>6, <5>1 DEF Before, Kept, Underway
        <5> QED  BY <2>2, <2>4, <5>2 DEF Turned
      <4>2. UNCHANGED <<backend, record>>
        BY <1>1
      <4> QED  BY <1>1, <1>2, <2>1, <2>6, <3>3, <4>1, <4>2, EndAfter
    <3> QED  BY <3>1, <3>4 DEF After
  <2> QED  BY <2>5, <2>6
<1>6. ASSUME NEW h \in DOMAIN ed[b].left, leads(h) PROVE Frame(b) /\ (Before(b) => After(b))
  <2> DEFINE e == [ed[b] EXCEPT !.left = Without(ed[b].left, h)]
  <2>1. /\ e \in Tasks /\ e.vm = ed[b].vm /\ e.kind = ed[b].kind /\ e.goal = ed[b].goal /\ e.was = ed[b].was
        /\ e.pc = "forward" /\ e.todo = ed[b].todo /\ e.seen = ed[b].seen /\ e.left = Without(ed[b].left, h)
    BY <1>1, <1>3, RulesWithout DEF Tasks
  <2>2. ed' = [ed EXCEPT ![b] = e]
    BY <1>6
  <2> HIDE DEF e
  <2>3. Onward(b, e)
    BY <2>1, <2>2 DEF Onward
  <2>4. ed' \in [Editors -> Tasks] /\ ed'[b] = e /\ \A a \in Editors \ {b} : ed'[a] = ed[a]
    BY <2>1, <2>3, OnwardTypes DEF PortTypes
  <2>5. /\ missed' = missed /\ running' = [running EXCEPT ![ed[b].vm] = TRUE]
        /\ netsh' = With(netsh, h, [guest |-> ed[b].left[h], to |-> ed[b].vm])
    BY <1>6
  <2>6. /\ DOMAIN netsh' = DOMAIN netsh \union {h}
        /\ \A x \in DOMAIN netsh' : netsh'[x] = IF x = h THEN [guest |-> ed[b].left[h], to |-> ed[b].vm] ELSE netsh[x]
    BY <2>5 DEF With
  <2>7. Frame(b)
    <3>1. netsh' \in UNION {[S -> [guest : Guests, to : Vms]] : S \in SUBSET Hosts}
      <4>1. PICK S \in SUBSET Hosts : netsh \in [S -> [guest : Guests, to : Vms]]
        BY DEF PortTypes
      <4>2. [guest |-> ed[b].left[h], to |-> ed[b].vm] \in [guest : Guests, to : Vms] /\ h \in Hosts
        BY <1>3
      <4>3. netsh' \in [S \union {h} -> [guest : Guests, to : Vms]]
        BY <2>5, <4>1, <4>2 DEF With
      <4> QED  BY <4>2, <4>3
    <3>2. PortTypes'
      BY <1>1, <1>3, <2>4, <2>5, <3>1 DEF PortTypes
    <3>3. OnCourse(ed[b])'
      BY <1>1, <1>2, <1>3, <2>1, <2>4 DEF OnCourse, Op, Edits
    <3>4. \A v \in Vms \ {ed[b].vm} : running'[v] = running[v]
      BY <2>5 DEF PortTypes
    <3> QED  BY <1>1, <1>3, <2>1, <2>4, <2>5, <3>2, <3>3, <3>4 DEF Frame
  <2>8. ASSUME Before(b) PROVE After(b)
    <3>1. FileOf(b)' /\ LoadedOf(b)'
      BY <1>1, <1>3, <2>1, <2>4, <2>8 DEF FileOf, LoadedOf, Before
    <3>2. ASSUME Bound(b)' PROVE Kept(b)'
      <4>1. Bound(b)
        BY <1>1, <1>3, <2>1, <2>4, <2>5, <3>2 DEF Bound, Lone
      <4>2. Reach(b)' = Reach(b)
        BY <1>1, <1>3, <2>1, <2>4 DEF Reach, Editing, Op
      <4>3. Word(b)'
        BY <1>1, <2>1, <2>3, <2>8, <4>1, <4>2, StayKeeps DEF Before, Kept, Word, PortTypes
      <4>4. /\ DOMAIN netsh \union DOMAIN ed[b].left = DOMAIN ed[b].seen
            /\ \A x \in DOMAIN ed[b].left : ed[b].left[x] = ed[b].seen[x]
            /\ \A x \in DOMAIN netsh \ DOMAIN ed[b].left : netsh[x].guest = ed[b].seen[x] /\ netsh[x].to = ed[b].vm
        BY <1>1, <2>8, <4>1 DEF Before, Kept, Underway
      <4>5. DOMAIN e.left = DOMAIN ed[b].left \ {h} /\ \A x \in DOMAIN e.left : e.left[x] = ed[b].left[x]
        BY <2>1 DEF Without, Restrict
      <4>6. \A x \in DOMAIN netsh' \ DOMAIN e.left : netsh'[x].guest = ed[b].seen[x] /\ netsh'[x].to = ed[b].vm
        BY <1>6, <2>6, <4>4, <4>5
      <4>7. DOMAIN netsh' \union DOMAIN e.left = DOMAIN ed[b].seen
        BY <1>6, <2>6, <4>4, <4>5
      <4>8. Underway(b)'
        BY <2>1, <2>4, <4>4, <4>5, <4>6, <4>7 DEF Underway
      <4> QED  BY <4>3, <4>8 DEF Kept, Word
    <3> QED  BY <2>1, <2>4, <3>1, <3>2 DEF After, EndsLone
  <2> QED  BY <2>7, <2>8
<1> QED  BY <1>4, <1>5, <1>6
-----------------------------------------------------------------------------
(* The whole: one editor moves, the others see nothing of it.                *)

LEMMA DieFrames ==
  ASSUME PortTypes, NEW b \in Editors, OnTheirWay, Die(b)
  PROVE  Busy(b) /\ Frame(b) /\ ~Busy(b)' /\ ~Lone(ed[b].vm)'
<1>1. /\ Busy(b) /\ EdGoto(b, "err") /\ spoiled' = spoiled \union {w \in Vms : SamePlace(ed[b].vm, w)}
      /\ UNCHANGED <<backend, yaml, netsh, running, live, record, missed>>
  BY DEF Die, Spoil
<1>2. ed[b].vm \in Vms /\ ed[b] \in Tasks
  BY <1>1 DEF OnTheirWay, OnCourse, PortTypes
<1>3. PICK e \in Tasks : Onward(b, e) /\ e.pc = "err"
  <2>1. PICK e \in Tasks : Onward(b, e) /\ e = [ed[b] EXCEPT !.pc = "err"]
    BY <1>1, GotoMoves DEF PortTypes
  <2> QED  BY <1>2, <2>1 DEF Tasks
<1>4. ed' \in [Editors -> Tasks] /\ ed'[b] = e /\ e.vm = ed[b].vm /\ \A a \in Editors \ {b} : ed'[a] = ed[a]
  BY <1>3, OnwardTypes DEF PortTypes
<1>5. ~Busy(b)'
  BY <1>3, <1>4 DEF Busy
<1>6. PortTypes'
  BY <1>1, <1>4 DEF PortTypes
<1>7. ~Lone(ed[b].vm)'
  BY <1>1, <1>2, <1>4 DEF Lone, SamePlace
<1> QED  BY <1>1, <1>4, <1>5, <1>6, <1>7 DEF Frame

LEMMA FillFailsFrames ==
  ASSUME PortTypes, NEW b \in Editors, OnTheirWay, FillFails(b)
  PROVE  Frame(b) /\ ~Lone(ed[b].vm)'
<1>1. /\ ed[b].pc = "fill" /\ Busy(b) /\ Returned(b, ed[b], FALSE)
      /\ spoiled' = spoiled \union {w \in Vms : SamePlace(ed[b].vm, w)}
      /\ UNCHANGED <<backend, yaml, netsh, running, live, record, missed>>
  BY DEF FillFails, Spoil, At, Busy
<1>2. OnCourse(ed[b]) /\ ed[b].vm \in Vms /\ ed[b].todo # <<>> /\ ed[b] \in Tasks
  BY <1>1 DEF OnTheirWay, OnCourse, PortTypes
<1>3. PICK e \in Tasks : Onward(b, e) /\ (Ended(b, e) \/ e.pc = "err")
  BY <1>1, <1>2, ReturnSomehow DEF PortTypes
<1>4. ed' \in [Editors -> Tasks] /\ ed'[b] = e /\ e.vm = ed[b].vm /\ \A a \in Editors \ {b} : ed'[a] = ed[a]
  BY <1>3, OnwardTypes DEF PortTypes
<1>5. e.pc \in Steps => OnCourse(e)
  BY <1>1, <1>2, <1>3, EndCourse DEF Steps
<1>6. PortTypes'
  BY <1>1, <1>4 DEF PortTypes
<1>7. Busy(b)' => OnCourse(ed[b])'
  BY <1>1, <1>4, <1>5 DEF Busy, OnCourse, Tasks
<1>8. ~Lone(ed[b].vm)'
  BY <1>1, <1>2, <1>4 DEF Lone, SamePlace
<1> QED  BY <1>1, <1>4, <1>6, <1>7, <1>8 DEF Frame

LEMMA EditKeeps ==
  ASSUME PortTypes, NEW b \in Editors, OnTheirWay, Edit(b)
  PROVE  Busy(b) /\ Frame(b) /\ (Before(b) /\ Lone(ed[b].vm)' => After(b))
<1>1. Busy(b)
  BY DEF Edit, Busy, At, AddPort, RemovePort, BeginPower, LoadSize, Load, Truncate, Fill, Probe, Stop, Start, Reset,
         Forward, Record, EditFails, FillFails
<1>2. Frame(b) /\ (Before(b) /\ Lone(ed[b].vm)' => After(b))
  BY AddPortKeeps, RemovePortKeeps, BeginPowerKeeps, LoadSizeKeeps, LoadKeeps, PortsTruncateKeeps, FillKeeps, ProbeKeeps,
     StopKeeps, StartKeeps, ResetKeeps, ForwardKeeps, RecordKeeps, EditFailsKeeps, FillFailsFrames DEF Edit
<1> QED  BY <1>1, <1>2

\* What the invariants say of an editor whose VM nobody has spoiled.
LEMMA OwnBefore ==
  ASSUME PortsIInv, NEW b \in Editors, Busy(b), Lone(ed[b].vm)
  PROVE  Before(b)
<1> DEFINE v == ed[b].vm
<1>1. OnCourse(ed[b]) /\ v \in Vms
  BY DEF PortsIInv, OnTheirWay, OnCourse
<1>2. \A a \in Editors \ {b} : Busy(a) => ed[a].vm # v
  BY DEF PortsIInv, Meetings, SamePlace
<1>3. \A a \in Editors \ {b} : ~Fills(a, v) /\ ~Reloads(a, v) /\ ~Refills(a, v)
  BY <1>2 DEF Fills, Reloads, Refills, At, Busy
<1>4. FileOf(b)
  BY <1>1, <1>3 DEF PortsIInv, WholeFiles, FileOf, Fills, At
<1>5. LoadedOf(b)
  <2> SUFFICES ASSUME backend = "lima", running[v], v \notin missed
               PROVE  \/ ed[b].pc \in {"fill", "probe", "stop"} /\ Op(ed[b]) \in Edits
                      \/ ed[b].pc = "fill" /\ Op(ed[b]) = "size" /\ ed[b].seen = live[v]
                      \/ ed[b].pc # "fill" /\ yaml[v].rules = live[v]
    BY DEF LoadedOf
  <2>1. \/ \E a \in Editors : Reloads(a, v)
        \/ \E a \in Editors : Refills(a, v) /\ ed[a].seen = live[v]
        \/ (\A a \in Editors : ~Refills(a, v)) /\ yaml[v].rules = live[v]
    BY <1>1 DEF PortsIInv, LoadedRules
  <2>2. CASE \E a \in Editors : Reloads(a, v)
    BY <1>3, <2>2 DEF Reloads
  <2>3. CASE \E a \in Editors : Refills(a, v) /\ ed[a].seen = live[v]
    BY <1>3, <2>3 DEF Refills, Fills, At
  <2>4. CASE (\A a \in Editors : ~Refills(a, v)) /\ yaml[v].rules = live[v]
    <3>1. ed[b].pc = "fill" => Op(ed[b]) \in Edits
      BY <1>1, <2>4 DEF Refills, Fills, At, OnCourse
    <3> QED  BY <2>4, <3>1
  <2> QED  BY <2>1, <2>2, <2>3, <2>4
<1> QED  BY <1>4, <1>5 DEF PortsIInv, WordKept, Before

\* What is kept of a task that no step concerns.
LEMMA OthersKept ==
  ASSUME PortTypes, NEW a \in Editors, ed[a]' = ed[a], UNCHANGED backend, backend # "podman",
         record[ed[a].vm]' = record[ed[a].vm], yaml[ed[a].vm]' = yaml[ed[a].vm], backend = "wsl2" => UNCHANGED netsh,
         OnCourse(ed[a]), Kept(a)
  PROVE  Kept(a)'
<1>1. Rules(ed[a].vm)' = Rules(ed[a].vm)
  BY SameRules
<1>2. Reach(a)' = Reach(a)
  BY <1>1 DEF Reach
<1>3. Named(a)' = Named(a) /\ Crossed(a)' = Crossed(a)
  BY DEF Named, Crossed, Now
<1>4. KeepsOthers(a)'
  BY <1>2, <1>3 DEF Kept, KeepsOthers, OthersStay
<1>5. DoesItsOwn(a)'
  BY <1>2, <1>3 DEF Kept, DoesItsOwn, Now
<1>6. Unwritten(a) => Unwritten(a)'
  BY <1>1, <1>3 DEF Unwritten, OthersStay
<1>7. Turned(a) => Turned(a)'
  BY DEF Turned
<1>8. Underway(a)'
  BY <1>6, <1>7 DEF Kept, Underway, OnCourse
<1> QED  BY <1>4, <1>5, <1>8 DEF Kept

LEMMA MoveKeeps ==
  ASSUME PortsIInv, NEW b \in Editors, Busy(b), Frame(b), Lone(ed[b].vm)' => After(b)
  PROVE  PortsIInv'
<1> DEFINE v == ed[b].vm
<1>1. /\ v \in Vms /\ ed'[b].vm = v /\ \A a \in Editors \ {b} : ed'[a] = ed[a]
      /\ backend' = backend /\ (backend # "wsl2" => netsh' = netsh)
      /\ spoiled' = spoiled \/ spoiled' = spoiled \union {w \in Vms : SamePlace(v, w)}
  BY DEF PortsIInv, OnTheirWay, OnCourse, Frame
<1>2. PortTypes' /\ OnTheirWay'
  <2>1. ASSUME NEW a \in Editors, Busy(a)' PROVE OnCourse(ed[a])'
    <3>1. CASE a = b
      BY <2>1, <3>1 DEF Frame
    <3>2. CASE a # b
      <4>1. ed'[a] = ed[a] /\ Busy(a) /\ OnCourse(ed[a])
        BY <1>1, <2>1, <3>2 DEF Busy, OnTheirWay, PortsIInv
      <4> QED  BY <1>1, <4>1 DEF OnCourse
    <3> QED  BY <3>1, <3>2
  <2> QED  BY <2>1 DEF Frame, OnTheirWay
<1>3. Meetings'
  <2>1. \A w, x \in Vms : SamePlace(w, x) /\ w \in spoiled' => x \in spoiled'
    BY <1>1 DEF PortsIInv, Meetings, Lone, SamePlace
  <2>2. \A a \in Editors : Busy(a)' => Busy(a) /\ ed'[a].vm = ed[a].vm
    BY <1>1 DEF Busy
  <2>3. \A a, c \in Editors : (a # c /\ Busy(a) /\ Busy(c) /\ SamePlace(ed[a].vm, ed[c].vm)) => ed[a].vm \in spoiled'
    BY <1>1 DEF PortsIInv, Meetings, Lone
  <2> QED  BY <1>1, <2>1, <2>2, <2>3 DEF Meetings, Lone, SamePlace
<1>4. \A a \in Editors \ {b} : Busy(a) /\ Lone(ed[a].vm)' => ed[a].vm # v /\ backend # "wsl2"
  BY <1>1 DEF PortsIInv, Meetings, Lone, SamePlace
<1>5. WholeFiles'
  <2>1. ASSUME NEW w \in Vms, Lone(w)', \A a \in Editors : ~Fills(a, w)' PROVE yaml'[w].size # "none"
    <3>1. CASE w = v
      BY <1>1, <2>1, <3>1 DEF Lone, After, FileOf, Fills, At
    <3>2. CASE w # v
      <4>1. yaml'[w] = yaml[w] /\ Lone(w) /\ \A a \in Editors : ~Fills(a, w)
        BY <1>1, <2>1, <3>2 DEF Frame, Lone, Fills, At
      <4> QED  BY <4>1 DEF PortsIInv, WholeFiles
    <3> QED  BY <3>1, <3>2
  <2>2. ASSUME NEW a \in Editors, ed'[a].pc \in {"truncate", "fill"}, Lone(ed[a].vm)' PROVE ed'[a].body # "none"
    <3>1. CASE a = b
      BY <2>2, <3>1 DEF After, FileOf
    <3>2. CASE a # b
      <4>1. Lone(ed[a].vm) /\ ed'[a] = ed[a]
        BY <1>1, <2>2, <3>2 DEF Lone
      <4> QED  BY <2>2, <4>1 DEF PortsIInv, WholeFiles
    <3> QED  BY <3>1, <3>2
  <2> QED  BY <2>1, <2>2 DEF WholeFiles
<1>6. LoadedRules'
  <2> SUFFICES ASSUME NEW w \in Vms, backend' = "lima", running'[w], Lone(w)', w \notin missed'
               PROVE  \/ \E a \in Editors : Reloads(a, w)'
                      \/ \E a \in Editors : Refills(a, w)' /\ ed'[a].seen = live'[w]
                      \/ (\A a \in Editors : ~Refills(a, w)') /\ yaml'[w].rules = live'[w]
    BY DEF LoadedRules
  <2>1. CASE w = v
    <3>1. LoadedOf(b)'
      BY <1>1, <2>1 DEF After, Lone
    <3>2. \A a \in Editors \ {b} : ~Refills(a, w)'
      BY <1>1, <1>4, <2>1 DEF Refills, Fills, At, Busy
    <3>3. Busy(b)' \/ ed'[b].pc \notin {"fill", "probe", "stop"}
      BY DEF Busy
    <3>4. \/ ed'[b].pc \in {"fill", "probe", "stop"} /\ Op(ed'[b]) \in Edits
          \/ ed'[b].pc = "fill" /\ Op(ed'[b]) = "size" /\ ed'[b].seen = live'[w]
          \/ ed'[b].pc # "fill" /\ yaml'[w].rules = live'[w]
      BY <1>1, <2>1, <3>1 DEF LoadedOf
    <3>5. CASE ed'[b].pc \in {"fill", "probe", "stop"} /\ Op(ed'[b]) \in Edits
      BY <1>1, <2>1, <3>3, <3>5 DEF Reloads
    <3>6. CASE ed'[b].pc = "fill" /\ Op(ed'[b]) = "size" /\ ed'[b].seen = live'[w]
      BY <1>1, <2>1, <3>6 DEF Refills, Fills, At
    <3>7. CASE ed'[b].pc # "fill" /\ yaml'[w].rules = live'[w]
      BY <3>2, <3>7 DEF Refills, Fills, At
    <3> QED  BY <3>4, <3>5, <3>6, <3>7
  <2>2. CASE w # v
    <3>1. yaml'[w] = yaml[w] /\ running'[w] = running[w] /\ live'[w] = live[w] /\ w \notin missed /\ Lone(w)
      BY <1>1, <2>2 DEF Frame, Lone
    <3>2. \/ \E a \in Editors : Reloads(a, w)
          \/ \E a \in Editors : Refills(a, w) /\ ed[a].seen = live[w]
          \/ (\A a \in Editors : ~Refills(a, w)) /\ yaml[w].rules = live[w]
      BY <1>1, <3>1 DEF PortsIInv, LoadedRules
    <3>3. \A a \in Editors : /\ Reloads(a, w) => Reloads(a, w)'
                             /\ Refills(a, w) => Refills(a, w)' /\ ed'[a].seen = ed[a].seen
                             /\ Refills(a, w)' => Refills(a, w)
      BY <1>1, <2>2 DEF Reloads, Refills, Fills, At, Busy
    <3> QED  BY <3>1, <3>2, <3>3
  <2> QED  BY <2>1, <2>2
<1>7. WordKept'
  <2> SUFFICES ASSUME NEW a \in Editors, Bound(a)' PROVE Kept(a)'
    BY DEF WordKept
  <2>1. CASE a = b
    BY <1>1, <2>1 DEF After, Bound, Lone
  <2>2. CASE a # b
    <3>1. ed'[a] = ed[a] /\ Busy(a) /\ ed[a].vm # v /\ backend = "lima" /\ Lone(ed[a].vm) /\ OnCourse(ed[a])
      BY <1>1, <1>4, <2>2 DEF Bound, Busy, Lone, PortsIInv, PortTypes, OnTheirWay
    <3>2. record[ed[a].vm]' = record[ed[a].vm] /\ yaml[ed[a].vm]' = yaml[ed[a].vm]
      BY <1>1, <3>1 DEF Frame, OnCourse
    <3>3. Kept(a)
      BY <3>1 DEF PortsIInv, WordKept, Bound
    <3> QED  BY <1>1, <3>1, <3>2, <3>3, OthersKept DEF PortsIInv
  <2> QED  BY <2>1, <2>2
<1> QED  BY <1>2, <1>3, <1>5, <1>6, <1>7 DEF PortsIInv
-----------------------------------------------------------------------------
(* A task that is taken up.                                                  *)

Taken(v, kind, todo, goal, at) ==
  [Idle EXCEPT !.pc = at, !.vm = v, !.kind = kind, !.todo = todo, !.goal = goal, !.was = Rules(v)]
NamedOf(v, kind, todo, goal) ==
  IF kind \in {"add", "remove"} THEN {Head(todo).host}
  ELSE Range(goal) \union IF kind = "configure" THEN Range(record[v]) ELSE {}
CrossedOf(v, kind, goal) == /\ kind = "configure" /\ "ttyd" \in DOMAIN record[v]
                            /\ goal["gateway"] = record[v]["ttyd"]

LEMMA TakeKeeps ==
  ASSUME PortsIInv, NEW a \in Editors, NEW v \in Vms, NEW kind \in EditKinds \union Powers \union {"size", "fix"},
         NEW todo \in Seq(Commands), NEW goal \in PortLists, NEW at \in {"begin", "record"},
         Take(a, v, kind, todo, goal, at), OnCourse(Taken(v, kind, todo, goal, at)),
         kind \in EditKinds => \A i \in 1..Len(todo) : todo[i].host \in NamedOf(v, kind, todo, goal),
         kind \in {"configure", "create"} /\ ~CrossedOf(v, kind, goal) /\ backend # "podman" =>
           \A l \in DOMAIN goal : Settles(todo, goal[l], GuestOf[l]),
         at = "record" => backend = "podman"
  PROVE  PortsIInv'
<1> DEFINE e == Taken(v, kind, todo, goal, at)
<1>1. /\ Free(a) /\ ed' = [ed EXCEPT ![a] = e]
      /\ IF \E b \in Editors \ {a} : Busy(b) /\ SamePlace(v, ed[b].vm)
           THEN spoiled' = spoiled \union {w \in Vms : SamePlace(v, w)} ELSE spoiled' = spoiled
      /\ UNCHANGED <<backend, yaml, netsh, running, live, record, missed>>
  BY DEF Take, Taken, Spoil
<1>2. /\ e \in Tasks /\ e.pc = at /\ e.vm = v /\ e.kind = kind /\ e.todo = todo /\ e.goal = goal
      /\ e.was = Rules(v)
  <2>1. Rules(v) \in RuleSets /\ PortTypes
    BY RulesTyped DEF PortsIInv
  <2> QED  BY <2>1, IdleTask DEF Taken, Tasks, Steps
<1> HIDE DEF e
<1>3. /\ ed' \in [Editors -> Tasks] /\ ed'[a] = e /\ (\A b \in Editors \ {a} : ed'[b] = ed[b])
      /\ Busy(a)' /\ ~Busy(a)
  BY <1>1, <1>2 DEF PortsIInv, PortTypes, Busy, Free
<1>4. PortTypes'
  BY <1>1, <1>3 DEF PortsIInv, PortTypes
<1>5. OnTheirWay'
  BY <1>1, <1>3 DEF PortsIInv, OnTheirWay, OnCourse, Busy, e
<1>6. Meetings'
  <2>1. \A w, x \in Vms : SamePlace(w, x) /\ w \in spoiled' => x \in spoiled'
    BY <1>1 DEF PortsIInv, Meetings, Lone, SamePlace
  <2>2. \A b \in Editors \ {a} : Busy(b) /\ SamePlace(v, ed[b].vm) => v \in spoiled' /\ ed[b].vm \in spoiled'
    BY <1>1 DEF SamePlace, PortsIInv, OnTheirWay, OnCourse
  <2>3. \A b, c \in Editors : (b # c /\ Busy(b) /\ Busy(c) /\ SamePlace(ed[b].vm, ed[c].vm)) => ed[b].vm \in spoiled'
    BY <1>1 DEF PortsIInv, Meetings, Lone
  <2>4. ASSUME NEW b \in Editors, NEW c \in Editors, b # c, Busy(b)', Busy(c)', SamePlace(ed'[b].vm, ed'[c].vm)
        PROVE  ed'[b].vm \in spoiled'
    <3>1. CASE b = a
      BY <1>2, <1>3, <2>2, <2>4, <3>1 DEF Busy
    <3>2. CASE c = a
      BY <1>2, <1>3, <2>2, <2>4, <3>2 DEF Busy, SamePlace
    <3>3. CASE b # a /\ c # a
      BY <1>3, <2>3, <2>4, <3>3 DEF Busy
    <3> QED  BY <3>1, <3>2, <3>3
  <2> QED  BY <1>1, <2>1, <2>4 DEF Meetings, Lone, SamePlace
<1>7. \A w : \A b \in Editors : /\ Fills(b, w)' <=> Fills(b, w)
                                /\ Reloads(b, w)' <=> Reloads(b, w)
                                /\ Refills(b, w)' <=> Refills(b, w)
                                /\ Refills(b, w) => ed'[b] = ed[b]
  BY <1>2, <1>3 DEF Fills, Reloads, Refills, At, Busy
<1>8. WholeFiles'
  <2>1. ASSUME NEW w \in Vms, Lone(w)', \A b \in Editors : ~Fills(b, w)' PROVE yaml'[w].size # "none"
    BY <1>1, <1>7, <2>1 DEF PortsIInv, WholeFiles, Lone
  <2>2. ASSUME NEW b \in Editors, ed'[b].pc \in {"truncate", "fill"}, Lone(ed[b].vm)' PROVE ed'[b].body # "none"
    <3>1. b # a
      BY <1>2, <1>3, <2>2
    <3> QED  BY <1>1, <1>3, <2>2, <3>1 DEF PortsIInv, WholeFiles, Lone
  <2> QED  BY <2>1, <2>2 DEF WholeFiles
<1>9. LoadedRules'
  <2> SUFFICES ASSUME NEW w \in Vms, backend' = "lima", running'[w], Lone(w)', w \notin missed'
               PROVE  \/ \E b \in Editors : Reloads(b, w)'
                      \/ \E b \in Editors : Refills(b, w)' /\ ed'[b].seen = live'[w]
                      \/ (\A b \in Editors : ~Refills(b, w)') /\ yaml'[w].rules = live'[w]
    BY DEF LoadedRules
  <2>1. \/ \E b \in Editors : Reloads(b, w)
        \/ \E b \in Editors : Refills(b, w) /\ ed[b].seen = live[w]
        \/ (\A b \in Editors : ~Refills(b, w)) /\ yaml[w].rules = live[w]
    BY <1>1 DEF PortsIInv, LoadedRules, Lone
  <2> QED  BY <1>1, <1>7, <2>1
<1>10. WordKept'
  <2> SUFFICES ASSUME NEW b \in Editors, Bound(b)' PROVE Kept(b)'
    BY DEF WordKept
  <2>1. CASE b = a
    <3>1. backend # "podman" /\ ~Editing(e) /\ ~Resizing(e)
      <4>1. e.pc = "begin" \/ e.pc = "record"
        BY <1>2
      <4> QED  BY <1>1, <2>1, <4>1 DEF Bound, Editing, Resizing
    <3>2. Reach(b)' = Rules(v)
      <4>1. Reach(b)' = Rules(ed[b].vm)'
        BY <1>3, <2>1, <3>1 DEF Reach
      <4>2. NetshRules' = NetshRules
        BY <1>1 DEF NetshRules
      <4> QED  BY <1>1, <1>2, <1>3, <2>1, <3>1, <4>1, <4>2 DEF Rules, LimaRules, PortsIInv, PortTypes
    <3>3. Named(b)' = NamedOf(v, kind, todo, goal) /\ (Crossed(b)' <=> CrossedOf(v, kind, goal))
      BY <1>1, <1>2, <1>3, <2>1 DEF Named, NamedOf, Crossed, CrossedOf, Now
    <3>4. KeepsOthers(b)'
      BY <1>2, <1>3, <2>1, <3>2, <3>3 DEF KeepsOthers, OthersStay
    <3>5. DoesItsOwn(b)'
      <4>1. e.kind \in {"add", "remove"} => e.pc = "begin"
        BY <1>2 DEF OnCourse, e
      <4>2. Rest(e) = todo
        BY <1>2 DEF Rest
      <4> QED  BY <1>1, <1>2, <1>3, <2>1, <3>1, <3>2, <3>3, <4>1, <4>2 DEF DoesItsOwn, Settled
    <3>6. Underway(b)'
      BY <1>2, <1>3, <2>1, <3>1 DEF Underway
    <3> QED  BY <3>4, <3>5, <3>6 DEF Kept
  <2>2. CASE b # a
    <3>1. ed'[b] = ed[b] /\ Bound(b)
      BY <1>1, <1>3, <2>2 DEF Bound, Busy, Lone
    <3>2. OnCourse(ed[b]) /\ Kept(b) /\ backend # "podman"
      BY <3>1 DEF PortsIInv, OnTheirWay, WordKept, Bound
    <3> QED  BY <1>1, <3>1, <3>2, OthersKept DEF PortsIInv
  <2> QED  BY <2>1, <2>2
<1> QED  BY <1>4, <1>5, <1>6, <1>8, <1>9, <1>10 DEF PortsIInv

LEMMA TakenIs ==
  ASSUME NEW v, NEW kind, NEW todo, NEW goal, NEW at
  PROVE  LET e == Taken(v, kind, todo, goal, at)
         IN e.pc = at /\ e.vm = v /\ e.kind = kind /\ e.todo = todo /\ e.goal = goal
  BY DEF Taken, Idle

LEMMA OneCommand ==
  ASSUME NEW c \in Commands
  PROVE  /\ <<c>> \in Seq(Commands) /\ <<c>> # <<>> /\ Len(<<c>>) = 1 /\ Head(<<c>>) = c
         /\ \A i \in 1..Len(<<c>>) : <<c>>[i] = c
  OBVIOUS

(* Commands on one port, on the VM's state, or on its size.                 *)
LEMMA CommandTaken ==
  ASSUME PortsIInv, NEW a \in Editors, NEW v \in Vms,
         PortCommand(a, v) \/ PowerCommand(a, v) \/ FixCommand(a, v) \/ SizeCommand(a, v)
  PROVE  PortsIInv'
<1>1. PICK c \in Commands, kind \in {"add", "remove", "fix", "size"} \union Powers :
        /\ Take(a, v, kind, <<c>>, <<>>, "begin")
        /\ c.op \in Edits <=> kind \in EditKinds
        /\ c.op = "size" => backend = "lima"
        /\ kind \in Edits => c.op = kind
        /\ c.op \in Edits \union {"size"} => c.must
  <2>1. CASE PortCommand(a, v)
    <3>1. PICK h \in Hosts, verb \in {"add", "remove"} : Take(a, v, verb, <<Command(verb, h, "web", TRUE)>>, <<>>, "begin")
      BY <2>1 DEF PortCommand
    <3>2. /\ Command(verb, h, "web", TRUE) \in Commands /\ Command(verb, h, "web", TRUE).op = verb
          /\ Command(verb, h, "web", TRUE).must
      BY DEF Command, Commands, Edits, Guests
    <3> QED  BY <3>1, <3>2 DEF Edits, EditKinds
  <2>2. CASE PowerCommand(a, v)
    <3>1. PICK verb \in {"start", "stop", "restart"} : Take(a, v, verb, <<Command(verb, NoHost, "web", TRUE)>>, <<>>, "begin")
      BY <2>2 DEF PowerCommand
    <3>2. Command(verb, NoHost, "web", TRUE) \in Commands /\ Command(verb, NoHost, "web", TRUE).op = verb
      BY DEF Command, Commands, Powers, Guests
    <3> QED  BY <3>1, <3>2 DEF Edits, EditKinds, Powers
  <2>3. CASE FixCommand(a, v)
    <3>1. Repair \in Commands /\ Repair.op = "start"
      BY DEF Repair, Command, Commands, Powers, Guests
    <3> QED  BY <2>3, <3>1 DEF FixCommand, Edits, EditKinds
  <2>4. CASE SizeCommand(a, v)
    <3> DEFINE c == Command("size", NoHost, "web", TRUE)
    <3>1. c \in Commands /\ c.op = "size" /\ c.must
      BY DEF Command, Commands, Powers, Guests
    <3>2. backend = "lima" /\ Take(a, v, "size", <<c>>, <<>>, "begin")
      BY <2>4 DEF SizeCommand
    <3> HIDE DEF c
    <3> QED  BY <3>1, <3>2 DEF Edits, EditKinds
  <2> QED  BY <2>1, <2>2, <2>3, <2>4
<1>2. kind \notin {"configure", "create"} /\ kind \in EditKinds \union Powers \union {"size", "fix"}
  BY DEF Powers, EditKinds
<1> DEFINE todo == <<c>>  e == Taken(v, kind, todo, <<>>, "begin")
<1>3. /\ todo \in Seq(Commands) /\ todo # <<>> /\ Len(todo) = 1 /\ Head(todo) = c
      /\ \A i \in 1..Len(todo) : todo[i] = c
  BY OneCommand
<1>4. e.pc = "begin" /\ e.vm = v /\ e.kind = kind /\ e.todo = todo
  BY TakenIs
<1> HIDE DEF todo, e
<1>5. OnCourse(e)
  <2>1. \A i \in 1..Len(todo) : /\ todo[i].op \in {"add", "size"} => todo[i].must
                                /\ todo[i].op \in Edits /\ i = Len(todo) => todo[i].must
    BY <1>1, <1>3 DEF Edits
  <2> QED  BY <1>1, <1>2, <1>3, <1>4, <2>1 DEF OnCourse, Op
<1>6. kind \in EditKinds => \A i \in 1..Len(todo) : todo[i].host \in NamedOf(v, kind, todo, <<>>)
  BY <1>1, <1>2, <1>3 DEF NamedOf, EditKinds
<1>7. Take(a, v, kind, todo, <<>>, "begin")
  BY <1>1 DEF todo
<1> QED  BY <1>2, <1>3, <1>5, <1>6, <1>7, NoRules, TakeKeeps DEF e

(* The dialog: for each forward perhaps a removal, and the new one.         *)
LEMMA ReplaceIs ==
  ASSUME PortTypes, NEW v \in Vms, NEW label \in {"gateway", "ttyd"}, NEW h \in Hosts
  PROVE  LET t == Replace(v, label, h)
         IN /\ t \in Seq(Commands) /\ Len(t) \in {1, 2}
            /\ t[Len(t)] = Add(h, GuestOf[label])
            /\ \A i \in 1..Len(t) : t[i].op \in Edits /\ t[i].host \in {h} \union Range(record[v])
            /\ \A i \in 1..Len(t) : t[i].op = "add" \/ i = Len(t) => t[i].must
            /\ \A i \in 1..Len(t) : t[i].host # h => label \in DOMAIN record[v] /\ t[i].host = record[v][label]
<1> DEFINE new == Add(h, GuestOf[label])  old == Drop(record[v][label])
<1>1. /\ new \in Commands /\ new.op = "add" /\ new.host = h /\ "add" \in Edits /\ "remove" \in Edits
      /\ old.op = "remove" /\ old.host = record[v][label] /\ new.must
  BY DEF Add, Drop, Command, Commands, Edits, Guests, GuestOf
<1>2. CASE label \in DOMAIN record[v] /\ record[v][label] # h
  <2>1. old \in Commands /\ record[v][label] \in Range(record[v])
    BY <1>2 DEF Drop, Command, Commands, Edits, Guests, PortTypes, PortLists, Range
  <2>2. Replace(v, label, h) = <<old>> \o <<new>>
    BY <1>2 DEF Replace
  <2> HIDE DEF old, new
  <2>3. <<old>> \in Seq(Commands) /\ <<new>> \in Seq(Commands) /\ Len(<<old>>) = 1 /\ Len(<<new>>) = 1
    BY <1>1, <2>1, OneCommand
  <2> DEFINE t == <<old>> \o <<new>>
  <2>4. t \in Seq(Commands) /\ Len(t) = 2 /\ t[1] = old /\ t[2] = new
    BY <2>3, ConcatProperties
  <2> HIDE DEF t
  <2>5. t[Len(t)] = new /\ \A i \in 1..Len(t) : t[i] \in {old, new} /\ (i = Len(t) => t[i] = new)
    BY <2>4
  <2>6. t = Replace(v, label, h)
    BY <2>2 DEF t
  <2> QED  BY <1>1, <1>2, <2>1, <2>4, <2>5, <2>6 DEF new
<1>3. CASE ~(label \in DOMAIN record[v] /\ record[v][label] # h)
  <2> HIDE DEF new
  <2>1. Replace(v, label, h) = <<>> \o <<new>>
    BY <1>3 DEF Replace, new
  <2>2. <<>> \o <<new>> = <<new>>
    BY <1>1, OneCommand, ConcatEmptySeq
  <2>3. <<new>> \in Seq(Commands) /\ Len(<<new>>) = 1 /\ \A i \in 1..1 : <<new>>[i] = new
    BY <1>1, OneCommand
  <2> QED  BY <1>1, <2>1, <2>2, <2>3 DEF new
<1> QED  BY <1>2, <1>3

LEMMA ConfigureTaken ==
  ASSUME PortsIInv, NEW a \in Editors, NEW v \in Vms, Configure(a, v)
  PROVE  PortsIInv'
<1>1. PICK gw \in Hosts, tty \in Hosts :
        /\ ~PortConflict(v, gw, tty)
        /\ Take(a, v, "configure", Replace(v, "gateway", gw) \o Replace(v, "ttyd", tty),
                [gateway |-> gw, ttyd |-> tty], "begin")
  BY DEF Configure
<1> DEFINE goal == [gateway |-> gw, ttyd |-> tty]
           s == Replace(v, "gateway", gw)  t == Replace(v, "ttyd", tty)  todo == s \o t
           e == Taken(v, "configure", todo, goal, "begin")
<1>2. gw # tty /\ GuestOf["gateway"] = "web" /\ GuestOf["ttyd"] = "tty" /\ DOMAIN GuestOf = {"gateway", "ttyd"}
  BY <1>1 DEF PortConflict, GuestOf
<1>3. /\ goal \in PortLists /\ DOMAIN goal = {"gateway", "ttyd"} /\ goal["gateway"] = gw /\ goal["ttyd"] = tty
      /\ Range(goal) = {gw, tty} /\ IsInjective(goal)
  <2>1. DOMAIN goal = {"gateway", "ttyd"} /\ goal["gateway"] = gw /\ goal["ttyd"] = tty
    OBVIOUS
  <2>2. goal \in [{"gateway", "ttyd"} -> Hosts]
    OBVIOUS
  <2> HIDE DEF goal
  <2>3. goal \in PortLists
    BY <1>2, <2>2 DEF PortLists
  <2> QED  BY <1>2, <2>1, <2>3 DEF Range, IsInjective
<1>4. /\ s \in Seq(Commands) /\ Len(s) \in {1, 2} /\ s[Len(s)] = Add(gw, "web")
      /\ \A i \in 1..Len(s) : /\ s[i].op \in Edits /\ s[i].host \in {gw} \union Range(record[v])
                              /\ s[i].op = "add" => s[i].must
  BY <1>2, ReplaceIs DEF PortsIInv
<1>5. /\ t \in Seq(Commands) /\ Len(t) \in {1, 2} /\ t[Len(t)] = Add(tty, "tty")
      /\ \A i \in 1..Len(t) : /\ t[i].op \in Edits /\ t[i].host \in {tty} \union Range(record[v])
                              /\ t[i].op = "add" => t[i].must
      /\ \A i \in 1..Len(t) : t[i].host # tty => "ttyd" \in DOMAIN record[v] /\ t[i].host = record[v]["ttyd"]
  BY <1>2, ReplaceIs DEF PortsIInv
<1>6. \A h \in Hosts, g \in Guests : /\ Add(h, g).op = "add" /\ Add(h, g).host = h /\ Add(h, g).guest = g
                                     /\ Add(h, g).must
  BY DEF Add, Command
<1> HIDE DEF goal, s, t
<1>7. /\ todo \in Seq(Commands) /\ Len(todo) = Len(s) + Len(t)
      /\ \A i \in 1..Len(todo) : todo[i] = IF i <= Len(s) THEN s[i] ELSE t[i - Len(s)]
  BY <1>4, <1>5, ConcatProperties
<1> HIDE DEF todo
<1>8. /\ Len(todo) \in Nat \ {0} /\ todo # <<>>
      /\ \A i \in 1..Len(s) : todo[i] = s[i]
      /\ \A i \in Len(s)+1..Len(todo) : todo[i] = t[i - Len(s)] /\ i - Len(s) \in 1..Len(t)
      /\ todo[Len(s)] = Add(gw, "web") /\ todo[Len(todo)] = Add(tty, "tty")
      /\ Len(s) \in 1..Len(todo)
  <2>1. Len(s) \in {1, 2} /\ Len(t) \in {1, 2}
    BY <1>4, <1>5
  <2> DEFINE m == Len(s)  n == Len(t)  k == Len(todo)
  <2>2. k = m + n /\ \A i \in 1..k : todo[i] = IF i <= m THEN s[i] ELSE t[i - m]
    BY <1>7
  <2>3. s[m] = Add(gw, "web") /\ t[n] = Add(tty, "tty")
    BY <1>4, <1>5
  <2> HIDE DEF m, n, k
  <2>4. /\ m \in {1, 2} /\ n \in {1, 2}
    BY <2>1 DEF m, n
  <2>5. k \in Nat \ {0} /\ m \in 1..k /\ k \in 1..k /\ m <= m /\ ~(k <= m) /\ k - m = n
    BY <2>2, <2>4
  <2>6. todo[m] = s[m] /\ todo[k] = t[n]
    BY <2>2, <2>5
  <2>7. \A i \in 1..m : i \in 1..k /\ i <= m
    BY <2>5
  <2>8. \A i \in m+1..k : i \in 1..k /\ ~(i <= m) /\ i - m \in 1..n
    BY <2>4, <2>5
  <2>9. /\ \A i \in 1..m : todo[i] = s[i]
        /\ \A i \in m+1..k : todo[i] = t[i - m] /\ i - m \in 1..n
    BY <2>2, <2>7, <2>8
  <2>10. todo # <<>>
    BY <1>7, <2>5, EmptySeq DEF k
  <2> QED  BY <2>3, <2>5, <2>6, <2>9, <2>10 DEF m, n, k
<1>9. \A i \in 1..Len(todo) : /\ todo[i].op \in Edits /\ todo[i].host \in {gw, tty} \union Range(record[v])
                              /\ todo[i].op = "add" => todo[i].must
  <2> SUFFICES ASSUME NEW i \in 1..Len(todo)
               PROVE  /\ todo[i].op \in Edits /\ todo[i].host \in {gw, tty} \union Range(record[v])
                      /\ todo[i].op = "add" => todo[i].must
    OBVIOUS
  <2>1. i \in 1..Len(s) \/ i \in Len(s)+1..Len(todo)
    BY <1>4, <1>8
  <2>2. CASE i \in 1..Len(s)
    <3>1. /\ todo[i] = s[i] /\ s[i].op \in Edits /\ s[i].host \in {gw} \union Range(record[v])
          /\ s[i].op = "add" => s[i].must
      BY <1>4, <1>8, <2>2
    <3> QED  BY <3>1
  <2>3. CASE i \in Len(s)+1..Len(todo)
    <3>1. todo[i] = t[i - Len(s)] /\ i - Len(s) \in 1..Len(t)
      BY <1>8, <2>3
    <3>2. /\ t[i - Len(s)].op \in Edits /\ t[i - Len(s)].host \in {tty} \union Range(record[v])
          /\ t[i - Len(s)].op = "add" => t[i - Len(s)].must
      BY <1>5, <3>1
    <3> QED  BY <3>1, <3>2
  <2> QED  BY <2>1, <2>2, <2>3
<1>10. e.pc = "begin" /\ e.vm = v /\ e.kind = "configure" /\ e.todo = todo /\ e.goal = goal
  BY TakenIs
<1> HIDE DEF e
<1>11. OnCourse(e)
  <2>1. todo[Len(todo)].must
    BY <1>6, <1>8 DEF Guests
  <2>2. \A i \in 1..Len(todo) : todo[i].op \in {"add", "remove"} /\ (todo[i].op = "add" => todo[i].must)
    BY <1>9 DEF Edits
  <2>3. \A i \in 1..Len(todo) : /\ todo[i].op \in {"add", "size"} => todo[i].must
                                /\ todo[i].op \in Edits /\ i = Len(todo) => todo[i].must
    BY <2>1, <2>2
  <2> QED  BY <1>2, <1>3, <1>8, <1>10, <2>2, <2>3 DEF OnCourse, EditKinds, Edits, Op
<1>12. \A i \in 1..Len(todo) : todo[i].host \in NamedOf(v, "configure", todo, goal)
  <2>1. NamedOf(v, "configure", todo, goal) = {gw, tty} \union Range(record[v])
    BY <1>3 DEF NamedOf
  <2>2. \A i \in 1..Len(todo) : todo[i].host \in {gw, tty} \union Range(record[v])
    BY <1>9
  <2> QED  BY <2>1, <2>2
<1>13. ASSUME ~CrossedOf(v, "configure", goal), NEW l \in DOMAIN goal PROVE Settles(todo, goal[l], GuestOf[l])
  <2>1. CASE l = "gateway"
    <3>1. \A j \in Len(s)+1..Len(todo) : todo[j].host # gw
      <4> SUFFICES ASSUME NEW j \in Len(s)+1..Len(todo) PROVE todo[j].host # gw
        OBVIOUS
      <4>1. todo[j] = t[j - Len(s)] /\ j - Len(s) \in 1..Len(t)
        BY <1>8
      <4> QED  BY <1>2, <1>3, <1>5, <1>13, <4>1 DEF CrossedOf
    <3>2. todo[Len(s)].op = "add" /\ todo[Len(s)].host = gw /\ todo[Len(s)].guest = "web"
      BY <1>6, <1>8 DEF Guests
    <3> QED  BY <1>2, <1>3, <1>8, <2>1, <3>1, <3>2 DEF Settles
  <2>2. CASE l = "ttyd"
    <3>1. todo[Len(todo)].op = "add" /\ todo[Len(todo)].host = tty /\ todo[Len(todo)].guest = "tty"
      BY <1>6, <1>8 DEF Guests
    <3>2. Len(todo) \in 1..Len(todo) /\ \A j \in Len(todo)+1..Len(todo) : todo[j].host # tty
      BY <1>8
    <3> QED  BY <1>2, <1>3, <2>2, <3>1, <3>2 DEF Settles
  <2> QED  BY <1>3, <2>1, <2>2
<1>14. Take(a, v, "configure", todo, goal, "begin")
  BY <1>1 DEF todo, goal, s, t
<1> QED  BY <1>3, <1>7, <1>11, <1>12, <1>13, <1>14, TakeKeeps DEF e, EditKinds

(* `create`: the ports of the record, in the order they are enumerated.     *)
LEMMA Enumerated ==
  ASSUME NEW S, IsFiniteSet(S)
  PROVE  /\ Cardinality(S) \in Nat
         /\ SetToSeq(S) \in [1..Cardinality(S) -> S] /\ IsInjective(SetToSeq(S))
         /\ \A x \in S : \E i \in 1..Cardinality(S) : SetToSeq(S)[i] = x
<1> DEFINE n == Cardinality(S)  s == SetToSeq(S)
<1>1. n \in Nat /\ ExistsBijection(1..n, S)
  BY FS_CardinalityType
<1>2. s \in [1..n -> S] /\ IsInjective(s)
  <2>1. \E f \in [1..n -> S] : IsInjective(f)
    BY <1>1 DEF ExistsBijection, Bijection, Injection
  <2> QED  BY <2>1 DEF SetToSeq
<1>3. s \in Injection(1..n, S)
  BY <1>2 DEF Injection
<1>4. Cardinality(1..n) = Cardinality(S)
  BY <1>1, FS_Interval
<1>5. s \in Surjection(1..n, S)
  BY <1>3, <1>4, FS_Injection
<1> QED  BY <1>1, <1>2, <1>5 DEF Surjection

LEMMA CreateTaken ==
  ASSUME PortsIInv, NEW a \in Editors, NEW v \in Vms, Create(a, v)
  PROVE  PortsIInv'
<1> DEFINE all(p) == [i \in 1..Cardinality(DOMAIN p) |->
                        LET l == SetToSeq(DOMAIN p)[i] IN Add(p[l], GuestOf[l])]
<1>1. PICK ports \in PortLists :
        /\ ports # <<>> /\ IsInjective(ports)
        /\ Take(a, v, "create", IF PortsFixed THEN <<>> ELSE all(ports), ports,
                IF PortsFixed THEN "record" ELSE "begin")
  BY DEF Create
<1> DEFINE D == DOMAIN ports  s == SetToSeq(D)  n == Cardinality(D)
<1>2. /\ D \subseteq {"gateway", "ttyd"} /\ D # {} /\ IsFiniteSet(D) /\ ports \in [D -> Hosts]
      /\ \A l \in D : GuestOf[l] \in Guests
  <2>1. D \subseteq {"gateway", "ttyd"} /\ ports \in [D -> Hosts]
    BY DEF PortLists, GuestOf
  <2>2. D # {}
    <3> SUFFICES ASSUME D = {} PROVE FALSE
      OBVIOUS
    <3>1. 1..0 = {} /\ ports \in [1..0 -> Hosts] /\ 0 \in Nat
      BY <2>1
    <3>2. ports \in Seq(Hosts) /\ Len(ports) = 0
      BY <3>1, LenProperties
    <3> QED  BY <1>1, <3>2, EmptySeq
  <2>3. IsFiniteSet({"gateway", "ttyd"})
    <3>1. IsFiniteSet({"gateway"})
      BY FS_Singleton
    <3>2. IsFiniteSet({"gateway"} \union {"ttyd"})
      BY <3>1, FS_AddElement
    <3>3. {"gateway"} \union {"ttyd"} = {"gateway", "ttyd"}
      OBVIOUS
    <3> QED  BY <3>2, <3>3
  <2>4. IsFiniteSet(D)
    BY <2>1, <2>3, FS_Subset
  <2> QED  BY <2>1, <2>2, <2>4 DEF GuestOf, Guests
<1>3. /\ n \in Nat /\ s \in [1..n -> D] /\ IsInjective(s)
      /\ \A l \in D : \E i \in 1..n : s[i] = l
  BY <1>2, Enumerated
<1>4. n \in Nat \ {0}
  BY <1>2, <1>3
<1> DEFINE todo == all(ports)
<1>5. \A l \in D : /\ Add(ports[l], GuestOf[l]) \in Commands
                   /\ Add(ports[l], GuestOf[l]).op = "add"
                   /\ Add(ports[l], GuestOf[l]).host = ports[l]
                   /\ Add(ports[l], GuestOf[l]).guest = GuestOf[l]
                   /\ Add(ports[l], GuestOf[l]).must
  BY <1>2 DEF Add, Command, Commands, Edits
<1>6. /\ todo \in Seq(Commands) /\ Len(todo) = n
      /\ \A i \in 1..n : /\ todo[i].op = "add" /\ todo[i].host = ports[s[i]]
                         /\ todo[i].guest = GuestOf[s[i]] /\ todo[i].must
  <2>1. \A i \in 1..n : s[i] \in D /\ todo[i] = Add(ports[s[i]], GuestOf[s[i]])
    BY <1>3
  <2>2. DOMAIN todo = 1..n /\ todo = [i \in 1..n |-> todo[i]]
    OBVIOUS
  <2> HIDE DEF todo, s, n
  <2>3. \A i \in 1..n : todo[i] \in Commands
    BY <1>5, <2>1
  <2>4. todo \in [1..n -> Commands]
    BY <2>2, <2>3
  <2>5. todo \in Seq(Commands) /\ Len(todo) = n
    BY <1>3, <2>4, <2>2, LenProperties
  <2> QED  BY <1>5, <2>1, <2>5
<1> HIDE DEF todo, s, n
<1>7. CASE PortsFixed
  <2> DEFINE e == Taken(v, "create", <<>>, ports, "record")
  <2>1. e.pc = "record" /\ e.vm = v /\ e.kind = "create" /\ e.todo = <<>> /\ e.goal = ports
    BY TakenIs
  <2>2. <<>> \in Seq(Commands) /\ Len(<<>>) = 0 /\ backend = "podman"
    BY <1>7 DEF PortsFixed
  <2> HIDE DEF e
  <2>3. OnCourse(e)
    BY <1>1, <2>1, <2>2 DEF OnCourse, EditKinds, Edits
  <2>4. Take(a, v, "create", <<>>, ports, "record")
    BY <1>1, <1>7
  <2>5. \A i \in 1..Len(<<>>) : <<>>[i].host \in NamedOf(v, "create", <<>>, ports)
    BY <2>2
  <2> DEFINE none == <<>>
  <2> HIDE DEF none
  <2>6. /\ none \in Seq(Commands) /\ Take(a, v, "create", none, ports, "record")
        /\ OnCourse(Taken(v, "create", none, ports, "record"))
        /\ \A i \in 1..Len(none) : none[i].host \in NamedOf(v, "create", none, ports)
    BY <2>2, <2>3, <2>4, <2>5 DEF none, e
  <2> QED  BY <2>2, <2>6, TakeKeeps DEF EditKinds
<1>8. CASE ~PortsFixed
  <2> DEFINE e == Taken(v, "create", todo, ports, "begin")
  <2>1. e.pc = "begin" /\ e.vm = v /\ e.kind = "create" /\ e.todo = todo /\ e.goal = ports
    BY TakenIs
  <2>2. todo # <<>>
    BY <1>4, <1>6, EmptySeq
  <2> HIDE DEF e
  <2>3. OnCourse(e)
    BY <1>1, <1>6, <2>1, <2>2 DEF OnCourse, EditKinds, Edits
  <2>4. \A i \in 1..Len(todo) : todo[i].host \in NamedOf(v, "create", todo, ports)
    BY <1>3, <1>6 DEF NamedOf, Range
  <2>5. \A l \in D : Settles(todo, ports[l], GuestOf[l])
    <3> SUFFICES ASSUME NEW l \in D PROVE Settles(todo, ports[l], GuestOf[l])
      OBVIOUS
    <3>1. PICK i \in 1..n : s[i] = l
      BY <1>3
    <3>2. \A j \in i+1..n : todo[j].host # ports[l]
      <4> SUFFICES ASSUME NEW j \in i+1..n PROVE todo[j].host # ports[l]
        OBVIOUS
      <4>1. j \in 1..n /\ j # i
        BY <1>4
      <4>2. s[j] # l /\ s[j] \in D
        BY <1>3, <3>1, <4>1 DEF IsInjective
      <4> QED  BY <1>1, <1>6, <4>1, <4>2 DEF IsInjective
    <3> QED  BY <1>6, <3>1, <3>2 DEF Settles
  <2>6. Take(a, v, "create", todo, ports, "begin")
    BY <1>1, <1>8 DEF todo
  <2> QED  BY <1>6, <2>3, <2>4, <2>5, <2>6, TakeKeeps DEF e, EditKinds
<1> QED  BY <1>7, <1>8

-----------------------------------------------------------------------------
(* The first state, the steps, and the theorems.                             *)

LEMMA TableTyped ==
  ASSUME PortsInit
  PROVE  netsh \in UNION {[S -> [guest : Guests, to : Vms]] : S \in SUBSET Hosts}
<1> DEFINE made(v) == [h \in Range(record[v]) |-> GuestOf[CHOOSE l \in DOMAIN record[v] : record[v][l] = h]]
           all == UNION {Range(record[v]) : v \in Vms}
           to(h) == CHOOSE w \in Vms : h \in Range(record[w])
           table == [h \in all |-> LET v == to(h) IN [guest |-> made(v)[h], to |-> v]]
<1>1. netsh = table \/ netsh = <<>>
  BY Zenon DEF PortsInit
<1>2. \A v \in Vms : record[v] \in PortLists
  BY DEF PortsInit
<1>3. ASSUME NEW v \in Vms, NEW h \in Range(record[v]) PROVE h \in Hosts /\ made(v)[h] \in Guests
  <2>1. PICK S \in SUBSET DOMAIN GuestOf : record[v] \in [S -> Hosts]
    BY <1>2 DEF PortLists
  <2>2. \E l \in DOMAIN record[v] : record[v][l] = h
    BY <1>3 DEF Range
  <2>3. (CHOOSE l \in DOMAIN record[v] : record[v][l] = h) \in DOMAIN GuestOf
    BY <2>1, <2>2
  <2>4. \A l \in DOMAIN GuestOf : GuestOf[l] \in Guests
    BY DEF GuestOf, Guests
  <2> QED  BY <1>3, <2>1, <2>2, <2>3, <2>4
<1>4. all \subseteq Hosts
  BY <1>3
<1>5. ASSUME NEW h \in all PROVE to(h) \in Vms /\ h \in Range(record[to(h)])
  OBVIOUS
<1>6. table \in [all -> [guest : Guests, to : Vms]]
  <2>1. ASSUME NEW h \in all PROVE [guest |-> made(to(h))[h], to |-> to(h)] \in [guest : Guests, to : Vms]
    <3> HIDE DEF made, to, all
    <3>1. to(h) \in Vms /\ made(to(h))[h] \in Guests
      BY <1>3, <1>5
    <3> QED  BY <3>1
  <2> HIDE DEF made, to, all
  <2> QED  BY <2>1
<1> HIDE DEF table, all
<1>7. <<>> \in [{} -> [guest : Guests, to : Vms]]
  OBVIOUS
<1> QED  BY <1>1, <1>4, <1>6, <1>7

LEMMA PortsStart == PortsInit => PortsIInv
<1> SUFFICES ASSUME PortsInit PROVE PortsIInv
  OBVIOUS
<1>1. \A a \in Editors : ed[a] = Idle /\ ~Busy(a) /\ ed[a].pc = "idle"
  BY DEF PortsInit, Busy, Idle
<1>2. \A v \in Vms : yaml[v].size = "old" /\ yaml[v].rules = live[v]
  <2>1. yaml = [v \in Vms |-> [size |-> "old", rules |-> live[v]]]
    BY DEF PortsInit
  <2> QED  BY <2>1
<1>3. PortTypes
  <2>1. ed \in [Editors -> Tasks] /\ spoiled \subseteq Vms /\ missed \subseteq Vms
    BY IdleTask DEF PortsInit
  <2>2. yaml \in [Vms -> [size : {"old", "new", "none"}, rules : RuleSets]] /\ live \in [Vms -> RuleSets]
    BY DEF PortsInit
  <2> QED  BY <2>1, <2>2, TableTyped DEF PortsInit, PortTypes
<1>4. OnTheirWay /\ WordKept
  BY <1>1 DEF OnTheirWay, WordKept, Bound
<1>5. Meetings
  BY <1>1 DEF Meetings, PortsInit, Lone
<1>6. WholeFiles
  BY <1>1, <1>2 DEF WholeFiles
<1>7. LoadedRules
  <2>1. \A v \in Vms : yaml[v].rules = live[v] /\ \A a \in Editors : ~Refills(a, v)
    <3>1. \A v \in Vms, a \in Editors : ~Refills(a, v)
      BY <1>1 DEF Refills, Fills, At
    <3> QED  BY <1>2, <3>1
  <2> QED  BY <2>1 DEF LoadedRules
<1> QED  BY <1>3, <1>4, <1>5, <1>6, <1>7 DEF PortsIInv

LEMMA PortsSteps == PortsIInv /\ [PortsNext]_portVars => PortsIInv'
<1> SUFFICES ASSUME PortsIInv, [PortsNext]_portVars PROVE PortsIInv'
  OBVIOUS
<1>0. PortTypes /\ OnTheirWay
  BY DEF PortsIInv
<1>1. ASSUME NEW a \in Editors, NEW v \in Vms,
             PortCommand(a, v) \/ PowerCommand(a, v) \/ FixCommand(a, v) \/ SizeCommand(a, v)
      PROVE  PortsIInv'
  BY <1>1, CommandTaken
<1>2. ASSUME NEW a \in Editors, NEW v \in Vms, Configure(a, v) PROVE PortsIInv'
  BY <1>2, ConfigureTaken
<1>3. ASSUME NEW a \in Editors, NEW v \in Vms, Create(a, v) PROVE PortsIInv'
  BY <1>3, CreateTaken
<1>4. ASSUME NEW a \in Editors, Edit(a) PROVE PortsIInv'
  <2>1. Busy(a) /\ Frame(a) /\ (Before(a) /\ Lone(ed[a].vm)' => After(a))
    BY <1>0, <1>4, EditKeeps
  <2>2. Lone(ed[a].vm)' => Lone(ed[a].vm)
    BY <2>1 DEF Frame, Lone
  <2> QED  BY <2>1, <2>2, OwnBefore, MoveKeeps
<1>5. ASSUME NEW a \in Editors, Die(a) PROVE PortsIInv'
  BY <1>0, <1>5, DieFrames, MoveKeeps
<1>6. CASE UNCHANGED portVars
  <2>1. /\ PortTypes' /\ OnTheirWay' /\ Meetings'
    BY <1>6 DEF portVars, PortsIInv, PortTypes, OnTheirWay, OnCourse, Meetings, SamePlace, Busy, Lone
  <2>2. WholeFiles' /\ LoadedRules'
    BY <1>6 DEF portVars, PortsIInv, WholeFiles, LoadedRules, Reloads, Refills, Fills, At, Busy, Lone
  <2>3. WordKept'
    <3> SUFFICES ASSUME NEW a \in Editors, Bound(a)' PROVE Kept(a)'
      BY DEF WordKept
    <3>1. Bound(a) /\ Busy(a) /\ backend # "podman"
      BY <1>6 DEF portVars, Bound, Busy, Lone
    <3>2. Kept(a) /\ OnCourse(ed[a])
      BY <3>1 DEF PortsIInv, WordKept, OnTheirWay
    <3> QED  BY <1>0, <1>6, <3>1, <3>2, OthersKept DEF portVars
  <2> QED  BY <2>1, <2>2, <2>3 DEF PortsIInv
<1> QED  BY <1>1, <1>2, <1>3, <1>4, <1>5, <1>6 DEF PortsNext

\* What holds of the files and of the VMs is part of what every step keeps.
LEMMA PortsSafe == PortsIInv => PortsInv
<1> SUFFICES ASSUME PortsIInv PROVE PortsInv
  OBVIOUS
<1>1. PortsTypeOK
  BY DEF PortsIInv, PortTypes, PortsTypeOK, Tasks, Tables
<1>2. FileWhole
  <2>1. \A v : \A a \in Editors : Fills(a, v) => Busy(a) /\ ed[a].vm = v
    BY DEF Fills, At, Busy
  <2> QED  BY <2>1 DEF PortsIInv, WholeFiles, FileWhole
<1>3. RulesLoaded
  <2>1. \A v : \A a \in Editors : Reloads(a, v) \/ Refills(a, v) => Busy(a) /\ ed[a].vm = v
    BY DEF Reloads, Refills, Fills, At, Busy
  <2> QED  BY <2>1 DEF PortsIInv, LoadedRules, RulesLoaded
<1> QED  BY <1>1, <1>2, <1>3 DEF PortsInv

\* lima.yaml is whole and a running VM has the rules of its file whenever
\* nobody edits it, for VMs no two editors met on and none died or failed to
\* write on.
THEOREM PortsHold == PortsSpec => []PortsInv
<1>1. PortsSpec => []PortsIInv
  BY PortsStart, PortsSteps, PTL DEF PortsSpec
<1> QED  BY <1>1, PortsSafe, PTL

LEMMA StepPromises ==
  ASSUME PortsIInv, PortsNext, NEW a \in Editors, EndsLone(a)
  PROVE  Outcome(a)
<1>0. PortTypes /\ OnTheirWay /\ Busy(a) /\ ed'[a].pc \in {"ok", "err"} /\ ed[a].vm \notin spoiled'
  BY DEF PortsIInv, EndsLone
<1>1. ASSUME NEW b \in Editors, Free(b), \A c \in Editors \ {b} : ed'[c] = ed[c] PROVE FALSE
  BY <1>0, <1>1 DEF Free, Busy
<1>2. ASSUME NEW b \in Editors, NEW v \in Vms,
             \/ PortCommand(b, v) \/ PowerCommand(b, v) \/ FixCommand(b, v) \/ SizeCommand(b, v)
             \/ Configure(b, v) \/ Create(b, v)
      PROVE  FALSE
  <2>1. \E kind, todo, goal, at : Take(b, v, kind, todo, goal, at)
    BY <1>2, Zenon DEF PortCommand, PowerCommand, FixCommand, SizeCommand, Configure, Create
  <2>2. Free(b) /\ \A c \in Editors \ {b} : ed'[c] = ed[c]
    BY <1>0, <2>1 DEF Take, PortTypes
  <2> QED  BY <1>1, <2>2
<1>3. ASSUME NEW b \in Editors, Edit(b) PROVE b = a /\ Outcome(a)
  <2>1. Busy(b) /\ Frame(b) /\ (Before(b) /\ Lone(ed[b].vm)' => After(b))
    BY <1>0, <1>3, EditKeeps
  <2>2. b = a
    BY <1>0, <2>1 DEF Frame, Busy
  <2>3. Lone(ed[a].vm)
    BY <1>0, <2>1, <2>2 DEF Frame, Lone
  <2>4. Lone(ed[b].vm)'
    BY <1>0, <2>1, <2>2 DEF Frame, Lone
  <2> QED  BY <2>1, <2>2, <2>3, <2>4, OwnBefore DEF After
<1>4. ASSUME NEW b \in Editors, Die(b) PROVE FALSE
  <2>1. Busy(b) /\ Frame(b) /\ ~Lone(ed[b].vm)'
    BY <1>0, <1>4, DieFrames
  <2>2. b = a
    BY <1>0, <2>1 DEF Frame, Busy
  <2> QED  BY <1>0, <2>1, <2>2 DEF Frame, Lone
<1> QED  BY <1>2, <1>3, <1>4 DEF PortsNext

\* A task that ends, alone where its rules live and with no failure passed over,
\* has kept the rules it does not name, whether it succeeded or failed; and one
\* that succeeded has done what it was asked and, with wsl2, leads all rules to
\* the VM it was of.
THEOREM EditsKeep == PortsSpec => EditsKeepRules
<1>1. PortsSpec => []PortsIInv
  BY PortsStart, PortsSteps, PTL DEF PortsSpec
<1>2. PortsIInv /\ [PortsNext]_portVars =>
        [\A a \in Editors : EndsLone(a) => Outcome(a)]_portVars
  BY StepPromises
<1> QED  BY <1>1, <1>2, PTL DEF PortsSpec, EditsKeepRules
=============================================================================
