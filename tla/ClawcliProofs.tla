--------------------------- MODULE ClawcliProofs ---------------------------
(***************************************************************************)
(* Proofs about what clawcli does on the host: bundles (ExportBundle), for *)
(* any number of exports, machines and files; gateways (Daemons), for any  *)
(* number of processes, instances, versions and gateways; and what the     *)
(* scenarios of MCClawcli say of downloads and components, from instances  *)
(* of the theorems of DownloadsProofs.                                     *)
(***************************************************************************)
EXTENDS MCClawcli, TLAPS

-----------------------------------------------------------------------------
(* Bundles.                                                                 *)

UnderWay(e) == driver[e] \in {"asked", "reading", "ended"}

BundleTypes ==
  /\ driver \in [Exports -> {"new", "asked", "reading", "ended", "settled"}]
  /\ order \in [Exports -> [of : Machines \union {""}, to : BundleFiles \union {""}]]
  /\ \A e \in Exports : driver[e] # "new" => Target(e) \in BundleFiles
  /\ clawcli \in [Exports -> {"none", "image", "wrap", "ok", "err", "killed"}]
  /\ helper \in [Exports -> {"none", "image", "wrap"}]
  /\ told \in [Exports -> {"", "complete", "failed"}]
  /\ slot \in Exports \union {0}
  /\ dialog \in [of : Exports \union {0}, says : {"none", "not yet", "exporting", "cancelled", "done"}]
  /\ bundle \in [BundleFiles -> [by : Exports \union {0}, state : {"absent", "partial", "mixed", "whole"}]]
  /\ overlap \in BOOLEAN
  /\ met \subseteq BundleFiles

\* A bundle that was written was written by an export; an import has read one.
BundleAuthors ==
  /\ \A f \in BundleFiles : bundle[f].state \in {"partial", "whole"} => bundle[f].by # 0
  /\ import.at = "inspected" => import.from \in BundleFiles
  /\ ImportIsWhole

\* clawcli runs under a driver that reads it, and none is told of before it ran.
DriverReads ==
  \A e \in Exports :
    /\ driver[e] \in {"new", "asked"} => clawcli[e] = "none" /\ helper[e] = "none"
    /\ Lives(e) => driver[e] = "reading"
    /\ driver[e] = "ended" => told[e] # ""
    /\ told[e] = "complete" => clawcli[e] = "ok"

\* While no two drivers met, the open dialog is that of the one under way.
Alone ==
  ~overlap =>
    /\ \A e, x \in Exports : UnderWay(e) /\ UnderWay(x) => e = x
    /\ \A e \in Exports : UnderWay(e) /\ dialog.says # "none" => dialog.of = e

\* The bundle of such an export is its own from the opening of the file on, for
\* as long as the export or its dialog lasts.
BundleOwn ==
  \A e \in Exports :
    ~overlap /\ Target(e) \notin met =>
      /\ clawcli[e] = "wrap" => bundle[Target(e)] = [by |-> e, state |-> "partial"]
      /\ clawcli[e] = "ok" /\ (UnderWay(e) \/ (dialog.says = "done" /\ dialog.of = e)) =>
           bundle[Target(e)] = WholeBundle(e)

DialogOfOk == dialog.says = "done" /\ ~overlap => dialog.of \in Exports /\ clawcli[dialog.of] = "ok"

SlotOwn == SlotIsKid /\ SlotIsFresh

BundleIInv ==
  BundleTypes /\ BundleAuthors /\ DriverReads /\ Alone /\ BundleOwn /\ DialogOfOk /\ SlotOwn

LEMMA BundleStart == BundleInit => BundleIInv
<1> SUFFICES ASSUME BundleInit PROVE BundleIInv
  OBVIOUS
<1> USE DEF BundleInit
<1>1. BundleTypes
  BY DEF BundleTypes, NoOrder, NoDialog
<1>2. BundleAuthors
  BY DEF BundleAuthors, ImportIsWhole, NoImport
<1>3. DriverReads
  BY DEF DriverReads, Lives
<1>4. Alone
  BY DEF Alone, UnderWay
<1>5. BundleOwn /\ DialogOfOk
  BY DEF BundleOwn, DialogOfOk, NoDialog
<1>6. SlotOwn
  BY DEF SlotOwn, SlotIsKid, SlotIsFresh, Running
<1> QED  BY <1>1, <1>2, <1>3, <1>4, <1>5, <1>6 DEF BundleIInv

LEMMA AskKeeps ==
  ASSUME BundleIInv, NEW e \in Exports, AskExport(e) PROVE BundleIInv'
<1> USE DEF BundleIInv
<1>1. PICK m \in Machines, f \in BundleFiles : order' = [order EXCEPT ![e] = [of |-> m, to |-> f]]
  BY DEF AskExport
<1>2. /\ driver[e] = "new" /\ dialog.says = "none"
      /\ driver' = [driver EXCEPT ![e] = "asked"]
      /\ dialog' = [of |-> e, says |-> "not yet"]
      /\ overlap' = (overlap \/ Others(e) # {})
      /\ UNCHANGED <<clawcli, helper, told, slot, bundle, import, met>>
  BY DEF AskExport, NoDialog
<1>3. BundleTypes'
  BY <1>1, <1>2 DEF BundleTypes, Target
<1>4. BundleAuthors'
  BY <1>2 DEF BundleAuthors, ImportIsWhole
<1>5. DriverReads'
  <2>1. driver'[e] = "asked" /\ \A x \in Exports \ {e} : driver'[x] = driver[x]
    BY <1>2 DEF BundleTypes
  <2>2. clawcli[e] = "none" /\ helper[e] = "none" /\ ~Lives(e)
    BY <1>2 DEF DriverReads, Lives
  <2>3. \A x \in Exports : Lives(x)' = Lives(x)
    BY <1>2 DEF Lives
  <2> QED  BY <1>2, <2>1, <2>2, <2>3 DEF DriverReads
<1>6. Alone'
  <2>1. driver \in [Exports -> {"new", "asked", "reading", "ended", "settled"}]
    BY DEF BundleTypes
  <2>2. ASSUME ~overlap' PROVE \A x \in Exports \ {e} : ~UnderWay(x)'
    BY <1>2, <2>1, <2>2 DEF Others, UnderWay
  <2>3. dialog'.of = e
    BY <1>2
  <2> QED  BY <2>2, <2>3 DEF Alone
<1>7. BundleOwn'
  <2>1. clawcli[e] = "none"
    BY <1>2 DEF DriverReads
  <2>2. \A x \in Exports \ {e} : Target(x)' = Target(x) /\ (UnderWay(x)' <=> UnderWay(x))
    BY <1>1, <1>2 DEF Target, UnderWay, BundleTypes
  <2>3. overlap => overlap'
    BY <1>2
  <2>4. dialog'.says # "done"
    BY <1>2
  <2>5. ASSUME NEW x \in Exports, ~overlap', Target(x)' \notin met'
        PROVE  /\ clawcli'[x] = "wrap" => bundle'[Target(x)'] = [by |-> x, state |-> "partial"]
               /\ clawcli'[x] = "ok" /\ UnderWay(x)' => bundle'[Target(x)'] = WholeBundle(x)
    <3>1. CASE x = e
      BY <1>2, <2>1, <3>1
    <3>2. CASE x # e
      <4>1. Target(x)' = Target(x) /\ (UnderWay(x)' <=> UnderWay(x))
        BY <2>2, <3>2
      <4>2. ~overlap /\ Target(x) \notin met
        BY <1>2, <2>3, <2>5, <4>1
      <4>3. /\ clawcli[x] = "wrap" => bundle[Target(x)] = [by |-> x, state |-> "partial"]
            /\ clawcli[x] = "ok" /\ UnderWay(x) => bundle[Target(x)] = WholeBundle(x)
        BY <4>2 DEF BundleOwn
      <4> QED  BY <1>2, <4>1, <4>3
    <3> QED  BY <3>1, <3>2
  <2> QED  BY <2>4, <2>5 DEF BundleOwn, WholeBundle
<1>8. DialogOfOk'
  BY <1>2 DEF DialogOfOk
<1>9. SlotOwn'
  <2>1. driver'[e] = "asked" /\ \A x \in Exports \ {e} : driver'[x] = driver[x]
    BY <1>2 DEF BundleTypes
  <2>2. /\ driver[e] = "new" /\ slot \in Exports \union {0}
        /\ overlap => overlap'
        /\ UNCHANGED <<clawcli, helper, slot>>
    BY <1>2 DEF BundleTypes
  <2>3. \A x \in Exports : (Running(x)' <=> Running(x)) /\ (Lives(x)' <=> Lives(x))
    BY <2>1, <2>2 DEF Running, Lives
  <2>4. SlotIsKid /\ SlotIsFresh
    BY DEF SlotOwn
  <2> HIDE DEF BundleIInv
  <2> QED  BY <2>2, <2>3, <2>4 DEF SlotOwn, SlotIsKid, SlotIsFresh
<1> QED  BY <1>3, <1>4, <1>5, <1>6, <1>7, <1>8, <1>9

LEMMA DialogKeeps ==
  ASSUME BundleIInv, Open \/ Close PROVE BundleIInv'
<1> USE DEF BundleIInv
<1>1. /\ UNCHANGED <<driver, order, clawcli, helper, told, slot, bundle, import, overlap, met>>
      /\ \/ dialog' = [dialog EXCEPT !.says = "exporting"] /\ dialog.says # "none"
         \/ dialog' = [of |-> 0, says |-> "none"]
  BY DEF Open, Close, NoDialog
<1>2. dialog \in [of : Exports \union {0}, says : {"none", "not yet", "exporting", "cancelled", "done"}]
  BY DEF BundleTypes
<1>3. /\ dialog' \in [of : Exports \union {0}, says : {"none", "not yet", "exporting", "cancelled", "done"}]
      /\ dialog'.says # "done"
      /\ dialog'.says # "none" => dialog.says # "none" /\ dialog'.of = dialog.of
  <2>1. CASE dialog' = [dialog EXCEPT !.says = "exporting"] /\ dialog.says # "none"
    BY <1>2, <2>1
  <2>2. CASE dialog' = [of |-> 0, says |-> "none"]
    BY <2>2
  <2> QED  BY <1>1, <2>1, <2>2
<1>4. BundleTypes'
  BY <1>1, <1>3 DEF BundleTypes, Target
<1>5. BundleAuthors' /\ DriverReads'
  BY <1>1 DEF BundleAuthors, ImportIsWhole, DriverReads, Lives
<1>6. Alone'
  BY <1>1, <1>3 DEF Alone, UnderWay
<1>7. BundleOwn' /\ DialogOfOk'
  BY <1>1, <1>3 DEF BundleOwn, DialogOfOk, Target, UnderWay, WholeBundle
<1>8. SlotOwn'
  BY <1>1 DEF SlotOwn, SlotIsKid, SlotIsFresh, Running, Lives
<1> QED  BY <1>4, <1>5, <1>6, <1>7, <1>8

LEMMA CancelKeeps ==
  ASSUME BundleIInv, Cancel PROVE BundleIInv'
<1> USE DEF BundleIInv
<1>1. /\ UNCHANGED <<driver, order, told, slot, bundle, import, overlap, met>>
      /\ dialog.says = "exporting" /\ dialog' = [dialog EXCEPT !.says = "cancelled"]
  BY DEF Cancel
<1>2. dialog'.says = "cancelled" /\ dialog'.of = dialog.of
      /\ dialog' \in [of : Exports \union {0}, says : {"none", "not yet", "exporting", "cancelled", "done"}]
  BY <1>1 DEF BundleTypes
<1>3. /\ clawcli' \in [Exports -> {"none", "image", "wrap", "ok", "err", "killed"}]
      /\ helper' \in [Exports -> {"none", "image", "wrap"}]
      /\ \A x \in Exports : clawcli'[x] = clawcli[x] \/ (Lives(x) /\ clawcli'[x] = "killed")
      /\ \A x \in Exports : helper'[x] \in {helper[x], "none"}
  <2>1. CASE slot # 0 /\ Lives(slot)
    BY <2>1, ZenonT(60) DEF Cancel, BundleTypes
  <2>2. CASE ~(slot # 0 /\ Lives(slot))
    BY <2>2 DEF Cancel, BundleTypes
  <2> QED  BY <2>1, <2>2
<1>4. BundleTypes'
  BY <1>1, <1>2, <1>3 DEF BundleTypes, Target
<1>5. BundleAuthors'
  BY <1>1 DEF BundleAuthors, ImportIsWhole
<1>6. DriverReads'
  BY <1>1, <1>3 DEF DriverReads, Lives
<1>7. Alone'
  BY <1>1, <1>2 DEF Alone, UnderWay
<1>8. BundleOwn' /\ DialogOfOk'
  <2>1. \A x \in Exports : /\ clawcli'[x] = "ok" => clawcli[x] = "ok"
                           /\ clawcli'[x] = "wrap" => clawcli[x] = "wrap"
    BY <1>3
  <2>2. \A x \in Exports : UnderWay(x)' = UnderWay(x) /\ Target(x)' = Target(x)
    BY <1>1 DEF UnderWay, Target
  <2>3. dialog'.says # "done"
    BY <1>2
  <2>4. BundleOwn'
    BY <1>1, <2>1, <2>2, <2>3 DEF BundleOwn, WholeBundle
  <2> QED  BY <2>3, <2>4 DEF DialogOfOk
<1>9. SlotOwn'
  BY <1>1, <1>3 DEF SlotOwn, SlotIsKid, SlotIsFresh, Running, Lives
<1> QED  BY <1>4, <1>5, <1>6, <1>7, <1>8, <1>9

LEMMA RunKeeps ==
  ASSUME BundleIInv, NEW e \in Exports, Run(e) PROVE BundleIInv'
<1> USE DEF BundleIInv
<1>1. /\ driver[e] = "asked"
      /\ driver' = [driver EXCEPT ![e] = "reading"]
      /\ clawcli' = [clawcli EXCEPT ![e] = "image"]
      /\ helper' = [helper EXCEPT ![e] = "image"]
      /\ slot' = e
      /\ UNCHANGED <<order, told, dialog, bundle, import, overlap, met>>
  BY DEF Run
<1>2. BundleTypes'
  BY <1>1 DEF BundleTypes, Target
<1>3. BundleAuthors'
  BY <1>1 DEF BundleAuthors, ImportIsWhole
<1>4. DriverReads'
  BY <1>1, ZenonT(60) DEF DriverReads, Lives, BundleTypes
<1>5. Alone'
  <2>1. \A x \in Exports : driver'[x] \in {"asked", "reading", "ended"} <=> driver[x] \in {"asked", "reading", "ended"}
    BY <1>1 DEF BundleTypes
  <2> QED  BY <1>1, <2>1 DEF Alone, UnderWay
<1>6. BundleOwn' /\ DialogOfOk'
  <2>1. clawcli[e] = "none" /\ clawcli'[e] = "image"
    BY <1>1 DEF DriverReads, BundleTypes
  <2>2. \A x \in Exports \ {e} : clawcli'[x] = clawcli[x] /\ driver'[x] = driver[x]
    BY <1>1 DEF BundleTypes
  <2>3. BundleOwn'
    BY <1>1, <2>1, <2>2 DEF BundleOwn, Target, UnderWay, WholeBundle
  <2>4. DialogOfOk'
    BY <1>1, <2>1, <2>2 DEF DialogOfOk
  <2> QED  BY <2>3, <2>4
<1>7. SlotIsFresh'
  BY <1>1 DEF SlotIsFresh, Running, BundleTypes
<1>8. SlotIsKid'
  BY <1>1, ZenonT(60) DEF SlotIsKid, Running, BundleTypes, Alone, UnderWay
<1> QED  BY <1>2, <1>3, <1>4, <1>5, <1>6, <1>7, <1>8 DEF SlotOwn

LEMMA ReadKeeps ==
  ASSUME BundleIInv, NEW e \in Exports, ReadOutput(e) PROVE BundleIInv'
<1> USE DEF BundleIInv
<1>1. /\ driver[e] = "reading"
      /\ driver' = [driver EXCEPT ![e] = "ended"]
      /\ UNCHANGED <<order, helper, slot, dialog, bundle, import, overlap, met>>
  BY DEF ReadOutput
<1>2. /\ told' \in [Exports -> {"", "complete", "failed"}]
      /\ clawcli' \in [Exports -> {"none", "image", "wrap", "ok", "err", "killed"}]
      /\ \A x \in Exports \ {e} : told'[x] = told[x] /\ clawcli'[x] = clawcli[x]
      /\ told'[e] # "" /\ (told'[e] = "complete" => clawcli'[e] = "ok")
      /\ clawcli'[e] = clawcli[e] \/ clawcli'[e] = "killed"
      /\ clawcli'[e] \notin {"image", "wrap"}
      /\ clawcli[e] = "ok" => clawcli'[e] = "ok"
  BY ZenonT(60) DEF ReadOutput, BundleTypes, Lives
<1>3. BundleTypes'
  BY <1>1, <1>2, ZenonT(60) DEF BundleTypes, Target
<1>4. BundleAuthors'
  BY <1>1 DEF BundleAuthors, ImportIsWhole
<1>5. DriverReads'
  <2>1. driver'[e] = "ended" /\ \A x \in Exports \ {e} : driver'[x] = driver[x]
    BY <1>1 DEF BundleTypes
  <2>2. ASSUME NEW x \in Exports
        PROVE  /\ driver'[x] \in {"new", "asked"} => clawcli'[x] = "none" /\ helper'[x] = "none"
               /\ clawcli'[x] \in {"image", "wrap"} => driver'[x] = "reading"
               /\ driver'[x] = "ended" => told'[x] # ""
               /\ told'[x] = "complete" => clawcli'[x] = "ok"
    <3>1. CASE x = e
      <4>1. /\ driver'[e] \notin {"new", "asked"} /\ clawcli'[e] \notin {"image", "wrap"}
            /\ told'[e] # "" /\ (told'[e] = "complete" => clawcli'[e] = "ok")
        BY <1>2, <2>1
      <4> QED  BY <3>1, <4>1
    <3>2. CASE x # e
      <4>1. driver'[x] = driver[x] /\ told'[x] = told[x] /\ clawcli'[x] = clawcli[x] /\ helper'[x] = helper[x]
        BY <1>1, <1>2, <2>1, <3>2
      <4> QED  BY <4>1 DEF DriverReads, Lives
    <3> QED  BY <3>1, <3>2
  <2> QED  BY <2>2 DEF DriverReads, Lives
<1>6. /\ \A x \in Exports : driver'[x] \in {"asked", "reading", "ended"} <=> driver[x] \in {"asked", "reading", "ended"}
  BY <1>1 DEF BundleTypes
<1>7. Alone'
  BY <1>1, <1>6 DEF Alone, UnderWay
<1>8. BundleOwn' /\ DialogOfOk'
  <2>1. \A x \in Exports : /\ clawcli'[x] = "ok" <=> clawcli[x] = "ok"
                           /\ clawcli'[x] = "wrap" => clawcli[x] = "wrap"
    BY <1>2
  <2>2. BundleOwn'
    BY <1>1, <1>6, <2>1 DEF BundleOwn, Target, UnderWay, WholeBundle
  <2>3. DialogOfOk'
    BY <1>1, <2>1 DEF DialogOfOk
  <2> QED  BY <2>2, <2>3
<1>9. SlotOwn'
  BY <1>1, <1>2, ZenonT(60) DEF SlotOwn, SlotIsKid, SlotIsFresh, Running, Lives, BundleTypes
<1> QED  BY <1>3, <1>4, <1>5, <1>7, <1>8, <1>9

(* The dialog that shows the success of an export under way alone is its own.*)
LEMMA SettleKeeps ==
  ASSUME BundleIInv, NEW e \in Exports, Settle(e) PROVE BundleIInv'
<1> USE DEF BundleIInv
<1>1. /\ driver[e] = "ended"
      /\ driver' = [driver EXCEPT ![e] = "settled"]
      /\ slot' = 0
      /\ Heard(told[e])
      /\ UNCHANGED <<order, clawcli, helper, told, bundle, import, overlap, met>>
  BY DEF Settle
<1>2. told[e] \in {"complete", "failed"} /\ (told[e] = "complete" => clawcli[e] = "ok")
  BY <1>1 DEF DriverReads, BundleTypes
<1>3. dialog \in [of : Exports \union {0}, says : {"none", "not yet", "exporting", "cancelled", "done"}]
  BY DEF BundleTypes
<1>4. /\ dialog' \in [of : Exports \union {0}, says : {"none", "not yet", "exporting", "cancelled", "done"}]
      /\ dialog'.says # "none" => dialog.says # "none" /\ dialog'.of = dialog.of
      /\ dialog'.says = "done" => told[e] = "complete"
  <2>1. CASE dialog.says \in {"none", "not yet"}
    BY <1>1, <1>3, <2>1 DEF Heard
  <2>2. CASE dialog.says \notin {"none", "not yet"} /\ told[e] = "failed"
    BY <1>1, <2>2 DEF Heard, NoDialog
  <2>3. CASE dialog.says \notin {"none", "not yet"} /\ told[e] = "complete"
    <3>1. dialog' = [dialog EXCEPT !.says = "done"]
      BY <1>1, <2>3 DEF Heard
    <3> QED  BY <1>3, <2>3, <3>1
  <2> QED  BY <1>2, <2>1, <2>2, <2>3
<1>5. BundleTypes'
  BY <1>1, <1>4 DEF BundleTypes, Target
<1>6. BundleAuthors'
  BY <1>1 DEF BundleAuthors, ImportIsWhole
<1>7. DriverReads'
  <2>1. /\ driver'[e] = "settled" /\ ~Lives(e)
        /\ \A x \in Exports \ {e} : driver'[x] = driver[x]
    <3>1. driver[e] = "ended" /\ driver' = [driver EXCEPT ![e] = "settled"]
      BY <1>1
    <3>2. ~Lives(e)
      BY <3>1 DEF DriverReads
    <3> QED  BY <3>1, <3>2 DEF BundleTypes
  <2>2. ASSUME NEW x \in Exports
        PROVE  /\ driver'[x] \in {"new", "asked"} => clawcli[x] = "none" /\ helper[x] = "none"
               /\ clawcli[x] \in {"image", "wrap"} => driver'[x] = "reading"
               /\ driver'[x] = "ended" => told[x] # ""
               /\ told[x] = "complete" => clawcli[x] = "ok"
    <3>1. CASE x = e
      BY <2>1, <3>1 DEF DriverReads, Lives
    <3>2. CASE x # e
      BY <2>1, <3>2 DEF DriverReads, Lives
    <3> QED  BY <3>1, <3>2
  <2> QED  BY <1>1, <2>2 DEF DriverReads, Lives
<1>8. /\ \A x \in Exports : UnderWay(x)' => UnderWay(x)
      /\ UnderWay(e)
  BY <1>1 DEF UnderWay, BundleTypes
<1>9. Alone'
  BY <1>1, <1>4, <1>8 DEF Alone
<1>10. ~overlap /\ dialog'.says = "done" => dialog'.of = e /\ clawcli[e] = "ok"
  BY <1>2, <1>4, <1>8 DEF Alone
<1>11. BundleOwn' /\ DialogOfOk'
  <2>1. DialogOfOk'
    BY <1>1, <1>10 DEF DialogOfOk
  <2>2. ASSUME NEW x \in Exports, ~overlap, Target(x) \notin met,
               clawcli[x] = "ok", UnderWay(x)' \/ (dialog'.says = "done" /\ dialog'.of = x)
        PROVE  bundle[Target(x)] = WholeBundle(x)
    <3>1. UnderWay(x)
      BY <1>8, <1>10, <2>2
    <3> QED  BY <2>2, <3>1 DEF BundleOwn
  <2>3. BundleOwn'
    BY <1>1, <2>2 DEF BundleOwn, Target, WholeBundle
  <2> QED  BY <2>1, <2>3
<1>12. SlotIsFresh'
  BY <1>1 DEF SlotIsFresh
<1>13. SlotIsKid'
  BY <1>1, ZenonT(60) DEF SlotIsKid, Running, Lives, BundleTypes, Alone, UnderWay
<1> QED  BY <1>5, <1>6, <1>7, <1>9, <1>11, <1>12, <1>13 DEF SlotOwn

(* The opening of the bundle makes it the export's own, unless an orphan's  *)
(* tar writes the same file: then the file has been met.                    *)
LEMMA TakeImageKeeps ==
  ASSUME BundleIInv, NEW e \in Exports, TakeImage(e) PROVE BundleIInv'
<1> USE DEF BundleIInv
<1> DEFINE writers == {x \in Exports \ {e} : helper[x] = "wrap" /\ Target(x) = Target(e)}
<1>1. /\ clawcli[e] = "image"
      /\ UNCHANGED <<driver, order, told, slot, dialog, import, overlap>>
  BY DEF TakeImage
<1>2. driver[e] = "reading" /\ Target(e) \in BundleFiles /\ UnderWay(e)
  BY <1>1 DEF DriverReads, Lives, BundleTypes, UnderWay
<1>3. \/ /\ clawcli' = [clawcli EXCEPT ![e] = "wrap"]
         /\ helper' = [helper EXCEPT ![e] = "wrap"]
         /\ met' = IF writers = {} THEN met ELSE met \union {Target(e)}
         /\ bundle' = [bundle EXCEPT ![Target(e)] =
                          [by |-> e, state |-> IF writers = {} THEN "partial" ELSE "mixed"]]
      \/ /\ clawcli' = [clawcli EXCEPT ![e] = "err"]
         /\ helper' = [helper EXCEPT ![e] = "none"]
         /\ UNCHANGED <<bundle, met>>
  BY DEF TakeImage
<1> HIDE DEF writers
<1>4. /\ clawcli'[e] \in {"wrap", "err"} /\ \A x \in Exports \ {e} : clawcli'[x] = clawcli[x]
      /\ \A x \in Exports \ {e} : helper'[x] = helper[x]
      /\ clawcli' \in [Exports -> {"none", "image", "wrap", "ok", "err", "killed"}]
      /\ helper' \in [Exports -> {"none", "image", "wrap"}]
  BY <1>3, ZenonT(60) DEF BundleTypes
<1>5. /\ bundle' \in [BundleFiles -> [by : Exports \union {0}, state : {"absent", "partial", "mixed", "whole"}]]
      /\ met' \subseteq BundleFiles /\ met \subseteq met'
      /\ \A f \in BundleFiles \ {Target(e)} : bundle'[f] = bundle[f]
      /\ clawcli'[e] = "wrap" /\ Target(e) \notin met' => bundle'[Target(e)] = [by |-> e, state |-> "partial"]
      /\ bundle'[Target(e)] = bundle[Target(e)] \/ bundle'[Target(e)].by = e
  <2>1. /\ bundle \in [BundleFiles -> [by : Exports \union {0}, state : {"absent", "partial", "mixed", "whole"}]]
        /\ met \subseteq BundleFiles
    BY DEF BundleTypes
  <2>2. CASE /\ met' = IF writers = {} THEN met ELSE met \union {Target(e)}
             /\ bundle' = [bundle EXCEPT ![Target(e)] =
                              [by |-> e, state |-> IF writers = {} THEN "partial" ELSE "mixed"]]
    <3>1. bundle'[Target(e)] = [by |-> e, state |-> IF writers = {} THEN "partial" ELSE "mixed"]
      BY <1>2, <2>1, <2>2
    <3>2. bundle'[Target(e)].by = e
      BY <3>1
    <3>3. bundle' \in [BundleFiles -> [by : Exports \union {0}, state : {"absent", "partial", "mixed", "whole"}]]
      BY <2>1, <2>2
    <3>4. met' \subseteq BundleFiles /\ met \subseteq met' /\ (Target(e) \notin met' => writers = {})
      BY <1>2, <2>1, <2>2
    <3>5. \A f \in BundleFiles \ {Target(e)} : bundle'[f] = bundle[f]
      BY <2>1, <2>2
    <3> QED  BY <3>1, <3>2, <3>3, <3>4, <3>5
  <2>3. CASE clawcli' = [clawcli EXCEPT ![e] = "err"] /\ UNCHANGED <<bundle, met>>
    <3>1. clawcli'[e] = "err"
      BY <2>3 DEF BundleTypes
    <3> QED  BY <2>1, <2>3, <3>1
  <2> QED  BY <1>3, <2>2, <2>3
<1>6. BundleTypes'
  BY <1>1, <1>4, <1>5 DEF BundleTypes, Target
<1>7. BundleAuthors'
  <2>1. e # 0
    BY DEF Exports
  <2>2. \A f \in BundleFiles : bundle'[f].state \in {"partial", "whole"} => bundle'[f].by # 0
    BY <1>5, <2>1 DEF BundleAuthors
  <2> QED  BY <1>1, <2>2 DEF BundleAuthors, ImportIsWhole
<1>8. DriverReads'
  <2>1. ASSUME NEW x \in Exports
        PROVE  /\ driver[x] \in {"new", "asked"} => clawcli'[x] = "none" /\ helper'[x] = "none"
               /\ clawcli'[x] \in {"image", "wrap"} => driver[x] = "reading"
               /\ driver[x] = "ended" => told[x] # ""
               /\ told[x] = "complete" => clawcli'[x] = "ok"
    <3>1. CASE x = e
      BY <1>1, <1>2, <3>1 DEF DriverReads, Lives
    <3>2. CASE x # e
      BY <1>4, <3>2 DEF DriverReads, Lives
    <3> QED  BY <3>1, <3>2
  <2> QED  BY <1>1, <2>1 DEF DriverReads, Lives
<1>9. Alone'
  BY <1>1 DEF Alone, UnderWay
<1>10. ~overlap => /\ \A x \in Exports \ {e} : ~UnderWay(x) /\ clawcli[x] # "wrap"
                   /\ dialog.says # "none" => dialog.of = e
  <2>1. \A x \in Exports : clawcli[x] = "wrap" => UnderWay(x)
    BY DEF DriverReads, Lives, UnderWay
  <2> QED  BY <1>2, <2>1 DEF Alone
<1>11. BundleOwn'
  <2>1. ASSUME NEW x \in Exports, ~overlap, Target(x) \notin met'
        PROVE  /\ clawcli'[x] = "wrap" => bundle'[Target(x)] = [by |-> x, state |-> "partial"]
               /\ ~(clawcli'[x] = "ok" /\ (UnderWay(x) \/ (dialog.says = "done" /\ dialog.of = x)))
    <3>1. CASE x = e
      BY <1>4, <1>5, <2>1, <3>1
    <3>2. CASE x # e
      BY <1>4, <1>10, <2>1, <3>2
    <3> QED  BY <3>1, <3>2
  <2> QED  BY <1>1, <2>1 DEF BundleOwn, UnderWay, Target
<1>12. DialogOfOk'
  <2>1. ~(dialog.says = "done" /\ ~overlap)
    BY <1>1, <1>10 DEF DialogOfOk
  <2> QED  BY <1>1, <2>1 DEF DialogOfOk
<1>13. SlotOwn'
  BY <1>1, <1>4 DEF SlotOwn, SlotIsKid, SlotIsFresh, Running, Lives
<1> QED  BY <1>6, <1>7, <1>8, <1>9, <1>11, <1>12, <1>13

(* What a tar that ends writes is at most its own bundle, made whole.       *)
LEMMA WrittenOwn ==
  ASSUME BundleIInv, NEW e \in Exports, driver[e] # "new", bundle' = Written(e) \/ UNCHANGED bundle
  PROVE  /\ bundle' \in [BundleFiles -> [by : Exports \union {0}, state : {"absent", "partial", "mixed", "whole"}]]
         /\ \A f \in BundleFiles : bundle'[f] = bundle[f]
                                   \/ (bundle[f] = [by |-> e, state |-> "partial"] /\ bundle'[f] = WholeBundle(e))
<1>1. bundle \in [BundleFiles -> [by : Exports \union {0}, state : {"absent", "partial", "mixed", "whole"}]]
  BY DEF BundleIInv, BundleTypes
<1>2. CASE bundle' = Written(e)
  <2>1. WholeBundle(e) \in [by : Exports \union {0}, state : {"absent", "partial", "mixed", "whole"}]
    BY DEF WholeBundle
  <2>2. Written(e) = [f \in BundleFiles |->
                        IF f = Target(e) /\ bundle[f] = [by |-> e, state |-> "partial"] THEN WholeBundle(e) ELSE bundle[f]]
    BY <1>1 DEF Written
  <2> QED  BY <1>1, <1>2, <2>1, <2>2
<1>3. CASE UNCHANGED bundle
  BY <1>1, <1>3
<1> QED  BY <1>2, <1>3

LEMMA WrapKeeps ==
  ASSUME BundleIInv, NEW e \in Exports, Wrap(e) PROVE BundleIInv'
<1> USE DEF BundleIInv
<1>1. /\ clawcli[e] = "wrap" /\ helper' = [helper EXCEPT ![e] = "none"]
      /\ UNCHANGED <<driver, order, told, slot, dialog, import, overlap, met>>
      /\ \/ clawcli' = [clawcli EXCEPT ![e] = "ok"] /\ bundle' = Written(e)
         \/ clawcli' = [clawcli EXCEPT ![e] = "err"] /\ UNCHANGED bundle
  BY DEF Wrap
<1>2. driver[e] = "reading" /\ Target(e) \in BundleFiles /\ UnderWay(e)
  BY <1>1 DEF DriverReads, Lives, BundleTypes, UnderWay
<1>3. /\ bundle' \in [BundleFiles -> [by : Exports \union {0}, state : {"absent", "partial", "mixed", "whole"}]]
      /\ \A f \in BundleFiles : bundle'[f] = bundle[f]
                                \/ (bundle[f] = [by |-> e, state |-> "partial"] /\ bundle'[f] = WholeBundle(e))
  BY <1>1, <1>2, WrittenOwn
<1>4. /\ clawcli'[e] \in {"ok", "err"} /\ \A x \in Exports \ {e} : clawcli'[x] = clawcli[x]
      /\ \A x \in Exports \ {e} : helper'[x] = helper[x]
      /\ clawcli' \in [Exports -> {"none", "image", "wrap", "ok", "err", "killed"}]
      /\ helper' \in [Exports -> {"none", "image", "wrap"}]
  BY <1>1, ZenonT(60) DEF BundleTypes
<1>5. BundleTypes'
  BY <1>1, <1>3, <1>4 DEF BundleTypes, Target
<1>6. BundleAuthors'
  <2>1. e # 0
    BY DEF Exports
  <2>2. \A f \in BundleFiles : bundle'[f].state \in {"partial", "whole"} => bundle'[f].by # 0
    BY <1>3, <2>1 DEF BundleAuthors, WholeBundle
  <2> QED  BY <1>1, <2>2 DEF BundleAuthors, ImportIsWhole
<1>7. DriverReads'
  <2>1. ASSUME NEW x \in Exports
        PROVE  /\ driver[x] \in {"new", "asked"} => clawcli'[x] = "none" /\ helper'[x] = "none"
               /\ clawcli'[x] \in {"image", "wrap"} => driver[x] = "reading"
               /\ driver[x] = "ended" => told[x] # ""
               /\ told[x] = "complete" => clawcli'[x] = "ok"
    <3>1. CASE x = e
      BY <1>1, <1>2, <3>1 DEF DriverReads, Lives
    <3>2. CASE x # e
      BY <1>4, <3>2 DEF DriverReads, Lives
    <3> QED  BY <3>1, <3>2
  <2> QED  BY <1>1, <2>1 DEF DriverReads, Lives
<1>8. Alone'
  BY <1>1 DEF Alone, UnderWay
<1>9. ~overlap => /\ \A x \in Exports \ {e} : ~UnderWay(x) /\ clawcli[x] # "wrap"
                  /\ dialog.says # "none" => dialog.of = e
  <2>1. \A x \in Exports : clawcli[x] = "wrap" => UnderWay(x)
    BY DEF DriverReads, Lives, UnderWay
  <2> QED  BY <1>2, <2>1 DEF Alone
<1>10. BundleOwn'
  <2>1. ASSUME NEW x \in Exports, ~overlap, Target(x) \notin met
        PROVE  /\ clawcli'[x] # "wrap"
               /\ clawcli'[x] = "ok" /\ (UnderWay(x) \/ (dialog.says = "done" /\ dialog.of = x)) =>
                    bundle'[Target(x)] = WholeBundle(x)
    <3>1. CASE x = e
      <4>1. bundle[Target(e)] = [by |-> e, state |-> "partial"]
        BY <1>1, <2>1, <3>1 DEF BundleOwn
      <4>2. clawcli'[e] = "ok" => bundle'[Target(e)] = WholeBundle(e)
        BY <1>1, <1>2, <4>1 DEF BundleTypes, Written
      <4> QED  BY <1>4, <3>1, <4>2
    <3>2. CASE x # e
      BY <1>4, <1>9, <2>1, <3>2
    <3> QED  BY <3>1, <3>2
  <2> QED  BY <1>1, <2>1 DEF BundleOwn, UnderWay, Target, WholeBundle
<1>11. DialogOfOk'
  <2>1. ~(dialog.says = "done" /\ ~overlap)
    BY <1>1, <1>9 DEF DialogOfOk
  <2> QED  BY <1>1, <2>1 DEF DialogOfOk
<1>12. SlotOwn'
  BY <1>1, <1>4 DEF SlotOwn, SlotIsKid, SlotIsFresh, Running, Lives
<1> QED  BY <1>5, <1>6, <1>7, <1>8, <1>10, <1>11, <1>12

(* An orphan that ends changes nothing that is another export's own.        *)
LEMMA OrphanKeeps ==
  ASSUME BundleIInv, NEW e \in Exports, Orphan(e) PROVE BundleIInv'
<1> USE DEF BundleIInv
<1>1. /\ clawcli[e] = "killed" /\ helper[e] # "none" /\ helper' = [helper EXCEPT ![e] = "none"]
      /\ UNCHANGED <<driver, order, clawcli, told, slot, dialog, import, overlap, met>>
      /\ bundle' = Written(e) \/ UNCHANGED bundle
  BY DEF Orphan
<1>2. driver[e] # "new"
  BY <1>1 DEF DriverReads
<1>3. /\ bundle' \in [BundleFiles -> [by : Exports \union {0}, state : {"absent", "partial", "mixed", "whole"}]]
      /\ \A f \in BundleFiles : bundle'[f] = bundle[f]
                                \/ (bundle[f] = [by |-> e, state |-> "partial"] /\ bundle'[f] = WholeBundle(e))
  BY <1>1, <1>2, WrittenOwn
<1>4. BundleTypes'
  BY <1>1, <1>3 DEF BundleTypes, Target
<1>5. BundleAuthors'
  <2>1. e # 0
    BY DEF Exports
  <2>2. \A f \in BundleFiles : bundle'[f].state \in {"partial", "whole"} => bundle'[f].by # 0
    BY <1>3, <2>1 DEF BundleAuthors, WholeBundle
  <2> QED  BY <1>1, <2>2 DEF BundleAuthors, ImportIsWhole
<1>6. DriverReads'
  <2>1. \A x \in Exports : helper[x] = "none" => helper'[x] = "none"
    BY <1>1 DEF BundleTypes
  <2> QED  BY <1>1, <2>1 DEF DriverReads, Lives
<1>7. Alone' /\ DialogOfOk' /\ SlotOwn'
  BY <1>1 DEF Alone, UnderWay, DialogOfOk, SlotOwn, SlotIsKid, SlotIsFresh, Running, Lives
<1>8. BundleOwn'
  <2>1. ASSUME NEW x \in Exports, ~overlap, Target(x) \notin met
        PROVE  /\ clawcli[x] = "wrap" => bundle'[Target(x)] = [by |-> x, state |-> "partial"]
               /\ clawcli[x] = "ok" /\ (UnderWay(x) \/ (dialog.says = "done" /\ dialog.of = x)) =>
                    bundle'[Target(x)] = WholeBundle(x)
    <3>1. CASE x = e
      BY <1>1, <3>1
    <3>2. CASE x # e
      <4>1. clawcli[x] \in {"wrap", "ok"} => driver[x] # "new"
        BY DEF DriverReads
      <4>2. clawcli[x] \in {"wrap", "ok"} => Target(x) \in BundleFiles
        BY <4>1 DEF BundleTypes
      <4>3. /\ clawcli[x] = "wrap" => bundle[Target(x)] = [by |-> x, state |-> "partial"]
            /\ clawcli[x] = "ok" /\ (UnderWay(x) \/ (dialog.says = "done" /\ dialog.of = x)) =>
                 bundle[Target(x)] = WholeBundle(x)
        BY <2>1 DEF BundleOwn
      <4>4. /\ [by |-> x, state |-> "partial"] # [by |-> e, state |-> "partial"]
            /\ WholeBundle(x) # [by |-> e, state |-> "partial"]
        BY <3>2 DEF WholeBundle
      <4> QED  BY <1>3, <4>2, <4>3, <4>4
    <3> QED  BY <3>1, <3>2
  <2> QED  BY <1>1, <2>1 DEF BundleOwn, UnderWay, Target, WholeBundle
<1> QED  BY <1>4, <1>5, <1>6, <1>7, <1>8

LEMMA ImportKeeps ==
  ASSUME BundleIInv, (\E f \in BundleFiles : Inspect(f)) \/ Extract PROVE BundleIInv'
<1> USE DEF BundleIInv
<1>1. UNCHANGED <<driver, order, clawcli, helper, told, slot, dialog, bundle, overlap, met>>
  BY DEF Inspect, Extract
<1>2. /\ import'.at = "inspected" => import'.from \in BundleFiles
      /\ import'.at = "ok" => import'.body # 0
  <2>1. ASSUME NEW f \in BundleFiles, Inspect(f)
        PROVE  /\ import'.at \in {"inspected", "err"}
               /\ import'.at = "inspected" => import'.from = f
    BY <2>1 DEF Inspect, NoImport
  <2>2. CASE Extract
    <3>1. import.at = "inspected" /\ import.from \in BundleFiles
      BY <2>2 DEF Extract, BundleAuthors
    <3>2. CASE bundle[import.from].state = "whole"
      <4>1. bundle[import.from].by # 0
        BY <3>1, <3>2 DEF BundleAuthors
      <4>2. import' = [import EXCEPT !.at = "ok", !.body = bundle[import.from].by]
        BY <2>2, <3>2 DEF Extract
      <4> QED  BY <4>1, <4>2
    <3>3. CASE bundle[import.from].state # "whole"
      BY <2>2, <3>3 DEF Extract
    <3> QED  BY <3>2, <3>3
  <2> QED  BY <2>1, <2>2
<1>3. BundleTypes' /\ DriverReads' /\ SlotOwn'
  BY <1>1 DEF BundleTypes, Target, DriverReads, Lives, SlotOwn, SlotIsKid, SlotIsFresh, Running
<1>4. Alone' /\ BundleOwn' /\ DialogOfOk'
  BY <1>1 DEF Alone, UnderWay, BundleOwn, DialogOfOk, Target, WholeBundle
<1>5. BundleAuthors'
  BY <1>1, <1>2 DEF BundleAuthors, ImportIsWhole
<1> QED  BY <1>3, <1>4, <1>5

LEMMA BundleStep == BundleIInv /\ [BundleNext]_exporting => BundleIInv'
<1> SUFFICES ASSUME BundleIInv, [BundleNext]_exporting PROVE BundleIInv'
  OBVIOUS
<1>1. ASSUME NEW e \in Exports, AskExport(e) PROVE BundleIInv'
  BY <1>1, AskKeeps
<1>2. ASSUME NEW e \in Exports, Run(e) PROVE BundleIInv'
  BY <1>2, RunKeeps
<1>3. ASSUME NEW e \in Exports, ReadOutput(e) PROVE BundleIInv'
  BY <1>3, ReadKeeps
<1>4. ASSUME NEW e \in Exports, Settle(e) PROVE BundleIInv'
  BY <1>4, SettleKeeps
<1>5. ASSUME NEW e \in Exports, TakeImage(e) PROVE BundleIInv'
  BY <1>5, TakeImageKeeps
<1>6. ASSUME NEW e \in Exports, Wrap(e) PROVE BundleIInv'
  BY <1>6, WrapKeeps
<1>7. ASSUME NEW e \in Exports, Orphan(e) PROVE BundleIInv'
  BY <1>7, OrphanKeeps
<1>8. CASE Open \/ Close
  BY <1>8, DialogKeeps
<1>9. CASE Cancel
  BY <1>9, CancelKeeps
<1>10. CASE (\E f \in BundleFiles : Inspect(f)) \/ Extract
  BY <1>10, ImportKeeps
<1>11. CASE UNCHANGED exporting
  <2>1. BundleTypes' /\ BundleAuthors' /\ DriverReads'
    BY <1>11 DEF exporting, BundleIInv, BundleTypes, Target, BundleAuthors, ImportIsWhole, DriverReads, Lives
  <2>2. Alone' /\ BundleOwn' /\ DialogOfOk'
    BY <1>11 DEF exporting, BundleIInv, Alone, UnderWay, BundleOwn, DialogOfOk, Target, WholeBundle
  <2>3. SlotOwn'
    BY <1>11 DEF exporting, BundleIInv, SlotOwn, SlotIsKid, SlotIsFresh, Running, Lives
  <2> QED  BY <2>1, <2>2, <2>3 DEF BundleIInv
<1> QED  BY <1>1, <1>2, <1>3, <1>4, <1>5, <1>6, <1>7, <1>8, <1>9, <1>10, <1>11 DEF BundleNext

LEMMA BundleSafe == BundleIInv => BundleInv
<1> SUFFICES ASSUME BundleIInv PROVE BundleInv
  OBVIOUS
<1> USE DEF BundleIInv
<1>1. BundleTypeOK
  BY DEF BundleTypes, BundleTypeOK
<1>2. DoneIsWhole
  <2> SUFFICES ASSUME dialog.says = "done", ~overlap, Target(dialog.of) \notin met
               PROVE  bundle[Target(dialog.of)] = WholeBundle(dialog.of)
    BY DEF DoneIsWhole
  <2>1. dialog.of \in Exports /\ clawcli[dialog.of] = "ok"
    BY DEF DialogOfOk
  <2> QED  BY <2>1 DEF BundleOwn
<1> QED  BY <1>1, <1>2 DEF BundleInv, SlotOwn, BundleAuthors

(* For any number of exports, machines and files: Cancel finds the export   *)
(* that runs and never one that is over; a dialog that says done stands for *)
(* a whole bundle of its own export, as long as no two drivers or tars met; *)
(* and an import that succeeds took the whole image of one export           *)
(* (tauri/src/ipc/export.rs:22-136, cli/src/cmd/verbs.rs:1334-1386).        *)
THEOREM BundleHolds == BundleSpec => []BundleInv
<1>1. BundleInit => BundleIInv
  BY BundleStart
<1>2. BundleIInv /\ [BundleNext]_exporting => BundleIInv'
  BY BundleStep
<1>3. BundleIInv => BundleInv
  BY BundleSafe
<1> QED  BY <1>1, <1>2, <1>3, PTL DEF BundleSpec

-----------------------------------------------------------------------------
(* Gateways.                                                                *)
Trees == Vers \union {"none", "empty"}
TaskSteps == {"idle", "ok", "err", "lookup", "preflight", "npm", "verify", "record", "boot", "npm in the VM", "spawn",
          "probe", "start", "stop", "stopall", "stopping", "destroy"}
TaskSet == [kind : Commands \union {""}, of : Names \union {""}, ver : Vers \union {"none"},
            port : Ports \union {0}, at : TaskSteps, left : SUBSET Boxed, ready : 0..MaxDaemons]
GatewaySet == [of : Names \union {""}, ver : Trees, port : Ports \union {0},
               at : {"none", "starting", "serving", "gone"}]

DaemonTypes ==
  /\ node \in {"none", "bare", "npm"}
  /\ tree \in [Names -> Trees]
  /\ port \in [Names -> Ports \union {0}]
  /\ up \in [Boxed -> BOOLEAN]
  /\ daemon \in [Daemons -> GatewaySet]
  /\ spawned \in 0..MaxDaemons
  /\ task \in [Tasks -> TaskSet]
  /\ since \in [Names -> SUBSET Trees]

\* A command is at a step of its kind of instance.
Placed(t) ==
  /\ t.at # "idle" => t.of \in Names /\ t.ver \in Vers
  /\ t.kind \in {"install", "create"} => t.of \in Native
  /\ t.at \in {"preflight", "npm", "verify"} => t.of \in Native
  /\ t.at \in {"boot", "npm in the VM", "destroy"} => t.of \in Boxed

\* An install that is about to record its instance has a binary, as the records
\* have, unless the tree was spoilt meanwhile.
Backed(t) == t.kind = "install" /\ t.at = "record" /\ t.of \notin excused => tree[t.of] \in Vers

\* What runs, or could be run, in an instance was installed since its last stop.
Versed ==
  /\ \A n \in Names : tree[n] \in Vers => tree[n] \in since[n]
  /\ \A n \in Boxed : tree[n] # "empty" /\ (up[n] => tree[n] # "none")
  /\ \A d \in Alive : daemon[d].of \in Names /\ daemon[d].ver \in since[daemon[d].of]

DaemonIInv ==
  /\ DaemonTypes
  /\ \A p \in Tasks : Placed(task[p]) /\ Backed(task[p])
  /\ RecordedIsInstalled
  /\ NoGatewayWithoutVm
  /\ Versed

LEMMA DaemonsStart == DaemonInit => DaemonIInv
<1> SUFFICES ASSUME DaemonInit PROVE DaemonIInv
  OBVIOUS
<1> USE DaemonAssumption DEF DaemonInit
<1>1. task \in [Tasks -> TaskSet]
  <2>1. 0 \in 0..MaxDaemons /\ {} \in SUBSET Boxed
    OBVIOUS
  <2>2. NoTask \in TaskSet
    BY <2>1 DEF NoTask, TaskSet, TaskSteps
  <2> QED  BY <2>2
<1>2. daemon \in [Daemons -> GatewaySet]
  BY DEF Unspawned, GatewaySet, Trees
<1>3. since \in [Names -> SUBSET Trees] /\ tree \in [Names -> Trees]
  BY DEF Trees
<1>4. DaemonTypes
  BY <1>1, <1>2, <1>3 DEF DaemonTypes, Names
<1>5. \A p \in Tasks : Placed(task[p]) /\ Backed(task[p])
  BY DEF NoTask, Placed, Backed
<1>6. RecordedIsInstalled
  BY DEF RecordedIsInstalled, Names
<1>7. Alive = {}
  BY DEF Alive, Unspawned
<1>8. NoGatewayWithoutVm
  BY <1>7 DEF NoGatewayWithoutVm, Own
<1>9. Versed
  BY <1>7 DEF Versed, Names
<1> QED  BY <1>4, <1>5, <1>6, <1>8, <1>9 DEF DaemonIInv

(* What moving to a step does to a task.                                    *)
LEMMA Moves ==
  ASSUME DaemonIInv, NEW p \in Tasks, NEW s \in TaskSteps, To(p, s)
  PROVE  LET t == [task[p] EXCEPT !.at = s]
         IN /\ task' = [task EXCEPT ![p] = t] /\ t \in TaskSet
            /\ t.at = s /\ t.kind = task[p].kind /\ t.of = task[p].of /\ t.ver = task[p].ver
<1>1. task \in [Tasks -> TaskSet]
  BY DEF DaemonIInv, DaemonTypes
<1> QED  BY <1>1 DEF To, TaskSet

LEMMA Moved ==
  ASSUME DaemonIInv, NEW p \in Tasks, NEW s \in TaskSteps, To(p, s)
  PROVE  /\ task' \in [Tasks -> TaskSet]
         /\ task'[p].at = s /\ task'[p].kind = task[p].kind
         /\ task'[p].of = task[p].of /\ task'[p].ver = task[p].ver
         /\ \A x \in Tasks \ {p} : task'[x] = task[x]
<1> DEFINE t == [task[p] EXCEPT !.at = s]
<1>1. /\ task' = [task EXCEPT ![p] = t] /\ t \in TaskSet
      /\ t.at = s /\ t.kind = task[p].kind /\ t.of = task[p].of /\ t.ver = task[p].ver
  BY Moves
<1>2. task \in [Tasks -> TaskSet]
  BY DEF DaemonIInv, DaemonTypes
<1> HIDE DEF t
<1> QED  BY <1>1, <1>2

(* A step that changes no more than its own task.                           *)
LEMMA TaskKeeps ==
  ASSUME DaemonIInv, NEW p \in Tasks, NEW t \in TaskSet, task' = [task EXCEPT ![p] = t],
         Placed(t), Backed(t), node' \in {"none", "bare", "npm"},
         UNCHANGED <<tree, port, up, daemon, spawned, excused, since>>
  PROVE  DaemonIInv'
<1> USE DEF DaemonIInv
<1>1. DaemonTypes'
  BY DEF DaemonTypes
<1>2. \A x \in Tasks : task'[x] = IF x = p THEN t ELSE task[x]
  BY DEF DaemonTypes
<1>3. \A x \in Tasks : Placed(task'[x]) /\ Backed(task'[x])
  BY <1>2
<1>4. \A x \in Tasks : Placed(task[x])' /\ Backed(task[x])'
  BY <1>3 DEF Placed, Backed
<1>5. RecordedIsInstalled' /\ NoGatewayWithoutVm' /\ Versed'
  BY DEF RecordedIsInstalled, NoGatewayWithoutVm, Own, Alive, Versed
<1> QED  BY <1>1, <1>4, <1>5

LEMMA NoTaskIs == NoTask \in TaskSet
<1>1. 0 \in 0..MaxDaemons /\ {} \in SUBSET Boxed
  BY DaemonAssumption
<1> QED  BY <1>1 DEF NoTask, TaskSet, TaskSteps

LEMMA DaemonAskKeeps ==
  ASSUME DaemonIInv, NEW p \in Tasks, Ask(p) PROVE DaemonIInv'
<1>1. PICK k \in Commands, n \in Names, v \in Vers, h \in Ports :
        /\ k \in {"install", "create"} => n \in Native
        /\ task' = [task EXCEPT ![p] = [NoTask EXCEPT !.kind = k, !.of = n, !.ver = v, !.port = h,
                                          !.at = IF k \in Lookups THEN "lookup" ELSE k]]
  BY DEF Ask
<1>2. PICK a \in {"lookup", "start", "stop", "stopall"} : a = IF k \in Lookups THEN "lookup" ELSE k
  BY DEF Lookups, Commands
<1> DEFINE t == [NoTask EXCEPT !.kind = k, !.of = n, !.ver = v, !.port = h, !.at = a]
<1>3. task' = [task EXCEPT ![p] = t]
  BY <1>1, <1>2
<1>4. t \in TaskSet /\ t.kind = k /\ t.of = n /\ t.ver = v /\ t.at = a
  <2>1. a \in TaskSteps
    BY DEF TaskSteps
  <2>2. ASSUME NEW u \in TaskSet
        PROVE  LET w == [u EXCEPT !.kind = k, !.of = n, !.ver = v, !.port = h, !.at = a]
               IN w \in TaskSet /\ w.kind = k /\ w.of = n /\ w.ver = v /\ w.at = a
    BY <1>1, <2>1 DEF TaskSet
  <2> QED  BY <2>2, NoTaskIs
<1> HIDE DEF t
<1>5. Placed(t) /\ Backed(t)
  BY <1>1, <1>4 DEF Placed, Backed
<1>6. node' \in {"none", "bare", "npm"} /\ UNCHANGED <<tree, port, up, daemon, spawned, excused, since>>
  BY DEF Ask, DaemonIInv, DaemonTypes
<1> QED  BY <1>3, <1>4, <1>5, <1>6, TaskKeeps

(* The steps that move a task and touch nothing else of what is installed.  *)
LEMMA StepKeeps ==
  ASSUME DaemonIInv, NEW p \in Tasks, NEW s \in TaskSteps, To(p, s),
         s \in {"npm", "verify"} => task[p].of \in Native,
         s = "preflight" => task[p].kind \in {"install", "create"},
         s \in {"boot", "npm in the VM", "destroy"} => FALSE,
         s = "record" => task[p].kind # "install" \/ tree[task[p].of] \in Vers,
         task[p].at # "idle", node' \in {"none", "bare", "npm"},
         UNCHANGED <<tree, port, up, daemon, spawned, excused, since>>
  PROVE  DaemonIInv'
<1> DEFINE t == [task[p] EXCEPT !.at = s]
<1>1. /\ task' = [task EXCEPT ![p] = t] /\ t \in TaskSet
      /\ t.at = s /\ t.kind = task[p].kind /\ t.of = task[p].of /\ t.ver = task[p].ver
  BY Moves
<1> HIDE DEF t
<1>2. Placed(t) /\ Backed(t)
  BY <1>1 DEF DaemonIInv, Placed, Backed
<1> QED  BY <1>1, <1>2, TaskKeeps

LEMMA LookupKeeps ==
  ASSUME DaemonIInv, NEW p \in Tasks, FindFree(p) \/ Find(p) PROVE DaemonIInv'
<1>1. UNCHANGED <<node, tree, port, up, daemon, spawned, asked, diagnosed, excused, since>>
  BY DEF FindFree, Find
<1>2. node' \in {"none", "bare", "npm"} /\ task \in [Tasks -> TaskSet] /\ Placed(task[p])
  BY <1>1 DEF DaemonIInv, DaemonTypes
<1>3. CASE FindFree(p)
  <2>1. task[p].kind \in {"install", "create"} /\ task[p].at = "lookup"
    BY <1>3 DEF FindFree, At
  <2>2. PICK s \in {"preflight", "err"} : To(p, s)
    BY <1>3 DEF FindFree
  <2>3. s \in TaskSteps
    BY DEF TaskSteps
  <2> QED  BY <1>1, <1>2, <2>1, <2>2, <2>3, StepKeeps
<1>4. CASE Find(p)
  <2> DEFINE n == task[p].of
  <2>1. task[p].kind \in {"upgrade", "launch", "uninstall"} /\ task[p].at = "lookup" /\ n \in Names
    BY <1>2, <1>4 DEF Find, At, Placed
  <2>2. CASE port[n] = 0
    <3>1. To(p, "err") /\ "err" \in TaskSteps
      BY <1>4, <2>2 DEF Find, To, TaskSteps
    <3> QED  BY <1>1, <1>2, <2>1, <3>1, StepKeeps
  <2>3. CASE port[n] # 0
    <3> DEFINE t == [task[p] EXCEPT !.at = Then(task[p].kind, n), !.port = port[n]]
    <3>1. task' = [task EXCEPT ![p] = t]
      BY <1>4, <2>3 DEF Find
    <3>2. /\ Then(task[p].kind, n) \in {"boot", "spawn", "destroy", "record", "preflight"}
          /\ Then(task[p].kind, n) \in {"boot", "destroy"} => n \in Boxed
          /\ Then(task[p].kind, n) = "preflight" => n \notin Boxed
      BY <2>1 DEF Then
    <3>3. /\ t.kind = task[p].kind /\ t.of = n /\ t.ver = task[p].ver /\ t.at = Then(task[p].kind, n)
          /\ t \in TaskSet
      <4>1. port[n] \in Ports \union {0}
        BY <2>1 DEF DaemonIInv, DaemonTypes
      <4>2. Then(task[p].kind, n) \in TaskSteps
        BY <3>2 DEF TaskSteps
      <4>3. task[p] \in TaskSet
        BY <1>2
      <4>4. ASSUME NEW s \in TaskSteps, NEW h \in Ports \union {0}, NEW u \in TaskSet
            PROVE  LET r == [u EXCEPT !.at = s, !.port = h]
                   IN r.kind = u.kind /\ r.of = u.of /\ r.ver = u.ver /\ r.at = s /\ r \in TaskSet
        BY DEF TaskSet
      <4> QED  BY <4>1, <4>2, <4>3, <4>4
    <3> HIDE DEF t, n
    <3>4. Placed(t) /\ Backed(t)
      <4>1. task[p].ver \in Vers
        BY <1>2, <2>1 DEF Placed
      <4>2. t.at \notin {"idle", "npm", "verify", "npm in the VM"} /\ t.kind \notin {"install", "create"}
        BY <2>1, <3>2, <3>3
      <4>3. n \in Native \/ n \in Boxed
        BY <2>1 DEF Names
      <4> QED  BY <2>1, <3>2, <3>3, <4>1, <4>2, <4>3 DEF Placed, Backed
    <3> QED  BY <1>1, <1>2, <3>1, <3>3, <3>4, TaskKeeps
  <2> QED  BY <2>2, <2>3
<1> QED  BY <1>3, <1>4

LEMMA CheckKeeps ==
  ASSUME DaemonIInv, NEW p \in Tasks,
         CheckInstall(p) \/ CheckCreate(p) \/ CheckUpgrade(p) \/ Verify(p) \/ VerifyUpgrade(p)
  PROVE  DaemonIInv'
<1>1. UNCHANGED <<node, tree, port, up, daemon, spawned, asked, diagnosed, excused, since>>
  BY DEF CheckInstall, CheckCreate, CheckUpgrade, Verify, VerifyUpgrade
<1>2. node' \in {"none", "bare", "npm"} /\ Placed(task[p])
  BY <1>1 DEF DaemonIInv, DaemonTypes
<1>3. task[p].at \in {"preflight", "verify"}
  BY DEF CheckInstall, CheckCreate, CheckUpgrade, Verify, VerifyUpgrade, At
<1>4. PICK s \in {"npm", "record", "err"} :
        To(p, s) /\ (s = "record" => task[p].kind # "install" \/ tree[task[p].of] \in Vers)
  BY DEF CheckInstall, CheckCreate, CheckUpgrade, Verify, VerifyUpgrade, At
<1>5. s \in TaskSteps /\ task[p].of \in Native
  BY <1>2, <1>3 DEF TaskSteps, Placed
<1> QED  BY <1>1, <1>2, <1>3, <1>4, <1>5, StepKeeps

(* node, the diagnosis and the counter of commands matter to none of this.  *)
LEMMA AsideKeeps ==
  ASSUME DaemonIInv, node' \in {"none", "bare", "npm"},
         UNCHANGED <<tree, port, up, daemon, spawned, task, excused, since>>
  PROVE  DaemonIInv'
<1> USE DEF DaemonIInv
<1>1. DaemonTypes'
  BY DEF DaemonTypes
<1>2. \A x \in Tasks : Placed(task[x])' /\ Backed(task[x])'
  BY DEF Placed, Backed
<1>3. RecordedIsInstalled' /\ NoGatewayWithoutVm' /\ Versed'
  BY DEF RecordedIsInstalled, NoGatewayWithoutVm, Own, Alive, Versed
<1> QED  BY <1>1, <1>2, <1>3

(* What another npm leaves of a tree excuses the records that rely on it.   *)
LEMMA NpmKeeps ==
  ASSUME DaemonIInv, NEW p \in Tasks, Npm(p) PROVE DaemonIInv'
<1> USE DEF DaemonIInv
<1> DEFINE n == task[p].of
<1>1. /\ UNCHANGED <<node, port, up, daemon, spawned, asked, diagnosed>>
      /\ task[p].at = "npm" /\ task[p].kind \in {"install", "upgrade"}
  BY DEF Npm, At
<1>2. n \in Native /\ n \in Names /\ n \notin Boxed
  BY <1>1, DaemonAssumption DEF Placed, Names
<1>3. task \in [Tasks -> TaskSet] /\ task[p].ver \in Vers \union {"none"} /\ tree \in [Names -> Trees]
      /\ since \in [Names -> SUBSET Trees]
  BY DEF DaemonTypes, TaskSet
<1>4. CASE To(p, "err") /\ UNCHANGED <<tree, excused, since>>
  <2>1. "err" \in TaskSteps /\ node' \in {"none", "bare", "npm"}
    BY <1>1 DEF TaskSteps, DaemonTypes
  <2> QED  BY <1>1, <1>4, <2>1, StepKeeps
<1>5. CASE /\ tree' = [tree EXCEPT ![n] = task[p].ver] /\ To(p, "verify")
           /\ excused' = excused \ {n}
           /\ since' = [since EXCEPT ![n] = @ \union {task[p].ver}]
  <2>1. \A m \in Names : /\ tree'[m] = IF m = n THEN task[p].ver ELSE tree[m]
                         /\ since'[m] = IF m = n THEN since[n] \union {task[p].ver} ELSE since[m]
    BY <1>2, <1>3, <1>5
  <2>2. task[p].ver \in Vers /\ "verify" \in TaskSteps
    BY <1>1 DEF Placed, TaskSteps
  <2>3. DaemonTypes'
    <3>1. task' \in [Tasks -> TaskSet]
      BY <1>3, <1>5, <2>2, Moved
    <3>2. tree' \in [Names -> Trees] /\ since' \in [Names -> SUBSET Trees]
      BY <1>2, <1>3, <1>5, <2>2 DEF Trees
    <3> QED  BY <1>1, <3>1, <3>2 DEF DaemonTypes
  <2>4. ASSUME NEW x \in Tasks PROVE Placed(task[x])' /\ Backed(task[x])'
    <3>1. CASE x = p
      <4>1. /\ task'[p].at = "verify" /\ task'[p].kind = task[p].kind /\ task'[p].of = n
            /\ task'[p].ver = task[p].ver
        BY <1>3, <1>5, <2>2, Moved
      <4> QED  BY <1>2, <2>2, <3>1, <4>1 DEF Placed, Backed
    <3>2. CASE x # p
      <4>1. task'[x] = task[x]
        BY <1>3, <1>5, <2>2, <3>2, Moved
      <4>2. task[x].kind = "install" => task[x].of \in Names
        BY DEF Placed, Names
      <4> QED  BY <1>5, <2>1, <2>2, <4>1, <4>2, ZenonT(60) DEF Placed, Backed
    <3> QED  BY <3>1, <3>2
  <2>5. RecordedIsInstalled'
    BY <1>1, <1>5, <2>1, <2>2 DEF RecordedIsInstalled, Names
  <2>6. NoGatewayWithoutVm'
    BY <1>1 DEF NoGatewayWithoutVm, Own, Alive
  <2>7. Versed'
    BY <1>1, <1>2, <2>1, <2>2 DEF Versed, Alive, Names
  <2> QED  BY <2>3, <2>4, <2>5, <2>6, <2>7
<1>6. CASE /\ tree' = [tree EXCEPT ![n] = "empty"]
           /\ To(p, "verify") \/ To(p, "err")
           /\ Spoil({n}, Tasks \ {p})
           /\ UNCHANGED since
  <2>1. \A m \in Names : tree'[m] = IF m = n THEN "empty" ELSE tree[m]
    BY <1>2, <1>3, <1>6
  <2>2. PICK s \in {"verify", "err"} : To(p, s) /\ s \in TaskSteps
    BY <1>6 DEF TaskSteps
  <2>3. /\ excused \subseteq excused' /\ (port[n] # 0 => n \in excused')
        /\ \A q \in Tasks \ {p} : Pending(q) /\ task[q].of = n => n \in excused'
    BY <1>6 DEF Spoil
  <2>4. DaemonTypes'
    <3>1. task' \in [Tasks -> TaskSet]
      BY <1>3, <2>2, Moved
    <3>2. tree' \in [Names -> Trees]
      BY <1>2, <1>3, <1>6 DEF Trees
    <3> QED  BY <1>1, <1>6, <3>1, <3>2 DEF DaemonTypes
  <2>5. ASSUME NEW x \in Tasks PROVE Placed(task[x])' /\ Backed(task[x])'
    <3>1. CASE x = p
      <4>1. /\ task'[p].at = s /\ task'[p].kind = task[p].kind /\ task'[p].of = n
            /\ task'[p].ver = task[p].ver
        BY <1>3, <2>2, Moved
      <4> QED  BY <1>1, <1>2, <2>2, <3>1, <4>1 DEF Placed, Backed
    <3>2. CASE x # p
      <4>1. task'[x] = task[x]
        BY <1>3, <2>2, <3>2, Moved
      <4>2. task[x].kind = "install" => task[x].of \in Names
        BY DEF Placed, Names
      <4>3. task[x].at = "record" => Pending(x)
        BY DEF Pending
      <4>4. Placed(task[x]) /\ Backed(task[x])
        OBVIOUS
      <4>5. task[x].at = "record" /\ task[x].of = n => n \in excused'
        BY <2>3, <3>2, <4>3
      <4> QED  BY <2>1, <2>3, <4>1, <4>2, <4>4, <4>5 DEF Placed, Backed
    <3> QED  BY <3>1, <3>2
  <2>6. RecordedIsInstalled'
    BY <1>1, <2>1, <2>3 DEF RecordedIsInstalled, Names
  <2>7. NoGatewayWithoutVm'
    BY <1>1 DEF NoGatewayWithoutVm, Own, Alive
  <2>8. Versed'
    <3>1. "empty" \notin Vers
      BY DaemonAssumption
    <3>2. \A m \in Boxed : tree'[m] = tree[m]
      BY <1>2, <2>1 DEF Names
    <3> QED  BY <1>1, <1>6, <2>1, <3>1, <3>2 DEF Versed, Alive
  <2> QED  BY <2>4, <2>5, <2>6, <2>7, <2>8
<1> QED  BY <1>4, <1>5, <1>6 DEF Npm

(* A record comes with a tree that is there, or excused.                    *)
LEMMA CommitKeeps ==
  ASSUME DaemonIInv, NEW p \in Tasks, Commit(p) PROVE DaemonIInv'
<1> USE DEF DaemonIInv
<1> DEFINE n == task[p].of  k == task[p].kind
<1>1. /\ UNCHANGED <<node, tree, up, daemon, spawned, asked, diagnosed, since>>
      /\ task[p].at = "record" /\ k \in {"install", "create", "upgrade", "uninstall"}
  BY DEF Commit, At
<1>2. n \in Names /\ "err" \in TaskSteps /\ "ok" \in TaskSteps /\ node' \in {"none", "bare", "npm"}
  BY <1>1 DEF Placed, TaskSteps, DaemonTypes
<1>3. CASE To(p, "err") /\ UNCHANGED <<port, excused>>
  BY <1>1, <1>2, <1>3, StepKeeps
<1>4. CASE /\ k \in {"install", "create"} <=> port[n] = 0
           /\ port' = [port EXCEPT ![n] = IF k = "uninstall" THEN 0 ELSE task[p].port]
           /\ excused' = IF k = "create" /\ tree[n] \notin Vers THEN excused \union {n} ELSE excused
           /\ To(p, "ok")
  <2>1. /\ port \in [Names -> Ports \union {0}] /\ task \in [Tasks -> TaskSet]
        /\ task[p].port \in Ports \union {0}
    BY DEF DaemonTypes, TaskSet
  <2>2. \A m \in Names : port'[m] = IF m = n THEN (IF k = "uninstall" THEN 0 ELSE task[p].port) ELSE port[m]
    BY <1>2, <1>4, <2>1
  <2>3. excused \subseteq excused'
    BY <1>4
  <2>4. DaemonTypes'
    <3>1. task' \in [Tasks -> TaskSet]
      BY <1>2, <1>4, <2>1, Moved
    <3>2. port' \in [Names -> Ports \union {0}]
      BY <1>4, <2>1
    <3> QED  BY <1>1, <3>1, <3>2 DEF DaemonTypes
  <2>5. ASSUME NEW x \in Tasks PROVE Placed(task[x])' /\ Backed(task[x])'
    <3>1. CASE x = p
      <4>1. /\ task'[p].at = "ok" /\ task'[p].kind = task[p].kind /\ task'[p].of = n
            /\ task'[p].ver = task[p].ver
        BY <1>2, <1>4, <2>1, Moved
      <4> QED  BY <1>1, <3>1, <4>1 DEF Placed, Backed
    <3>2. CASE x # p
      <4>1. task'[x] = task[x]
        BY <1>2, <1>4, <2>1, <3>2, Moved
      <4>2. Placed(task[x]) /\ Backed(task[x])
        OBVIOUS
      <4> QED  BY <1>1, <2>3, <4>1, <4>2 DEF Placed, Backed
    <3> QED  BY <3>1, <3>2
  <2>6. RecordedIsInstalled'
    <3>1. ASSUME NEW m \in Native, port'[m] # 0, m \notin excused' PROVE tree[m] \in Vers
      <4>1. m \in Names /\ m \notin excused
        BY <2>3, <3>1 DEF Names
      <4>2. CASE m # n
        BY <2>2, <3>1, <4>1, <4>2 DEF RecordedIsInstalled
      <4>3. CASE m = n /\ k \in {"upgrade", "uninstall"}
        BY <1>4, <4>1, <4>3 DEF RecordedIsInstalled
      <4>4. CASE m = n /\ k = "create"
        BY <1>4, <3>1, <4>4
      <4>5. CASE m = n /\ k = "install"
        BY <1>1, <4>1, <4>5 DEF Backed
      <4> QED  BY <1>1, <4>2, <4>3, <4>4, <4>5
    <3> QED  BY <1>1, <3>1 DEF RecordedIsInstalled
  <2>7. NoGatewayWithoutVm' /\ Versed'
    BY <1>1 DEF NoGatewayWithoutVm, Own, Alive, Versed
  <2> QED  BY <2>4, <2>5, <2>6, <2>7
<1> QED  BY <1>3, <1>4 DEF Commit

(* The native side is kept by a step that spoils no native tree.            *)
LEMMA NativeKeeps ==
  ASSUME DaemonIInv, NEW p \in Tasks, NEW s \in TaskSteps, To(p, s), s = "record" => task[p].kind # "install",
         s \in {"idle", "preflight", "npm", "verify", "destroy", "boot"} => FALSE,
         s = "npm in the VM" => task[p].of \in Boxed,
         task[p].at # "idle", UNCHANGED <<port, excused>>,
         \A m \in Native : tree[m] \in Vers => tree'[m] \in Vers
  PROVE  (\A x \in Tasks : Placed(task[x])' /\ Backed(task[x])') /\ RecordedIsInstalled'
<1>1. \A x \in Tasks : Placed(task[x]) /\ Backed(task[x])
  BY DEF DaemonIInv
<1>2. ASSUME NEW x \in Tasks PROVE Placed(task[x])' /\ Backed(task[x])'
  <2>1. CASE x = p
    <3>1. /\ task'[p].at = s /\ task'[p].kind = task[p].kind
          /\ task'[p].of = task[p].of /\ task'[p].ver = task[p].ver
      BY Moved
    <3> QED  BY <1>1, <2>1, <3>1 DEF Placed, Backed
  <2>2. CASE x # p
    <3>1. task'[x] = task[x]
      BY <2>2, Moved
    <3> QED  BY <1>1, <3>1 DEF Placed, Backed
  <2> QED  BY <2>1, <2>2
<1>3. RecordedIsInstalled'
  BY DEF DaemonIInv, RecordedIsInstalled
<1> QED  BY <1>2, <1>3

(* A VM that is started has something installed.                            *)
LEMMA UpKeeps ==
  ASSUME DaemonIInv, NEW n \in Boxed, tree[n] # "none", up' = [up EXCEPT ![n] = TRUE],
         UNCHANGED <<tree, daemon, since>>
  PROVE  up' \in [Boxed -> BOOLEAN] /\ NoGatewayWithoutVm' /\ Versed'
<1>1. up \in [Boxed -> BOOLEAN]
  BY DEF DaemonIInv, DaemonTypes
<1>2. NoGatewayWithoutVm'
  BY <1>1 DEF DaemonIInv, NoGatewayWithoutVm, Own, Alive
<1>3. Versed'
  BY <1>1 DEF DaemonIInv, Versed, Alive
<1> QED  BY <1>1, <1>2, <1>3

(* A VM that is stopped takes its gateways along, whether or not the call   *)
(* that stopped it is told so.                                              *)
LEMMA DownKeeps ==
  ASSUME DaemonIInv, NEW n \in Boxed, Down(n),
         since' = [since EXCEPT ![n] = {tree[n]}] \/ UNCHANGED since,
         \A m \in Names \ {n} : tree'[m] = tree[m],
         tree'[n] = tree[n] \/ tree'[n] = "none"
  PROVE  /\ up' \in [Boxed -> BOOLEAN] /\ daemon' \in [Daemons -> GatewaySet]
         /\ since' \in [Names -> SUBSET Trees]
         /\ NoGatewayWithoutVm' /\ Versed'
<1>1. /\ up \in [Boxed -> BOOLEAN] /\ daemon \in [Daemons -> GatewaySet]
      /\ since \in [Names -> SUBSET Trees] /\ tree \in [Names -> Trees]
      /\ n \in Names /\ Versed /\ NoGatewayWithoutVm
  BY DEF DaemonIInv, DaemonTypes, Names
<1>2. /\ up' = [up EXCEPT ![n] = FALSE]
      /\ daemon' = [d \in Daemons |-> IF d \in Own(n) THEN [daemon[d] EXCEPT !.at = "gone"] ELSE daemon[d]]
      /\ since' = [since EXCEPT ![n] = {tree[n]}] \/ since' = since
  BY DEF Down, Killed
<1>3. \A d \in Daemons :
        /\ daemon'[d] \in GatewaySet /\ daemon'[d].of = daemon[d].of /\ daemon'[d].ver = daemon[d].ver
        /\ d \in Own(n) => daemon'[d].at = "gone"
        /\ d \notin Own(n) => daemon'[d] = daemon[d]
  BY <1>1, <1>2 DEF GatewaySet
<1>4. Alive' \subseteq Alive /\ \A d \in Alive' : daemon[d].of # n /\ daemon'[d] = daemon[d]
  BY <1>3 DEF Alive, Own
<1>5. daemon' \in [Daemons -> GatewaySet]
  BY <1>2, <1>3
<1>6. NoGatewayWithoutVm'
  <2>1. ASSUME NEW m \in Boxed, NEW d \in Own(m)' PROVE up'[m]
    <3>1. d \in Alive' /\ daemon[d].of = m
      BY <1>4, <2>1 DEF Own
    <3>2. d \in Own(m) /\ m # n
      BY <1>4, <3>1 DEF Own
    <3> QED  BY <1>1, <1>2, <3>2 DEF NoGatewayWithoutVm
  <2> QED  BY <2>1 DEF NoGatewayWithoutVm
<1>7. Versed'
  <2>1. \A m \in Names \ {n} : since'[m] = since[m]
    BY <1>1, <1>2
  <2>2. tree[n] \in Vers => tree[n] \in since'[n]
    BY <1>1, <1>2 DEF Versed
  <2>3. "none" \notin Vers
    BY DaemonAssumption
  <2>4. \A m \in Names : tree'[m] \in Vers => tree'[m] \in since'[m]
    BY <1>1, <2>1, <2>2, <2>3 DEF Versed
  <2>5. \A m \in Boxed : tree'[m] # "empty" /\ (up'[m] => tree'[m] # "none")
    <3>1. \A m \in Boxed \ {n} : tree'[m] = tree[m] /\ up'[m] = up[m]
      BY <1>1, <1>2 DEF Names
    <3>2. ~up'[n] /\ tree'[n] # "empty"
      BY <1>1, <1>2 DEF Versed
    <3> QED  BY <1>1, <3>1, <3>2 DEF Versed
  <2>6. \A d \in Alive' : daemon'[d].of \in Names /\ daemon'[d].ver \in since'[daemon'[d].of]
    BY <1>1, <1>4, <2>1 DEF Versed
  <2> QED  BY <2>4, <2>5, <2>6 DEF Versed
<1>8. up' \in [Boxed -> BOOLEAN] /\ since' \in [Names -> SUBSET Trees]
  BY <1>1, <1>2
<1> QED  BY <1>5, <1>6, <1>7, <1>8

LEMMA HaltKeeps ==
  ASSUME DaemonIInv, NEW n \in Boxed, Halt(n),
         \A m \in Names \ {n} : tree'[m] = tree[m],
         tree'[n] = tree[n] \/ tree'[n] = "none"
  PROVE  /\ up' \in [Boxed -> BOOLEAN] /\ daemon' \in [Daemons -> GatewaySet]
         /\ since' \in [Names -> SUBSET Trees]
         /\ NoGatewayWithoutVm' /\ Versed'
  BY DownKeeps DEF Halt

LEMMA HaltFailsKeeps ==
  ASSUME DaemonIInv, NEW n \in Boxed, HaltFails(n), UNCHANGED tree
  PROVE  /\ up' \in [Boxed -> BOOLEAN] /\ daemon' \in [Daemons -> GatewaySet]
         /\ since' \in [Names -> SUBSET Trees]
         /\ NoGatewayWithoutVm' /\ Versed'
<1>1. CASE Down(n) /\ UNCHANGED since
  BY <1>1, DownKeeps
<1>2. CASE UNCHANGED <<up, daemon, since>>
  BY <1>2 DEF DaemonIInv, DaemonTypes, NoGatewayWithoutVm, Own, Alive, Versed
<1> QED  BY <1>1, <1>2 DEF HaltFails

LEMMA PowerKeeps ==
  ASSUME DaemonIInv, NEW p \in Tasks, Boot(p) \/ Start(p) PROVE DaemonIInv'
<1> DEFINE n == task[p].of
<1>1. /\ UNCHANGED <<node, tree, port, daemon, spawned, asked, diagnosed, excused, since>>
      /\ task[p].at \in {"boot", "start"}
  BY DEF Boot, Start, At
<1>2. PICK s \in {"spawn", "npm in the VM", "ok", "err"} :
        /\ To(p, s) /\ (s = "npm in the VM" => task[p].at = "boot")
        /\ \/ tree[n] # "none" /\ up' = [up EXCEPT ![n] = TRUE] /\ n \in Boxed
           \/ UNCHANGED up
  BY <1>1 DEF Boot, Start, At, DaemonIInv, Placed
<1>3. s \in TaskSteps /\ s # "record" /\ (task[p].at = "boot" => n \in Boxed)
  BY DEF TaskSteps, DaemonIInv, Placed
<1>4. (\A x \in Tasks : Placed(task[x])' /\ Backed(task[x])') /\ RecordedIsInstalled'
  BY <1>1, <1>2, <1>3, NativeKeeps
<1>5. up' \in [Boxed -> BOOLEAN] /\ NoGatewayWithoutVm' /\ Versed'
  <2>1. CASE tree[n] # "none" /\ up' = [up EXCEPT ![n] = TRUE] /\ n \in Boxed
    BY <1>1, <2>1, UpKeeps
  <2>2. CASE UNCHANGED up
    BY <1>1, <2>2 DEF DaemonIInv, DaemonTypes, NoGatewayWithoutVm, Own, Alive, Versed
  <2> QED  BY <1>2, <2>1, <2>2
<1>6. DaemonTypes'
  <2>1. task' \in [Tasks -> TaskSet]
    BY <1>2, <1>3, Moved
  <2> QED  BY <1>1, <1>5, <2>1 DEF DaemonIInv, DaemonTypes
<1> QED  BY <1>4, <1>5, <1>6 DEF DaemonIInv

LEMMA StopKeeps ==
  ASSUME DaemonIInv, NEW p \in Tasks, Stop(p) PROVE DaemonIInv'
<1> DEFINE n == task[p].of
<1>1. UNCHANGED <<node, tree, port, spawned, asked, diagnosed, excused>> /\ task[p].at = "stop"
  BY DEF Stop, At
<1>2. PICK s \in {"ok", "err"} :
        To(p, s) /\ ((n \in Boxed /\ (Halt(n) \/ HaltFails(n))) \/ UNCHANGED <<up, daemon, since>>)
  BY DEF Stop
<1>3. s \in TaskSteps /\ s # "record"
  BY DEF TaskSteps
<1>4. (\A x \in Tasks : Placed(task[x])' /\ Backed(task[x])') /\ RecordedIsInstalled'
  BY <1>1, <1>2, <1>3, NativeKeeps
<1>5. /\ up' \in [Boxed -> BOOLEAN] /\ daemon' \in [Daemons -> GatewaySet]
      /\ since' \in [Names -> SUBSET Trees]
      /\ NoGatewayWithoutVm' /\ Versed'
  <2>1. CASE n \in Boxed /\ (Halt(n) \/ HaltFails(n))
    BY <1>1, <2>1, HaltKeeps, HaltFailsKeeps
  <2>2. CASE UNCHANGED <<up, daemon, since>>
    BY <1>1, <2>2 DEF DaemonIInv, DaemonTypes, NoGatewayWithoutVm, Own, Alive, Versed
  <2> QED  BY <1>2, <2>1, <2>2
<1>6. DaemonTypes'
  <2>1. task' \in [Tasks -> TaskSet]
    BY <1>2, <1>3, Moved
  <2> QED  BY <1>1, <1>5, <2>1 DEF DaemonIInv, DaemonTypes
<1> QED  BY <1>4, <1>5, <1>6 DEF DaemonIInv

LEMMA DestroyKeeps ==
  ASSUME DaemonIInv, NEW p \in Tasks, Destroy(p) PROVE DaemonIInv'
<1> DEFINE n == task[p].of
<1>1. /\ UNCHANGED <<node, port, spawned, asked, diagnosed, excused>>
      /\ task[p].at = "destroy" /\ task[p].kind = "uninstall" /\ To(p, "record")
      /\ \/ Halt(n) /\ tree' = [tree EXCEPT ![n] = "none"]
         \/ HaltFails(n) /\ UNCHANGED tree
  BY DEF Destroy, At
<1>2. n \in Boxed /\ n \in Names /\ n \notin Native
  BY <1>1, DaemonAssumption DEF DaemonIInv, Placed, Names
<1>3. tree \in [Names -> Trees] /\ "record" \in TaskSteps
  BY DEF DaemonIInv, DaemonTypes, TaskSteps
<1>4. /\ tree' \in [Names -> Trees]
      /\ \A m \in Names \ {n} : tree'[m] = tree[m]
      /\ tree'[n] = tree[n] \/ tree'[n] = "none"
  BY <1>1, <1>2, <1>3 DEF Trees
<1>5. \A m \in Native : tree'[m] = tree[m]
  BY <1>2, <1>4 DEF Names
<1>6. (\A x \in Tasks : Placed(task[x])' /\ Backed(task[x])') /\ RecordedIsInstalled'
  BY <1>1, <1>2, <1>3, <1>5, NativeKeeps
<1>7. /\ up' \in [Boxed -> BOOLEAN] /\ daemon' \in [Daemons -> GatewaySet]
      /\ since' \in [Names -> SUBSET Trees]
      /\ NoGatewayWithoutVm' /\ Versed'
  <2>1. CASE Halt(n)
    BY <1>2, <1>4, <2>1, HaltKeeps
  <2>2. CASE HaltFails(n) /\ UNCHANGED tree
    BY <1>2, <2>2, HaltFailsKeeps
  <2> QED  BY <1>1, <2>1, <2>2
<1>8. DaemonTypes'
  <2>1. task' \in [Tasks -> TaskSet]
    BY <1>1, <1>3, Moved
  <2> QED  BY <1>1, <1>4, <1>7, <2>1 DEF DaemonIInv, DaemonTypes
<1> QED  BY <1>6, <1>7, <1>8 DEF DaemonIInv

LEMMA NpmInVmKeeps ==
  ASSUME DaemonIInv, NEW p \in Tasks, NpmInVm(p) PROVE DaemonIInv'
<1> DEFINE n == task[p].of
<1>1. /\ UNCHANGED <<node, port, up, daemon, spawned, asked, diagnosed, excused>>
      /\ task[p].at = "npm in the VM" /\ task[p].kind = "upgrade"
      /\ \/ /\ up[n]
            /\ tree' = [tree EXCEPT ![n] = task[p].ver]
            /\ since' = [since EXCEPT ![n] = @ \union {task[p].ver}]
         \/ UNCHANGED <<tree, since>>
  BY DEF NpmInVm, At
<1>2. PICK s \in {"record", "err"} : To(p, s)
  BY DEF NpmInVm
<1>3. n \in Boxed /\ n \in Names /\ n \notin Native /\ task[p].ver \in Vers /\ s \in TaskSteps
  BY <1>1, DaemonAssumption DEF DaemonIInv, Placed, Names, TaskSteps
<1>4. /\ tree \in [Names -> Trees] /\ since \in [Names -> SUBSET Trees] /\ Versed
      /\ task[p].ver \in Trees /\ task[p].ver \notin {"none", "empty"}
  BY <1>3, DaemonAssumption DEF DaemonIInv, DaemonTypes, Trees
<1>5. /\ tree' \in [Names -> Trees] /\ since' \in [Names -> SUBSET Trees]
      /\ \A m \in Names \ {n} : tree'[m] = tree[m] /\ since'[m] = since[m]
      /\ \/ tree'[n] = tree[n] /\ since'[n] = since[n]
         \/ tree'[n] = task[p].ver /\ since'[n] = since[n] \union {task[p].ver}
  <2>1. CASE /\ tree' = [tree EXCEPT ![n] = task[p].ver]
             /\ since' = [since EXCEPT ![n] = @ \union {task[p].ver}]
    <3>1. /\ tree' \in [Names -> Trees] /\ since' \in [Names -> SUBSET Trees]
      BY <1>3, <1>4, <2>1
    <3>2. tree'[n] = task[p].ver /\ since'[n] = since[n] \union {task[p].ver}
      BY <1>3, <1>4, <2>1
    <3>3. \A m \in Names \ {n} : tree'[m] = tree[m] /\ since'[m] = since[m]
      BY <1>4, <2>1
    <3> QED  BY <3>1, <3>2, <3>3
  <2>2. CASE UNCHANGED <<tree, since>>
    BY <1>4, <2>2
  <2> QED  BY <1>1, <2>1, <2>2
<1>6. \A m \in Native : tree'[m] = tree[m]
  BY <1>3, <1>5 DEF Names
<1>7. (\A x \in Tasks : Placed(task[x])' /\ Backed(task[x])') /\ RecordedIsInstalled'
  BY <1>1, <1>2, <1>3, <1>6, NativeKeeps
<1>8. NoGatewayWithoutVm'
  BY <1>1 DEF DaemonIInv, NoGatewayWithoutVm, Own, Alive
<1>9. Versed'
  <2>1. \A m \in Names : tree'[m] \in Vers => tree'[m] \in since'[m]
    BY <1>3, <1>4, <1>5 DEF Versed
  <2>2. \A m \in Boxed : tree'[m] # "empty" /\ (up[m] => tree'[m] # "none")
    BY <1>3, <1>4, <1>5 DEF Versed, Names
  <2>3. \A m \in Names : since[m] \subseteq since'[m]
    BY <1>3, <1>5
  <2>4. \A d \in Alive : daemon[d].of \in Names /\ daemon[d].ver \in since'[daemon[d].of]
    BY <1>4, <2>3 DEF Versed
  <2> QED  BY <1>1, <2>1, <2>2, <2>4 DEF Versed, Alive
<1>10. DaemonTypes'
  <2>1. task' \in [Tasks -> TaskSet]
    BY <1>2, <1>3, Moved
  <2> QED  BY <1>1, <1>5, <2>1 DEF DaemonIInv, DaemonTypes
<1> QED  BY <1>7, <1>8, <1>9, <1>10 DEF DaemonIInv

(* A gateway is spawned of what was installed since the last stop.          *)
LEMMA SpawnKeeps ==
  ASSUME DaemonIInv, NEW p \in Tasks, Spawn(p) PROVE DaemonIInv'
<1> DEFINE n == task[p].of
           there == IF n \in Boxed THEN up[n] ELSE tree[n] \in Vers
<1>1. /\ UNCHANGED <<node, port, up, asked, diagnosed, excused, since>>
      /\ task[p].at = "spawn" /\ task[p].kind = "launch"
      /\ tree' = IF n \in Native /\ tree[n] = "none" THEN [tree EXCEPT ![n] = "empty"] ELSE tree
  BY DEF Spawn, At
<1>2. IF there
      THEN /\ spawned < MaxDaemons
           /\ spawned' = spawned + 1
           /\ daemon' = [daemon EXCEPT ![spawned + 1] =
                           [of |-> n, ver |-> tree[n], port |-> task[p].port, at |-> "starting"]]
           /\ To(p, "probe")
      ELSE To(p, "err") /\ UNCHANGED <<daemon, spawned>>
  BY DEF Spawn
<1>3. PICK s \in {"probe", "err"} : To(p, s) /\ s \in TaskSteps
  BY <1>2 DEF TaskSteps
<1>4. /\ n \in Names /\ (n \in Boxed <=> n \notin Native)
      /\ task[p].port \in Ports \union {0}
  <2>1. task[p] \in TaskSet /\ Placed(task[p])
    BY DEF DaemonIInv, DaemonTypes
  <2> QED  BY <1>1, <2>1, DaemonAssumption DEF TaskSet, Placed, Names
<1>5. /\ tree \in [Names -> Trees] /\ since \in [Names -> SUBSET Trees] /\ Versed /\ NoGatewayWithoutVm
      /\ daemon \in [Daemons -> GatewaySet] /\ spawned \in 0..MaxDaemons /\ MaxDaemons \in Nat
      /\ "none" \notin Vers /\ "empty" \notin Vers
  BY DaemonAssumption DEF DaemonIInv, DaemonTypes
<1>6. /\ tree' \in [Names -> Trees]
      /\ \A m \in Names : tree'[m] = tree[m] \/ (m \in Native /\ tree[m] = "none" /\ tree'[m] = "empty")
      /\ \A m \in Native : tree[m] \in Vers => tree'[m] \in Vers
  BY <1>1, <1>4, <1>5 DEF Trees, Names
<1>7. (\A x \in Tasks : Placed(task[x])' /\ Backed(task[x])') /\ RecordedIsInstalled'
  BY <1>1, <1>3, <1>6, NativeKeeps
<1>8. there => tree[n] \in since[n] /\ (n \in Boxed => up[n])
  BY <1>4, <1>5 DEF Versed, Trees
<1>9. /\ spawned' \in 0..MaxDaemons /\ daemon' \in [Daemons -> GatewaySet]
      /\ \A d \in Daemons :
            \/ daemon'[d] = daemon[d]
            \/ there /\ daemon'[d] = [of |-> n, ver |-> tree[n], port |-> task[p].port, at |-> "starting"]
  <2>1. CASE there
    <3>1. spawned + 1 \in Daemons
      BY <1>2, <1>5, <2>1 DEF Daemons
    <3>2. [of |-> n, ver |-> tree[n], port |-> task[p].port, at |-> "starting"] \in GatewaySet
      BY <1>4, <1>5 DEF GatewaySet
    <3> QED  BY <1>2, <1>5, <2>1, <3>1, <3>2, SMTT(30) DEF Daemons
  <2>2. CASE ~there
    BY <1>2, <1>5, <2>2
  <2> QED  BY <2>1, <2>2
<1>10. NoGatewayWithoutVm'
  BY <1>1, <1>5, <1>8, <1>9 DEF NoGatewayWithoutVm, Own, Alive
<1>11. Versed'
  <2>1. \A m \in Names : tree'[m] \in Vers => tree'[m] \in since[m]
    BY <1>5, <1>6 DEF Versed
  <2>2. \A m \in Boxed : tree'[m] # "empty" /\ (up[m] => tree'[m] # "none")
    <3>1. \A m \in Boxed : m \in Names /\ m \notin Native
      BY DaemonAssumption DEF Names
    <3> QED  BY <1>5, <1>6, <3>1 DEF Versed
  <2>3. \A d \in Alive' : daemon'[d].of \in Names /\ daemon'[d].ver \in since[daemon'[d].of]
    BY <1>4, <1>5, <1>8, <1>9 DEF Versed, Alive
  <2> QED  BY <1>1, <2>1, <2>2, <2>3 DEF Versed
<1>12. DaemonTypes'
  <2>1. task' \in [Tasks -> TaskSet]
    BY <1>3, Moved
  <2> QED  BY <1>1, <1>6, <1>9, <2>1 DEF DaemonIInv, DaemonTypes
<1> QED  BY <1>7, <1>10, <1>11, <1>12 DEF DaemonIInv

LEMMA ProbeKeeps ==
  ASSUME DaemonIInv, NEW p \in Tasks, Probe(p) \/ StopAll(p) PROVE DaemonIInv'
<1>1. UNCHANGED <<node, tree, port, up, daemon, spawned, asked, diagnosed, excused, since>>
  BY DEF Probe, ProbeAnswered, StopAll
<1>2. /\ node' \in {"none", "bare", "npm"} /\ task \in [Tasks -> TaskSet]
      /\ Placed(task[p]) /\ task[p].at # "idle"
  BY <1>1 DEF DaemonIInv, DaemonTypes, Probe, ProbeAnswered, StopAll, At
<1>3. ASSUME NEW u \in TaskSet, NEW s \in TaskSteps, NEW d \in 0..MaxDaemons
      PROVE  LET w == [u EXCEPT !.at = s, !.ready = d]
             IN w \in TaskSet /\ w.kind = u.kind /\ w.of = u.of /\ w.ver = u.ver /\ w.at = s
  BY DEF TaskSet
<1>8. ASSUME NEW u \in TaskSet, NEW s \in TaskSteps, NEW l \in SUBSET Boxed
      PROVE  LET w == [u EXCEPT !.at = s, !.left = l]
             IN w \in TaskSet /\ w.kind = u.kind /\ w.of = u.of /\ w.ver = u.ver /\ w.at = s
  BY DEF TaskSet
<1>4. "ok" \in TaskSteps /\ "stopping" \in TaskSteps
  BY DEF TaskSteps
<1>5. CASE ProbeAnswered(p)
  <2>1. PICK d \in Alive : task' = [task EXCEPT ![p].at = "ok", ![p].ready = d]
    BY <1>5 DEF ProbeAnswered
  <2> DEFINE t == [task[p] EXCEPT !.at = "ok", !.ready = d]
  <2>2. task' = [task EXCEPT ![p] = t]
    BY <1>2, <2>1
  <2>3. d \in 0..MaxDaemons
    BY <2>1, DaemonAssumption DEF Alive, Daemons
  <2>4. t \in TaskSet /\ t.kind = task[p].kind /\ t.of = task[p].of /\ t.ver = task[p].ver /\ t.at = "ok"
    <3>1. task[p] \in TaskSet
      BY <1>2
    <3> QED  BY <1>3, <1>4, <2>3, <3>1
  <2> HIDE DEF t
  <2>5. Placed(t) /\ Backed(t)
    BY <1>2, <2>4 DEF Placed, Backed
  <2> QED  BY <1>1, <1>2, <2>2, <2>4, <2>5, TaskKeeps
<1>6. CASE At(p, {"launch"}, "probe") /\ To(p, "ok")
  BY <1>1, <1>2, <1>4, <1>6, StepKeeps
<1>7. CASE StopAll(p)
  <2> DEFINE t == [task[p] EXCEPT !.at = "stopping", !.left = Recorded \intersect Boxed]
  <2>1. task' = [task EXCEPT ![p] = t]
    BY <1>2, <1>7 DEF StopAll
  <2>2. t \in TaskSet /\ t.kind = task[p].kind /\ t.of = task[p].of /\ t.ver = task[p].ver /\ t.at = "stopping"
    <3>1. task[p] \in TaskSet /\ Recorded \intersect Boxed \in SUBSET Boxed
      BY <1>2
    <3> QED  BY <1>4, <1>8, <3>1
  <2> HIDE DEF t
  <2>3. Placed(t) /\ Backed(t)
    BY <1>2, <2>2 DEF Placed, Backed
  <2> QED  BY <1>1, <1>2, <2>1, <2>2, <2>3, TaskKeeps
<1> QED  BY <1>5, <1>6, <1>7 DEF Probe

LEMMA StopNextKeeps ==
  ASSUME DaemonIInv, NEW p \in Tasks, StopNext(p) PROVE DaemonIInv'
<1>1. UNCHANGED <<node, tree, port, spawned, asked, diagnosed, excused>> /\ task[p].at = "stopping"
  BY DEF StopNext, At
<1>2. task \in [Tasks -> TaskSet] /\ Placed(task[p]) /\ node' \in {"none", "bare", "npm"} /\ "ok" \in TaskSteps
  BY <1>1 DEF DaemonIInv, DaemonTypes, TaskSteps
<1>3. CASE task[p].left = {}
  BY <1>1, <1>2, <1>3, StepKeeps DEF StopNext
<1>4. CASE task[p].left # {}
  <2>1. PICK n \in task[p].left :
          /\ task' = [task EXCEPT ![p].left = @ \ {n}]
          /\ Halt(n) \/ HaltFails(n) \/ UNCHANGED <<up, daemon, since>>
    BY <1>4 DEF StopNext
  <2>2. n \in Boxed
    BY <1>2, <2>1 DEF TaskSet
  <2>3. /\ task' \in [Tasks -> TaskSet]
        /\ \A x \in Tasks : /\ task'[x].kind = task[x].kind /\ task'[x].of = task[x].of
                             /\ task'[x].ver = task[x].ver /\ task'[x].at = task[x].at
    <3>1. task[p] \in TaskSet /\ task[p].left \ {n} \in SUBSET Boxed
      BY <1>2 DEF TaskSet
    <3>2. ASSUME NEW u \in TaskSet, NEW l \in SUBSET Boxed
          PROVE  LET w == [u EXCEPT !.left = l]
                 IN w \in TaskSet /\ w.kind = u.kind /\ w.of = u.of /\ w.ver = u.ver /\ w.at = u.at
      BY DEF TaskSet
    <3> DEFINE t == [task[p] EXCEPT !.left = task[p].left \ {n}]
    <3>3. task' = [task EXCEPT ![p] = t]
      BY <2>1
    <3>4. t \in TaskSet /\ t.kind = task[p].kind /\ t.of = task[p].of /\ t.ver = task[p].ver /\ t.at = task[p].at
      BY <3>1, <3>2
    <3> HIDE DEF t
    <3> QED  BY <1>2, <3>3, <3>4
  <2>4. \A x \in Tasks : Placed(task[x])' /\ Backed(task[x])'
    BY <1>1, <2>3 DEF DaemonIInv, Placed, Backed
  <2>5. RecordedIsInstalled'
    BY <1>1 DEF DaemonIInv, RecordedIsInstalled
  <2>6. /\ up' \in [Boxed -> BOOLEAN] /\ daemon' \in [Daemons -> GatewaySet]
        /\ since' \in [Names -> SUBSET Trees]
        /\ NoGatewayWithoutVm' /\ Versed'
    <3>1. CASE Halt(n) \/ HaltFails(n)
      BY <1>1, <2>2, <3>1, HaltKeeps, HaltFailsKeeps
    <3>2. CASE UNCHANGED <<up, daemon, since>>
      BY <1>1, <3>2 DEF DaemonIInv, DaemonTypes, NoGatewayWithoutVm, Own, Alive, Versed
    <3> QED  BY <2>1, <3>1, <3>2
  <2>7. DaemonTypes'
    BY <1>1, <2>3, <2>6 DEF DaemonIInv, DaemonTypes
  <2> QED  BY <2>4, <2>5, <2>6, <2>7 DEF DaemonIInv
<1> QED  BY <1>3, <1>4

LEMMA GatewayKeeps ==
  ASSUME DaemonIInv, NEW d \in Daemons, Bind(d) \/ Die(d) PROVE DaemonIInv'
<1>1. /\ UNCHANGED <<node, tree, port, up, spawned, task, asked, diagnosed, excused, since>>
      /\ daemon[d].at \in {"starting", "serving"}
  BY DEF Bind, Die, Alive
<1>2. PICK s \in {"serving", "gone"} : daemon' = [daemon EXCEPT ![d].at = s]
  BY DEF Bind, Die
<1>3. daemon \in [Daemons -> GatewaySet]
  BY DEF DaemonIInv, DaemonTypes
<1>4. /\ daemon' \in [Daemons -> GatewaySet]
      /\ \A e \in Daemons : daemon'[e].of = daemon[e].of /\ daemon'[e].ver = daemon[e].ver
      /\ \A e \in Daemons \ {d} : daemon'[e] = daemon[e]
  BY <1>2, <1>3 DEF GatewaySet
<1>5. Alive' \subseteq Alive
  BY <1>1, <1>4 DEF Alive
<1>6. DaemonTypes'
  BY <1>1, <1>4 DEF DaemonIInv, DaemonTypes
<1>7. (\A x \in Tasks : Placed(task[x])' /\ Backed(task[x])') /\ RecordedIsInstalled'
  BY <1>1 DEF DaemonIInv, Placed, Backed, RecordedIsInstalled
<1>8. NoGatewayWithoutVm'
  <2>1. \A n \in Boxed : Own(n)' \subseteq Own(n)
    BY <1>4, <1>5 DEF Own, Alive
  <2> QED  BY <1>1, <2>1 DEF DaemonIInv, NoGatewayWithoutVm
<1>9. Versed'
  <2>1. \A e \in Alive' : daemon'[e].of \in Names /\ daemon'[e].ver \in since[daemon'[e].of]
    BY <1>4, <1>5 DEF DaemonIInv, Versed, Alive
  <2> QED  BY <1>1, <2>1 DEF DaemonIInv, Versed
<1> QED  BY <1>6, <1>7, <1>8, <1>9 DEF DaemonIInv

(* The issues the GUI shows are of the two kinds there are.                 *)
Issued == \A i \in diagnosed : i.type \in {"orphan_native", "missing_dir"}

LEMMA FixKeeps ==
  ASSUME DaemonIInv, Issued, NEW i \in diagnosed, Fix(i) PROVE DaemonIInv'
<1>1. UNCHANGED <<node, up, daemon, spawned, task, asked, diagnosed, since>>
  BY DEF Fix
<1>2. /\ tree \in [Names -> Trees] /\ port \in [Names -> Ports \union {0}]
      /\ "none" \notin Vers
      /\ \A m \in Boxed : m \in Names /\ m \notin Native
      /\ \A m \in Native : m \in Names
  BY DaemonAssumption DEF DaemonIInv, DaemonTypes, Names
<1>3. CASE i.type = "orphan_native"
  <2>1. /\ tree' = [n \in Names |-> IF n \in Native THEN "none" ELSE tree[n]]
        /\ Spoil(Native, Tasks) /\ UNCHANGED port
    BY <1>3 DEF Fix
  <2>2. /\ tree' \in [Names -> Trees]
        /\ \A m \in Names : m \notin Native => tree'[m] = tree[m]
        /\ \A m \in Native : tree'[m] = "none"
    BY <1>2, <2>1 DEF Trees
  <2>3. /\ excused \subseteq excused'
        /\ \A m \in Native : port[m] # 0 => m \in excused'
        /\ \A q \in Tasks : Pending(q) /\ task[q].of \in Native => task[q].of \in excused'
    BY <2>1 DEF Spoil
  <2>4. ASSUME NEW x \in Tasks PROVE Placed(task[x])' /\ Backed(task[x])'
    <3>1. task[x].at = "record" => Pending(x)
      BY DEF Pending
    <3>2. Placed(task[x])
      BY DEF DaemonIInv
    <3> QED  BY <1>1, <2>3, <3>1, <3>2 DEF Placed, Backed
  <2>5. RecordedIsInstalled'
    BY <2>1, <2>3 DEF RecordedIsInstalled
  <2>6. NoGatewayWithoutVm'
    BY <1>1 DEF DaemonIInv, NoGatewayWithoutVm, Own, Alive
  <2>7. Versed'
    <3>1. \A m \in Names : tree'[m] \in Vers => tree'[m] \in since[m]
      BY <1>2, <2>2 DEF DaemonIInv, Versed
    <3>2. \A m \in Boxed : tree'[m] # "empty" /\ (up[m] => tree'[m] # "none")
      BY <1>2, <2>2 DEF DaemonIInv, Versed
    <3> QED  BY <1>1, <3>1, <3>2 DEF DaemonIInv, Versed, Alive
  <2>8. DaemonTypes'
    BY <1>1, <2>1, <2>2 DEF DaemonIInv, DaemonTypes
  <2> QED  BY <2>4, <2>5, <2>6, <2>7, <2>8 DEF DaemonIInv
<1>4. CASE i.type = "missing_dir"
  <2>1. port' = [port EXCEPT ![i.of] = 0] /\ UNCHANGED <<tree, excused>>
    BY <1>4 DEF Fix
  <2>2. port' \in [Names -> Ports \union {0}] /\ \A m \in Names : port'[m] # 0 => port[m] # 0
    BY <1>2, <2>1
  <2>3. DaemonTypes'
    BY <1>1, <2>1, <2>2 DEF DaemonIInv, DaemonTypes
  <2>4. \A x \in Tasks : Placed(task[x])' /\ Backed(task[x])'
    BY <1>1, <2>1 DEF DaemonIInv, Placed, Backed
  <2>5. RecordedIsInstalled'
    BY <1>2, <2>1, <2>2 DEF DaemonIInv, RecordedIsInstalled
  <2>6. NoGatewayWithoutVm' /\ Versed'
    BY <1>1, <2>1 DEF DaemonIInv, NoGatewayWithoutVm, Own, Alive, Versed
  <2> QED  BY <2>3, <2>4, <2>5, <2>6 DEF DaemonIInv
<1> QED  BY <1>3, <1>4 DEF Issued

LEMMA IssuedKeeps ==
  ASSUME Issued, DaemonNext \/ UNCHANGED daemons PROVE Issued'
<1>1. UNCHANGED diagnosed \/ Diagnose
  <2>1. ASSUME NEW p \in Tasks, Ask(p) \/ Progress(p) PROVE UNCHANGED diagnosed
    BY <2>1 DEF Ask, Progress, FindFree, Find, Bootstrap, CheckInstall, CheckCreate, CheckUpgrade, Npm, Verify,
                VerifyUpgrade, Commit, Boot, NpmInVm, Spawn, Probe, ProbeAnswered, Start, Stop, StopAll, StopNext, Destroy
  <2>2. ASSUME NEW d \in Daemons, Bind(d) \/ Die(d) PROVE UNCHANGED diagnosed
    BY <2>2 DEF Bind, Die
  <2>3. ASSUME NEW i \in diagnosed, Fix(i) PROVE UNCHANGED diagnosed
    BY <2>3 DEF Fix
  <2>4. CASE UNCHANGED daemons
    BY <2>4 DEF daemons
  <2> QED  BY <2>1, <2>2, <2>3, <2>4 DEF DaemonNext
<1>2. \A i \in Issues : i.type \in {"orphan_native", "missing_dir"}
  <2>1. \A i \in {Issue("missing_dir", n) : n \in Recorded \intersect Native} : i.type = "missing_dir"
    BY DEF Issue
  <2>2. Issue("orphan_native", "").type = "orphan_native"
    BY DEF Issue
  <2> QED  BY <2>1, <2>2 DEF Issues
<1> QED  BY <1>1, <1>2 DEF Diagnose, Issued

LEMMA DaemonStep == DaemonIInv /\ Issued /\ [DaemonNext]_daemons => DaemonIInv' /\ Issued'
<1> SUFFICES ASSUME DaemonIInv, Issued, [DaemonNext]_daemons PROVE DaemonIInv'
  BY IssuedKeeps
<1>1. ASSUME NEW p \in Tasks, Ask(p) PROVE DaemonIInv'
  BY <1>1, DaemonAskKeeps
<1>2. ASSUME NEW p \in Tasks, Progress(p) PROVE DaemonIInv'
  <2>1. CASE FindFree(p) \/ Find(p)
    BY <2>1, LookupKeeps
  <2>2. CASE Bootstrap(p)
    BY <2>2, AsideKeeps DEF Bootstrap
  <2>3. CASE CheckInstall(p) \/ CheckCreate(p) \/ CheckUpgrade(p) \/ Verify(p) \/ VerifyUpgrade(p)
    BY <2>3, CheckKeeps
  <2>4. CASE Npm(p)
    BY <2>4, NpmKeeps
  <2>5. CASE Commit(p)
    BY <2>5, CommitKeeps
  <2>6. CASE Boot(p) \/ Start(p)
    BY <2>6, PowerKeeps
  <2>7. CASE NpmInVm(p)
    BY <2>7, NpmInVmKeeps
  <2>8. CASE Spawn(p)
    BY <2>8, SpawnKeeps
  <2>9. CASE Probe(p) \/ StopAll(p)
    BY <2>9, ProbeKeeps
  <2>10. CASE Stop(p)
    BY <2>10, StopKeeps
  <2>11. CASE StopNext(p)
    BY <2>11, StopNextKeeps
  <2>12. CASE Destroy(p)
    BY <2>12, DestroyKeeps
  <2> QED  BY <1>2, <2>1, <2>2, <2>3, <2>4, <2>5, <2>6, <2>7, <2>8, <2>9, <2>10, <2>11, <2>12 DEF Progress
<1>3. ASSUME NEW d \in Daemons, Bind(d) \/ Die(d) PROVE DaemonIInv'
  BY <1>3, GatewayKeeps
<1>4. CASE Diagnose
  BY <1>4, AsideKeeps DEF Diagnose, DaemonIInv, DaemonTypes
<1>5. ASSUME NEW i \in diagnosed, Fix(i) PROVE DaemonIInv'
  BY <1>5, FixKeeps
<1>6. CASE UNCHANGED daemons
  BY <1>6, AsideKeeps DEF daemons, DaemonIInv, DaemonTypes
<1> QED  BY <1>1, <1>2, <1>3, <1>4, <1>5, <1>6 DEF DaemonNext

(* For any number of processes, instances, versions and gateways, whatever  *)
(* commands, repairs and deaths meet: a record of a native instance stands  *)
(* for a binary unless its tree was spoilt, and no gateway of a VM outlives *)
(* the VM's run (core/src/instance/orchestrator.rs, install_native,         *)
(* upgrade_native, launch_with_probe; tauri/src/ipc/settings.rs).           *)
THEOREM DaemonsHold == DaemonSpec => []DaemonsInv
<1>1. DaemonInit => DaemonIInv /\ Issued
  BY DaemonsStart DEF DaemonInit, Issued
<1>2. DaemonIInv => DaemonsInv
  <2>1. DaemonIInv => DaemonTypeOK
    BY DEF DaemonIInv, DaemonTypes, DaemonTypeOK, TaskSet, GatewaySet, Trees
  <2> QED  BY <2>1 DEF DaemonIInv, DaemonsInv
<1> QED  BY <1>1, <1>2, DaemonStep, PTL DEF DaemonSpec

(* Only an answered probe names a gateway, and what it names is alive.      *)
LEMMA ReadyIsAlive ==
  ASSUME DaemonIInv, [DaemonNext]_daemons, NEW p \in Tasks,
         task'[p].ready # 0, task'[p].ready # task[p].ready
  PROVE  task'[p].ready \in Alive
<1> DEFINE Quiet(x) == task'[x].ready \in {0, task[x].ready} /\ \A y \in Tasks \ {x} : task'[y] = task[y]
<1>1. task \in [Tasks -> TaskSet]
  BY DEF DaemonIInv, DaemonTypes
<1>2. ASSUME NEW x \in Tasks, NEW s, To(x, s) PROVE Quiet(x)
  BY <1>1, <1>2 DEF To, TaskSet
<1>3. ASSUME NEW x \in Tasks, ProbeAnswered(x) PROVE p = x /\ task'[p].ready \in Alive
  <2>1. PICK d \in Alive : task' = [task EXCEPT ![x].at = "ok", ![x].ready = d]
    BY <1>3 DEF ProbeAnswered
  <2>2. task'[x].ready = d /\ \A y \in Tasks \ {x} : task'[y] = task[y]
    BY <1>1, <2>1 DEF TaskSet
  <2> QED  BY <2>1, <2>2
<1>4. ASSUME NEW x \in Tasks, Ask(x) PROVE Quiet(x)
  <2>1. PICK k \in Commands, n \in Names, v \in Vers, h \in Ports :
          task' = [task EXCEPT ![x] = [NoTask EXCEPT !.kind = k, !.of = n, !.ver = v, !.port = h,
                                         !.at = IF k \in Lookups THEN "lookup" ELSE k]]
    BY <1>4 DEF Ask
  <2> DEFINE a == IF k \in Lookups THEN "lookup" ELSE k
  <2>2. ASSUME NEW u \in TaskSet
        PROVE  [u EXCEPT !.kind = k, !.of = n, !.ver = v, !.port = h, !.at = a].ready = u.ready
    BY DEF TaskSet
  <2>3. [NoTask EXCEPT !.kind = k, !.of = n, !.ver = v, !.port = h, !.at = a].ready = NoTask.ready
    BY <2>2, NoTaskIs
  <2>4. NoTask.ready = 0
    BY DEF NoTask
  <2> QED  BY <1>1, <2>1, <2>3, <2>4
<1>5. ASSUME NEW x \in Tasks, Find(x) \/ StopAll(x) \/ StopNext(x) PROVE Quiet(x)
  <2>1. CASE \E s : To(x, s)
    BY <1>2, <2>1
  <2>2. CASE \E s, h : task' = [task EXCEPT ![x].at = s, ![x].port = h]
    BY <1>1, <2>2 DEF TaskSet
  <2>3. CASE \E s, l : task' = [task EXCEPT ![x].at = s, ![x].left = l]
    BY <1>1, <2>3 DEF TaskSet
  <2>4. CASE \E l : task' = [task EXCEPT ![x].left = l]
    BY <1>1, <2>4 DEF TaskSet
  <2> QED  BY <1>5, <2>1, <2>2, <2>3, <2>4 DEF Find, StopAll, StopNext, To
<1>6. ASSUME NEW x \in Tasks, Progress(x), ~ProbeAnswered(x) PROVE Quiet(x)
  <2>1. CASE \E s : To(x, s)
    BY <1>2, <2>1
  <2>2. CASE Bootstrap(x)
    BY <2>2 DEF Bootstrap
  <2> QED  BY <1>5, <1>6, <2>1, <2>2 DEF Progress, FindFree, CheckInstall, CheckCreate, CheckUpgrade, Npm, Verify,
              VerifyUpgrade, Commit, Boot, NpmInVm, Spawn, Probe, Start, Stop, Destroy
<1>7. ~UNCHANGED task
  OBVIOUS
<1>8. PICK x \in Tasks : Ask(x) \/ Progress(x)
  BY <1>7 DEF DaemonNext, Bind, Die, Diagnose, Fix, daemons
<1> QED  BY <1>3, <1>4, <1>6, <1>8

(* For any number of processes, instances, versions and gateways: a launch  *)
(* that is answered by a gateway of its own instance is answered by a       *)
(* version installed since the last good stop (orchestrator.rs:848-849).    *)
THEOREM ReadyRunsWhatIsInstalled == DaemonSpec => ReadyRunsInstalled
<1>1. DaemonInit => DaemonIInv /\ Issued
  BY DaemonsStart DEF DaemonInit, Issued
<1>2. ASSUME DaemonIInv, [DaemonNext]_daemons
      PROVE  [\A p \in Tasks :
                LET d == task'[p].ready
                IN d # 0 /\ d # task[p].ready /\ daemon[d].of = task[p].of
                     => daemon[d].ver \in since[task[p].of]]_daemons
  BY <1>2, ReadyIsAlive DEF DaemonIInv, Versed
<1> QED  BY <1>1, <1>2, DaemonStep, PTL DEF DaemonSpec, ReadyRunsInstalled

-----------------------------------------------------------------------------
(* Downloads and components, in the scenarios of MCClawcli.  Each copy of   *)
(* the variables, with its constants, has its own instance of the theorems. *)
Upgrades == INSTANCE DownloadsProofs
Wilds == INSTANCE DownloadsProofs
           WITH Kinds <- {"install", "reinstall"}, Faults <- AllFaults,
                target <- target2, staging <- staging2, backup <- backup2,
                pc <- pc2, version <- version2, left <- left2, armed <- armed2,
                Fetchers <- {GuiCli}, Chunks <- 3, Pinned <- TRUE,
                CacheFaults <- FaultKinds \ {"prune"}
Orderlies == INSTANCE DownloadsProofs
               WITH Kinds <- {"install", "reinstall"}, Faults <- AllFaults \ {"remove", "crash"},
                    target <- target2, staging <- staging2, backup <- backup2,
                    pc <- pc2, version <- version2, left <- left2, armed <- armed2,
                    Fetchers <- {GuiCli}, Chunks <- 3, Pinned <- FALSE,
                    CacheFaults <- FaultKinds \ {"prune", "body"}

(* The instances of MCClawcli are those of the theorems.                    *)
LEMMA UpgradeIsOne ==
  /\ Init <=> Upgrades!Init
  /\ Next <=> Upgrades!Next
  /\ vars = Upgrades!vars
  /\ TypeOK <=> Upgrades!TypeOK
<1> USE DEF Goto, Upgrades!Goto, Bail, Upgrades!Bail, DropGuards, Upgrades!DropGuards, Removed, Upgrades!Removed,
            EmptyDir, Upgrades!EmptyDir, CanRename, Upgrades!CanRename, RenameMayFail, Upgrades!RenameMayFail
<1>1. Next <=> Upgrades!Next
  BY DEF Next, Upgrades!Next, Step, Upgrades!Step, Request, Upgrades!Request, RemoveEntry, Upgrades!RemoveEntry,
         Unpack, Upgrades!Unpack, RemoveDone, Upgrades!RemoveDone, RemoveFails, Upgrades!RemoveFails,
         Fetch, Upgrades!Fetch, ClearStaging, Upgrades!ClearStaging, MakeStaging, Upgrades!MakeStaging,
         MakeFails, Upgrades!MakeFails, UnpackFails, Upgrades!UnpackFails, ClearBackup, Upgrades!ClearBackup,
         MoveOld, Upgrades!MoveOld, MoveOldFails, Upgrades!MoveOldFails, MoveNew, Upgrades!MoveNew,
         MoveNewFails, Upgrades!MoveNewFails, Cleanup, Upgrades!Cleanup, Crash, Upgrades!Crash
<1>2. /\ Init <=> Upgrades!Init
      /\ vars = Upgrades!vars
      /\ TypeOK <=> Upgrades!TypeOK
  BY DEF Init, Upgrades!Init, vars, Upgrades!vars, TypeOK, Upgrades!TypeOK, Dir, Upgrades!Dir, Steps, Upgrades!Steps
<1> QED  BY <1>1, <1>2

LEMMA WildIsOne ==
  /\ Wild!Init <=> Wilds!Init
  /\ Wild!Next <=> Wilds!Next
  /\ vars2 = Wilds!vars
  /\ Wild!OkMeansInstalled <=> Wilds!OkMeansInstalled
<1> USE DEF Wild!Goto, Wilds!Goto, Wild!Bail, Wilds!Bail, Wild!DropGuards, Wilds!DropGuards, Wild!Removed, Wilds!Removed,
            Wild!EmptyDir, Wilds!EmptyDir, Wild!CanRename, Wilds!CanRename, Wild!RenameMayFail, Wilds!RenameMayFail
<1>1. Wild!Next <=> Wilds!Next
  BY DEF Wild!Next, Wilds!Next, Wild!Step, Wilds!Step, Wild!Request, Wilds!Request, Wild!RemoveEntry, Wilds!RemoveEntry,
         Wild!Unpack, Wilds!Unpack, Wild!RemoveDone, Wilds!RemoveDone, Wild!RemoveFails, Wilds!RemoveFails,
         Wild!Fetch, Wilds!Fetch, Wild!ClearStaging, Wilds!ClearStaging, Wild!MakeStaging, Wilds!MakeStaging,
         Wild!MakeFails, Wilds!MakeFails, Wild!UnpackFails, Wilds!UnpackFails, Wild!ClearBackup, Wilds!ClearBackup,
         Wild!MoveOld, Wilds!MoveOld, Wild!MoveOldFails, Wilds!MoveOldFails, Wild!MoveNew, Wilds!MoveNew,
         Wild!MoveNewFails, Wilds!MoveNewFails, Wild!Cleanup, Wilds!Cleanup, Wild!Crash, Wilds!Crash
<1>2. /\ Wild!Init <=> Wilds!Init
      /\ vars2 = Wilds!vars
      /\ Wild!OkMeansInstalled <=> Wilds!OkMeansInstalled
  BY DEF Wild!Init, Wilds!Init, vars2, Wilds!vars, Wild!OkMeansInstalled, Wilds!OkMeansInstalled, Wild!All, Wilds!All
<1> QED  BY <1>1, <1>2

LEMMA OrderlyIsOne ==
  /\ Wild!Init <=> Orderlies!Init
  /\ Orderly!Next <=> Orderlies!Next
  /\ vars2 = Orderlies!vars
  /\ Wild!OkMeansInstalled <=> Orderlies!OkMeansInstalled
  /\ Orderly!GuardsClean <=> Orderlies!GuardsClean
<1> USE DEF Orderly!Goto, Orderlies!Goto, Orderly!Bail, Orderlies!Bail, Orderly!DropGuards, Orderlies!DropGuards,
            Orderly!Removed, Orderlies!Removed, Orderly!EmptyDir, Orderlies!EmptyDir, Orderly!CanRename, Orderlies!CanRename,
            Orderly!RenameMayFail, Orderlies!RenameMayFail
<1>1. Orderly!Next <=> Orderlies!Next
  BY DEF Orderly!Next, Orderlies!Next, Orderly!Step, Orderlies!Step, Orderly!Request, Orderlies!Request,
         Orderly!RemoveEntry, Orderlies!RemoveEntry, Orderly!Unpack, Orderlies!Unpack,
         Orderly!RemoveDone, Orderlies!RemoveDone, Orderly!RemoveFails, Orderlies!RemoveFails,
         Orderly!Fetch, Orderlies!Fetch, Orderly!ClearStaging, Orderlies!ClearStaging,
         Orderly!MakeStaging, Orderlies!MakeStaging, Orderly!MakeFails, Orderlies!MakeFails,
         Orderly!UnpackFails, Orderlies!UnpackFails, Orderly!ClearBackup, Orderlies!ClearBackup,
         Orderly!MoveOld, Orderlies!MoveOld, Orderly!MoveOldFails, Orderlies!MoveOldFails,
         Orderly!MoveNew, Orderlies!MoveNew, Orderly!MoveNewFails, Orderlies!MoveNewFails,
         Orderly!Cleanup, Orderlies!Cleanup, Orderly!Crash, Orderlies!Crash
<1>2. /\ Wild!Init <=> Orderlies!Init
      /\ vars2 = Orderlies!vars
      /\ Wild!OkMeansInstalled <=> Orderlies!OkMeansInstalled
      /\ Orderly!GuardsClean <=> Orderlies!GuardsClean
  BY DEF Wild!Init, Orderlies!Init, vars2, Orderlies!vars, Wild!OkMeansInstalled, Orderlies!OkMeansInstalled,
         Wild!All, Orderlies!All, Orderly!GuardsClean, Orderlies!GuardsClean
<1> QED  BY <1>1, <1>2

LEMMA SharedIsOne ==
  /\ CacheInit <=> Upgrades!CacheInit
  /\ CacheNext <=> Upgrades!CacheNext
  /\ cache = Upgrades!cache
  /\ CacheTypeOK <=> Upgrades!CacheTypeOK
<1> USE DEF FetchGoto, Upgrades!FetchGoto, Return, Upgrades!Return, Retry, Upgrades!Retry, Unlink, Upgrades!Unlink,
            CloseOnly, Upgrades!CloseOnly, Good, Upgrades!Good, Blank, Upgrades!Blank, Bytes, Upgrades!Bytes
<1>1. CacheNext <=> Upgrades!CacheNext
  BY DEF CacheNext, Upgrades!CacheNext, Fetching, Upgrades!Fetching, BeginFetch, Upgrades!BeginFetch,
         HashCached, Upgrades!HashCached, Discard, Upgrades!Discard, Connect, Upgrades!Connect,
         ConnectFails, Upgrades!ConnectFails, Receive, Upgrades!Receive, StreamFails, Upgrades!StreamFails,
         WriteFails, Upgrades!WriteFails, VerifySum, Upgrades!VerifySum, FetcherDies, Upgrades!FetcherDies,
         Prune, Upgrades!Prune
<1>2. /\ CacheInit <=> Upgrades!CacheInit
      /\ cache = Upgrades!cache
      /\ CacheTypeOK <=> Upgrades!CacheTypeOK
  BY DEF CacheInit, Upgrades!CacheInit, cache, Upgrades!cache, CacheTypeOK, Upgrades!CacheTypeOK, Files, Upgrades!Files
<1> QED  BY <1>1, <1>2

LEMMA PinnedIsOne ==
  /\ Pin!CacheInit <=> Wilds!CacheInit
  /\ Pin!CacheNext <=> Wilds!CacheNext
  /\ cache = Wilds!cache
  /\ Pin!CacheTypeOK <=> Wilds!CacheTypeOK
  /\ Pin!OkIsWholeStep <=> Wilds!OkIsWholeStep
<1> USE DEF Pin!FetchGoto, Wilds!FetchGoto, Pin!Return, Wilds!Return, Pin!Retry, Wilds!Retry, Pin!Unlink, Wilds!Unlink,
            Pin!CloseOnly, Wilds!CloseOnly, Pin!Good, Wilds!Good, Pin!Blank, Wilds!Blank,
            Pin!Bytes, Wilds!Bytes
<1>1. Pin!CacheNext <=> Wilds!CacheNext
  BY DEF Pin!CacheNext, Wilds!CacheNext, Pin!Fetching, Wilds!Fetching, Pin!BeginFetch, Wilds!BeginFetch,
         Pin!HashCached, Wilds!HashCached, Pin!Discard, Wilds!Discard, Pin!Connect, Wilds!Connect,
         Pin!ConnectFails, Wilds!ConnectFails, Pin!Receive, Wilds!Receive, Pin!StreamFails, Wilds!StreamFails,
         Pin!WriteFails, Wilds!WriteFails, Pin!VerifySum, Wilds!VerifySum, Pin!FetcherDies, Wilds!FetcherDies,
         Pin!Prune, Wilds!Prune
<1>2. /\ Pin!CacheInit <=> Wilds!CacheInit
      /\ cache = Wilds!cache
      /\ Pin!CacheTypeOK <=> Wilds!CacheTypeOK
      /\ Pin!OkIsWholeStep <=> Wilds!OkIsWholeStep
  BY DEF Pin!CacheInit, Wilds!CacheInit, cache, Wilds!cache, Pin!CacheTypeOK, Wilds!CacheTypeOK, Pin!Files, Wilds!Files,
         Pin!OkIsWholeStep, Wilds!OkIsWholeStep
<1> QED  BY <1>1, <1>2

LEMMA UnpinnedIsOne ==
  /\ Unp!CacheInit <=> Orderlies!CacheInit
  /\ Unp!CacheNext <=> Orderlies!CacheNext
  /\ cache = Orderlies!cache
  /\ Unp!CacheTypeOK <=> Orderlies!CacheTypeOK
  /\ Unp!OkIsWholeStep <=> Orderlies!OkIsWholeStep
  /\ Unp!ErrLeavesNothingStep <=> Orderlies!ErrLeavesNothingStep
<1> USE DEF Unp!FetchGoto, Orderlies!FetchGoto, Unp!Return, Orderlies!Return, Unp!Retry, Orderlies!Retry,
            Unp!Unlink, Orderlies!Unlink, Unp!CloseOnly, Orderlies!CloseOnly, Unp!Good, Orderlies!Good,
            Unp!Blank, Orderlies!Blank, Unp!Bytes, Orderlies!Bytes
<1>1. Unp!CacheNext <=> Orderlies!CacheNext
  BY DEF Unp!CacheNext, Orderlies!CacheNext, Unp!Fetching, Orderlies!Fetching, Unp!BeginFetch, Orderlies!BeginFetch,
         Unp!HashCached, Orderlies!HashCached, Unp!Discard, Orderlies!Discard, Unp!Connect, Orderlies!Connect,
         Unp!ConnectFails, Orderlies!ConnectFails, Unp!Receive, Orderlies!Receive, Unp!StreamFails, Orderlies!StreamFails,
         Unp!WriteFails, Orderlies!WriteFails, Unp!VerifySum, Orderlies!VerifySum, Unp!FetcherDies, Orderlies!FetcherDies,
         Unp!Prune, Orderlies!Prune
<1>2. /\ Unp!CacheInit <=> Orderlies!CacheInit
      /\ cache = Orderlies!cache
      /\ Unp!CacheTypeOK <=> Orderlies!CacheTypeOK
      /\ Unp!OkIsWholeStep <=> Orderlies!OkIsWholeStep
      /\ Unp!ErrLeavesNothingStep <=> Orderlies!ErrLeavesNothingStep
  BY DEF Unp!CacheInit, Orderlies!CacheInit, cache, Orderlies!cache, Unp!CacheTypeOK, Orderlies!CacheTypeOK,
         Unp!Files, Orderlies!Files, Unp!OkIsWholeStep, Orderlies!OkIsWholeStep,
         Unp!ErrLeavesNothingStep, Orderlies!ErrLeavesNothingStep
<1> QED  BY <1>1, <1>2

(* A behaviour of a scenario is one of its part's, from the part's start.   *)
Starts == MCInit /\ [][MCNext]_mcvars

LEMMA ScenarioStays == [MCNext]_mcvars => UNCHANGED scenario
  BY DEF MCNext, mcvars, Fetches, Installs, Commanded, Bundled

(* The steps of the copies of a component ...                               *)
LEMMA InstallSteps ==
  ASSUME [MCNext]_mcvars
  PROVE  /\ [Upgrades!Next]_Upgrades!vars
         /\ scenario # "orderly" => [Wilds!Next]_Wilds!vars
         /\ scenario = "orderly" => [Orderlies!Next]_Orderlies!vars
<1>1. Next \/ UNCHANGED vars
  BY DEF MCNext, mcvars, Fetches, Installs, Commanded, Bundled
<1>2. scenario # "orderly" => Wild!Next \/ UNCHANGED vars2
  BY DEF MCNext, mcvars, Fetches, Installs, Commanded, Bundled
<1>3. scenario = "orderly" => Orderly!Next \/ UNCHANGED vars2
  BY DEF MCNext, mcvars, Fetches, Installs, Commanded, Bundled
<1>4. Upgrades!Next \/ UNCHANGED Upgrades!vars
  BY <1>1, UpgradeIsOne DEF vars, Upgrades!vars
<1>5. scenario # "orderly" => Wilds!Next \/ UNCHANGED Wilds!vars
  BY <1>2, WildIsOne DEF vars2, Wilds!vars
<1>6. scenario = "orderly" => Orderlies!Next \/ UNCHANGED Orderlies!vars
  BY <1>3, OrderlyIsOne DEF vars2, Orderlies!vars
<1> QED  BY <1>4, <1>5, <1>6

(* ... and of the cache.                                                    *)
LEMMA FetchSteps ==
  ASSUME [MCNext]_mcvars
  PROVE  /\ scenario = "pinned" => [Wilds!CacheNext]_Wilds!cache
         /\ scenario = "unpinned" => [Orderlies!CacheNext]_Orderlies!cache
         /\ scenario \notin {"pinned", "unpinned"} => [Upgrades!CacheNext]_Upgrades!cache
<1>1. scenario = "pinned" => Pin!CacheNext \/ UNCHANGED cache
  BY DEF MCNext, mcvars, Fetches, Installs, Commanded, Bundled
<1>2. scenario = "unpinned" => Unp!CacheNext \/ UNCHANGED cache
  BY DEF MCNext, mcvars, Fetches, Installs, Commanded, Bundled
<1>3. scenario \notin {"pinned", "unpinned"} => CacheNext \/ UNCHANGED cache
  BY DEF MCNext, mcvars, Fetches, Installs, Commanded, Bundled
<1>4. scenario = "pinned" => Wilds!CacheNext \/ UNCHANGED Wilds!cache
  BY <1>1, PinnedIsOne DEF cache, Wilds!cache
<1>5. scenario = "unpinned" => Orderlies!CacheNext \/ UNCHANGED Orderlies!cache
  BY <1>2, UnpinnedIsOne DEF cache, Orderlies!cache
<1>6. scenario \notin {"pinned", "unpinned"} => Upgrades!CacheNext \/ UNCHANGED Upgrades!cache
  BY <1>3, SharedIsOne DEF cache, Upgrades!cache
<1> QED  BY <1>4, <1>5, <1>6

LEMMA InstallsAre ==
  /\ Starts => Upgrades!Spec
  /\ Starts /\ scenario # "orderly" => Wilds!Spec
  /\ Starts /\ scenario = "orderly" => Orderlies!Spec
<1>1. MCInit => Upgrades!Init /\ Wilds!Init /\ Orderlies!Init
  BY UpgradeIsOne, WildIsOne, OrderlyIsOne DEF MCInit
<1>2. /\ [MCNext]_mcvars => [Upgrades!Next]_Upgrades!vars
      /\ [MCNext]_mcvars /\ scenario # "orderly" => [Wilds!Next]_Wilds!vars
      /\ [MCNext]_mcvars /\ scenario = "orderly" => [Orderlies!Next]_Orderlies!vars
  BY InstallSteps
<1>3. /\ scenario # "orderly" /\ [MCNext]_mcvars => (scenario # "orderly")'
      /\ scenario = "orderly" /\ [MCNext]_mcvars => (scenario = "orderly")'
  BY ScenarioStays
<1> QED  BY <1>1, <1>2, <1>3, PTL DEF Starts, Upgrades!Spec, Wilds!Spec, Orderlies!Spec

LEMMA FetchesAre ==
  /\ Starts /\ scenario = "pinned" => Wilds!Downloading
  /\ Starts /\ scenario = "unpinned" => Orderlies!Downloading
  /\ Starts /\ scenario \notin {"pinned", "unpinned"} => Upgrades!Downloading
<1>1. /\ MCInit /\ scenario = "pinned" => Wilds!CacheInit
      /\ MCInit /\ scenario = "unpinned" => Orderlies!CacheInit
      /\ MCInit /\ scenario \notin {"pinned", "unpinned"} => Upgrades!CacheInit
  BY PinnedIsOne, UnpinnedIsOne, SharedIsOne DEF MCInit
<1>2. /\ [MCNext]_mcvars /\ scenario = "pinned" => [Wilds!CacheNext]_Wilds!cache
      /\ [MCNext]_mcvars /\ scenario = "unpinned" => [Orderlies!CacheNext]_Orderlies!cache
      /\ [MCNext]_mcvars /\ scenario \notin {"pinned", "unpinned"} => [Upgrades!CacheNext]_Upgrades!cache
  BY FetchSteps
<1>3. /\ scenario = "pinned" /\ [MCNext]_mcvars => (scenario = "pinned")'
      /\ scenario = "unpinned" /\ [MCNext]_mcvars => (scenario = "unpinned")'
      /\ scenario \notin {"pinned", "unpinned"} /\ [MCNext]_mcvars => (scenario \notin {"pinned", "unpinned"})'
  BY ScenarioStays
<1> QED  BY <1>1, <1>2, <1>3, PTL DEF Starts, Upgrades!Downloading, Wilds!Downloading, Orderlies!Downloading

(* In every scenario of one installer, whatever fails: Ok is returned only  *)
(* with the requested version whole in its place; where removals work and   *)
(* nothing is killed no call leaves a directory of its own behind; and the  *)
(* handles of fetches and prunes that meet are sound                        *)
(* (core/src/native_ops/default.rs:122-207,                                 *)
(* core/src/download_ops/default.rs:80-205).                                *)
THEOREM InstallsHold ==
  ASSUME Installers = {GuiCli}
  PROVE  MCSpec => []InstallHolds
<1> DEFINE Known == {"fetch", "remove", "unpack", "moveOld", "moveNew", "crash"}
<1>b. /\ CacheFaults \subseteq Upgrades!FaultKinds
      /\ FaultKinds \ {"prune"} \subseteq Wilds!FaultKinds
      /\ FaultKinds \ {"prune", "body"} \subseteq Orderlies!FaultKinds
  BY CacheAssumption DEF FaultKinds, Upgrades!FaultKinds, Wilds!FaultKinds, Orderlies!FaultKinds
<1>a. /\ AllFaults \subseteq Known /\ AllFaults \ {"remove", "crash"} \subseteq Known
      /\ "remove" \notin AllFaults \ {"remove", "crash"} /\ "crash" \notin AllFaults \ {"remove", "crash"}
      /\ Wilds!Sole(Installers) /\ Orderlies!Sole(Installers)
  BY DEF AllFaults, Wilds!Sole, Orderlies!Sole
<1>1. Upgrades!Spec => []Upgrades!TypeOK
  BY <1>b, Upgrades!ComponentTypes, ComponentAssumption, CacheAssumption
<1>2. Wilds!Spec => []Wilds!OkMeansInstalled
  BY <1>a, <1>b, Wilds!OkIsInstalled, ComponentAssumption, MCClawcliAssumption, CacheAssumption
<1>3. Orderlies!Spec => []Orderlies!OkMeansInstalled
  BY <1>a, <1>b, Orderlies!OkIsInstalled, ComponentAssumption, MCClawcliAssumption, CacheAssumption
<1>4. Orderlies!Spec => []Orderlies!GuardsClean
  BY <1>a, <1>b, Orderlies!GuardsLeaveNothing, ComponentAssumption, MCClawcliAssumption, CacheAssumption
<1>5. Upgrades!Downloading => []Upgrades!CacheTypeOK
  BY <1>b, Upgrades!CacheTyped, ComponentAssumption, CacheAssumption
<1>6. Wilds!Downloading => []Wilds!CacheTypeOK
  BY <1>a, <1>b, Wilds!CacheTyped, ComponentAssumption, MCClawcliAssumption, CacheAssumption
<1>7. Orderlies!Downloading => []Orderlies!CacheTypeOK
  BY <1>a, <1>b, Orderlies!CacheTyped, ComponentAssumption, MCClawcliAssumption, CacheAssumption
<1>8. Starts => []Upgrades!TypeOK
  BY <1>1, InstallsAre, PTL
<1>9. Starts => [](scenario # "orderly" => Wilds!OkMeansInstalled)
  <2>1. /\ scenario = "orderly" <=> ~(scenario # "orderly")
        /\ scenario = "orderly" /\ [MCNext]_mcvars => (scenario = "orderly")'
    BY ScenarioStays
  <2>2. Starts /\ scenario # "orderly" => []Wilds!OkMeansInstalled
    BY <1>2, InstallsAre, PTL
  <2> QED  BY <2>1, <2>2, PTL DEF Starts
<1>10. Starts => [](scenario = "orderly" => Orderlies!OkMeansInstalled /\ Orderlies!GuardsClean)
  <2>1. /\ scenario # "orderly" <=> ~(scenario = "orderly")
        /\ scenario # "orderly" /\ [MCNext]_mcvars => (scenario # "orderly")'
    BY ScenarioStays
  <2>2. Starts /\ scenario = "orderly" => [](Orderlies!OkMeansInstalled /\ Orderlies!GuardsClean)
    BY <1>3, <1>4, InstallsAre, PTL
  <2> QED  BY <2>1, <2>2, PTL DEF Starts
<1>11. Starts => [](scenario = "pinned" => Wilds!CacheTypeOK)
  <2>1. /\ scenario # "pinned" <=> ~(scenario = "pinned")
        /\ scenario # "pinned" /\ [MCNext]_mcvars => (scenario # "pinned")'
    BY ScenarioStays
  <2>2. Starts /\ scenario = "pinned" => []Wilds!CacheTypeOK
    BY <1>6, FetchesAre, PTL
  <2> QED  BY <2>1, <2>2, PTL DEF Starts
<1>12. Starts => [](scenario = "unpinned" => Orderlies!CacheTypeOK)
  <2>1. /\ scenario # "unpinned" <=> ~(scenario = "unpinned")
        /\ scenario # "unpinned" /\ [MCNext]_mcvars => (scenario # "unpinned")'
    BY ScenarioStays
  <2>2. Starts /\ scenario = "unpinned" => []Orderlies!CacheTypeOK
    BY <1>7, FetchesAre, PTL
  <2> QED  BY <2>1, <2>2, PTL DEF Starts
<1>13. Starts => [](scenario \notin {"pinned", "unpinned"} => Upgrades!CacheTypeOK)
  <2>1. /\ scenario \in {"pinned", "unpinned"} <=> ~(scenario \notin {"pinned", "unpinned"})
        /\ scenario \in {"pinned", "unpinned"} /\ [MCNext]_mcvars => (scenario \in {"pinned", "unpinned"})'
    BY ScenarioStays
  <2>2. Starts /\ scenario \notin {"pinned", "unpinned"} => []Upgrades!CacheTypeOK
    BY <1>5, FetchesAre, PTL
  <2> QED  BY <2>1, <2>2, PTL DEF Starts
<1> DEFINE Kept == /\ Upgrades!TypeOK
                   /\ scenario # "orderly" => Wilds!OkMeansInstalled
                   /\ scenario = "orderly" => Orderlies!OkMeansInstalled /\ Orderlies!GuardsClean
                   /\ scenario = "pinned" => Wilds!CacheTypeOK
                   /\ scenario = "unpinned" => Orderlies!CacheTypeOK
                   /\ scenario \notin {"pinned", "unpinned"} => Upgrades!CacheTypeOK
<1>14. Kept => InstallHolds
  BY UpgradeIsOne, WildIsOne, OrderlyIsOne, SharedIsOne, PinnedIsOne, UnpinnedIsOne DEF InstallHolds, CacheHolds
<1> QED  BY <1>8, <1>9, <1>10, <1>11, <1>12, <1>13, <1>14, PTL DEF MCSpec, Starts

(* One process at a time: with a pinned checksum Ok means that the file is  *)
(* the whole, right artifact, whatever kills and failed writes had left;    *)
(* without one too, unless a failed write, a kill or an early end had left  *)
(* the file torn, and a fetch that fails leaves no other part of a file     *)
(* (core/src/download_ops/default.rs:80-205).                               *)
THEOREM CacheWhole == MCSpec => CacheIsWholeAlone
<1>a. Wilds!Sole({GuiCli}) /\ Orderlies!Sole({GuiCli}) /\ AllFaults \subseteq AllFaults
  BY DEF Wilds!Sole, Orderlies!Sole
<1>b. /\ FaultKinds \ {"prune"} \subseteq Wilds!FaultKinds /\ "prune" \notin FaultKinds \ {"prune"}
      /\ FaultKinds \ {"prune", "body"} \subseteq Orderlies!FaultKinds \ {"prune", "body"}
      /\ FaultKinds \ {"prune", "body"} \subseteq Orderlies!FaultKinds
  BY DEF FaultKinds, Wilds!FaultKinds, Orderlies!FaultKinds
<1>1. Wilds!Downloading => [][Wilds!OkIsWholeStep]_Wilds!cache
  BY <1>a, <1>b, Wilds!PinnedFetchIsWhole, ComponentAssumption, MCClawcliAssumption, CacheAssumption DEF AllFaults
<1>2. Orderlies!Downloading => [][Orderlies!OkIsWholeStep /\ Orderlies!ErrLeavesNothingStep]_Orderlies!cache
  BY <1>a, <1>b, Orderlies!UnpinnedFetchIsWhole, ComponentAssumption, MCClawcliAssumption, CacheAssumption DEF AllFaults
<1> DEFINE Pinning == scenario = "pinned" => [Wilds!OkIsWholeStep]_Wilds!cache
           Streaming == scenario = "unpinned" => [Orderlies!OkIsWholeStep /\ Orderlies!ErrLeavesNothingStep]_Orderlies!cache
           Told == /\ scenario = "pinned" => Pin!OkIsWholeStep
                   /\ scenario = "unpinned" => Unp!OkIsWholeStep /\ Unp!ErrLeavesNothingStep
<1>3. Pinning /\ Streaming /\ [MCNext]_mcvars => [Told]_mcvars
  <2> SUFFICES ASSUME Pinning, Streaming, MCNext, mcvars' # mcvars PROVE Told
    OBVIOUS
  <2>1. scenario \in {"pinned", "unpinned"} => UNCHANGED <<vars, vars2, daemons, exporting, scenario>>
    BY DEF MCNext, Fetches, Installs, Commanded, Bundled
  <2>2. scenario \in {"pinned", "unpinned"} => cache' # cache
    BY <2>1 DEF mcvars
  <2>3. scenario = "pinned" => Wilds!OkIsWholeStep
    BY <2>2, PinnedIsOne DEF cache, Wilds!cache
  <2>4. scenario = "unpinned" => Orderlies!OkIsWholeStep /\ Orderlies!ErrLeavesNothingStep
    BY <2>2, UnpinnedIsOne DEF cache, Orderlies!cache
  <2> QED  BY <2>3, <2>4, PinnedIsOne, UnpinnedIsOne
<1> HIDE DEF Told
<1>4. /\ scenario = "pinned" \/ scenario # "pinned"
      /\ scenario # "pinned" /\ [MCNext]_mcvars => (scenario # "pinned")'
      /\ scenario # "pinned" => Pinning
      /\ [Wilds!OkIsWholeStep]_Wilds!cache => Pinning
  BY ScenarioStays
<1>5. /\ scenario = "unpinned" \/ scenario # "unpinned"
      /\ scenario # "unpinned" /\ [MCNext]_mcvars => (scenario # "unpinned")'
      /\ scenario # "unpinned" => Streaming
      /\ [Orderlies!OkIsWholeStep /\ Orderlies!ErrLeavesNothingStep]_Orderlies!cache => Streaming
  BY ScenarioStays
<1> HIDE DEF Pinning, Streaming
<1>6. Starts => [][Told]_mcvars
  BY <1>1, <1>2, <1>3, <1>4, <1>5, FetchesAre, PTL DEF Starts
<1> QED  BY <1>6, PTL DEF MCSpec, Starts, CacheIsWholeAlone, Told

=============================================================================
