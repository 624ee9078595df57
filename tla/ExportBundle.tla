----------------------------- MODULE ExportBundle -----------------------------
(***************************************************************************)
(* Bundles: `clawcli export` as the GUI drives it, and `clawcli import`    *)
(* (cli/src/cmd/verbs.rs, core/src/export/manifest.rs,                     *)
(* tauri/src/ipc/export.rs, src/pages/SandboxPage.tsx,                     *)
(* src/components/ExportProgress.tsx).                                     *)
(*                                                                         *)
(* An export is a driver, a task of the GUI, which runs clawcli and reads  *)
(* its output until every holder of the pipe has closed it.  clawcli runs  *)
(* a helper that takes the image, then the tar that writes the bundle and  *)
(* holds the same pipe.  One slot names the clawcli that Cancel kills, one *)
(* dialog shows whatever export is told of.                                *)
(***************************************************************************)
EXTENDS Naturals, FiniteSets

CONSTANTS
  MaxExports, \* bound: exports the user asks for
  Machines,   \* sandboxed instances
  BundleFiles \* where bundles are written

ASSUME BundleAssumption == MaxExports \in Nat

VARIABLES
  driver,     \* driver[e]: "new", "asked", "reading", "ended", "settled"
  order,      \* order[e]: the machine and the file of export e
  clawcli,    \* clawcli[e]: its clawcli
  helper,     \* helper[e]: the process clawcli has run, which may outlive it
  told,       \* told[e]: what the driver says of e, "" until then
  slot,       \* CURRENT_CHILD_PID: an export, or 0
  dialog,     \* what the dialog shows, and the export it was opened for
  bundle,     \* bundle[f]: what file f holds
  import,     \* one `clawcli import`
  overlap,    \* history: two drivers were under way at once
  met         \* history: files that two tars wrote at once

exporting == <<driver, order, clawcli, helper, told, slot, dialog, bundle, import, overlap, met>>

Exports == 1..MaxExports
NoOrder == [of |-> "", to |-> ""]
NoDialog == [of |-> 0, says |-> "none"]
NoImport == [at |-> "idle", from |-> "", head |-> 0, body |-> 0]
Lives(e) == clawcli[e] \in {"image", "wrap"}
Running(e) == driver[e] \in {"reading", "ended"}
Others(e) == {x \in Exports \ {e} : driver[x] \in {"asked", "reading", "ended"}}
Target(e) == order[e].to
WholeBundle(e) == [by |-> e, state |-> "whole"]

BundleInit ==
  /\ driver = [e \in Exports |-> "new"]
  /\ order = [e \in Exports |-> NoOrder]
  /\ clawcli = [e \in Exports |-> "none"]
  /\ helper = [e \in Exports |-> "none"]
  /\ told = [e \in Exports |-> ""]
  /\ slot = 0
  /\ dialog = NoDialog
  /\ bundle = [f \in BundleFiles |-> [by |-> 0, state |-> "absent"]]
  /\ import = NoImport
  /\ overlap = FALSE /\ met = {}

-----------------------------------------------------------------------------
(* The dialog.                                                              *)

\* export_sandbox asks for a file and answers when its driver is spawned.
AskExport(e) ==
  /\ driver[e] = "new" /\ \A x \in 1..(e - 1) : driver[x] # "new"
  /\ dialog = NoDialog
  /\ \E m \in Machines, f \in BundleFiles : order' = [order EXCEPT ![e] = [of |-> m, to |-> f]]
  /\ driver' = [driver EXCEPT ![e] = "asked"]
  /\ dialog' = [of |-> e, says |-> "not yet"]
  /\ overlap' = (overlap \/ Others(e) # {})
  /\ UNCHANGED <<clawcli, helper, told, slot, bundle, import, met>>

\* The page hears of it and shows the dialog.
Open ==
  /\ dialog.says = "not yet"
  /\ dialog' = [dialog EXCEPT !.says = "exporting"]
  /\ UNCHANGED <<driver, order, clawcli, helper, told, slot, bundle, import, overlap, met>>

\* A signal to the clawcli of the slot, if there is one: its helper goes on;
\* on Windows, taskkill /T ends both.
Cancel ==
  /\ dialog.says = "exporting"
  /\ dialog' = [dialog EXCEPT !.says = "cancelled"]
  /\ IF slot # 0 /\ Lives(slot)
     THEN /\ clawcli' = [clawcli EXCEPT ![slot] = "killed"]
          /\ helper' = helper \/ helper' = [helper EXCEPT ![slot] = "none"]
     ELSE UNCHANGED <<clawcli, helper>>
  /\ UNCHANGED <<driver, order, told, slot, bundle, import, overlap, met>>

Close ==
  /\ dialog.says \in {"cancelled", "done"}
  /\ dialog' = NoDialog
  /\ UNCHANGED <<driver, order, clawcli, helper, told, slot, bundle, import, overlap, met>>

-----------------------------------------------------------------------------
(* The driver: run_cli_streaming under the lock of the instance.            *)
Run(e) ==
  /\ driver[e] = "asked"
  /\ \A x \in Exports : Running(x) => order[x].of # order[e].of
  /\ driver' = [driver EXCEPT ![e] = "reading"]
  /\ clawcli' = [clawcli EXCEPT ![e] = "image"]
  /\ helper' = [helper EXCEPT ![e] = "image"]
  /\ slot' = e
  /\ UNCHANGED <<order, told, dialog, bundle, import, overlap, met>>

\* Fault variant: the end of the output is waited for, however long.
ReadOutputOn(e) ==
  /\ driver[e] = "reading"
  /\ ~Lives(e) /\ helper[e] # "wrap"
  /\ driver' = [driver EXCEPT ![e] = "ended"]
  /\ told' = [told EXCEPT ![e] = IF clawcli[e] = "ok" THEN "complete" ELSE "failed"]
  /\ UNCHANGED <<order, clawcli, helper, slot, dialog, bundle, import, overlap, met>>

\* The output ends when clawcli and the tar that shares its pipe are gone; or
\* there is none for ten minutes, and clawcli is killed.
ReadOutput(e) ==
  /\ driver[e] = "reading"
  /\ driver' = [driver EXCEPT ![e] = "ended"]
  /\ \/ /\ ~Lives(e) /\ helper[e] # "wrap"
        /\ told' = [told EXCEPT ![e] = IF clawcli[e] = "ok" THEN "complete" ELSE "failed"]
        /\ UNCHANGED clawcli
     \/ /\ Lives(e) \/ helper[e] = "wrap"
        /\ told' = [told EXCEPT ![e] = "failed"]
        /\ clawcli' = [clawcli EXCEPT ![e] = IF Lives(e) THEN "killed" ELSE @]
  /\ UNCHANGED <<order, helper, slot, dialog, bundle, import, overlap, met>>

\* Fault variant: the slot keeps the process that has ended.
SettleKeepsSlot(e) ==
  /\ driver[e] = "ended"
  /\ driver' = [driver EXCEPT ![e] = "settled"]
  /\ UNCHANGED <<order, clawcli, helper, told, slot, dialog, bundle, import, overlap, met>>

\* At a failure the page closes the dialog, at a success an open dialog shows
\* it, whichever export either is of.
Heard(outcome) ==
  dialog' = IF dialog.says \in {"none", "not yet"} THEN dialog
            ELSE IF outcome = "failed" THEN NoDialog ELSE [dialog EXCEPT !.says = "done"]

\* The slot is emptied and the event sent.
Settle(e) ==
  /\ driver[e] = "ended"
  /\ driver' = [driver EXCEPT ![e] = "settled"]
  /\ slot' = 0
  /\ Heard(told[e])
  /\ UNCHANGED <<order, clawcli, helper, told, bundle, import, overlap, met>>

-----------------------------------------------------------------------------
(* clawcli export.                                                          *)

\* export_image, then the manifest; tar opens the bundle, which truncates it.
TakeImage(e) ==
  /\ clawcli[e] = "image"
  /\ \/ /\ clawcli' = [clawcli EXCEPT ![e] = "wrap"]
        /\ helper' = [helper EXCEPT ![e] = "wrap"]
        /\ LET writers == {x \in Exports \ {e} : helper[x] = "wrap" /\ Target(x) = Target(e)}
           IN /\ met' = IF writers = {} THEN met ELSE met \union {Target(e)}
              /\ bundle' = [bundle EXCEPT ![Target(e)] =
                              [by |-> e, state |-> IF writers = {} THEN "partial" ELSE "mixed"]]
     \/ /\ clawcli' = [clawcli EXCEPT ![e] = "err"]
        /\ helper' = [helper EXCEPT ![e] = "none"]
        /\ UNCHANGED <<bundle, met>>
  /\ UNCHANGED <<driver, order, told, slot, dialog, import, overlap>>

Written(e) == [bundle EXCEPT ![Target(e)] = IF @ = [by |-> e, state |-> "partial"] THEN WholeBundle(e) ELSE @]

\* Fault variant: the exit code of tar is not looked at.
WrapUnchecked(e) ==
  /\ clawcli[e] = "wrap"
  /\ clawcli' = [clawcli EXCEPT ![e] = "ok"]
  /\ helper' = [helper EXCEPT ![e] = "none"]
  /\ bundle' = Written(e) \/ UNCHANGED bundle
  /\ UNCHANGED <<driver, order, told, slot, dialog, import, overlap, met>>

Wrap(e) ==
  /\ clawcli[e] = "wrap"
  /\ \/ clawcli' = [clawcli EXCEPT ![e] = "ok"] /\ bundle' = Written(e)
     \/ clawcli' = [clawcli EXCEPT ![e] = "err"] /\ UNCHANGED bundle
  /\ helper' = [helper EXCEPT ![e] = "none"]
  /\ UNCHANGED <<driver, order, told, slot, dialog, import, overlap, met>>

\* The helper of a clawcli that was killed ends when its work is done.
Orphan(e) ==
  /\ clawcli[e] = "killed" /\ helper[e] # "none"
  /\ helper' = [helper EXCEPT ![e] = "none"]
  /\ bundle' = Written(e) \/ UNCHANGED bundle
  /\ UNCHANGED <<driver, order, clawcli, told, slot, dialog, import, overlap, met>>

-----------------------------------------------------------------------------
(* clawcli import: the manifest and then the image, each by a tar that       *)
(* fails on a bundle which is not whole.                                     *)
Peek(f) == bundle[f].state = "whole"

Inspect(f) ==
  /\ import.at \in {"idle", "err"}
  /\ import' = IF Peek(f)
               THEN [NoImport EXCEPT !.at = "inspected", !.from = f, !.head = bundle[f].by]
               ELSE [NoImport EXCEPT !.at = "err"]
  /\ UNCHANGED <<driver, order, clawcli, helper, told, slot, dialog, bundle, overlap, met>>

\* Fault variant: what tar unpacks is taken, whatever tar says of it.
ExtractUnchecked ==
  /\ import.at = "inspected"
  /\ import' = [import EXCEPT !.at = "ok", !.body =
                  IF bundle[import.from].state = "whole" THEN bundle[import.from].by ELSE 0]
  /\ UNCHANGED <<driver, order, clawcli, helper, told, slot, dialog, bundle, overlap, met>>

Extract ==
  /\ import.at = "inspected"
  /\ import' = IF bundle[import.from].state = "whole"
               THEN [import EXCEPT !.at = "ok", !.body = bundle[import.from].by]
               ELSE [import EXCEPT !.at = "err"]
  /\ UNCHANGED <<driver, order, clawcli, helper, told, slot, dialog, bundle, overlap, met>>

-----------------------------------------------------------------------------
BundleNext ==
  \/ \E e \in Exports : AskExport(e) \/ Run(e) \/ ReadOutput(e) \/ Settle(e) \/ TakeImage(e) \/ Wrap(e) \/ Orphan(e)
  \/ Open \/ Cancel \/ Close
  \/ \E f \in BundleFiles : Inspect(f)
  \/ Extract

\* The tasks of the GUI go on; clawcli and its helper may hang for ever.
BundleFairness == \A e \in Exports : WF_exporting(Run(e) \/ ReadOutput(e) \/ Settle(e))

BundleSpec == BundleInit /\ [][BundleNext]_exporting /\ BundleFairness

-----------------------------------------------------------------------------
(* Correctness.                                                             *)
BundleTypeOK ==
  /\ driver \in [Exports -> {"new", "asked", "reading", "ended", "settled"}]
  /\ clawcli \in [Exports -> {"none", "image", "wrap", "ok", "err", "killed"}]
  /\ helper \in [Exports -> {"none", "image", "wrap"}]
  /\ slot \in Exports \union {0}
  /\ dialog.says \in {"none", "not yet", "exporting", "cancelled", "done"}
  /\ \A f \in BundleFiles : bundle[f].state \in {"absent", "partial", "mixed", "whole"}

\* Cancel finds the export that runs, unless two were under way: then the
\* first to settle empties the slot of both (export.rs:22, 119-136).
SlotIsKid == \A e \in Exports : (Running(e) /\ Lives(e) /\ ~overlap) => slot = e

\* Cancel never finds one that is over (export.rs:117-118).
SlotIsFresh == slot # 0 => Running(slot)

\* A dialog that says done stands for a bundle that is whole and of the export
\* it was opened for, unless two exports were under way or two tars wrote the
\* file, one of a killed clawcli (verbs.rs:1334-1348, SandboxPage.tsx:50-58).
DoneIsWhole ==
  (dialog.says = "done" /\ ~overlap /\ Target(dialog.of) \notin met)
    => bundle[Target(dialog.of)] = WholeBundle(dialog.of)

\* An import that succeeds took the whole image of one export, however the
\* file was written over meanwhile.  Its record may be of another: the manifest
\* was read before (verbs.rs:1366-1386, manifest.rs:276-310).
ImportIsWhole == import.at = "ok" => import.body # 0

BundleInv == BundleTypeOK /\ SlotIsKid /\ SlotIsFresh /\ DoneIsWhole /\ ImportIsWhole

\* Every export the GUI starts is told of in the end, even if clawcli or its
\* helper hangs, as long as no other export of the machine keeps its lock: the
\* ten minutes of silence see to it (cli_bridge.rs:320-335).
ExportIsTold == \A e \in Exports : driver[e] = "asked" ~> driver[e] = "settled"

=============================================================================
