------------------------- MODULE SoftwareLifecycle -------------------------
(***************************************************************************)
(* Software download, activation and commit (internal/engine/software.go)  *)
(* with the two Software Image MEs in the MIB, the prepared transactions   *)
(* of internal/platform/software.go, the goroutine that finishes a         *)
(* download, and the platform's boot slots.                                *)
(*                                                                         *)
(* Three parties hold image flags: the slots themselves (plat, external),  *)
(* the MIB (mib) and the OLT, which only sees the MIB.  The engine decides *)
(* by the MIB alone which slot it may overwrite.  The daemon may die       *)
(* between any two steps, and a helper process that is validating an image *)
(* outlives it.  Sections are abstracted to whether the whole image has    *)
(* been written.                                                           *)
(***************************************************************************)
EXTENDS Naturals, FiniteSets

CONSTANTS
  AbortFails,    \* whether a platform transaction may be beyond undoing
  MaxMibResets,  \* bound: MIB resets by the OLT
  MaxCrashes     \* bound: daemon deaths and device reboots

ASSUME LifecycleAssumption ==
  AbortFails \in BOOLEAN /\ MaxMibResets \in Nat /\ MaxCrashes \in Nat

Images == {0, 1}

VARIABLES
  up,        \* the daemon serves OMCI
  plat,      \* slots: active, committed, the set of valid ones, trial boot
  mib,       \* IsActive, IsCommitted, IsValid of the Software Image MEs
  dl,        \* Engine.download: phase, target, whole image written, its helper runs
  finish,    \* the finish channel: "none", "ok", "err"
  finished,  \* download.finished: a result taken from that channel
  helper,    \* the download helper: what it does and to which slot
  txn,       \* the prepared transaction in flight
  stale,     \* history: what of the slots the MIB may have wrong since the last start
  resets, crashes

vars == <<up, plat, mib, dl, finish, finished, helper, txn, stale, resets,
          crashes>>

NoDownload == [phase |-> "none", image |-> 0, full |-> FALSE, own |-> FALSE]
NoHelper == [job |-> "none", image |-> 0]
NoTxn == [op |-> "none", image |-> 0, step |-> "prepare"]

flagsOf(p) == [active |-> {p.active}, committed |-> {p.committed},
               valid |-> p.valid]

\* model.XG2010G
factory == [active |-> {0}, committed |-> {0}, valid |-> {0}]

\* The daemon has just started: RefreshSoftwareImages has run.
Init ==
  /\ \E i \in Images : \E v \in {Images, {i}} :
       plat = [active |-> i, committed |-> i, valid |-> v, trial |-> FALSE]
  /\ mib = flagsOf(plat)
  /\ up = TRUE
  /\ dl = NoDownload /\ finish = "none" /\ finished = "none"
  /\ helper = NoHelper /\ txn = NoTxn
  /\ stale = {} /\ resets = 0 /\ crashes = 0

\* The engine's mutex is free and the daemon is up.
Ready == up /\ txn = NoTxn

softwareDownloadBusy == dl.phase \in {"receiving", "finalizing"}

-----------------------------------------------------------------------------
(* Download.                                                               *)

\* Mutant: the target's flags are not looked at.
anyTarget(i) == TRUE
startTargetFree(i) == i \notin mib.active \cup mib.committed

\* startSoftwareDownload; the helper erases the slot as soon as it runs.
StartRefused(i) ==
  /\ Ready /\ ~softwareDownloadBusy /\ startTargetFree(i)
  /\ dl' = NoDownload /\ finish' = "none" /\ finished' = "none"
  /\ UNCHANGED <<up, plat, mib, helper, txn, stale, resets, crashes>>

StartOk(i) ==
  /\ Ready /\ ~softwareDownloadBusy /\ startTargetFree(i) /\ helper = NoHelper
  /\ plat' = [plat EXCEPT !.valid = @ \ {i}]
  /\ mib' = [mib EXCEPT !.valid = @ \ {i}]
  /\ helper' = [job |-> "streaming", image |-> i]
  /\ dl' = [phase |-> "receiving", image |-> i, full |-> FALSE, own |-> TRUE]
  /\ finish' = "none" /\ finished' = "none"
  /\ UNCHANGED <<up, txn, stale, resets, crashes>>

\* A helper of an earlier daemon still runs.  The process starts all the same and gives up
\* by itself, which the engine learns from a later write or from Finish.
StartDoomed(i) ==
  /\ Ready /\ ~softwareDownloadBusy /\ startTargetFree(i) /\ helper # NoHelper
  /\ mib' = [mib EXCEPT !.valid = @ \ {i}]
  /\ dl' = [phase |-> "receiving", image |-> i, full |-> FALSE, own |-> FALSE]
  /\ finish' = "none" /\ finished' = "none"
  /\ UNCHANGED <<up, plat, helper, txn, stale, resets, crashes>>

\* The helper runs, the MIB update fails, the helper is aborted.
StartNotRecorded(i) ==
  /\ Ready /\ ~softwareDownloadBusy /\ startTargetFree(i) /\ helper = NoHelper
  /\ i \in mib.valid
  /\ plat' = [plat EXCEPT !.valid = @ \ {i}]
  /\ dl' = NoDownload /\ finish' = "none" /\ finished' = "none"
  /\ stale' = stale \cup {"valid"}
  /\ UNCHANGED <<up, mib, helper, txn, resets, crashes>>

\* downloadSoftwareSection: the last window is written.
LastSection ==
  /\ Ready /\ dl.phase = "receiving" /\ ~dl.full
  /\ dl' = [dl EXCEPT !.full = TRUE]
  /\ UNCHANGED <<up, plat, mib, finish, finished, helper, txn, stale, resets,
                 crashes>>

\* failSoftwareDownload, after a failed write or an End that does not match
\* what was received.
DownloadFails ==
  /\ Ready /\ dl.phase = "receiving"
  /\ dl' = NoDownload /\ helper' = IF dl.own THEN NoHelper ELSE helper
  /\ UNCHANGED <<up, plat, mib, finish, finished, txn, stale, resets, crashes>>

\* endSoftwareDownload: size and CRC match; Finish runs in a goroutine.
EndAccepted ==
  /\ Ready /\ dl.phase = "receiving" /\ dl.full
  /\ dl' = [dl EXCEPT !.phase = "finalizing"]
  /\ IF dl.own THEN helper' = [helper EXCEPT !.job = "validating"] /\ UNCHANGED finish
                ELSE finish' = "err" /\ UNCHANGED helper
  /\ UNCHANGED <<up, plat, mib, finished, txn, stale, resets, crashes>>

\* The helper ends.  Its result reaches the channel if the daemon that waits
\* for it still runs; an error may hide a slot that did become valid.
HelperEnds(ok) ==
  /\ helper.job = "validating"
  /\ helper' = NoHelper
  /\ \E v \in {plat.valid, plat.valid \cup {helper.image}} :
       /\ ok => helper.image \in v
       /\ plat' = [plat EXCEPT !.valid = v]
  /\ finish' = IF up /\ dl.phase = "finalizing" /\ dl.own
               THEN IF ok THEN "ok" ELSE "err"
               ELSE finish
  /\ UNCHANGED <<up, mib, dl, finished, txn, stale, resets, crashes>>

\* Mutant: the result is not kept when it cannot be recorded.
keepNothing(r) == finished' = "none"
keep(r) == finished' = r

\* softwareFinishStatus, on a repeated End: nothing yet is "device busy" ...
PollResult == IF finished # "none" THEN finished ELSE finish

PollFailed ==
  /\ Ready /\ dl.phase = "finalizing" /\ PollResult = "err"
  /\ dl' = [dl EXCEPT !.phase = "failed"]
  /\ finished' = "err" /\ finish' = "none"
  /\ UNCHANGED <<up, plat, mib, helper, txn, stale, resets, crashes>>

PollRecorded ==
  /\ Ready /\ dl.phase = "finalizing" /\ PollResult = "ok"
  /\ dl' = [dl EXCEPT !.phase = "complete"]
  /\ mib' = [mib EXCEPT !.valid = @ \cup {dl.image}]
  /\ finished' = "ok" /\ finish' = "none"
  /\ UNCHANGED <<up, plat, helper, txn, stale, resets, crashes>>

\* ... and a MIB update that fails leaves the result for the next End.
PollNotRecorded ==
  /\ Ready /\ dl.phase = "finalizing" /\ PollResult = "ok"
  /\ keep("ok") /\ finish' = "none"
  /\ UNCHANGED <<up, plat, mib, dl, helper, txn, stale, resets, crashes>>

-----------------------------------------------------------------------------
(* Activate and commit.                                                    *)

\* activateSoftware, commitSoftware up to a successful prepare.  The helper
\* validates the slot; commit of the committed image needs no transaction.
Prepare(op, i) ==
  /\ Ready /\ ~softwareDownloadBusy
  /\ i \in mib.valid
  /\ op = "commit" => i \notin mib.committed
  /\ i \in plat.valid
  /\ txn' = [op |-> op, image |-> i, step |-> "prepared"]
  /\ UNCHANGED <<up, plat, mib, dl, finish, finished, helper, stale, resets,
                 crashes>>

\* The candidate MIB is not persisted, or commit fails without effect or is
\* undone by abort: the store and the slots keep their state.
TxnAborted ==
  /\ up /\ txn.step = "prepared"
  /\ txn' = NoTxn
  /\ UNCHANGED <<up, plat, mib, dl, finish, finished, helper, stale, resets,
                 crashes>>

\* *-commit takes effect on the slots.
effect(p) ==
  IF txn.op = "activate" THEN [p EXCEPT !.active = txn.image, !.trial = TRUE]
  ELSE [p EXCEPT !.committed = txn.image,
                 !.trial = @ /\ p.active # txn.image]

TxnCommitted ==
  /\ up /\ txn.step = "prepared"
  /\ plat' = effect(plat)
  /\ txn' = [txn EXCEPT !.step = "committed"]
  /\ UNCHANGED <<up, mib, dl, finish, finished, helper, stale, resets, crashes>>

\* commit took effect but was reported as failed, and abort failed too.
TxnLost ==
  /\ AbortFails /\ up /\ txn.step = "prepared"
  /\ plat' = effect(plat)
  /\ txn' = NoTxn /\ stale' = stale \cup {"selected"}
  /\ UNCHANGED <<up, mib, dl, finish, finished, helper, resets, crashes>>

\* Mutants: the other image keeps its flag; the wrong image gets it.
addSoftwareFlag(flags) == flags \cup {txn.image}
nextSoftwareFlag(flags) == {txn.image + 1}
setExclusiveSoftwareFlag(flags) == {txn.image}

\* s.current = proposed
TxnRecorded ==
  /\ up /\ txn.step = "committed"
  /\ mib' = IF txn.op = "activate"
            THEN [mib EXCEPT !.active = setExclusiveSoftwareFlag(@)]
            ELSE [mib EXCEPT !.committed = setExclusiveSoftwareFlag(@)]
  /\ txn' = NoTxn
  /\ UNCHANGED <<up, plat, dl, finish, finished, helper, stale, resets, crashes>>

-----------------------------------------------------------------------------
(* MIB reset, the process and the device.                                  *)

\* Store.Reset puts every factory ME back, the Software Image MEs included.
MibReset ==
  /\ Ready /\ resets < MaxMibResets
  /\ resets' = resets + 1
  /\ mib' = factory
  /\ stale' = stale \cup IF factory = flagsOf(plat) THEN {} ELSE {"valid", "selected"}
  /\ UNCHANGED <<up, plat, dl, finish, finished, helper, txn, crashes>>

\* A helper that still reads sections sees the end of its input and fails;
\* one that validates goes on.
DaemonDies ==
  /\ up /\ crashes < MaxCrashes
  /\ up' = FALSE /\ crashes' = crashes + 1
  /\ dl' = NoDownload /\ finish' = "none" /\ finished' = "none"
  /\ helper' = IF helper.job = "validating" THEN helper ELSE NoHelper
  /\ txn' = NoTxn
  /\ UNCHANGED <<plat, mib, stale, resets>>

\* The boot guard (external): an activated image is tried once; otherwise the
\* committed image boots.
DeviceReboot ==
  /\ crashes < MaxCrashes
  /\ up' = FALSE /\ crashes' = crashes + 1
  /\ plat' = IF plat.trial THEN [plat EXCEPT !.trial = FALSE]
             ELSE [plat EXCEPT !.active = plat.committed]
  /\ dl' = NoDownload /\ finish' = "none" /\ finished' = "none"
  /\ helper' = NoHelper /\ txn' = NoTxn
  /\ UNCHANGED <<mib, stale, resets>>

\* RefreshSoftwareImages; the mutant trusts the restored MIB.
trustRestored(m) == m
RefreshSoftwareImages(m) == flagsOf(plat)

\* A backend that reports a selected image as invalid keeps the daemon down.  A helper that
\* was started by what the MIB had wrong may still run.
Restart ==
  /\ ~up
  /\ plat.active \in plat.valid /\ plat.committed \in plat.valid
  /\ up' = TRUE
  /\ mib' = RefreshSoftwareImages(mib)
  /\ stale' = IF helper = NoHelper THEN {} ELSE stale
  /\ UNCHANGED <<plat, dl, finish, finished, helper, txn, resets, crashes>>

Next ==
  \/ \E i \in Images : StartRefused(i)
  \/ \E i \in Images : StartOk(i)
  \/ \E i \in Images : StartDoomed(i)
  \/ \E i \in Images : StartNotRecorded(i)
  \/ LastSection
  \/ DownloadFails
  \/ EndAccepted
  \/ \E ok \in BOOLEAN : HelperEnds(ok)
  \/ PollFailed
  \/ PollRecorded
  \/ PollNotRecorded
  \/ \E op \in {"activate", "commit"}, i \in Images : Prepare(op, i)
  \/ TxnAborted
  \/ TxnCommitted
  \/ TxnLost
  \/ TxnRecorded
  \/ MibReset
  \/ DaemonDies
  \/ DeviceReboot
  \/ Restart

Spec == Init /\ [][Next]_vars

\* The helper ends (it has a timeout); the OLT repeats End while it is told
\* "device busy", and recording does not fail for ever; a transaction's steps
\* are taken.
Fairness ==
  /\ WF_vars(\E ok \in BOOLEAN : HelperEnds(ok))
  /\ WF_vars(PollFailed)
  /\ SF_vars(PollRecorded)
  /\ WF_vars(TxnAborted \/ TxnCommitted \/ TxnLost)
  /\ WF_vars(TxnRecorded)
  /\ WF_vars(Restart)

FairSpec == Spec /\ Fairness

-----------------------------------------------------------------------------
(* Properties.                                                             *)

\* Every variable has its type.
TypeOK ==
  /\ up \in BOOLEAN /\ stale \subseteq {"valid", "selected"}
  /\ plat \in [active : Images, committed : Images, valid : SUBSET Images,
               trial : BOOLEAN]
  /\ mib \in [active : SUBSET Images, committed : SUBSET Images,
              valid : SUBSET Images]
  /\ dl \in [phase : {"none", "receiving", "finalizing", "complete", "failed"},
             image : Images, full : BOOLEAN, own : BOOLEAN]
  /\ finish \in {"none", "ok", "err"} /\ finished \in {"none", "ok", "err"}
  /\ helper \in [job : {"none", "streaming", "validating"}, image : Images]
  /\ txn \in [op : {"none", "activate", "commit"}, image : Images,
              step : {"prepare", "prepared", "committed"}]
  /\ resets \in Nat /\ crashes \in Nat

\* No helper ever writes to, or validates, a slot that runs or that boots next, also across
\* crashes and reboots, unless an undone failure or a MIB reset has left the MIB with another
\* selection than the slots.
DownloadTargetsSpare ==
  helper # NoHelper /\ "selected" \notin stale =>
    helper.image # plat.active /\ helper.image # plat.committed

\* "Start download rejects active or committed targets", whatever the MIB says.
RejectsSelectedTargets ==
  helper # NoHelper => helper.image # plat.active /\ helper.image # plat.committed

\* The image that runs and the one that boots next are always valid: no sequence of
\* downloads, activations, commits, crashes and boots selects an image that was not
\* validated as a whole, as long as the MIB knows which images are selected.
SelectedIsValid ==
  "selected" \notin stale => plat.active \in plat.valid /\ plat.committed \in plat.valid

\* Between commands the MIB tells the OLT the truth about the slots, unless a failure that
\* could not be undone or a MIB reset has set them apart since the last start: the same
\* image is active, the same one committed, and no slot is called valid that is not.
MibIsHonest ==
  Ready =>
    /\ "selected" \notin stale => mib.active = {plat.active} /\ mib.committed = {plat.committed}
    /\ stale = {} => mib.valid \subseteq plat.valid

\* Exactly one image is active and exactly one committed in the MIB.
OneImageSelected ==
  Cardinality(mib.active) = 1 /\ Cardinality(mib.committed) = 1

\* The inductive strengthening of the four invariants above.  A slot that a helper works on
\* is not valid until the helper ends, and a slot that a transaction selects is valid while
\* the transaction lasts, so that the two are never the same; a result is kept only of the
\* slot it is about; during a transaction the MIB lags behind the slots by its effect alone.
HelperInv ==
  /\ helper.job = "none" => helper = NoHelper
  /\ helper # NoHelper => helper.image \notin plat.valid
  /\ dl.phase = "receiving" /\ dl.own => helper = [job |-> "streaming", image |-> dl.image]
  /\ dl.phase = "finalizing" /\ dl.own /\ helper # NoHelper => helper.image = dl.image
  /\ ~up => dl = NoDownload

ResultInv ==
  /\ dl.phase # "finalizing" => finish = "none"
  /\ dl.phase = "receiving" => finished = "none"
  /\ dl.phase = "finalizing" /\ "ok" \in {finish, finished} => dl.image \in plat.valid

TxnInv ==
  txn # NoTxn =>
    /\ up /\ ~softwareDownloadBusy
    /\ txn.op \in {"activate", "commit"} /\ txn.step \in {"prepared", "committed"}
    /\ txn.image \in plat.valid

committing(op) == txn.op = op /\ txn.step = "committed"

\* What the MIB says of the slots, with the effect of a transaction that is not recorded yet.
RecordInv ==
  /\ mib.active \in {{0}, {1}} /\ mib.committed \in {{0}, {1}}
  /\ up /\ stale = {} => mib.valid \subseteq plat.valid
  /\ up /\ "selected" \notin stale =>
       /\ {plat.active} = IF committing("activate") THEN {txn.image} ELSE mib.active
       /\ {plat.committed} = IF committing("commit") THEN {txn.image} ELSE mib.committed

LifecycleInv ==
  HelperInv /\ ResultInv /\ TxnInv /\ RecordInv /\ DownloadTargetsSpare /\ SelectedIsValid

\* A download being finalized ends in a stable result, also when its result
\* could not be recorded at first, or with the daemon.
FinalizationEnds == dl.phase = "finalizing" ~> dl.phase # "finalizing"
=============================================================================
