----------------------- MODULE SoftwareLifecycleProofs -----------------------
(***************************************************************************)
(* For any number of crashes, reboots and MIB resets, and whether or not   *)
(* aborts may fail: type correctness of SoftwareLifecycle and its four     *)
(* safety invariants, from the inductive invariant LifecycleInv.           *)
(***************************************************************************)
EXTENDS SoftwareLifecycle, FiniteSetTheorems, TLAPS

\* The values that stand for "nothing" are well typed.
LEMMA NothingTyped ==
  /\ NoDownload \in [phase : {"none", "receiving", "finalizing", "complete", "failed"},
                     image : Images, full : BOOLEAN, own : BOOLEAN]
  /\ NoHelper \in [job : {"none", "streaming", "validating"}, image : Images]
  /\ NoTxn \in [op : {"none", "activate", "commit"}, image : Images,
                step : {"prepare", "prepared", "committed"}]
BY DEF NoDownload, NoHelper, NoTxn, Images

\* What a transaction does to the slots: one selection moves to its image.
LEMMA EffectFact ==
  ASSUME TypeOK
  PROVE  /\ effect(plat) \in [active : Images, committed : Images, valid : SUBSET Images,
                              trial : BOOLEAN]
         /\ effect(plat).valid = plat.valid
         /\ effect(plat).active = IF txn.op = "activate" THEN txn.image ELSE plat.active
         /\ effect(plat).committed = IF txn.op = "activate" THEN plat.committed ELSE txn.image
<1>1. CASE txn.op = "activate" BY <1>1 DEF effect, TypeOK
<1>2. CASE txn.op # "activate" BY <1>2 DEF effect, TypeOK
<1>3. QED BY <1>1, <1>2

\* What the boot guard does to the slots.
LEMMA RebootFact ==
  ASSUME TypeOK, DeviceReboot
  PROVE  /\ plat' \in [active : Images, committed : Images, valid : SUBSET Images,
                       trial : BOOLEAN]
         /\ plat'.valid = plat.valid /\ plat'.committed = plat.committed
         /\ plat'.active \in {plat.active, plat.committed}
<1>1. CASE plat.trial BY <1>1 DEF DeviceReboot, TypeOK
<1>2. CASE ~plat.trial BY <1>2 DEF DeviceReboot, TypeOK
<1>3. QED BY <1>1, <1>2

\* The lifecycle starts well typed.
LEMMA InitTypeOK == Init => TypeOK
BY DEF Init, TypeOK, flagsOf, Images, NoDownload, NoHelper, NoTxn

\* Every step of engine, helper, transaction and device preserves the types.
LEMMA NextTypeOK == TypeOK /\ [Next]_vars => TypeOK'
<1> SUFFICES ASSUME TypeOK, [Next]_vars PROVE TypeOK'
  OBVIOUS
<1> USE NothingTyped DEF TypeOK
<1>1. ASSUME NEW i \in Images, StartRefused(i) PROVE TypeOK'
  BY <1>1 DEF StartRefused, Images
<1>2. ASSUME NEW i \in Images, StartOk(i) PROVE TypeOK'
  BY <1>2 DEF StartOk
<1>3. ASSUME NEW i \in Images, StartDoomed(i) PROVE TypeOK'
  BY <1>3 DEF StartDoomed
<1>4. ASSUME NEW i \in Images, StartNotRecorded(i) PROVE TypeOK'
  BY <1>4 DEF StartNotRecorded, Images
<1>5. CASE LastSection BY <1>5 DEF LastSection
<1>6. CASE DownloadFails BY <1>6 DEF DownloadFails, Images
<1>7. CASE EndAccepted BY <1>7 DEF EndAccepted
<1>8. ASSUME NEW ok \in BOOLEAN, HelperEnds(ok) PROVE TypeOK'
  BY <1>8 DEF HelperEnds, Images
<1>9. CASE PollFailed BY <1>9 DEF PollFailed
<1>10. CASE PollRecorded BY <1>10 DEF PollRecorded
<1>11. CASE PollNotRecorded BY <1>11 DEF PollNotRecorded, keep
<1>12. ASSUME NEW op \in {"activate", "commit"}, NEW i \in Images, Prepare(op, i)
       PROVE  TypeOK'
  BY <1>12 DEF Prepare
<1>13. CASE TxnAborted BY <1>13 DEF TxnAborted, Images
<1>14. CASE TxnCommitted BY <1>14, EffectFact DEF TxnCommitted
<1>15. CASE TxnLost BY <1>15, EffectFact DEF TxnLost
<1>16. CASE TxnRecorded
  BY <1>16 DEF TxnRecorded, setExclusiveSoftwareFlag, Images
<1>17. CASE MibReset BY <1>17 DEF MibReset, factory, Images
<1>18. CASE DaemonDies
  <2>1. up' \in BOOLEAN BY <1>18, Zenon DEF DaemonDies
  <2>2. QED BY <1>18, <2>1 DEF DaemonDies
<1>19. CASE DeviceReboot
  <2>1. up' \in BOOLEAN BY <1>19, Zenon DEF DeviceReboot
  <2>2. /\ dl' = NoDownload /\ finish' = "none" /\ finished' = "none"
        /\ helper' = NoHelper /\ txn' = NoTxn /\ crashes' = crashes + 1
        /\ UNCHANGED <<mib, stale, resets>>
    BY <1>19, Zenon DEF DeviceReboot
  <2>3. QED BY <1>19, <2>1, <2>2, RebootFact
<1>20. CASE Restart
  <2>1. up' \in BOOLEAN BY <1>20, Zenon DEF Restart
  <2>2. mib' \in [active : SUBSET Images, committed : SUBSET Images, valid : SUBSET Images]
    BY <1>20 DEF Restart, RefreshSoftwareImages, flagsOf
  <2>3. stale' \subseteq {"valid", "selected"}
    BY <1>20 DEF Restart
  <2>4. UNCHANGED <<plat, dl, finish, finished, helper, txn, resets, crashes>>
    BY <1>20 DEF Restart
  <2>5. QED BY <2>1, <2>2, <2>3, <2>4
<1>21. CASE UNCHANGED vars BY <1>21 DEF vars
<1>22. QED
  BY <1>1, <1>2, <1>3, <1>4, <1>5, <1>6, <1>7, <1>8, <1>9, <1>10, <1>11, <1>12, <1>13,
     <1>14, <1>15, <1>16, <1>17, <1>18, <1>19, <1>20, <1>21 DEF Next

\* Every reachable state of the lifecycle is well typed.
THEOREM TypeCorrect == Spec => []TypeOK
BY InitTypeOK, NextTypeOK, PTL DEF Spec

-----------------------------------------------------------------------------
\* A daemon that has just started is in order.
LEMMA InitLifecycle == Init => LifecycleInv
BY DEF Init, LifecycleInv, HelperInv, ResultInv, TxnInv, RecordInv, committing,
       DownloadTargetsSpare, SelectedIsValid, flagsOf, Images, NoDownload, NoHelper, NoTxn

\* Every step preserves the relation of slots, helper, transaction and MIB.
LEMMA NextLifecycle == TypeOK /\ LifecycleInv /\ [Next]_vars => LifecycleInv'
<1> SUFFICES ASSUME TypeOK, LifecycleInv, [Next]_vars PROVE LifecycleInv'
  OBVIOUS
<1> USE DEF TypeOK, LifecycleInv, HelperInv, ResultInv, TxnInv, RecordInv, committing,
            DownloadTargetsSpare, SelectedIsValid, softwareDownloadBusy, Ready, Images,
            NoDownload, NoHelper, NoTxn, startTargetFree
<1>1. ASSUME NEW i \in Images, StartRefused(i) PROVE LifecycleInv'
  BY <1>1 DEF StartRefused
<1>2. ASSUME NEW i \in Images, StartOk(i) PROVE LifecycleInv'
  BY <1>2 DEF StartOk
<1>3. ASSUME NEW i \in Images, StartDoomed(i) PROVE LifecycleInv'
  BY <1>3 DEF StartDoomed
<1>4. ASSUME NEW i \in Images, StartNotRecorded(i) PROVE LifecycleInv'
  BY <1>4 DEF StartNotRecorded
<1>5. CASE LastSection BY <1>5 DEF LastSection
<1>6. CASE DownloadFails BY <1>6 DEF DownloadFails
<1>7. CASE EndAccepted BY <1>7 DEF EndAccepted
<1>8. ASSUME NEW ok \in BOOLEAN, HelperEnds(ok) PROVE LifecycleInv'
  BY <1>8 DEF HelperEnds
<1>9. CASE PollFailed BY <1>9 DEF PollFailed
<1>10. CASE PollRecorded BY <1>10 DEF PollRecorded, PollResult
<1>11. CASE PollNotRecorded BY <1>11 DEF PollNotRecorded, keep, PollResult
<1>12. ASSUME NEW op \in {"activate", "commit"}, NEW i \in Images, Prepare(op, i)
       PROVE  LifecycleInv'
  BY <1>12 DEF Prepare
<1>13. CASE TxnAborted BY <1>13 DEF TxnAborted
<1>14. CASE TxnCommitted BY <1>14, EffectFact DEF TxnCommitted
<1>15. CASE TxnLost BY <1>15, EffectFact DEF TxnLost
<1>16. CASE TxnRecorded BY <1>16 DEF TxnRecorded, setExclusiveSoftwareFlag
<1>17. CASE MibReset BY <1>17 DEF MibReset, factory, flagsOf
<1>18. CASE DaemonDies BY <1>18 DEF DaemonDies
<1>19. CASE DeviceReboot BY <1>19, RebootFact DEF DeviceReboot
<1>20. CASE Restart BY <1>20 DEF Restart, RefreshSoftwareImages, flagsOf
<1>21. CASE UNCHANGED vars BY <1>21 DEF vars
<1> HIDE DEF LifecycleInv, HelperInv, ResultInv, TxnInv, RecordInv, DownloadTargetsSpare,
             SelectedIsValid
<1>22. QED
  BY <1>1, <1>2, <1>3, <1>4, <1>5, <1>6, <1>7, <1>8, <1>9, <1>10, <1>11, <1>12, <1>13,
     <1>14, <1>15, <1>16, <1>17, <1>18, <1>19, <1>20, <1>21 DEF Next

\* The inductive invariant holds in every reachable state.
THEOREM Lifecycle == Spec => []LifecycleInv
BY InitLifecycle, NextLifecycle, TypeCorrect, PTL DEF Spec

\* startSoftwareDownload never lets a helper write to the slot that runs or to the one that
\* boots next, through any number of crashes, reboots and resets, as long as the MIB has the
\* selection of the slots.
THEOREM SpareTargets == Spec => []DownloadTargetsSpare
<1>1. LifecycleInv => DownloadTargetsSpare BY DEF LifecycleInv
<1>2. QED BY <1>1, Lifecycle, PTL

\* activateSoftware and commitSoftware select only images that were validated as a whole.
THEOREM ValidSelection == Spec => []SelectedIsValid
<1>1. LifecycleInv => SelectedIsValid BY DEF LifecycleInv
<1>2. QED BY <1>1, Lifecycle, PTL

\* Between commands the Software Image MEs tell the OLT the truth about the slots.
THEOREM HonestMib == Spec => []MibIsHonest
<1>1. LifecycleInv => MibIsHonest
  BY DEF LifecycleInv, RecordInv, committing, MibIsHonest, Ready, NoTxn
<1>2. QED BY <1>1, Lifecycle, PTL

\* setExclusiveSoftwareFlag, MIB reset and RefreshSoftwareImages leave exactly one image
\* active and one committed in the MIB.
THEOREM ExclusiveFlags == Spec => []OneImageSelected
<1>1. LifecycleInv => OneImageSelected
  BY FS_Singleton DEF LifecycleInv, RecordInv, OneImageSelected
<1>2. QED BY <1>1, Lifecycle, PTL
=============================================================================
