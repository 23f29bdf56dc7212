------------------------------ MODULE MibStore ------------------------------
(***************************************************************************)
(* The MIB store (internal/mib) with the platform document it keeps        *)
(* through the apply helper, across daemon crashes and device reboots.     *)
(*                                                                         *)
(* Every mutation an OLT can ask for builds a complete candidate state,    *)
(* has the helper make it durable (Apply) and only then assigns it; the    *)
(* store's mutex is held throughout, so one mutation is in flight at a     *)
(* time, but the process may die between any two of those steps.           *)
(*                                                                         *)
(* An ME is abstracted to the value of its provisioned attributes (cfg);   *)
(* an OLT-created one may also hold a timed allowed-preview row (row), and *)
(* an ONU-created one the read-only attributes that hardware or a command  *)
(* changes (hw).  A few attributes an OLT provisions are also changed by   *)
(* the ONU itself, in memory only (ARC, cleared when its interval ends, or *)
(* set by a platform AVC event): those are the cfg of AvcKeys.  MIB data   *)
(* sync is kept twice, as the code keeps it: in Store.dataSync (sync) and  *)
(* in the ONU-data ME (attr).                                              *)
(***************************************************************************)
EXTENDS Naturals, FiniteSets

CONSTANTS
  OltKeys,      \* MEs the OLT may create and delete
  OnuKeys,      \* MEs of the factory MIB
  RingKeys,     \* those of them whose hw part survives a MIB reset (ONU3-G)
  AvcKeys,      \* those of them with an attribute set by OLT and ONU (ARC)
  Values,       \* attribute values
  FactoryValue, \* the factory value of every attribute
  Absent,       \* cfg of a key that has no instance
  MaxSync       \* largest MIB data sync, 255 in the code

ASSUME StoreAssumption ==
  /\ OltKeys \cap OnuKeys = {}
  /\ RingKeys \subseteq OnuKeys /\ AvcKeys \subseteq OnuKeys
  /\ FactoryValue \in Values
  /\ Absent \notin Values
  /\ MaxSync \in Nat /\ MaxSync >= 2

Keys == OltKeys \cup OnuKeys

\* The store's maps and counter, a candidate (Change) and the platform's
\* document (ApplyRequest) all have this shape.
State == [cfg : [Keys -> Values \cup {Absent}], row : [OltKeys -> BOOLEAN],
          hw : [OnuKeys -> Values], attr : 0 .. MaxSync, sync : 0 .. MaxSync]

VARIABLES
  pc,       \* "down", "idle", "apply" (helper runs), "applied" (helper has
            \* returned), "commit" (platform transaction), "rollback"
  kind,     \* the mutation in flight: "plain", "txn", "start"
  mem,      \* Store.current and Store.dataSync; while down, what they last were
  cand,     \* the candidate in flight
  present,  \* the platform holds a document
  disk,     \* that document
  torn,     \* history: a failed mutation left the document ahead of memory
  unsaved,  \* history: keys the ONU itself has changed in memory since
            \* memory and document were last the same
  own       \* history: keys the ONU itself has taken from the factory
            \* configuration since the last MIB reset

history == <<torn, unsaved, own>>
vars == <<pc, kind, mem, cand, present, disk, torn, unsaved, own>>

factory == [cfg |-> [k \in Keys |-> IF k \in OnuKeys THEN FactoryValue ELSE Absent],
            row |-> [k \in OltKeys |-> FALSE],
            hw |-> [k \in OnuKeys |-> FactoryValue],
            attr |-> 0, sync |-> 0]

Init ==
  /\ pc = "down" /\ kind = "start"
  /\ mem = factory /\ cand = factory
  /\ present = FALSE /\ disk = factory
  /\ torn = FALSE /\ unsaved = {} /\ own = {}

-----------------------------------------------------------------------------
(* MIB data sync.                                                          *)

\* Mutants: the counter passes through 0, or does not wrap.
incrementThroughZero(n) == IF n = MaxSync THEN 0 ELSE n + 1
incrementNoWrap(n) == n + 1

incrementDataSync(n) == IF n = MaxSync THEN 1 ELSE n + 1

setDataSync(m, n) == [m EXCEPT !.attr = n, !.sync = n]

-----------------------------------------------------------------------------
(* Mutations: each guard is what the operation checks under the mutex; a   *)
(* request that fails a check, or changes nothing, leaves no trace.        *)

\* commitLocked and updateByCommand up to the call of Apply.
propose(k, m, n) ==
  /\ pc = "idle"
  /\ pc' = "apply" /\ kind' = k
  /\ cand' = setDataSync(m, n)
  /\ UNCHANGED <<mem, present, disk, history>>

Create(k, v) ==
  /\ k \in OltKeys /\ mem.cfg[k] = Absent
  /\ propose("plain", [mem EXCEPT !.cfg[k] = v, !.row[k] = FALSE],
             incrementDataSync(mem.sync))

\* Mutant: a change is committed under the old MIB data sync.
SetKeepsSync(k, v) ==
  /\ mem.cfg[k] # Absent /\ v # mem.cfg[k]
  /\ propose("plain", [mem EXCEPT !.cfg[k] = v], mem.sync)

Set(k, v) ==
  /\ mem.cfg[k] # Absent /\ v # mem.cfg[k]
  /\ propose("plain", [mem EXCEPT !.cfg[k] = v], incrementDataSync(mem.sync))

\* Set of the ONU-data ME: the OLT's value is advanced as it is stored.
SetMibDataSync(n) ==
  /\ incrementDataSync(n) # mem.attr
  /\ propose("plain", mem, incrementDataSync(n))

\* SetTable adds or deletes a timed allowed-preview row.
SetTable(k) ==
  /\ k \in OltKeys /\ mem.cfg[k] # Absent
  /\ propose("plain", [mem EXCEPT !.row[k] = ~@], incrementDataSync(mem.sync))

\* An ONU-originated change of the service graph: applied, not counted.
ExpireAllowedPreviewRows(k) ==
  /\ k \in OltKeys /\ mem.row[k]
  /\ propose("plain", [mem EXCEPT !.row[k] = FALSE], mem.sync)

\* Mutant: the origin of the instance is not looked at.
DeleteAnyOrigin(k) ==
  /\ mem.cfg[k] # Absent
  /\ propose("plain", [mem EXCEPT !.cfg[k] = Absent], incrementDataSync(mem.sync))

Delete(k) ==
  /\ k \in OltKeys /\ mem.cfg[k] # Absent
  /\ propose("plain", [mem EXCEPT !.cfg[k] = Absent, !.row[k] = FALSE],
             incrementDataSync(mem.sync))

preserveONU3State(m) ==
  [factory EXCEPT !.hw = [k \in OnuKeys |-> IF k \in RingKeys THEN m.hw[k]
                                            ELSE FactoryValue]]

Reset == propose("plain", preserveONU3State(mem), 0)

\* UpdateByCommand, with and without a prepared platform transaction.
UpdateByCommand(k, h) ==
  /\ k \in {"plain", "txn"} /\ h # mem.hw
  /\ propose(k, [mem EXCEPT !.hw = h], incrementDataSync(mem.sync))

\* UpdateAutonomous(Batch): hardware has changed already; nothing is applied.
UpdateAutonomous(h) ==
  /\ pc = "idle" /\ h # mem.hw
  /\ mem' = [mem EXCEPT !.hw = h]
  /\ UNCHANGED <<pc, kind, cand, present, disk, history>>

\* UpdateAutonomous of an attribute the OLT provisions too: PollARC ends ARC,
\* an AVC event of the platform gives it any value.  Neither MIB data sync
\* nor the document follows.
NotifyAttributeChange(k, v) ==
  /\ pc = "idle" /\ v # mem.cfg[k]
  /\ mem' = [mem EXCEPT !.cfg[k] = v]
  /\ unsaved' = unsaved \cup {k} /\ own' = own \cup {k}
  /\ UNCHANGED <<pc, kind, cand, present, disk, torn>>

-----------------------------------------------------------------------------
(* The apply helper and the steps that follow it.                          *)

\* The helper replaces the document and exits with status 0.
ApplyOk ==
  /\ pc = "apply"
  /\ pc' = IF kind = "txn" THEN "commit" ELSE "applied"
  /\ present' = TRUE /\ disk' = cand
  /\ UNCHANGED <<kind, mem, cand, history>>

\* The helper fails.  At startup run() returns and the daemon ends; a
\* prepared transaction is aborted; memory keeps the old state.
ApplyFail ==
  /\ pc = "apply"
  /\ pc' = IF kind = "start" THEN "down" ELSE "idle"
  /\ UNCHANGED <<kind, mem, cand, present, disk, history>>

\* The helper is killed at its timeout after it replaced the document; the
\* prior document is not written back, for a prepared transaction either.
ApplyTimeout ==
  /\ pc = "apply"
  /\ pc' = IF kind = "start" THEN "down" ELSE "idle"
  /\ present' = TRUE /\ disk' = cand
  /\ torn' = TRUE
  /\ UNCHANGED <<kind, mem, cand, unsaved, own>>

\* s.current = next; s.dataSync = dataSync
Assign ==
  /\ pc = "applied"
  /\ pc' = "idle" /\ mem' = cand
  /\ torn' = FALSE /\ unsaved' = {}
  /\ own' = {k \in own : cand.cfg[k] # FactoryValue}
  /\ UNCHANGED <<kind, cand, present, disk>>

TransactionCommitOk ==
  /\ pc = "commit"
  /\ pc' = "applied"
  /\ UNCHANGED <<kind, mem, cand, present, disk, history>>

\* Mutant: a failed commit aborts the transaction and stops there.
noRollback ==
  /\ pc = "commit"
  /\ pc' = "idle"
  /\ UNCHANGED <<kind, mem, cand, present, disk, history>>

\* Commit fails: the transaction is aborted, the old document written back.
TransactionCommitFail ==
  /\ pc = "commit"
  /\ pc' = "rollback"
  /\ UNCHANGED <<kind, mem, cand, present, disk, history>>

RollbackOk ==
  /\ pc = "rollback"
  /\ pc' = "idle" /\ disk' = mem
  /\ torn' = FALSE /\ unsaved' = {}
  /\ UNCHANGED <<kind, mem, cand, present, own>>

RollbackFail ==
  /\ pc = "rollback"
  /\ pc' = "idle" /\ torn' = TRUE
  /\ UNCHANGED <<kind, mem, cand, present, disk, unsaved, own>>

-----------------------------------------------------------------------------
(* The process and the device.                                             *)

DaemonCrash ==
  /\ pc # "down"
  /\ pc' = "down"
  /\ UNCHANGED <<kind, mem, cand, present, disk, history>>

\* The live document is in /var/run: a reboot of the device loses it.
DeviceReboot ==
  /\ pc' = "down" /\ present' = FALSE
  /\ UNCHANGED <<kind, mem, cand, disk, history>>

\* The checks of NewFromState that depend on earlier mutations.  (The service
\* graph is rebuilt and compared too; the helper was given the graph of this
\* very snapshot, and building it is deterministic.)
Acceptable(d) ==
  /\ d.attr = d.sync
  /\ \A k \in OnuKeys : d.cfg[k] # Absent

\* initializeMIB: restore the document ...
InitializeRestore ==
  /\ pc = "down" /\ present /\ Acceptable(disk)
  /\ pc' = "idle" /\ mem' = disk
  /\ torn' = FALSE /\ unsaved' = {}
  /\ UNCHANGED <<kind, cand, present, disk, own>>

\* ... or, when there is none or it is refused, commit a factory reset.  (A
\* document of another image or PON mode is refused too; an upgrade reboots
\* the device and so loses the document first.)  The status ring h is the
\* factory's, or what restoreONU3Factory found in its file of its own.
InitializeReset(h) ==
  /\ pc = "down" /\ (present => ~Acceptable(disk))
  /\ \A k \in OnuKeys \ RingKeys : h[k] = FactoryValue
  /\ pc' = "apply" /\ kind' = "start"
  /\ cand' = [factory EXCEPT !.hw = h]
  /\ UNCHANGED <<mem, present, disk, history>>

Next ==
  \/ \E k \in OltKeys, v \in Values : Create(k, v)
  \/ \E k \in Keys, v \in Values : Set(k, v)
  \/ \E n \in 0 .. MaxSync : SetMibDataSync(n)
  \/ \E k \in OltKeys : SetTable(k)
  \/ \E k \in OltKeys : ExpireAllowedPreviewRows(k)
  \/ \E k \in Keys : Delete(k)
  \/ Reset
  \/ \E k \in {"plain", "txn"}, h \in [OnuKeys -> Values] : UpdateByCommand(k, h)
  \/ \E h \in [OnuKeys -> Values] : UpdateAutonomous(h)
  \/ \E k \in AvcKeys, v \in Values : NotifyAttributeChange(k, v)
  \/ ApplyOk
  \/ ApplyFail
  \/ ApplyTimeout
  \/ Assign
  \/ TransactionCommitOk
  \/ TransactionCommitFail
  \/ RollbackOk
  \/ RollbackFail
  \/ DaemonCrash
  \/ DeviceReboot
  \/ InitializeRestore
  \/ \E h \in [OnuKeys -> Values] : InitializeReset(h)

Spec == Init /\ [][Next]_vars

-----------------------------------------------------------------------------
(* Properties.                                                             *)

\* Every variable has its type; MIB data sync is an octet in 0 .. MaxSync.
TypeOK ==
  /\ pc \in {"down", "idle", "apply", "applied", "commit", "rollback"}
  /\ kind \in {"plain", "txn", "start"}
  /\ mem \in State /\ cand \in State /\ disk \in State
  /\ present \in BOOLEAN /\ torn \in BOOLEAN
  /\ unsaved \subseteq AvcKeys /\ own \subseteq AvcKeys

\* A MIB data sync of 0 is proof of the factory configuration, whatever the
\* OLT wrote to the counter, however often it wrapped and whatever was
\* restored; only what the ONU changed itself since the reset may differ
\* (UpdateAutonomous does not count).
ZeroMeansFactory ==
  mem.sync = 0 => \A k \in Keys \ own : mem.cfg[k] = factory.cfg[k]

Agree ==
  /\ present
  /\ \A k \in Keys \ unsaved : disk.cfg[k] = mem.cfg[k]
  /\ disk.row = mem.row /\ disk.sync = mem.sync

\* Between requests the document and memory agree on everything provisioned
\* and on MIB data sync, but for what the ONU has changed itself since they
\* were last the same (an autonomous ARC change is not written), and unless a
\* failed mutation has left the document ahead: a helper killed after its
\* effect, whose document updateByCommand and commitLocked do not write back,
\* or a write-back that failed.
Durable ==
  pc = "idle" /\ ~torn => Agree

\* The daemon never has to discard a document it wrote itself: whatever the
\* sequence of mutations and crashes, NewFromState accepts what the helper
\* holds.
NeverDiscarded == present => Acceptable(disk)

\* What may differ under one MIB data sync between states a and b of the
\* store: the ONU's own changes that are not written yet (a restart undoes
\* them), and, from a data sync of 0, all it made since the MIB reset (the
\* next reset undoes them and leaves 0).
Excused(a) == IF a.sync = 0 THEN unsaved \cup own ELSE unsaved

\* An OLT that compares MIB data sync notices every change of the provisioned
\* configuration, the ones a crash, a restore or a reboot causes included,
\* other than the ONU's own changes of attributes and their undoing.
ChangeIsDetectable ==
  [][\A k \in Keys \ (Excused(mem) \cup unsaved') :
       mem'.cfg[k] # mem.cfg[k] => mem'.sync # mem.sync]_vars

\* d is a state this store may turn into: consistent, provisioned only by
\* counted mutations, distinguishable from m by its data sync.
Successor(d, m) ==
  /\ Acceptable(d)
  /\ d.sync = 0 => \A k \in Keys \ own : d.cfg[k] = factory.cfg[k]
  /\ \A k \in Keys \ Excused(m) : d.cfg[k] # m.cfg[k] => d.sync # m.sync

\* Inductive strengthening of the properties above: memory, the candidate in
\* flight and the document are successors of memory, and the document agrees
\* with memory until the helper replaces it.
StoreInv ==
  /\ Successor(mem, mem)
  /\ pc \in {"apply", "applied", "commit", "rollback"} => Successor(cand, mem)
  /\ present => Successor(disk, mem)
  /\ pc \in {"applied", "commit", "rollback"} => present /\ disk = cand
  /\ pc = "idle" \/ (pc = "apply" /\ kind # "start") => torn \/ Agree
=============================================================================
