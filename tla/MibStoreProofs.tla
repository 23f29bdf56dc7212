--------------------------- MODULE MibStoreProofs ---------------------------
(***************************************************************************)
(* For every set of managed entities, every set of values and every width  *)
(* of the data sync counter: the store's type correctness, and the safety  *)
(* properties of MibStore from the inductive invariant StoreInv.           *)
(***************************************************************************)
EXTENDS MibStore, TLAPS

\* The counter stays in its range and never returns to 0.
LEMMA IncrementFact ==
  ASSUME NEW n \in 0 .. MaxSync
  PROVE  /\ incrementDataSync(n) \in 1 .. MaxSync
         /\ incrementDataSync(n) # n
  BY StoreAssumption DEF incrementDataSync

\* The factory state is a state, accepted at restart, with data sync 0.
LEMMA FactoryFact ==
  /\ factory \in State
  /\ factory.attr = 0 /\ factory.sync = 0
  /\ Acceptable(factory)
  BY StoreAssumption DEF factory, State, Keys, Acceptable

\* A mutation puts a well-typed candidate with equal counters in flight.
LEMMA ProposeFact ==
  ASSUME NEW k \in {"plain", "txn", "start"}, NEW m \in State,
         NEW n \in 0 .. MaxSync
  PROVE  LET d == setDataSync(m, n) IN
           /\ d \in State /\ d.attr = n /\ d.sync = n
           /\ d.cfg = m.cfg /\ d.row = m.row /\ d.hw = m.hw
  BY DEF setDataSync, State

\* A MIB reset yields the factory configuration.
LEMMA PreserveFact ==
  ASSUME NEW m \in State
  PROVE  /\ preserveONU3State(m) \in State
         /\ preserveONU3State(m).cfg = factory.cfg
  BY StoreAssumption, FactoryFact DEF preserveONU3State, factory, State

\* The store before the daemon's first start is well typed.
LEMMA InitTypeOK == Init => TypeOK
  BY FactoryFact DEF Init, TypeOK

\* Every mutation, helper outcome, crash and restart preserves the types.
LEMMA NextTypeOK == TypeOK /\ [Next]_vars => TypeOK'
<1> SUFFICES ASSUME TypeOK, [Next]_vars PROVE TypeOK'
  OBVIOUS
<1> USE DEF TypeOK
<1>0. mem.sync \in 0 .. MaxSync /\ incrementDataSync(mem.sync) \in 0 .. MaxSync
  BY IncrementFact DEF State
<1>p. ASSUME NEW k \in {"plain", "txn"}, NEW m \in State,
             NEW n \in 0 .. MaxSync, propose(k, m, n)
      PROVE  TypeOK'
  BY <1>p, ProposeFact DEF propose, history
<1>1. ASSUME NEW k \in OltKeys, NEW v \in Values, Create(k, v) PROVE TypeOK'
  <2>1. [mem EXCEPT !.cfg[k] = v, !.row[k] = FALSE] \in State
    BY DEF State, Keys
  <2> QED BY <1>0, <1>1, <1>p, <2>1 DEF Create
<1>2. ASSUME NEW k \in Keys, NEW v \in Values, Set(k, v) PROVE TypeOK'
  <2>1. [mem EXCEPT !.cfg[k] = v] \in State
    BY DEF State, Keys
  <2> QED BY <1>0, <1>2, <1>p, <2>1 DEF Set
<1>3. ASSUME NEW n \in 0 .. MaxSync, SetMibDataSync(n) PROVE TypeOK'
  <2>1. incrementDataSync(n) \in 0 .. MaxSync
    BY IncrementFact
  <2> QED BY <1>3, <1>p, <2>1 DEF SetMibDataSync
<1>4. ASSUME NEW k \in OltKeys, SetTable(k) PROVE TypeOK'
  <2>1. [mem EXCEPT !.row[k] = ~@] \in State
    BY Zenon DEF State
  <2> QED BY <1>0, <1>4, <1>p, <2>1 DEF SetTable
<1>5. ASSUME NEW k \in OltKeys, ExpireAllowedPreviewRows(k) PROVE TypeOK'
  <2>1. [mem EXCEPT !.row[k] = FALSE] \in State
    BY DEF State
  <2> QED BY <1>0, <1>5, <1>p, <2>1 DEF ExpireAllowedPreviewRows
<1>6. ASSUME NEW k \in Keys, Delete(k) PROVE TypeOK'
  <2>1. [mem EXCEPT !.cfg[k] = Absent, !.row[k] = FALSE] \in State
    BY <1>6 DEF State, Keys, Delete
  <2> QED BY <1>0, <1>6, <1>p, <2>1 DEF Delete
<1>7. CASE Reset
  BY <1>7, <1>p, PreserveFact, StoreAssumption DEF Reset
<1>8. ASSUME NEW k \in {"plain", "txn"}, NEW h \in [OnuKeys -> Values],
             UpdateByCommand(k, h)
      PROVE  TypeOK'
  <2>1. [mem EXCEPT !.hw = h] \in State
    BY DEF State
  <2> QED BY <1>0, <1>8, <1>p, <2>1 DEF UpdateByCommand
<1>9. ASSUME NEW h \in [OnuKeys -> Values], UpdateAutonomous(h) PROVE TypeOK'
  BY <1>9 DEF UpdateAutonomous, State, history
<1>9a. ASSUME NEW k \in AvcKeys, NEW v \in Values, NotifyAttributeChange(k, v)
       PROVE  TypeOK'
  <2>1. [mem EXCEPT !.cfg[k] = v] \in State
    BY StoreAssumption DEF State, Keys
  <2> QED BY <1>9a, <2>1 DEF NotifyAttributeChange
<1>9b. ASSUME NEW h \in [OnuKeys -> Values], InitializeReset(h) PROVE TypeOK'
  <2>1. [factory EXCEPT !.hw = h] \in State
    BY FactoryFact DEF State
  <2> QED BY <1>9b, <2>1 DEF InitializeReset, history
<1>10. CASE \/ ApplyOk \/ ApplyFail \/ ApplyTimeout \/ Assign
            \/ TransactionCommitOk \/ TransactionCommitFail
            \/ RollbackOk \/ RollbackFail \/ DaemonCrash \/ DeviceReboot
            \/ InitializeRestore
  BY <1>10 DEF history, ApplyOk, ApplyFail, ApplyTimeout, Assign,
       TransactionCommitOk, TransactionCommitFail, RollbackOk, RollbackFail,
       DaemonCrash, DeviceReboot, InitializeRestore
<1>11. CASE UNCHANGED vars
  BY <1>11 DEF vars
<1> QED
  BY <1>1, <1>2, <1>3, <1>4, <1>5, <1>6, <1>7, <1>8, <1>9, <1>9a, <1>9b,
     <1>10, <1>11
     DEF Next

\* Type correctness of the store, the candidate and the platform document.
THEOREM TypeCorrect == Spec => []TypeOK
<1>1. Init => TypeOK
  BY InitTypeOK
<1>2. TypeOK /\ [Next]_vars => TypeOK'
  BY NextTypeOK
<1> QED
  BY <1>1, <1>2, PTL DEF Spec

-----------------------------------------------------------------------------
(* The safety invariant.                                                   *)

\* The inductive invariant holds before the first start.
LEMMA InitStoreInv == Init => StoreInv
  BY FactoryFact DEF Init, StoreInv, Successor, Excused, Agree

\* A counted change of an acceptable state is a successor of it.
LEMMA CountedFact ==
  ASSUME TypeOK, NEW m \in State, NEW n \in 1 .. MaxSync,
         \A k \in OnuKeys : m.cfg[k] # Absent,
         \A k \in Keys : m.cfg[k] # mem.cfg[k] => n # mem.sync
  PROVE  Successor(setDataSync(m, n), mem)
<1>1. n \in 0 .. MaxSync /\ n # 0
  BY StoreAssumption
<1>2. LET d == setDataSync(m, n) IN
        d.attr = n /\ d.sync = n /\ d.cfg = m.cfg
  BY <1>1, ProposeFact
<1> QED
  BY <1>1, <1>2 DEF Successor, Acceptable, Excused

\* A mutation whose candidate is a successor of memory preserves StoreInv.
LEMMA ProposeInv ==
  ASSUME TypeOK, StoreInv, NEW k \in {"plain", "txn"}, NEW m, NEW n,
         Successor(setDataSync(m, n), mem), propose(k, m, n)
  PROVE  StoreInv'
<1>1. /\ pc = "idle" /\ pc' = "apply" /\ cand' = setDataSync(m, n)
      /\ UNCHANGED <<mem, present, disk, torn, unsaved, own>>
  BY DEF propose, history
<1>2. Successor(cand, mem)'
  BY <1>1 DEF Successor, Acceptable, Excused
<1>3. Successor(mem, mem)' /\ (present => Successor(disk, mem))'
  BY <1>1 DEF StoreInv, Successor, Acceptable, Excused
<1> QED
  BY <1>1, <1>2, <1>3 DEF StoreInv, Agree

\* Every mutation, helper outcome, crash and restart preserves StoreInv.
LEMMA NextStoreInv == TypeOK /\ StoreInv /\ [Next]_vars => StoreInv'
<1> SUFFICES ASSUME TypeOK, StoreInv, [Next]_vars PROVE StoreInv'
  OBVIOUS
<1>0. /\ mem \in State /\ mem.sync \in 0 .. MaxSync
      /\ incrementDataSync(mem.sync) \in 1 .. MaxSync
      /\ incrementDataSync(mem.sync) # mem.sync
      /\ mem.attr = mem.sync
      /\ \A k \in OnuKeys : mem.cfg[k] # Absent
  BY IncrementFact DEF TypeOK, State, StoreInv, Successor, Acceptable
<1>1. ASSUME NEW k \in OltKeys, NEW v \in Values, Create(k, v) PROVE StoreInv'
  <2> DEFINE m == [mem EXCEPT !.cfg[k] = v, !.row[k] = FALSE]
  <2>1. m \in State /\ \A j \in OnuKeys : m.cfg[j] # Absent
    BY <1>0, StoreAssumption DEF State, Keys
  <2>2. Successor(setDataSync(m, incrementDataSync(mem.sync)), mem)
    BY <1>0, <2>1, CountedFact
  <2> QED BY <1>1, <2>2, ProposeInv DEF Create
<1>2. ASSUME NEW k \in Keys, NEW v \in Values, Set(k, v) PROVE StoreInv'
  <2> DEFINE m == [mem EXCEPT !.cfg[k] = v]
  <2>1. m \in State /\ \A j \in OnuKeys : m.cfg[j] # Absent
    BY <1>0, StoreAssumption DEF State, Keys
  <2>2. Successor(setDataSync(m, incrementDataSync(mem.sync)), mem)
    BY <1>0, <2>1, CountedFact
  <2> QED BY <1>2, <2>2, ProposeInv DEF Set
<1>3. ASSUME NEW n \in 0 .. MaxSync, SetMibDataSync(n) PROVE StoreInv'
  <2>1. incrementDataSync(n) \in 1 .. MaxSync
    BY IncrementFact
  <2>2. Successor(setDataSync(mem, incrementDataSync(n)), mem)
    BY <1>0, <2>1, CountedFact
  <2> QED BY <1>3, <2>2, ProposeInv DEF SetMibDataSync
<1>4. ASSUME NEW k \in OltKeys, SetTable(k) PROVE StoreInv'
  <2> DEFINE m == [mem EXCEPT !.row[k] = ~@]
  <2>1. m \in State
    BY <1>0, Zenon DEF State
  <2>2. m.cfg = mem.cfg
    BY <1>0, Zenon DEF State
  <2>3. Successor(setDataSync(m, incrementDataSync(mem.sync)), mem)
    BY <1>0, <2>1, <2>2, CountedFact
  <2> QED BY <1>4, <2>3, ProposeInv DEF SetTable
<1>5. ASSUME NEW k \in OltKeys, ExpireAllowedPreviewRows(k) PROVE StoreInv'
  <2> DEFINE m == [mem EXCEPT !.row[k] = FALSE]
  <2>1. m \in State /\ m.cfg = mem.cfg
    BY <1>0 DEF State
  <2>2. LET d == setDataSync(m, mem.sync) IN
          d.attr = mem.sync /\ d.sync = mem.sync /\ d.cfg = mem.cfg
    BY <1>0, <2>1, ProposeFact
  <2>3. Successor(setDataSync(m, mem.sync), mem)
    BY <1>0, <2>2 DEF Successor, Acceptable, Excused, StoreInv
  <2> QED BY <1>5, <2>3, ProposeInv DEF ExpireAllowedPreviewRows
<1>6. ASSUME NEW k \in Keys, Delete(k) PROVE StoreInv'
  <2> DEFINE m == [mem EXCEPT !.cfg[k] = Absent, !.row[k] = FALSE]
  <2>1. m \in State /\ \A j \in OnuKeys : m.cfg[j] # Absent
    BY <1>0, <1>6, StoreAssumption DEF State, Keys, Delete
  <2>2. Successor(setDataSync(m, incrementDataSync(mem.sync)), mem)
    BY <1>0, <2>1, CountedFact
  <2> QED BY <1>6, <2>2, ProposeInv DEF Delete
<1>7. CASE Reset
  <2> DEFINE m == preserveONU3State(mem)
  <2>1. m \in State /\ m.cfg = factory.cfg
    BY <1>0, PreserveFact
  <2>2. LET d == setDataSync(m, 0) IN
          d.attr = 0 /\ d.sync = 0 /\ d.cfg = factory.cfg
    BY <2>1, ProposeFact, StoreAssumption
  <2>3. mem.sync = 0 => \A k \in Keys \ own : mem.cfg[k] = factory.cfg[k]
    BY DEF StoreInv, Successor
  <2>4. Successor(setDataSync(m, 0), mem)
    BY <2>2, <2>3, FactoryFact DEF Successor, Acceptable, Excused
  <2> QED BY <1>7, <2>4, ProposeInv DEF Reset
<1>8. ASSUME NEW k \in {"plain", "txn"}, NEW h \in [OnuKeys -> Values],
             UpdateByCommand(k, h)
      PROVE  StoreInv'
  <2> DEFINE m == [mem EXCEPT !.hw = h]
  <2>1. m \in State /\ m.cfg = mem.cfg
    BY <1>0 DEF State
  <2>2. Successor(setDataSync(m, incrementDataSync(mem.sync)), mem)
    BY <1>0, <2>1, CountedFact
  <2> QED BY <1>8, <2>2, ProposeInv DEF UpdateByCommand
<1>9. ASSUME NEW h \in [OnuKeys -> Values], UpdateAutonomous(h) PROVE StoreInv'
  <2>1. /\ mem'.cfg = mem.cfg /\ mem'.row = mem.row
        /\ mem'.attr = mem.attr /\ mem'.sync = mem.sync
        /\ UNCHANGED <<pc, kind, cand, present, disk, torn, unsaved, own>>
    BY <1>0, <1>9 DEF UpdateAutonomous, State, history
  <2> QED BY <2>1 DEF StoreInv, Successor, Acceptable, Excused, Agree
<1>9a. ASSUME NEW k \in AvcKeys, NEW v \in Values, NotifyAttributeChange(k, v)
       PROVE  StoreInv'
  <2>1. /\ mem'.cfg = [mem.cfg EXCEPT ![k] = v] /\ mem'.row = mem.row
        /\ mem'.attr = mem.attr /\ mem'.sync = mem.sync
        /\ pc = "idle"
        /\ UNCHANGED <<pc, kind, cand, present, disk, torn>>
        /\ unsaved' = unsaved \cup {k} /\ own' = own \cup {k}
    BY <1>0, <1>9a DEF NotifyAttributeChange, State
  <2>2. /\ k \in Keys /\ mem.cfg \in [Keys -> Values \cup {Absent}]
        /\ v # Absent
    BY <1>0, StoreAssumption DEF State, Keys
  <2>3. /\ \A j \in Keys : j # k => mem'.cfg[j] = mem.cfg[j]
        /\ mem'.cfg[k] = v
    BY <2>1, <2>2
  <2>4. Acceptable(mem)'
    BY <1>0, <2>1, <2>2, <2>3, StoreAssumption DEF Acceptable, Keys
  <2>5. Successor(mem, mem)'
    <3>1. (mem.sync = 0 => \A j \in Keys \ own : mem.cfg[j] = factory.cfg[j])'
      BY <2>1, <2>3 DEF StoreInv, Successor
    <3> QED BY <2>4, <3>1 DEF Successor
  <2>6. (present => Successor(disk, mem))'
    <3> SUFFICES ASSUME present PROVE Successor(disk, mem)'
      BY <2>1
    <3>1. Acceptable(disk)'
      BY <2>1 DEF StoreInv, Successor, Acceptable
    <3>2. (disk.sync = 0 => \A j \in Keys \ own : disk.cfg[j] = factory.cfg[j])'
      BY <2>1 DEF StoreInv, Successor
    <3>3. ASSUME NEW j \in Keys, j \notin Excused(mem)'
          PROVE  (disk.cfg[j] # mem.cfg[j] => disk.sync # mem.sync)'
      <4>1. j # k /\ j \notin Excused(mem)
        BY <2>1, <3>3 DEF Excused
      <4>2. disk.cfg[j] # mem.cfg[j] => disk.sync # mem.sync
        BY <4>1 DEF StoreInv, Successor
      <4> QED BY <2>1, <2>3, <4>1, <4>2
    <3> QED BY <3>1, <3>2, <3>3 DEF Successor
  <2>7. (torn \/ Agree)'
    BY <2>1, <2>3 DEF StoreInv, Agree
  <2> QED BY <2>1, <2>5, <2>6, <2>7 DEF StoreInv
<1>18. ASSUME NEW h \in [OnuKeys -> Values], InitializeReset(h) PROVE StoreInv'
  <2>1. /\ pc' = "apply" /\ kind' = "start"
        /\ UNCHANGED <<mem, present, disk, torn, unsaved, own>>
        /\ cand'.cfg = factory.cfg /\ cand'.attr = 0 /\ cand'.sync = 0
    BY <1>18, FactoryFact DEF InitializeReset, history, State
  <2>2. Successor(cand, mem)'
    BY <2>1, FactoryFact DEF StoreInv, Successor, Acceptable, Excused
  <2>3. Successor(mem, mem)' /\ (present => Successor(disk, mem))'
    BY <2>1 DEF StoreInv, Successor, Acceptable, Excused
  <2> QED BY <2>1, <2>2, <2>3 DEF StoreInv
<1> USE DEF StoreInv, Successor, Acceptable, Agree, Excused, history
<1>10. CASE ApplyOk
  BY <1>10 DEF ApplyOk
<1>11. CASE ApplyFail
  BY <1>11 DEF ApplyFail
<1>12. CASE ApplyTimeout
  BY <1>12 DEF ApplyTimeout
<1>13. CASE Assign
  <2>1. /\ pc' = "idle" /\ mem' = cand /\ present' /\ disk' = cand
        /\ Acceptable(cand)
        /\ cand.sync = 0 => \A k \in Keys \ own : cand.cfg[k] = factory.cfg[k]
        /\ own' = {k \in own : cand.cfg[k] # FactoryValue}
    BY <1>13 DEF Assign
  <2>2. \A k \in own : factory.cfg[k] = FactoryValue
    BY StoreAssumption DEF factory, Keys, TypeOK
  <2>3. Acceptable(mem)'
    BY <2>1
  <2>4. (mem.sync = 0 => \A k \in Keys \ own : mem.cfg[k] = factory.cfg[k])'
    <3> HIDE DEF StoreInv, Successor, Acceptable, Agree, Excused
    <3> QED BY <2>1, <2>2
  <2>5. mem' = disk'
    BY <2>1
  <2> HIDE DEF StoreInv, Acceptable, Agree
  <2>6. Successor(mem, mem)' /\ Successor(disk, mem)'
    BY <2>3, <2>4, <2>5
  <2>7. Agree'
    BY <2>1, <2>5 DEF Agree
  <2> HIDE DEF Successor
  <2> QED BY <2>1, <2>6, <2>7 DEF StoreInv
<1>14. CASE TransactionCommitOk \/ TransactionCommitFail
  BY <1>14 DEF TransactionCommitOk, TransactionCommitFail
<1>15. CASE RollbackOk \/ RollbackFail
  BY <1>15 DEF RollbackOk, RollbackFail
<1>16. CASE DaemonCrash \/ DeviceReboot
  BY <1>16 DEF DaemonCrash, DeviceReboot
<1>17. CASE InitializeRestore
  BY <1>17 DEF InitializeRestore
<1>19. CASE UNCHANGED vars
  BY <1>19 DEF vars
<1> QED
  BY <1>1, <1>2, <1>3, <1>4, <1>5, <1>6, <1>7, <1>8, <1>9, <1>9a, <1>10, <1>11,
     <1>12, <1>13, <1>14, <1>15, <1>16, <1>17, <1>18, <1>19 DEF Next

\* StoreInv holds in every reachable state of the store.
LEMMA StoreInvariance == Spec => [](TypeOK /\ StoreInv)
<1>1. Init => TypeOK /\ StoreInv
  BY InitTypeOK, InitStoreInv
<1>2. TypeOK /\ StoreInv /\ [Next]_vars => TypeOK' /\ StoreInv'
  BY NextTypeOK, NextStoreInv
<1> QED
  BY <1>1, <1>2, PTL DEF Spec

\* A MIB data sync of 0 is proof of the factory configuration, up to what the
\* ONU changed itself since the reset.
THEOREM ZeroIsFactory == Spec => []ZeroMeansFactory
<1>1. TypeOK /\ StoreInv => ZeroMeansFactory
  BY DEF StoreInv, Successor, ZeroMeansFactory
<1> QED
  BY <1>1, StoreInvariance, PTL

\* Between requests the platform document agrees with memory, up to the ONU's
\* own changes since the document was last the same and failed mutations.
THEOREM Durability == Spec => []Durable
<1>1. TypeOK /\ StoreInv => Durable
  BY DEF StoreInv, Durable
<1> QED
  BY <1>1, StoreInvariance, PTL

\* A restarted daemon accepts every document the daemon wrote.
THEOREM Restorability == Spec => []NeverDiscarded
<1>1. TypeOK /\ StoreInv => NeverDiscarded
  BY DEF StoreInv, Successor, NeverDiscarded
<1> QED
  BY <1>1, StoreInvariance, PTL

\* Memory changes by an autonomous update, an assignment or a restore; each
\* either keeps the provisioned configuration or changes MIB data sync, up to
\* the ONU's own changes and their undoing.
THEOREM Detectability == Spec => ChangeIsDetectable
<1> DEFINE Step == \A k \in Keys \ (Excused(mem) \cup unsaved') :
                     mem'.cfg[k] # mem.cfg[k] => mem'.sync # mem.sync
<1>1. TypeOK /\ StoreInv /\ [Next]_vars => [Step]_vars
  <2> SUFFICES ASSUME TypeOK, StoreInv, Next, NEW k \in Keys,
                      k \notin Excused(mem), k \notin unsaved',
                      mem'.cfg[k] # mem.cfg[k]
               PROVE  mem'.sync # mem.sync
    BY DEF vars
  <2>1. ASSUME NEW h, UpdateAutonomous(h) PROVE mem'.cfg = mem.cfg
    BY <2>1 DEF UpdateAutonomous, TypeOK, State
  <2>2. ASSUME NEW j \in AvcKeys, NEW v \in Values, NotifyAttributeChange(j, v)
        PROVE  mem'.cfg[k] = mem.cfg[k]
    <3>1. k # j
      BY <2>2 DEF NotifyAttributeChange
    <3> QED BY <2>2, <3>1 DEF NotifyAttributeChange, TypeOK, State
  <2>3. CASE Assign
    BY <2>3 DEF Assign, StoreInv, Successor
  <2>4. CASE InitializeRestore
    BY <2>4 DEF InitializeRestore, StoreInv, Successor
  <2>5. \/ \E h \in [OnuKeys -> Values] : UpdateAutonomous(h)
        \/ \E j \in AvcKeys, v \in Values : NotifyAttributeChange(j, v)
        \/ Assign \/ InitializeRestore \/ mem' = mem
    BY DEF Next, Create, Set, SetMibDataSync, SetTable,
         ExpireAllowedPreviewRows, Delete, Reset, UpdateByCommand, propose,
         ApplyOk, ApplyFail, ApplyTimeout, TransactionCommitOk,
         TransactionCommitFail, RollbackOk, RollbackFail, DaemonCrash,
         DeviceReboot, InitializeReset
  <2> QED BY <2>1, <2>2, <2>3, <2>4, <2>5
<1> QED
  BY <1>1, StoreInvariance, PTL DEF Spec, ChangeIsDetectable
=============================================================================
