---------------------------- MODULE AlarmNotify ----------------------------
(***************************************************************************)
(* The alarm table of the engine and everything that writes to it: alarms  *)
(* of physical points and equipment (internal/engine/notifications.go,     *)
(* optical.go), alarm reporting control with its NALM-QI timers (arc.go),  *)
(* threshold crossing alerts of performance MEs (performance.go,           *)
(* performance_threshold.go), the alarm retrieval and the resets of        *)
(* engine.go, and the runtime document of a daemon restart                 *)
(* (runtime_state.go).                                                     *)
(*                                                                         *)
(* The engine runs each of these under one mutex, so each is one action.   *)
(* The OLT is an observer: it follows the table through notifications that *)
(* may be lost, each alone, and tells a loss by the sequence number.       *)
(* Counters and thresholds are abstracted to the set of alerts a sample    *)
(* reaches; optical and BER samples to the bitmap they evaluate to.        *)
(***************************************************************************)
EXTENDS Integers, Sequences, SequencesExt

CONSTANTS
  Points,     \* ARC-capable MEs: Ethernet UNIs, ANI-G
  Equipment,  \* alarm MEs without ARC: ONU-G, circuit packs
  PMOrder,    \* the performance MEs in the order of their keys
  ArcOwner,   \* performance ME -> its point, NoPoint if it has none
  NoPoint,
  Codes,      \* ME -> the alarm bits it defines
  Lockable,   \* MEs with an administrative state
  LocksOver,  \* ME -> the lockable MEs whose lock silences it
  Intervals,  \* ARC intervals the OLT sets, in minutes
  Never,      \* the interval (255) that does not expire
  MaxSeq,     \* the last alarm sequence number (255)
  Restarts    \* whether the daemon is restarted

PMs == ToSet(PMOrder)
Keys == Points \cup Equipment \cup PMs
Untimed == -1
Oldest == CHOOSE i \in Intervals \ {Never} :
            \A j \in Intervals \ {Never} : j <= i

ASSUME AlarmAssumption ==
  /\ Points \cap Equipment = {} /\ (Points \cup Equipment) \cap PMs = {}
  /\ ArcOwner \in [PMs -> Points \cup {NoPoint}] /\ NoPoint \notin Points
  /\ PMOrder \in Seq(PMs)
  /\ DOMAIN Codes = Keys /\ LocksOver \in [Keys -> SUBSET Lockable]
  /\ Never \in Nat \ {0} /\ Intervals \subseteq 0..Never /\ 0 \in Intervals
  /\ MaxSeq \in Nat \ {0} /\ Restarts \in BOOLEAN

VARIABLES
  alarms,    \* Engine.alarms: ME -> raised bits, {} for no entry
  tca,       \* Engine.performanceTCA, {} for no entry
  seq,       \* Engine.alarmSequence
  age,       \* minutes since Engine.arcFreeSince, Untimed for no entry
  armed,     \* Engine.performanceNext is set
  existing,  \* performance MEs in the MIB
  arc,       \* Arc attribute of each point, in the MIB in memory
  interval,  \* ArcInterval attribute
  locked,    \* MEs whose administrative state is locked
  savedArc,  \* Arc attributes in the persisted MIB document
  olt,       \* what the OLT has received since its last alarm retrieval
  hushed     \* history: MEs that changed in silence since the OLT heard of them

engine == <<alarms, tca, seq, age, armed>>
mib == <<existing, arc, interval, locked, savedArc>>
vars == <<engine, mib, olt, hushed>>

Clear == [k \in Keys |-> {}]
\* An OLT that must retrieve the alarms before it knows anything.
Lost == [synced |-> FALSE, seq |-> 0, missed |-> 0, table |-> Clear]

Init ==
  /\ alarms = Clear /\ tca = [k \in PMs |-> {}] /\ seq = 0
  /\ age = [p \in Points |-> Untimed] /\ armed = FALSE
  /\ existing = {} /\ locked = {}
  /\ arc = [p \in Points |-> FALSE] /\ interval = [p \in Points |-> 0]
  /\ savedArc = arc
  /\ olt = Lost /\ hushed = {}

(***************************************************************************)
(* Raising and clearing.  A handler threads the state it changes through   *)
(* a record s, with the alarm frames it has produced (sent) and what they  *)
(* may have made of the OLT (heard): each frame arrives or is lost alone.  *)
(***************************************************************************)
S0 == [alarms |-> alarms, tca |-> tca, seq |-> seq, age |-> age, arc |-> arc,
       interval |-> interval, sent |-> 0, heard |-> {[olt |-> olt, hushed |-> hushed]}]

arcOwner(k) == IF k \in Points THEN k
               ELSE IF k \in PMs THEN ArcOwner[k] ELSE NoPoint

\* ARC is switched on for k's group.
arcEnabled(a, k) == arcOwner(k) \in Points /\ a[arcOwner(k)]

arcGroupHasAlarm(al, p) == \E k \in Keys : al[k] # {} /\ arcOwner(k) = p

notificationsSuppressed(k) == LocksOver[k] \cap locked # {}

\* Mutant: the last number has a successor.
wrapLate(n) == IF n = 0 \/ n > MaxSeq THEN 1 ELSE n + 1
nextAlarmSequence(n) == IF n = 0 \/ n = MaxSeq THEN 1 ELSE n + 1

\* Mutants: an alarm does not stop the timer; every poll starts it again.
alarmKeepsTimer(s, p) ==
  IF ~s.arc[p] THEN [s EXCEPT !.age[p] = Untimed]
  ELSE IF arcGroupHasAlarm(s.alarms, p) THEN s
  ELSE [s EXCEPT !.age[p] = IF @ = Untimed THEN 0 ELSE @]
pollRestartsTimer(s, p) ==
  IF ~s.arc[p] \/ arcGroupHasAlarm(s.alarms, p)
  THEN [s EXCEPT !.age[p] = Untimed]
  ELSE IF s.interval[p] = 0 THEN [s EXCEPT !.age[p] = Untimed, !.arc[p] = FALSE]
  ELSE [s EXCEPT !.age[p] = 0]
pollARCKey(s, p) ==
  IF ~s.arc[p] \/ arcGroupHasAlarm(s.alarms, p)
  THEN [s EXCEPT !.age[p] = Untimed]
  ELSE LET since == IF s.age[p] = Untimed THEN 0 ELSE s.age[p]
       IN  IF s.interval[p] = Never \/ since < s.interval[p]
           THEN [s EXCEPT !.age[p] = since]
           ELSE [s EXCEPT !.age[p] = Untimed, !.arc[p] = FALSE]

\* The OLT has set ARC or its interval: the timer stops, or starts in a quiet group.
trackARC(s, p) ==
  [s EXCEPT !.age[p] = IF ~s.arc[p] \/ arcGroupHasAlarm(s.alarms, p) THEN Untimed
                       ELSE IF @ = Untimed THEN 0 ELSE @]

\* The OLT (external): G.988 numbers alarms 1 to 255 after a retrieval.
expected(n) == IF n = MaxSeq THEN 1 ELSE n + 1

receive(o, k, bitmap, n) ==
  IF ~o.synced \/ n # expected(o.seq) THEN Lost
  ELSE [o EXCEPT !.seq = n, !.missed = 0, !.table[k] = bitmap]

Arrival(x, k, bitmap, n) ==
  LET o == receive(x.olt, k, bitmap, n)
  IN [olt |-> o, hushed |-> IF o.synced THEN x.hushed \ {k} ELSE {}]

\* The OLT misses a frame; fewer than MaxSeq in a row, for the number tells no more (bound).
CanMiss(x) == x.olt.synced /\ x.olt.missed + 1 < MaxSeq
Miss(x) == [x EXCEPT !.olt.missed = @ + 1]

\* A frame with the alarms of k and the sequence number s.seq arrives or is lost.
alarmFrame(s, k) ==
  [s EXCEPT !.sent = @ + 1,
            !.heard = {Arrival(x, k, s.alarms[k], s.seq) : x \in @}
                      \cup {Miss(x) : x \in {y \in @ : CanMiss(y)}}]

\* No frame about a change of k: the OLT's table of k may be out of date.
hush(s, k) ==
  [s EXCEPT !.heard = {[x EXCEPT !.hushed = IF x.olt.synced THEN @ \cup {k} ELSE @] : x \in @}]

\* Mutants: a cleared alarm is not reported; a suppressed one is numbered.
clearsUnreported(s, k, bitmap) ==
  LET t == [s EXCEPT !.alarms[k] = bitmap] IN
  IF s.alarms[k] = bitmap THEN s
  ELSE IF arcEnabled(s.arc, k) THEN pollARCKey(hush(t, k), arcOwner(k))
  ELSE IF notificationsSuppressed(k) THEN hush(t, k)
  ELSE IF bitmap = {} THEN t
  ELSE alarmFrame([t EXCEPT !.seq = nextAlarmSequence(@)], k)
suppressedNumbered(s, k, bitmap) ==
  LET t == [s EXCEPT !.alarms[k] = bitmap, !.seq = nextAlarmSequence(@)] IN
  IF s.alarms[k] = bitmap THEN s
  ELSE IF arcEnabled(s.arc, k) THEN pollARCKey(hush(t, k), arcOwner(k))
  ELSE IF notificationsSuppressed(k) THEN hush(t, k)
  ELSE alarmFrame(t, k)
\* The error returns between the change of the table and the frame need a performance ME
\* without its UNI or bridge port; Create, Delete and Set refuse what would lead there.
notifyAlarm(s, k, bitmap) ==
  LET t == [s EXCEPT !.alarms[k] = bitmap] IN
  IF s.alarms[k] = bitmap THEN s
  ELSE IF arcEnabled(s.arc, k) THEN pollARCKey(hush(t, k), arcOwner(k))
  ELSE IF notificationsSuppressed(k) THEN hush(t, k)
  ELSE alarmFrame([t EXCEPT !.seq = nextAlarmSequence(@)], k)

\* sample: the alerts whose counters have reached their thresholds
evaluatePerformanceTCA(s, k, sample) ==
  LET bitmap == s.tca[k] \cup sample
      t == notifyAlarm(s, k, bitmap)
  IN  IF bitmap = s.tca[k] THEN s
      ELSE IF t.sent # s.sent THEN [t EXCEPT !.tca[k] = bitmap] ELSE t

clearPerformanceTCA(s, k) ==
  IF s.tca[k] = {} THEN s ELSE [notifyAlarm(s, k, {}) EXCEPT !.tca[k] = {}]

\* Both go through the performance MEs in the order of their keys: the state after each.
evaluatedUpTo(s, sample) ==
  LET after[i \in 0..Len(PMOrder)] ==
        IF i = 0 THEN s
        ELSE IF PMOrder[i] \notin existing THEN after[i - 1]
        ELSE evaluatePerformanceTCA(after[i - 1], PMOrder[i], sample[PMOrder[i]])
  IN  after

clearedUpTo(s) ==
  LET after[i \in 0..Len(PMOrder)] ==
        IF i = 0 THEN s ELSE clearPerformanceTCA(after[i - 1], PMOrder[i])
  IN  after

clearPerformanceTCANotifications(s) == clearedUpTo(s)[Len(PMOrder)]

\* The handler ends in s, and the OLT in one of the states its frames may have left.
Finish(s) ==
  /\ alarms' = s.alarms /\ tca' = s.tca /\ seq' = s.seq /\ age' = s.age
  /\ arc' = s.arc /\ interval' = s.interval
  /\ \E x \in s.heard : olt' = x.olt /\ hushed' = x.hushed

(***************************************************************************)
(* Platform events and timers                                              *)
(***************************************************************************)
\* Alarm events, optical and BER samples: a new bitmap for a point or for
\* equipment.
NotifyAlarm(k, bitmap) ==
  /\ k \in Points \cup Equipment
  /\ Finish(notifyAlarm(S0, k, bitmap))
  /\ UNCHANGED <<armed, existing, locked, savedArc>>

\* A minute passes.
Tick ==
  /\ age' = [p \in Points |-> IF age[p] \in 0..(Oldest - 1) THEN age[p] + 1
                              ELSE age[p]]
  /\ UNCHANGED <<alarms, tca, seq, armed, mib, olt, hushed>>

\* The points of one poll do not depend on each other.
PollARC ==
  LET polled(p) == pollARCKey(S0, p)
      timed == {p \in Points : age[p] # Untimed}
  IN  /\ age' = [p \in Points |-> IF p \in timed THEN polled(p).age[p] ELSE age[p]]
      /\ arc' = [p \in Points |-> IF p \in timed THEN polled(p).arc[p] ELSE arc[p]]
      /\ UNCHANGED <<alarms, tca, seq, armed, existing, interval, locked,
                     savedArc, olt, hushed>>

\* The first poll only sets the boundary.
FirstPoll ==
  /\ ~armed /\ armed' = TRUE
  /\ UNCHANGED <<alarms, tca, seq, age, mib, olt, hushed>>

\* A poll inside the interval, or the first after its end (boundary): the
\* alerts of the interval are evaluated, and at its end cleared.
PollPerformance(boundary, sample) ==
  LET evaluated == evaluatedUpTo(S0, sample)[Len(PMOrder)]
  IN  /\ armed
      /\ Finish(IF boundary THEN clearPerformanceTCANotifications(evaluated)
                ELSE evaluated)
      /\ UNCHANGED <<armed, existing, locked, savedArc>>

\* More than one interval has ended: nothing to evaluate.
PollLate ==
  /\ armed
  /\ Finish(clearPerformanceTCANotifications(S0))
  /\ UNCHANGED <<armed, existing, locked, savedArc>>

(***************************************************************************)
(* OLT commands.  A command that commits persists the MIB as it stands in  *)
(* memory, autonomous changes included.                                    *)
(***************************************************************************)
\* The last optical or BER sample, evaluated against new thresholds, gives a bitmap.
SetThreshold(p, bitmap) ==
  /\ Finish(notifyAlarm(S0, p, bitmap))
  /\ savedArc' = arc
  /\ UNCHANGED <<armed, existing, locked>>

\* ARC or its interval, and perhaps thresholds in the same Set.
SetArc(p, on, i, bitmap) ==
  /\ LET set == trackARC([S0 EXCEPT !.arc[p] = on, !.interval[p] = i], p)
     IN Finish(pollARCKey(notifyAlarm(set, p, bitmap), p))
  /\ savedArc' = [arc EXCEPT ![p] = on]
  /\ UNCHANGED <<armed, existing, locked>>

SetAdministrativeState(l) ==
  /\ locked' = IF l \in locked THEN locked \ {l} ELSE locked \cup {l}
  /\ savedArc' = arc
  /\ UNCHANGED <<engine, existing, arc, interval, olt, hushed>>

CreatePM(k) ==
  /\ k \notin existing
  /\ existing' = existing \cup {k}
  /\ savedArc' = arc
  /\ UNCHANGED <<engine, arc, interval, locked, olt, hushed>>

\* The OLT drops what it knew of MEs it has removed.  An alert that stays
\* behind in the table is one it has not heard of.
Forget(gone) ==
  /\ olt' = [olt EXCEPT !.table = [k \in Keys |-> IF k \in gone THEN {} ELSE @[k]]]
  /\ hushed' = IF olt.synced
               THEN (hushed \ gone) \cup {k \in gone : alarms'[k] # {}} ELSE {}

\* Mutant: the alarm goes and the record of the alert stays.
discardAlarmOnly(gone) ==
  /\ alarms' = [k \in Keys |-> IF k \in gone /\ tca[k] # {} THEN {} ELSE alarms[k]]
  /\ UNCHANGED tca
\* Only an alert on record takes its alarm with it.
discardTCA(gone) ==
  /\ alarms' = [k \in Keys |-> IF k \in gone /\ tca[k] # {} THEN {} ELSE alarms[k]]
  /\ tca' = [k \in PMs |-> IF k \in gone THEN {} ELSE tca[k]]

DeletePM(k) ==
  /\ k \in existing
  /\ existing' = existing \ {k}
  /\ discardTCA({k})
  /\ savedArc' = arc
  /\ Forget({k})
  /\ UNCHANGED <<seq, age, armed, arc, interval, locked>>

MibReset ==
  /\ discardTCA(PMs)
  /\ age' = [p \in Points |-> Untimed]
  /\ armed' = FALSE
  /\ existing' = {} /\ locked' = {}
  /\ arc' = [p \in Points |-> FALSE] /\ interval' = [p \in Points |-> 0]
  /\ savedArc' = arc'
  /\ Forget(existing)
  /\ UNCHANGED seq

\* Time synchronization starts a new interval.
SynchronizeTime ==
  /\ armed' = TRUE
  /\ Finish(clearPerformanceTCANotifications(S0))
  /\ UNCHANGED <<existing, locked, savedArc>>

\* Mode 1 leaves out the groups whose reporting ARC suspends.  The OLT pages
\* through the snapshot that the request takes.
GetAllAlarms(mode) ==
  LET skipped == {k \in Keys : mode = 1 /\ arcEnabled(arc, k)} IN
  /\ seq' = 0
  /\ olt' = [synced |-> TRUE, seq |-> 0, missed |-> 0,
             table |-> [k \in Keys |-> IF k \in skipped THEN {} ELSE alarms[k]]]
  /\ hushed' = {k \in skipped : alarms[k] # {}}
  /\ UNCHANGED <<alarms, tca, age, armed, mib>>

ResetCommunicationSession ==
  /\ seq' = 0
  /\ olt' = Lost /\ hushed' = {}
  /\ UNCHANGED <<alarms, tca, age, armed, mib>>

(***************************************************************************)
(* Restart of the daemon: the runtime document is written, the MIB         *)
(* document read back, and the runtime document restored if it fits.  With *)
(* a discarded document the numbering starts over, and the observer too.   *)
(***************************************************************************)
RestoreAccepted ==
  /\ savedArc = arc
  /\ \A k \in PMs : alarms[k] # {} => k \in existing
  /\ \A k \in PMs : tca[k] \in {{}, alarms[k]}
  /\ \A p \in Points : age[p] # Untimed => arc[p] /\ ~arcGroupHasAlarm(alarms, p)

Restart ==
  /\ Restarts
  /\ arc' = savedArc
  /\ IF RestoreAccepted THEN UNCHANGED engine
     ELSE /\ alarms' = Clear /\ tca' = [k \in PMs |-> {}] /\ seq' = 0
          /\ age' = [p \in Points |-> Untimed] /\ armed' = FALSE
  /\ IF RestoreAccepted THEN UNCHANGED <<olt, hushed>>
     ELSE olt' = Lost /\ hushed' = {}
  /\ UNCHANGED <<existing, interval, locked, savedArc>>

\* What a poll may find the counters of the existing performance MEs to reach.
Samples == {f \in [existing -> SUBSET UNION {Codes[k] : k \in PMs}] :
              \A k \in existing : f[k] \subseteq Codes[k]}

Next ==
  \/ \E k \in Points \cup Equipment : \E b \in SUBSET Codes[k] : NotifyAlarm(k, b)
  \/ Tick
  \/ PollARC
  \/ FirstPoll
  \/ \E boundary \in BOOLEAN, sample \in Samples : PollPerformance(boundary, sample)
  \/ PollLate
  \/ \E p \in Points : \E b \in SUBSET Codes[p] :
       SetThreshold(p, b) \/ \E on \in BOOLEAN, i \in Intervals : SetArc(p, on, i, b)
  \/ \E l \in Lockable : SetAdministrativeState(l)
  \/ \E k \in PMs : CreatePM(k) \/ DeletePM(k)
  \/ MibReset
  \/ SynchronizeTime
  \/ \E mode \in {0, 1} : GetAllAlarms(mode)
  \/ ResetCommunicationSession
  \/ Restart

Spec == Init /\ [][Next]_vars

\* Time passes, and the ARC ticker of main runs as long as the daemon does.
FairSpec == Spec /\ WF_vars(Tick) /\ WF_vars(PollARC)

\* A poll that ends an interval.
Boundary == PollLate \/ \E sample \in Samples : PollPerformance(TRUE, sample)

\* The performance ticker runs too, and intervals end.
BoundarySpec == Spec /\ WF_vars(FirstPoll) /\ WF_vars(Boundary)

(***************************************************************************)
(* Properties                                                              *)
(***************************************************************************)
Bits == UNION {Codes[k] : k \in Keys}
PMBits == UNION {Codes[k] : k \in PMs}
Observer == [synced : BOOLEAN, seq : 0..MaxSeq, missed : 0..(MaxSeq - 1),
             table : [Keys -> SUBSET Bits]]

\* Every variable has its type.
TypeOK ==
  /\ alarms \in [Keys -> SUBSET Bits]
  /\ tca \in [PMs -> SUBSET PMBits]
  /\ seq \in 0..MaxSeq
  /\ age \in [Points -> Untimed..Oldest]
  /\ armed \in BOOLEAN
  /\ existing \subseteq PMs
  /\ arc \in [Points -> BOOLEAN] /\ savedArc \in [Points -> BOOLEAN]
  /\ interval \in [Points -> Intervals]
  /\ locked \subseteq Lockable
  /\ olt \in Observer
  /\ hushed \subseteq Keys

\* An OLT that has received the alarm with the ONU's current sequence number,
\* and every one before it in order, knows the alarms of every ME that did
\* not change under a lock or under ARC (notifyAlarmLocked).
InStep ==
  olt.synced /\ olt.seq = seq =>
    \A k \in Keys \ hushed : olt.table[k] = alarms[k]

\* The sequence number advances with the frames sent and with nothing else:
\* while no frame is lost the OLT and the ONU agree on it, through
\* suppressed changes, the wrap from 255 to 1 and retrievals.
NoFalseGap ==
  olt.synced /\ olt.missed = 0 => olt.seq = seq

\* A problem-free timer runs only while ARC is on and the whole group,
\* performance MEs included, is without alarm (arc.go; the runtime document
\* is refused otherwise).
TimerMeansQuiet ==
  \A p \in Points : age[p] # Untimed =>
    arc[p] /\ \A k \in Keys : arcOwner(k) = p => alarms[k] = {}

\* An alert that will be cleared at the boundary belongs to a performance ME
\* that exists and is in the alarm table (performanceTCA against alarms).
AlertIsAudited ==
  \A k \in PMs : tca[k] # {} => k \in existing /\ tca[k] \subseteq alarms[k]

\* What they rest on: the ONU's number is the OLT's, advanced by the frames lost.
advanced(n, m) == IF n + m <= MaxSeq THEN n + m ELSE n + m - MaxSeq
Numbered == olt.synced => seq = advanced(olt.seq, olt.missed)

AlarmInv == Numbered /\ InStep /\ TimerMeansQuiet /\ AlertIsAudited

\* A running problem-free timer with an interval other than 255 does not run
\* for ever: an alarm or the OLT stops it, or ARC is cancelled (PollARC).
ArcEnds ==
  \A p \in Points :
    (age[p] # Untimed /\ interval[p] # Never)
      ~> (age[p] = Untimed \/ interval[p] = Never)

\* docs/implementation.md: "At each 15-minute boundary the ONU sends the
\* required all-clear TCA notification": no alert stays in the alarm table
\* from interval to interval (clearPerformanceTCANotificationsLocked).
AlertClears == \A k \in PMs : alarms[k] # {} ~> alarms[k] = {}

=============================================================================
