------------------------- MODULE AlarmNotifyProofs -------------------------
(***************************************************************************)
(* For every set of MEs, any number of performance MEs and every last      *)
(* sequence number: type correctness of AlarmNotify and its invariants.    *)
(*                                                                         *)
(* The polls go through the performance MEs in a recursive function; what  *)
(* it computes is shown by induction over the natural numbers, stated for  *)
(* sets instead of predicates (SetInduction).                              *)
(***************************************************************************)
EXTENDS AlarmNotify, WellFoundedInduction, TLAPS

-----------------------------------------------------------------------------
(* Induction, and the recursive functions of the polls.                    *)

LEMMA LeastElement ==
  ASSUME NEW T \in SUBSET Nat, T # {}
  PROVE  \E x \in T : \A y \in T : x <= y
<1> DEFINE R == OpToRel(<, Nat)
<1>1. IsWellFoundedOn(R, Nat) /\ T \subseteq Nat
  BY NatLessThanWellFounded
<1>2. \A x, y \in Nat : y < x => <<y, x>> \in R
  BY DEF OpToRel
<1> HIDE DEF R
<1>3. PICK x \in T : \A y \in T : ~(<<y, x>> \in R)
  BY <1>1, WFMin
<1>4. ASSUME NEW y \in T PROVE x <= y
  <2>1. x \in Nat /\ y \in Nat /\ ~(y < x)
    BY <1>1, <1>2, <1>3
  <2>2. QED BY <2>1
<1>5. QED BY <1>4

LEMMA SetInduction ==
  ASSUME NEW S, 0 \in S, \A n \in Nat : n \in S => n + 1 \in S
  PROVE  Nat \subseteq S
<1>1. SUFFICES ASSUME Nat \ S # {} PROVE FALSE
  OBVIOUS
<1>2. PICK x \in Nat \ S : \A y \in Nat \ S : x <= y
  BY <1>1, LeastElement
<1>3. x - 1 \in Nat /\ (x - 1) + 1 = x /\ ~(x <= x - 1)
  BY <1>2
<1>4. QED BY <1>2, <1>3

LEMMA OldestFact == Oldest \in Nat
<1> USE AlarmAssumption
<1> DEFINE I == Intervals \ {Never}
           T == {Never - i : i \in I}
<1>1. I \subseteq 0..Never /\ 0 \in I /\ Never \in Nat
  OBVIOUS
<1> HIDE DEF I
<1>2. T \in SUBSET Nat /\ T # {}
  BY <1>1
<1>3. PICK x \in T : \A y \in T : x <= y
  BY <1>2, LeastElement
<1>4. PICK i \in I : x = Never - i
  BY <1>3
<1>5. ASSUME NEW j \in I PROVE j <= i
  <2>1. Never - j \in T /\ i \in 0..Never /\ j \in 0..Never
    BY <1>1
  <2>2. Never - i <= Never - j
    BY <1>3, <1>4, <2>1
  <2>3. QED BY <1>1, <2>1, <2>2
<1>6. Oldest \in I
  <2>1. \E m \in Intervals \ {Never} : \A j \in Intervals \ {Never} : j <= m
    BY <1>5 DEF I
  <2>2. Oldest \in Intervals \ {Never}
    BY <2>1, Zenon DEF Oldest
  <2>3. QED BY <2>2 DEF I
<1>7. QED BY <1>1, <1>6

\* The state after each performance ME, one from the other.
LEMMA ClearedFact ==
  ASSUME NEW s
  PROVE  /\ clearedUpTo(s)[0] = s
         /\ \A i \in 1..Len(PMOrder) :
              clearedUpTo(s)[i] = clearPerformanceTCA(clearedUpTo(s)[i - 1], PMOrder[i])
<1> DEFINE N == Len(PMOrder)
           Steps(n, f) == f = [i \in 0..n |-> IF i = 0 THEN s
                                              ELSE clearPerformanceTCA(f[i - 1], PMOrder[i])]
           S == {n \in Nat : \E f : Steps(n, f)}
<1>1. N \in Nat
  BY AlarmAssumption
<1>2. 0 \in S
  <2>1. Steps(0, [i \in 0..0 |-> s])
    OBVIOUS
  <2>2. QED BY <2>1
<1>3. ASSUME NEW n \in Nat, n \in S PROVE n + 1 \in S
  <2>1. PICK f : Steps(n, f)
    BY <1>3
  <2>2. DOMAIN f = 0..n /\ f[0] = s
        /\ \A i \in 1..n : f[i] = clearPerformanceTCA(f[i - 1], PMOrder[i])
    BY <2>1
  <2> DEFINE g == [i \in 0..(n + 1) |-> IF i <= n THEN f[i]
                                        ELSE clearPerformanceTCA(f[n], PMOrder[n + 1])]
  <2>3. \A i \in 0..(n + 1) : g[i] = IF i = 0 THEN s
                                     ELSE clearPerformanceTCA(g[i - 1], PMOrder[i])
    <3>1. SUFFICES ASSUME NEW i \in 0..(n + 1)
                   PROVE  g[i] = IF i = 0 THEN s ELSE clearPerformanceTCA(g[i - 1], PMOrder[i])
      OBVIOUS
    <3>2. CASE i = 0
      BY <2>2, <3>2
    <3>3. CASE i \in 1..n
      <4>1. i - 1 \in 0..(n + 1) /\ i - 1 <= n /\ i <= n /\ i # 0
        BY <3>3
      <4>2. g[i - 1] = f[i - 1] /\ g[i] = f[i]
        BY <4>1
      <4>3. QED BY <2>2, <3>3, <4>1, <4>2
    <3>4. CASE i = n + 1
      <4>1. i - 1 = n /\ n \in 0..(n + 1) /\ n <= n /\ ~(i <= n) /\ i # 0
        BY <3>4
      <4>2. g[n] = f[n] /\ g[i] = clearPerformanceTCA(f[n], PMOrder[n + 1])
        BY <4>1
      <4>3. QED BY <3>4, <4>1, <4>2
    <3>5. QED BY <3>2, <3>3, <3>4
  <2>4. Steps(n + 1, g)
    BY <2>3
  <2> HIDE DEF g, Steps
  <2>5. QED BY <2>4
<1>4. N \in S
  BY <1>1, <1>2, <1>3, SetInduction
<1>5. PICK f : Steps(N, f)
  BY <1>4
<1>6. Steps(N, clearedUpTo(s))
  BY <1>5, Zenon DEF clearedUpTo
<1>7. QED BY <1>1, <1>6

EvaluateOne(s, k, x) == IF k \notin existing THEN s ELSE evaluatePerformanceTCA(s, k, x[k])

LEMMA EvaluatedFact ==
  ASSUME NEW s, NEW x
  PROVE  /\ evaluatedUpTo(s, x)[0] = s
         /\ \A i \in 1..Len(PMOrder) :
              evaluatedUpTo(s, x)[i] = EvaluateOne(evaluatedUpTo(s, x)[i - 1], PMOrder[i], x)
<1> DEFINE N == Len(PMOrder)
           Steps(n, f) == f = [i \in 0..n |-> IF i = 0 THEN s
                                              ELSE EvaluateOne(f[i - 1], PMOrder[i], x)]
           S == {n \in Nat : \E f : Steps(n, f)}
<1>1. N \in Nat
  BY AlarmAssumption
<1>2. 0 \in S
  <2>1. Steps(0, [i \in 0..0 |-> s])
    OBVIOUS
  <2>2. QED BY <2>1
<1>3. ASSUME NEW n \in Nat, n \in S PROVE n + 1 \in S
  <2>1. PICK f : Steps(n, f)
    BY <1>3
  <2>2. DOMAIN f = 0..n /\ f[0] = s
        /\ \A i \in 1..n : f[i] = EvaluateOne(f[i - 1], PMOrder[i], x)
    BY <2>1
  <2> DEFINE g == [i \in 0..(n + 1) |-> IF i <= n THEN f[i]
                                        ELSE EvaluateOne(f[n], PMOrder[n + 1], x)]
  <2>3. \A i \in 0..(n + 1) : g[i] = IF i = 0 THEN s
                                     ELSE EvaluateOne(g[i - 1], PMOrder[i], x)
    <3>1. SUFFICES ASSUME NEW i \in 0..(n + 1)
                   PROVE  g[i] = IF i = 0 THEN s ELSE EvaluateOne(g[i - 1], PMOrder[i], x)
      OBVIOUS
    <3>2. CASE i = 0
      BY <2>2, <3>2
    <3>3. CASE i \in 1..n
      <4>1. i - 1 \in 0..(n + 1) /\ i - 1 <= n /\ i <= n /\ i # 0
        BY <3>3
      <4>2. g[i - 1] = f[i - 1] /\ g[i] = f[i]
        BY <4>1
      <4>3. QED BY <2>2, <3>3, <4>1, <4>2
    <3>4. CASE i = n + 1
      <4>1. i - 1 = n /\ n \in 0..(n + 1) /\ n <= n /\ ~(i <= n) /\ i # 0
        BY <3>4
      <4>2. g[n] = f[n] /\ g[i] = EvaluateOne(f[n], PMOrder[n + 1], x)
        BY <4>1
      <4>3. QED BY <3>4, <4>1, <4>2
    <3>5. QED BY <3>2, <3>3, <3>4
  <2>4. Steps(n + 1, g)
    BY <2>3
  <2> HIDE DEF g, Steps
  <2>5. QED BY <2>4
<1>4. N \in S
  BY <1>1, <1>2, <1>3, SetInduction
<1>5. PICK f : Steps(N, f)
  BY <1>4
<1>6. Steps(N, evaluatedUpTo(s, x))
  BY <1>5, Zenon DEF evaluatedUpTo, EvaluateOne
<1>7. QED BY <1>1, <1>6

-----------------------------------------------------------------------------
(* Sequence numbers.                                                       *)

LEMMA NumberFact ==
  ASSUME NEW n \in 0..MaxSeq, NEW m \in Nat, m < MaxSeq
  PROVE  /\ advanced(n, m) \in 0..MaxSeq
         /\ advanced(n, m) = n <=> m = 0
         /\ m + 1 < MaxSeq => nextAlarmSequence(advanced(n, m)) = advanced(n, m + 1)
         /\ m > 0 => nextAlarmSequence(advanced(n, m)) # expected(n)
BY AlarmAssumption DEF advanced, nextAlarmSequence, expected

LEMMA NextNumber ==
  ASSUME NEW n \in 0..MaxSeq
  PROVE  nextAlarmSequence(n) \in 1..MaxSeq /\ nextAlarmSequence(n) = expected(n)
BY AlarmAssumption DEF nextAlarmSequence, expected

-----------------------------------------------------------------------------
(* A handler on its way.                                                   *)

\* What the OLT may be after the frames so far.
View == [olt : Observer, hushed : SUBSET Keys]

Handler == [alarms : [Keys -> SUBSET Bits], tca : [PMs -> SUBSET PMBits], seq : 0..MaxSeq,
            age : [Points -> Untimed..Oldest], arc : [Points -> BOOLEAN],
            interval : [Points -> Intervals], sent : Nat, heard : SUBSET View]

TimersQuiet(s) ==
  \A p \in Points : s.age[p] # Untimed =>
    s.arc[p] /\ \A k \in Keys : arcOwner(k) = p => s.alarms[k] = {}

Audited(s) == \A k \in PMs : s.tca[k] # {} => k \in existing /\ s.tca[k] \subseteq s.alarms[k]

\* Numbered and InStep of one view, against a number n and a table a.
InTouch(x, n, a) ==
  x.olt.synced =>
    /\ n = advanced(x.olt.seq, x.olt.missed)
    /\ x.olt.seq = n => \A k \in Keys \ x.hushed : x.olt.table[k] = a[k]

\* Whichever frames were lost, the OLT is in touch with the handler.
Heard(s) == \A x \in s.heard : InTouch(x, s.seq, s.alarms)

Handling(s) == s \in Handler /\ TimersQuiet(s) /\ Heard(s)

LEMMA S0Fact ==
  ASSUME TypeOK, AlarmInv
  PROVE  Handling(S0) /\ Audited(S0)
<1>1. PICK x : x = [olt |-> olt, hushed |-> hushed]
  OBVIOUS
<1>2. x \in View /\ x.olt = olt /\ x.hushed = hushed /\ S0.heard = {x}
  BY <1>1 DEF TypeOK, View, S0
<1>3. S0 \in Handler
  BY <1>1, <1>2 DEF TypeOK, S0, Handler
<1>4. TimersQuiet(S0) /\ Audited(S0)
  BY DEF AlarmInv, TimerMeansQuiet, AlertIsAudited, TimersQuiet, Audited, S0
<1>5. S0.seq = seq /\ S0.alarms = alarms
  BY DEF S0
<1>6. InTouch(x, seq, alarms)
  BY <1>2 DEF AlarmInv, Numbered, InStep, InTouch
<1>7. Heard(S0)
  BY <1>2, <1>5, <1>6 DEF Heard
<1>8. QED BY <1>3, <1>4, <1>7 DEF Handling

-----------------------------------------------------------------------------
(* pollARCKeyLocked and notifyAlarmLocked.                                 *)

LEMMA AgeFact ==
  ASSUME NEW s \in Handler, NEW p \in Points, NEW x \in Untimed..Oldest,
         NEW v, v = [s EXCEPT !.age[p] = x]
  PROVE  /\ v \in Handler
         /\ v.alarms = s.alarms /\ v.tca = s.tca /\ v.seq = s.seq /\ v.interval = s.interval
         /\ v.sent = s.sent /\ v.heard = s.heard /\ v.arc = s.arc
         /\ v.age[p] = x /\ \A q \in Points \ {p} : v.age[q] = s.age[q]
<1>1. v = [s EXCEPT !.age = [s.age EXCEPT ![p] = x]]
  BY DEF Handler
<1>2. [s.age EXCEPT ![p] = x] \in [Points -> Untimed..Oldest]
  BY DEF Handler
<1>3. v \in Handler
  BY <1>1, <1>2 DEF Handler
<1>4. QED BY <1>1, <1>3 DEF Handler

\* A poll may end ARC or stop the timer; it lets the timer run only in a quiet group.
LEMMA PollFact ==
  ASSUME NEW s \in Handler, NEW p \in Points, NEW v, v = pollARCKey(s, p)
  PROVE  /\ v \in Handler
         /\ v.alarms = s.alarms /\ v.tca = s.tca /\ v.seq = s.seq /\ v.interval = s.interval
         /\ v.sent = s.sent /\ v.heard = s.heard
         /\ \A q \in Points \ {p} : v.age[q] = s.age[q] /\ v.arc[q] = s.arc[q]
         /\ v.arc[p] => s.arc[p]
         /\ v.age[p] # Untimed => v.arc[p] /\ ~arcGroupHasAlarm(s.alarms, p)
<1>1. Untimed \in Untimed..Oldest /\ 0 \in Untimed..Oldest /\ 0 # Untimed
  BY OldestFact DEF Untimed
<1>2. s.age[p] \in Untimed..Oldest /\ s.arc[p] \in BOOLEAN
  BY DEF Handler
<1>3. CASE ~s.arc[p] \/ arcGroupHasAlarm(s.alarms, p)
  <2>1. v = [s EXCEPT !.age[p] = Untimed]
    BY <1>3 DEF pollARCKey
  <2>2. QED BY <1>1, <1>2, <2>1, AgeFact
<1>4. CASE s.arc[p] /\ ~arcGroupHasAlarm(s.alarms, p)
  <2>1. PICK x \in Untimed..Oldest : x = IF s.age[p] = Untimed THEN 0 ELSE s.age[p]
    BY <1>1, <1>2
  <2>2. \/ v = [s EXCEPT !.age[p] = x]
        \/ v = [s EXCEPT !.age[p] = Untimed, !.arc[p] = FALSE]
    BY <1>4, <2>1 DEF pollARCKey
  <2>3. CASE v = [s EXCEPT !.age[p] = x]
    BY <1>2, <1>4, <2>3, AgeFact
  <2>4. CASE v = [s EXCEPT !.age[p] = Untimed, !.arc[p] = FALSE]
    <3> DEFINE f == [s.age EXCEPT ![p] = Untimed]
               g == [s.arc EXCEPT ![p] = FALSE]
    <3>1. v = [s EXCEPT !.age = f, !.arc = g]
      BY <2>4 DEF Handler
    <3>2. f \in [Points -> Untimed..Oldest] /\ f[p] = Untimed
          /\ \A q \in Points \ {p} : f[q] = s.age[q]
      BY <1>1 DEF Handler
    <3>3. s.arc \in [Points -> BOOLEAN]
      BY DEF Handler
    <3>4. g \in [Points -> BOOLEAN] /\ ~g[p] /\ \A q \in Points \ {p} : g[q] = s.arc[q]
      BY <3>3, Zenon
    <3> HIDE DEF f, g
    <3>5. v \in Handler /\ v.age = f /\ v.arc = g
      BY <3>1, <3>2, <3>4 DEF Handler
    <3>6. /\ v.alarms = s.alarms /\ v.tca = s.tca /\ v.seq = s.seq /\ v.interval = s.interval
          /\ v.sent = s.sent /\ v.heard = s.heard
      BY <3>1 DEF Handler
    <3>7. QED BY <3>2, <3>4, <3>5, <3>6
  <2>5. QED BY <2>2, <2>3, <2>4
<1>5. QED BY <1>3, <1>4

LEMMA LostFact == Lost \in Observer /\ ~Lost.synced
<1>1. Clear \in [Keys -> SUBSET Bits] /\ 0 \in 0..MaxSeq /\ 0 \in 0..(MaxSeq - 1)
  BY AlarmAssumption DEF Clear
<1>2. ASSUME NEW c \in BOOLEAN
      PROVE  [synced |-> c, seq |-> 0, missed |-> 0, table |-> Clear] \in Observer
  BY <1>1 DEF Observer
<1>3. Lost \in Observer
  BY <1>2, Zenon DEF Lost
<1>4. QED BY <1>3 DEF Lost

\* An alarm frame, and the OLT that receives it.
LEMMA ReceiveFact ==
  ASSUME NEW o \in Observer, NEW k \in Keys, NEW b \in SUBSET Bits, NEW n \in 0..MaxSeq,
         NEW r, r = receive(o, k, b, n)
  PROVE  /\ r \in Observer
         /\ ~o.synced \/ n # expected(o.seq) => ~r.synced
         /\ o.synced /\ n = expected(o.seq) =>
              /\ r.synced /\ r.seq = n /\ r.missed = 0 /\ r.table[k] = b
              /\ \A q \in Keys \ {k} : r.table[q] = o.table[q]
<1>1. CASE ~o.synced \/ n # expected(o.seq)
  <2>1. r = Lost
    BY <1>1 DEF receive
  <2>2. QED BY <1>1, <2>1, LostFact
<1>2. CASE o.synced /\ n = expected(o.seq)
  <2>1. r = [o EXCEPT !.seq = n, !.missed = 0, !.table[k] = b]
    BY <1>2 DEF receive
  <2>2. r = [o EXCEPT !.seq = n, !.missed = 0, !.table = [o.table EXCEPT ![k] = b]]
    BY <2>1 DEF Observer
  <2>3. [o.table EXCEPT ![k] = b] \in [Keys -> SUBSET Bits] /\ 0 \in 0..(MaxSeq - 1)
    BY AlarmAssumption DEF Observer
  <2>4. r \in Observer
    BY <2>2, <2>3 DEF Observer
  <2>5. r.synced = o.synced /\ r.seq = n /\ r.missed = 0 /\ r.table = [o.table EXCEPT ![k] = b]
    BY <2>2 DEF Observer
  <2>6. r.table[k] = b /\ \A q \in Keys \ {k} : r.table[q] = o.table[q]
    BY <2>5 DEF Observer
  <2>7. QED BY <1>2, <2>4, <2>5, <2>6
<1>3. QED BY <1>1, <1>2

\* A change that goes without a frame is on the OLT's list of them.
LEMMA HushedView ==
  ASSUME NEW x \in View, NEW k \in Keys, NEW n, NEW a, NEW b, InTouch(x, n, a),
         \A q \in Keys \ {k} : b[q] = a[q],
         NEW y, y = [x EXCEPT !.hushed = IF x.olt.synced THEN @ \cup {k} ELSE @]
  PROVE  y \in View /\ InTouch(y, n, b)
<1>1. PICK h \in SUBSET Keys : h = IF x.olt.synced THEN x.hushed \cup {k} ELSE x.hushed
  BY DEF View
<1>2. y = [x EXCEPT !.hushed = h]
  BY <1>1 DEF View
<1>3. y \in View /\ y.olt = x.olt /\ y.hushed = h
  BY <1>2 DEF View
<1>4. InTouch(y, n, b)
  BY <1>1, <1>3 DEF InTouch
<1>5. QED BY <1>3, <1>4

\* The frame arrives: an OLT without a loss is told the new bitmap, another sees the gap.
LEMMA ArrivalView ==
  ASSUME NEW x \in View, NEW k \in Keys, NEW n \in 0..MaxSeq, NEW a, NEW b, InTouch(x, n, a),
         b[k] \in SUBSET Bits, \A q \in Keys \ {k} : b[q] = a[q],
         NEW m, m = nextAlarmSequence(n), NEW y, y = Arrival(x, k, b[k], m)
  PROVE  y \in View /\ InTouch(y, m, b)
<1>1. /\ x.olt \in Observer /\ x.hushed \subseteq Keys /\ m \in 1..MaxSeq /\ m \in 0..MaxSeq
      /\ x.olt.seq \in 0..MaxSeq /\ x.olt.missed \in Nat /\ x.olt.missed < MaxSeq
      /\ MaxSeq \in Nat \ {0}
  BY NextNumber, AlarmAssumption DEF View, Observer
<1>2. PICK o : o = receive(x.olt, k, b[k], m)
  OBVIOUS
<1>3. PICK h : h = IF o.synced THEN x.hushed \ {k} ELSE {}
  OBVIOUS
<1>4. y = [olt |-> o, hushed |-> h]
  BY <1>2, <1>3 DEF Arrival
<1>5. /\ o \in Observer
      /\ ~x.olt.synced \/ m # expected(x.olt.seq) => ~o.synced
      /\ x.olt.synced /\ m = expected(x.olt.seq) =>
           /\ o.synced /\ o.seq = m /\ o.missed = 0 /\ o.table[k] = b[k]
           /\ \A q \in Keys \ {k} : o.table[q] = x.olt.table[q]
  <2>1. PICK c \in SUBSET Bits, w \in Observer, e \in 0..MaxSeq : c = b[k] /\ w = x.olt /\ e = m
    BY <1>1
  <2>2. o = receive(w, k, c, e)
    BY <1>2, <2>1
  <2>3. /\ o \in Observer
        /\ ~w.synced \/ e # expected(w.seq) => ~o.synced
        /\ w.synced /\ e = expected(w.seq) =>
             /\ o.synced /\ o.seq = e /\ o.missed = 0 /\ o.table[k] = c
             /\ \A q \in Keys \ {k} : o.table[q] = w.table[q]
    BY <2>2, ReceiveFact
  <2>4. QED BY <2>1, <2>3
<1>6. y \in View /\ y.olt = o /\ y.hushed = h
  BY <1>1, <1>3, <1>4, <1>5 DEF View
<1>7. SUFFICES ASSUME o.synced
               PROVE  m = advanced(o.seq, o.missed)
                      /\ \A q \in Keys \ h : o.table[q] = b[q]
  BY <1>6 DEF InTouch
<1>8. x.olt.synced /\ m = expected(x.olt.seq)
  BY <1>5, <1>7
<1>9. x.olt.missed = 0
  <2>1. n = advanced(x.olt.seq, x.olt.missed)
    BY <1>8 DEF InTouch
  <2>2. x.olt.missed > 0 => nextAlarmSequence(n) # expected(x.olt.seq)
    BY <1>1, <2>1, NumberFact, Zenon
  <2>3. QED BY <1>1, <1>8, <2>2
<1>10. n = x.olt.seq
  BY <1>1, <1>8, <1>9, NumberFact DEF InTouch
<1>11. \A q \in Keys \ x.hushed : x.olt.table[q] = a[q]
  BY <1>8, <1>10 DEF InTouch
<1>12. m = advanced(o.seq, o.missed)
  BY <1>1, <1>5, <1>8 DEF advanced
<1>13. ASSUME NEW q \in Keys \ h PROVE o.table[q] = b[q]
  <2>1. q = k \/ q \in Keys \ x.hushed
    BY <1>3, <1>7, <1>13
  <2>2. QED BY <1>5, <1>8, <1>11, <2>1
<1>14. QED BY <1>12, <1>13

\* The frame is lost: the numbers are one further apart.
LEMMA MissedView ==
  ASSUME NEW x \in View, NEW n \in 0..MaxSeq, NEW a, NEW b, InTouch(x, n, a), CanMiss(x),
         NEW m, m = nextAlarmSequence(n), NEW y, y = Miss(x)
  PROVE  y \in View /\ InTouch(y, m, b)
<1>1. /\ x.olt \in Observer /\ x.olt.seq \in 0..MaxSeq /\ x.olt.missed \in Nat
      /\ x.olt.synced /\ x.olt.missed + 1 < MaxSeq /\ MaxSeq \in Nat \ {0}
  BY AlarmAssumption DEF View, Observer, CanMiss
<1>2. PICK o : o = [x.olt EXCEPT !.missed = x.olt.missed + 1]
  OBVIOUS
<1>3. y = [x EXCEPT !.olt = o]
  BY <1>1, <1>2 DEF Miss, View, Observer
<1>4. o \in Observer /\ o.seq = x.olt.seq /\ o.missed = x.olt.missed + 1
  BY <1>1, <1>2 DEF Observer
<1>5. y \in View /\ y.olt = o
  BY <1>3, <1>4 DEF View
<1>6. n = advanced(x.olt.seq, x.olt.missed)
  BY <1>1 DEF InTouch
<1>7. m = advanced(x.olt.seq, x.olt.missed + 1)
  BY <1>1, <1>6, NumberFact
<1>8. m # x.olt.seq
  <2>1. PICK c \in Nat : c = x.olt.missed + 1 /\ c < MaxSeq /\ c # 0
    BY <1>1
  <2>2. advanced(x.olt.seq, c) = x.olt.seq <=> c = 0
    BY <1>1, <2>1, NumberFact, Zenon
  <2>3. QED BY <1>7, <2>1, <2>2
<1>9. QED BY <1>4, <1>5, <1>7, <1>8 DEF InTouch

\* hush and alarmFrame on a handler.
LEMMA HushFact ==
  ASSUME NEW s, Handling(s), NEW k \in Keys, NEW u \in Handler, u.heard = s.heard, u.seq = s.seq,
         \A q \in Keys \ {k} : u.alarms[q] = s.alarms[q], NEW t, t = hush(u, k)
  PROVE  /\ t \in Handler /\ Heard(t)
         /\ t.alarms = u.alarms /\ t.tca = u.tca /\ t.seq = u.seq /\ t.interval = u.interval
         /\ t.age = u.age /\ t.arc = u.arc /\ t.sent = u.sent
<1> DEFINE Y(x) == [x EXCEPT !.hushed = IF x.olt.synced THEN @ \cup {k} ELSE @]
<1>1. PICK H : H = {Y(x) : x \in u.heard}
  OBVIOUS
<1>2. t = [u EXCEPT !.heard = H]
  BY <1>1 DEF hush, Handler
<1>3. ASSUME NEW x \in u.heard PROVE Y(x) \in View /\ InTouch(Y(x), u.seq, u.alarms)
  <2>1. x \in View /\ InTouch(x, u.seq, s.alarms)
    BY <1>3 DEF Handling, Handler, Heard
  <2>2. QED BY <2>1, HushedView, SMTT(30)
<1> HIDE DEF Y
<1>4. H \in SUBSET View /\ \A y \in H : InTouch(y, u.seq, u.alarms)
  BY <1>1, <1>3
<1>5. /\ t \in Handler /\ t.heard = H
      /\ t.alarms = u.alarms /\ t.tca = u.tca /\ t.seq = u.seq /\ t.interval = u.interval
      /\ t.age = u.age /\ t.arc = u.arc /\ t.sent = u.sent
  BY <1>2, <1>4 DEF Handler
<1>6. QED BY <1>4, <1>5 DEF Heard

LEMMA FrameFact ==
  ASSUME NEW s, Handling(s), NEW k \in Keys, NEW u \in Handler, u.heard = s.heard,
         u.seq = nextAlarmSequence(s.seq),
         \A q \in Keys \ {k} : u.alarms[q] = s.alarms[q], NEW t, t = alarmFrame(u, k)
  PROVE  /\ t \in Handler /\ Heard(t)
         /\ t.alarms = u.alarms /\ t.tca = u.tca /\ t.seq = u.seq /\ t.interval = u.interval
         /\ t.age = u.age /\ t.arc = u.arc
<1> DEFINE Y(x) == Arrival(x, k, u.alarms[k], u.seq)
<1>1. PICK H : H = {Y(x) : x \in u.heard} \cup {Miss(x) : x \in {y \in u.heard : CanMiss(y)}}
  OBVIOUS
<1>2. t = [u EXCEPT !.sent = u.sent + 1, !.heard = H]
  BY <1>1 DEF alarmFrame, Handler
<1>3. s.seq \in 0..MaxSeq /\ u.alarms[k] \in SUBSET Bits
  BY DEF Handling, Handler
<1>4. ASSUME NEW x \in u.heard PROVE x \in View /\ InTouch(x, s.seq, s.alarms)
  BY <1>4 DEF Handling, Handler, Heard
<1>5. ASSUME NEW x \in u.heard PROVE Y(x) \in View /\ InTouch(Y(x), u.seq, u.alarms)
  BY <1>3, <1>4, <1>5, ArrivalView
<1>6. ASSUME NEW x \in u.heard, CanMiss(x)
      PROVE  Miss(x) \in View /\ InTouch(Miss(x), u.seq, u.alarms)
  BY <1>3, <1>4, <1>6, MissedView
<1> HIDE DEF Y
<1>7. H \in SUBSET View /\ \A y \in H : InTouch(y, u.seq, u.alarms)
  BY <1>1, <1>5, <1>6
<1>8. u.sent + 1 \in Nat
  BY DEF Handler
<1>9. /\ t \in Handler /\ t.heard = H
      /\ t.alarms = u.alarms /\ t.tca = u.tca /\ t.seq = u.seq /\ t.interval = u.interval
      /\ t.age = u.age /\ t.arc = u.arc
  BY <1>2, <1>7, <1>8 DEF Handler
<1>10. QED BY <1>7, <1>9 DEF Heard

\* notifyAlarmLocked, all outcomes.
LEMMA NotifyFact ==
  ASSUME NEW s, Handling(s), NEW k \in Keys, NEW b \in SUBSET Bits,
         NEW t, t = notifyAlarm(s, k, b)
  PROVE  /\ Handling(t) /\ t.tca = s.tca
         /\ t.alarms[k] = b /\ \A q \in Keys \ {k} : t.alarms[q] = s.alarms[q]
<1>1. s \in Handler
  BY DEF Handling
<1>2. PICK u : u = [s EXCEPT !.alarms[k] = b]
  OBVIOUS
<1>3. /\ u \in Handler
      /\ u.tca = s.tca /\ u.seq = s.seq /\ u.interval = s.interval /\ u.age = s.age
      /\ u.arc = s.arc /\ u.sent = s.sent /\ u.heard = s.heard
      /\ u.alarms[k] = b /\ \A q \in Keys \ {k} : u.alarms[q] = s.alarms[q]
  <2>1. PICK f : f = [s.alarms EXCEPT ![k] = b]
    OBVIOUS
  <2>2. f \in [Keys -> SUBSET Bits] /\ f[k] = b /\ \A q \in Keys \ {k} : f[q] = s.alarms[q]
    BY <1>1, <2>1 DEF Handler
  <2>3. u = [s EXCEPT !.alarms = f]
    BY <1>1, <1>2, <2>1 DEF Handler
  <2>4. u \in Handler /\ u.alarms = f
    BY <1>1, <2>2, <2>3 DEF Handler
  <2>5. /\ u.tca = s.tca /\ u.seq = s.seq /\ u.interval = s.interval /\ u.age = s.age
        /\ u.arc = s.arc /\ u.sent = s.sent /\ u.heard = s.heard
    BY <1>1, <2>3 DEF Handler
  <2>6. QED BY <2>2, <2>4, <2>5
<1>4. PICK w : w = hush(u, k)
  OBVIOUS
<1>5. /\ w \in Handler /\ Heard(w)
      /\ w.alarms = u.alarms /\ w.tca = u.tca /\ w.seq = u.seq /\ w.interval = u.interval
      /\ w.age = u.age /\ w.arc = u.arc /\ w.sent = u.sent
  BY <1>3, <1>4, HushFact
<1>6. CASE s.alarms[k] = b
  <2>1. t = s
    BY <1>6 DEF notifyAlarm
  <2>2. QED BY <1>6, <2>1
<1>7. CASE s.alarms[k] # b /\ arcEnabled(s.arc, k)
  <2>1. PICK p \in Points : p = arcOwner(k) /\ s.arc[p]
    BY <1>7 DEF arcEnabled
  <2>2. t = pollARCKey(w, p)
    BY <1>2, <1>4, <1>7, <2>1 DEF notifyAlarm
  <2>3. /\ t \in Handler
        /\ t.alarms = w.alarms /\ t.tca = w.tca /\ t.seq = w.seq /\ t.heard = w.heard
        /\ \A q \in Points \ {p} : t.age[q] = w.age[q] /\ t.arc[q] = w.arc[q]
        /\ t.age[p] # Untimed => t.arc[p] /\ ~arcGroupHasAlarm(w.alarms, p)
    BY <1>5, <2>2, PollFact
  <2>4. Heard(t)
    BY <1>5, <2>3 DEF Heard
  <2>5. TimersQuiet(t)
    <3>1. ASSUME NEW q \in Points, t.age[q] # Untimed
          PROVE  t.arc[q] /\ \A x \in Keys : arcOwner(x) = q => t.alarms[x] = {}
      <4>1. CASE q = p
        BY <2>3, <3>1, <4>1 DEF arcGroupHasAlarm
      <4>2. CASE q # p
        <5>1. s.arc[q] /\ \A x \in Keys : arcOwner(x) = q => s.alarms[x] = {}
          BY <1>3, <1>5, <2>3, <3>1, <4>2 DEF Handling, TimersQuiet
        <5>2. \A x \in Keys : arcOwner(x) = q => t.alarms[x] = s.alarms[x]
          BY <1>3, <1>5, <2>1, <2>3, <4>2
        <5>3. QED BY <1>3, <1>5, <2>3, <4>2, <5>1, <5>2
      <4>3. QED BY <4>1, <4>2
    <3>2. QED BY <3>1 DEF TimersQuiet
  <2>6. QED BY <1>3, <1>5, <2>3, <2>4, <2>5 DEF Handling
<1>8. ASSUME ~arcEnabled(s.arc, k), NEW v, v.age = s.age, v.arc = s.arc,
             \A q \in Keys \ {k} : v.alarms[q] = s.alarms[q]
      PROVE  TimersQuiet(v)
  BY <1>8 DEF Handling, TimersQuiet, arcEnabled
<1>9. CASE s.alarms[k] # b /\ ~arcEnabled(s.arc, k) /\ notificationsSuppressed(k)
  <2>1. t = w
    BY <1>2, <1>4, <1>9 DEF notifyAlarm
  <2>2. TimersQuiet(t)
    BY <1>3, <1>5, <1>8, <1>9, <2>1
  <2>3. QED BY <1>3, <1>5, <2>1, <2>2 DEF Handling
<1>10. CASE s.alarms[k] # b /\ ~arcEnabled(s.arc, k) /\ ~notificationsSuppressed(k)
  <2>1. PICK n : n = nextAlarmSequence(s.seq)
    OBVIOUS
  <2>2. n \in 0..MaxSeq
    BY <1>1, <2>1, NextNumber, AlarmAssumption DEF Handler
  <2>3. PICK z : z = [u EXCEPT !.seq = n]
    OBVIOUS
  <2>4. /\ z \in Handler /\ z.seq = n /\ z.heard = s.heard /\ z.alarms = u.alarms
        /\ z.tca = s.tca /\ z.age = s.age /\ z.arc = s.arc
    BY <1>3, <2>2, <2>3 DEF Handler
  <2>5. t = alarmFrame(z, k)
    BY <1>2, <1>3, <1>10, <2>1, <2>3 DEF notifyAlarm, Handler
  <2>6. /\ t \in Handler /\ Heard(t)
        /\ t.alarms = z.alarms /\ t.tca = z.tca /\ t.age = z.age /\ t.arc = z.arc
    BY <1>3, <2>1, <2>4, <2>5, FrameFact
  <2>7. TimersQuiet(t)
    BY <1>3, <1>8, <1>10, <2>4, <2>6
  <2>8. QED BY <1>3, <2>4, <2>6, <2>7 DEF Handling
<1>11. QED BY <1>6, <1>7, <1>9, <1>10

-----------------------------------------------------------------------------
(* Threshold crossing alerts.                                              *)

\* The record of an alert changes nothing but itself.
Recorded(t, k, b) == [t EXCEPT !.tca[k] = b]

LEMMA RecordFact ==
  ASSUME NEW t, Handling(t), NEW k \in PMs, NEW b \in SUBSET PMBits,
         NEW v, v = Recorded(t, k, b)
  PROVE  /\ Handling(v) /\ v.alarms = t.alarms
         /\ v.tca[k] = b /\ \A q \in PMs \ {k} : v.tca[q] = t.tca[q]
<1>1. t \in Handler
  BY DEF Handling
<1>2. PICK f : f = [t.tca EXCEPT ![k] = b]
  OBVIOUS
<1>3. f \in [PMs -> SUBSET PMBits] /\ f[k] = b /\ \A q \in PMs \ {k} : f[q] = t.tca[q]
  BY <1>1, <1>2 DEF Handler
<1>4. v = [t EXCEPT !.tca = f]
  BY <1>1, <1>2 DEF Handler, Recorded
<1>5. v \in Handler /\ v.tca = f
  BY <1>1, <1>3, <1>4 DEF Handler
<1>6. /\ v.alarms = t.alarms /\ v.seq = t.seq /\ v.interval = t.interval /\ v.age = t.age
      /\ v.arc = t.arc /\ v.sent = t.sent /\ v.heard = t.heard
  BY <1>1, <1>4 DEF Handler
<1>7. TimersQuiet(v) /\ Heard(v)
  BY <1>6 DEF Handling, TimersQuiet, Heard
<1>8. QED BY <1>3, <1>5, <1>6, <1>7 DEF Handling

LEMMA BitsFact == PMs \subseteq Keys /\ PMBits \subseteq Bits
BY DEF Keys, Bits, PMBits

\* evaluatePerformanceTCALocked: an alert is on record only with its alarm in the table.
LEMMA EvaluateFact ==
  ASSUME TypeOK, AlarmInv, NEW s, Handling(s), Audited(s),
         NEW k \in existing, NEW x \in SUBSET PMBits,
         NEW v, v = evaluatePerformanceTCA(s, k, x)
  PROVE  Handling(v) /\ Audited(v)
<1>1. k \in PMs /\ k \in Keys
  BY BitsFact DEF TypeOK
<1>2. PICK b : b = s.tca[k] \cup x
  OBVIOUS
<1>3. b \in SUBSET PMBits /\ b \in SUBSET Bits
  BY <1>1, <1>2, BitsFact DEF Handling, Handler
<1>4. PICK t : t = notifyAlarm(s, k, b)
  OBVIOUS
<1>5. /\ Handling(t) /\ t.tca = s.tca
      /\ t.alarms[k] = b /\ \A q \in Keys \ {k} : t.alarms[q] = s.alarms[q]
  BY <1>1, <1>3, <1>4, NotifyFact
<1>6. Audited(t)
  BY <1>1, <1>2, <1>5, BitsFact DEF Audited
<1>7. v = s \/ v = t \/ v = Recorded(t, k, b)
  BY <1>2, <1>4 DEF evaluatePerformanceTCA, Recorded
<1>8. CASE v = Recorded(t, k, b)
  <2>1. /\ Handling(v) /\ v.alarms = t.alarms
        /\ v.tca[k] = b /\ \A q \in PMs \ {k} : v.tca[q] = t.tca[q]
    BY <1>1, <1>3, <1>5, <1>8, RecordFact
  <2>2. QED BY <1>5, <1>6, <2>1 DEF Audited
<1>9. QED BY <1>5, <1>6, <1>7, <1>8

LEMMA ClearFact ==
  ASSUME TypeOK, AlarmInv, NEW s, Handling(s), Audited(s), NEW k \in PMs,
         NEW v, v = clearPerformanceTCA(s, k)
  PROVE  Handling(v) /\ Audited(v)
<1>1. k \in Keys
  BY BitsFact
<1>2. PICK b : b = {}
  OBVIOUS
<1>3. b \in SUBSET PMBits /\ b \in SUBSET Bits
  BY <1>2
<1>4. PICK t : t = notifyAlarm(s, k, b)
  OBVIOUS
<1>5. /\ Handling(t) /\ t.tca = s.tca
      /\ t.alarms[k] = b /\ \A q \in Keys \ {k} : t.alarms[q] = s.alarms[q]
  BY <1>1, <1>3, <1>4, NotifyFact
<1>6. v = s \/ v = Recorded(t, k, b)
  BY <1>2, <1>4 DEF clearPerformanceTCA, Recorded
<1>7. CASE v = Recorded(t, k, b)
  <2>1. /\ Handling(v) /\ v.alarms = t.alarms
        /\ v.tca[k] = b /\ \A q \in PMs \ {k} : v.tca[q] = t.tca[q]
    BY <1>3, <1>5, <1>7, RecordFact
  <2>2. QED BY <1>2, <1>5, <2>1, BitsFact DEF Audited
<1>8. QED BY <1>6, <1>7

\* The last state of a run through the performance MEs, by induction over their order.
LEMMA OrderFact ==
  /\ Len(PMOrder) \in Nat
  /\ \A i \in 1..Len(PMOrder) : PMOrder[i] \in PMs
BY AlarmAssumption

LEMMA ClearAllFact ==
  ASSUME TypeOK, AlarmInv, NEW s, Handling(s), Audited(s),
         NEW v, v = clearPerformanceTCANotifications(s)
  PROVE  Handling(v) /\ Audited(v)
<1> DEFINE N == Len(PMOrder)
           after == clearedUpTo(s)
           Good(i) == Handling(after[i]) /\ Audited(after[i])
           S == {i \in Nat : i <= N => Good(i)}
<1>1. after[0] = s /\ \A i \in 1..N : after[i] = clearPerformanceTCA(after[i - 1], PMOrder[i])
  BY ClearedFact
<1> HIDE DEF after
<1>2. 0 \in S
  BY <1>1
<1>3. ASSUME NEW n \in Nat, n \in S PROVE n + 1 \in S
  <2>1. SUFFICES ASSUME n + 1 <= N PROVE Good(n + 1)
    OBVIOUS
  <2>2. n <= N /\ n + 1 \in 1..N /\ (n + 1) - 1 = n
    BY <2>1, OrderFact
  <2>3. Handling(after[n]) /\ Audited(after[n])
    BY <1>3, <2>2
  <2>4. after[n + 1] = clearPerformanceTCA(after[n], PMOrder[n + 1]) /\ PMOrder[n + 1] \in PMs
    BY <1>1, <2>2, OrderFact
  <2>5. QED BY <2>3, <2>4, ClearFact
<1>4. N \in S
  BY <1>2, <1>3, SetInduction, OrderFact
<1>5. Good(N)
  BY <1>4, OrderFact
<1>6. v = after[N]
  BY DEF clearPerformanceTCANotifications, after
<1>7. QED BY <1>5, <1>6

LEMMA EvaluateAllFact ==
  ASSUME TypeOK, AlarmInv, NEW s, Handling(s), Audited(s), NEW x \in Samples,
         NEW v, v = evaluatedUpTo(s, x)[Len(PMOrder)]
  PROVE  Handling(v) /\ Audited(v)
<1> DEFINE N == Len(PMOrder)
           after == evaluatedUpTo(s, x)
           Good(i) == Handling(after[i]) /\ Audited(after[i])
           S == {i \in Nat : i <= N => Good(i)}
<1>1. after[0] = s /\ \A i \in 1..N : after[i] = EvaluateOne(after[i - 1], PMOrder[i], x)
  BY EvaluatedFact
<1>2. v = after[N]
  OBVIOUS
<1> HIDE DEF after
<1>3. 0 \in S
  BY <1>1
<1>4. ASSUME NEW n \in Nat, n \in S PROVE n + 1 \in S
  <2>1. SUFFICES ASSUME n + 1 <= N PROVE Good(n + 1)
    OBVIOUS
  <2>2. n <= N /\ n + 1 \in 1..N /\ (n + 1) - 1 = n
    BY <2>1, OrderFact
  <2>3. Handling(after[n]) /\ Audited(after[n])
    BY <1>4, <2>2
  <2>4. PICK k \in PMs : k = PMOrder[n + 1]
    BY <2>2, OrderFact
  <2>5. after[n + 1] = EvaluateOne(after[n], k, x)
    BY <1>1, <2>2, <2>4
  <2>6. CASE k \notin existing
    BY <2>3, <2>5, <2>6 DEF EvaluateOne
  <2>7. CASE k \in existing
    <3>1. x[k] \in SUBSET PMBits
      BY <2>7 DEF Samples, PMBits
    <3>2. after[n + 1] = evaluatePerformanceTCA(after[n], k, x[k])
      BY <2>5, <2>7 DEF EvaluateOne
    <3>3. QED BY <2>3, <2>7, <3>1, <3>2, EvaluateFact
  <2>8. QED BY <2>6, <2>7
<1>5. N \in S
  BY <1>3, <1>4, SetInduction, OrderFact
<1>6. Good(N)
  BY <1>5, OrderFact
<1>7. QED BY <1>2, <1>6

-----------------------------------------------------------------------------
(* The end of a handler: its frames have arrived or are lost.              *)

LEMMA FinishFact ==
  ASSUME TypeOK, NEW s, Handling(s), Audited(s), Finish(s),
         existing' = existing, locked' = locked,
         armed' \in BOOLEAN, savedArc' \in [Points -> BOOLEAN]
  PROVE  TypeOK' /\ AlarmInv'
<1>1. /\ alarms' = s.alarms /\ tca' = s.tca /\ seq' = s.seq /\ age' = s.age
      /\ arc' = s.arc /\ interval' = s.interval
  BY DEF Finish
<1>2. PICK x \in s.heard : olt' = x.olt /\ hushed' = x.hushed
  BY DEF Finish
<1>3. s \in Handler /\ x \in View /\ InTouch(x, s.seq, s.alarms)
  BY <1>2 DEF Handling, Handler, Heard
<1>4. /\ s.seq \in 0..MaxSeq
      /\ s.alarms \in [Keys -> SUBSET Bits] /\ s.tca \in [PMs -> SUBSET PMBits]
      /\ s.age \in [Points -> Untimed..Oldest] /\ s.arc \in [Points -> BOOLEAN]
      /\ s.interval \in [Points -> Intervals]
  BY <1>3 DEF Handler
<1>5. olt' \in Observer /\ hushed' \subseteq Keys
  BY <1>2, <1>3 DEF View
<1>6. existing' \subseteq PMs /\ locked' \subseteq Lockable
  BY DEF TypeOK
<1>7. TypeOK'
  BY <1>1, <1>4, <1>5, <1>6 DEF TypeOK
<1>8. TimerMeansQuiet' /\ AlertIsAudited'
  BY <1>1 DEF Handling, TimersQuiet, Audited, TimerMeansQuiet, AlertIsAudited
<1>9. Numbered' /\ InStep'
  BY <1>1, <1>2, <1>3 DEF InTouch, Numbered, InStep
<1>10. QED BY <1>7, <1>8, <1>9 DEF AlarmInv

-----------------------------------------------------------------------------
(* The actions.                                                            *)

LEMMA UntimedFact ==
  /\ Untimed \in Untimed..Oldest
  /\ [p \in Points |-> Untimed] \in [Points -> Untimed..Oldest]
BY OldestFact DEF Untimed

\* After a reset the OLT knows nothing and no timer runs.
LEMMA InitFact ==
  ASSUME Init
  PROVE  TypeOK /\ AlarmInv
<1>1. /\ alarms \in [Keys -> SUBSET Bits] /\ tca \in [PMs -> SUBSET PMBits] /\ seq \in 0..MaxSeq
      /\ existing \subseteq PMs /\ locked \subseteq Lockable /\ hushed \subseteq Keys
      /\ interval \in [Points -> Intervals]
  BY AlarmAssumption DEF Init, Clear
<1>2. age \in [Points -> Untimed..Oldest] /\ olt \in Observer /\ ~olt.synced
  BY UntimedFact, LostFact DEF Init
<1>3. arc \in [Points -> BOOLEAN] /\ savedArc \in [Points -> BOOLEAN] /\ armed \in BOOLEAN
  BY Zenon DEF Init
<1>4. TypeOK
  BY <1>1, <1>2, <1>3 DEF TypeOK
<1>5. Numbered /\ InStep
  BY <1>2 DEF Numbered, InStep
<1>6. TimerMeansQuiet /\ AlertIsAudited
  BY DEF Init, TimerMeansQuiet, AlertIsAudited
<1>7. QED BY <1>4, <1>5, <1>6 DEF AlarmInv

\* A step that touches neither the alarms nor the observer.
LEMMA SideFact ==
  ASSUME TypeOK, AlarmInv, UNCHANGED <<alarms, tca, seq, olt, hushed>>
  PROVE  /\ Numbered' /\ InStep' /\ (existing \subseteq existing' => AlertIsAudited')
         /\ UNCHANGED <<age, arc>> => TimerMeansQuiet'
<1>1. Numbered' /\ InStep'
  BY DEF AlarmInv, Numbered, InStep
<1>2. existing \subseteq existing' => AlertIsAudited'
  BY DEF AlarmInv, AlertIsAudited
<1>3. UNCHANGED <<age, arc>> => TimerMeansQuiet'
  BY DEF AlarmInv, TimerMeansQuiet
<1>4. QED BY <1>1, <1>2, <1>3

\* MEs that go take their alerts and the OLT's knowledge of them along.
LEMMA DiscardFact ==
  ASSUME TypeOK, AlarmInv, NEW gone \in SUBSET PMs, NEW lost \in SUBSET PMs,
         discardTCA(gone), Forget(lost), gone \cap existing \subseteq lost, lost \subseteq gone,
         existing \ gone \subseteq existing', seq' = seq
  PROVE  /\ alarms' \in [Keys -> SUBSET Bits] /\ tca' \in [PMs -> SUBSET PMBits]
         /\ olt' \in Observer /\ hushed' \subseteq Keys
         /\ Numbered' /\ InStep' /\ AlertIsAudited'
         /\ \A k \in Keys : alarms'[k] = alarms[k] \/ alarms'[k] = {}
<1>1. alarms \in [Keys -> SUBSET Bits] /\ tca \in [PMs -> SUBSET PMBits] /\ olt \in Observer
      /\ hushed \subseteq Keys
  BY DEF TypeOK
<1>2. /\ alarms' \in [Keys -> SUBSET Bits] /\ tca' \in [PMs -> SUBSET PMBits]
      /\ \A k \in Keys : alarms'[k] = IF k \in gone /\ tca[k] # {} THEN {} ELSE alarms[k]
      /\ \A k \in PMs : tca'[k] = IF k \in gone THEN {} ELSE tca[k]
  BY <1>1 DEF discardTCA
<1>3. PICK f : f = [k \in Keys |-> IF k \in lost THEN {} ELSE olt.table[k]]
  OBVIOUS
<1>4. f \in [Keys -> SUBSET Bits] /\ \A k \in Keys : f[k] = IF k \in lost THEN {} ELSE olt.table[k]
  BY <1>1, <1>3 DEF Observer
<1>5. olt' = [olt EXCEPT !.table = f]
  BY <1>3 DEF Forget
<1>6. /\ olt' \in Observer /\ olt'.table = f
      /\ olt'.synced = olt.synced /\ olt'.seq = olt.seq /\ olt'.missed = olt.missed
  BY <1>1, <1>4, <1>5 DEF Observer
<1>7. hushed' = IF olt.synced THEN (hushed \ lost) \cup {k \in lost : alarms'[k] # {}} ELSE {}
  BY DEF Forget
<1>8. hushed' \subseteq Keys
  BY <1>1, <1>7, BitsFact
<1>9. Numbered'
  BY <1>6 DEF AlarmInv, Numbered
<1>10. InStep'
  <2>1. SUFFICES ASSUME olt.synced, olt.seq = seq, NEW k \in Keys \ hushed'
                 PROVE  f[k] = alarms'[k]
    BY <1>6 DEF InStep
  <2>2. CASE k \in lost
    BY <1>4, <1>7, <2>1, <2>2
  <2>3. CASE k \notin lost
    <3>1. k \notin hushed
      BY <1>7, <2>1, <2>3
    <3>2. olt.table[k] = alarms[k]
      BY <2>1, <3>1 DEF AlarmInv, InStep
    <3>3. k \in gone => tca[k] = {}
      BY <2>3 DEF AlarmInv, AlertIsAudited
    <3>4. QED BY <1>2, <1>4, <2>3, <3>2, <3>3
  <2>4. QED BY <2>2, <2>3
<1>11. AlertIsAudited'
  <2>1. ASSUME NEW k \in PMs, tca'[k] # {} PROVE k \in existing' /\ tca'[k] \subseteq alarms'[k]
    <3>1. k \notin gone /\ tca'[k] = tca[k] /\ k \in Keys
      BY <1>2, <2>1, BitsFact
    <3>2. k \in existing /\ tca[k] \subseteq alarms[k]
      BY <2>1, <3>1 DEF AlarmInv, AlertIsAudited
    <3>3. QED BY <1>2, <3>1, <3>2
  <2>2. QED BY <2>1 DEF AlertIsAudited
<1>12. QED BY <1>2, <1>6, <1>8, <1>9, <1>10, <1>11

LEMMA TickFact ==
  ASSUME TypeOK, AlarmInv, Tick
  PROVE  TypeOK' /\ AlarmInv'
<1>1. UNCHANGED <<alarms, tca, seq, armed, existing, arc, interval, locked, savedArc, olt, hushed>>
  BY DEF Tick, mib
<1>2. \A p \in Points : age'[p] \in Untimed..Oldest /\ (age'[p] # Untimed => age[p] # Untimed)
  <2>1. SUFFICES ASSUME NEW p \in Points
                 PROVE  age'[p] \in Untimed..Oldest /\ (age'[p] # Untimed => age[p] # Untimed)
    OBVIOUS
  <2>2. age[p] \in Untimed..Oldest
    BY DEF TypeOK
  <2>3. age'[p] = IF age[p] \in 0..(Oldest - 1) THEN age[p] + 1 ELSE age[p]
    BY DEF Tick
  <2>4. QED BY <2>2, <2>3, OldestFact DEF Untimed
<1>3. age' \in [Points -> Untimed..Oldest]
  <2>1. age' = [p \in Points |-> age'[p]]
    BY DEF Tick
  <2>2. QED BY <1>2, <2>1
<1>4. TypeOK'
  BY <1>1, <1>3 DEF TypeOK
<1>5. TimerMeansQuiet'
  BY <1>1, <1>2 DEF AlarmInv, TimerMeansQuiet
<1>6. Numbered' /\ InStep' /\ AlertIsAudited'
  BY <1>1, SideFact
<1>7. QED BY <1>4, <1>5, <1>6 DEF AlarmInv

LEMMA PollARCFact ==
  ASSUME TypeOK, AlarmInv, PollARC
  PROVE  TypeOK' /\ AlarmInv'
<1> DEFINE timed == {p \in Points : age[p] # Untimed}
<1>1. UNCHANGED <<alarms, tca, seq, armed, existing, interval, locked, savedArc, olt, hushed>>
  BY DEF PollARC
<1>2. PICK s : s = S0
  OBVIOUS
<1>3. s \in Handler /\ s.alarms = alarms /\ s.age = age /\ s.arc = arc
  BY <1>2, S0Fact DEF Handling, S0
<1>4. /\ age' = [p \in Points |-> IF p \in timed THEN pollARCKey(s, p).age[p] ELSE age[p]]
      /\ arc' = [p \in Points |-> IF p \in timed THEN pollARCKey(s, p).arc[p] ELSE arc[p]]
  BY <1>2 DEF PollARC
<1>5. \A p \in Points :
        /\ age'[p] \in Untimed..Oldest /\ arc'[p] \in BOOLEAN
        /\ age'[p] # Untimed => arc'[p] /\ ~arcGroupHasAlarm(alarms, p)
  <2>1. SUFFICES ASSUME NEW p \in Points
                 PROVE  /\ age'[p] \in Untimed..Oldest /\ arc'[p] \in BOOLEAN
                        /\ age'[p] # Untimed => arc'[p] /\ ~arcGroupHasAlarm(alarms, p)
    OBVIOUS
  <2>2. CASE p \in timed
    <3>1. PICK v : v = pollARCKey(s, p)
      OBVIOUS
    <3>2. v \in Handler /\ (v.age[p] # Untimed => v.arc[p] /\ ~arcGroupHasAlarm(s.alarms, p))
      BY <1>3, <3>1, PollFact
    <3>3. v.age[p] \in Untimed..Oldest /\ v.arc[p] \in BOOLEAN
      BY <3>2 DEF Handler
    <3>4. age'[p] = v.age[p] /\ arc'[p] = v.arc[p]
      BY <1>4, <2>2, <3>1
    <3>5. QED BY <1>3, <3>2, <3>3, <3>4
  <2>3. CASE p \notin timed
    <3>1. age'[p] = age[p] /\ arc'[p] = arc[p] /\ age[p] = Untimed
      BY <1>4, <2>3
    <3>2. QED BY <3>1 DEF TypeOK
  <2>4. QED BY <2>2, <2>3
<1>6. age' = [p \in Points |-> age'[p]] /\ arc' = [p \in Points |-> arc'[p]]
  BY <1>4
<1>7. age' \in [Points -> Untimed..Oldest] /\ arc' \in [Points -> BOOLEAN]
  BY <1>5, <1>6
<1>8. TypeOK'
  BY <1>1, <1>7 DEF TypeOK
<1>9. TimerMeansQuiet'
  BY <1>1, <1>5 DEF TimerMeansQuiet, arcGroupHasAlarm
<1>10. Numbered' /\ InStep' /\ AlertIsAudited'
  BY <1>1, SideFact
<1>11. QED BY <1>8, <1>9, <1>10 DEF AlarmInv

\* afterSetLocked: the Set may switch ARC on, then the group is evaluated and polled.
LEMMA SetArcFact ==
  ASSUME TypeOK, AlarmInv, NEW p \in Points, NEW on \in BOOLEAN, NEW i \in Intervals,
         NEW b \in SUBSET Codes[p], SetArc(p, on, i, b)
  PROVE  TypeOK' /\ AlarmInv'
<1>1. PICK f : f = [arc EXCEPT ![p] = on]
  OBVIOUS
<1>2. PICK g : g = [interval EXCEPT ![p] = i]
  OBVIOUS
<1>3. f \in [Points -> BOOLEAN] /\ g \in [Points -> Intervals] /\ \A q \in Points \ {p} : f[q] = arc[q]
  BY <1>1, <1>2 DEF TypeOK
<1>4. PICK s : s = [S0 EXCEPT !.arc = f, !.interval = g]
  OBVIOUS
<1>5. S0 \in Handler /\ TimersQuiet(S0) /\ Heard(S0) /\ Audited(S0)
  BY S0Fact DEF Handling
<1>6. s \in Handler /\ s.arc = f
  BY <1>3, <1>4, <1>5 DEF Handler
<1>7. /\ s.alarms = S0.alarms /\ s.tca = S0.tca /\ s.seq = S0.seq /\ s.age = S0.age
      /\ s.heard = S0.heard
  BY <1>4 DEF S0
<1>8. PICK z : z = trackARC(s, p)
  OBVIOUS
<1>9. PICK x \in Untimed..Oldest :
        x = IF ~s.arc[p] \/ arcGroupHasAlarm(s.alarms, p) THEN Untimed
            ELSE IF s.age[p] = Untimed THEN 0 ELSE s.age[p]
  <2>1. s.age[p] \in Untimed..Oldest /\ Untimed \in Untimed..Oldest /\ 0 \in Untimed..Oldest
    BY <1>6, OldestFact DEF Handler, Untimed
  <2>2. QED BY <2>1
<1>10. z = [s EXCEPT !.age[p] = x]
  BY <1>6, <1>8, <1>9 DEF trackARC, Handler
<1>11. /\ z \in Handler /\ z.alarms = s.alarms /\ z.tca = s.tca /\ z.seq = s.seq
       /\ z.heard = s.heard /\ z.arc = s.arc
       /\ z.age[p] = x /\ \A q \in Points \ {p} : z.age[q] = s.age[q]
  <2>1. s \in Handler /\ z = [s EXCEPT !.age[p] = x]
    BY <1>6, <1>10
  <2>2. z.age[p] = x
    BY <2>1 DEF Handler
  <2>3. QED BY <2>1, <2>2, AgeFact
<1>12. TimersQuiet(z)
  <2>1. ASSUME NEW q \in Points, z.age[q] # Untimed
        PROVE  z.arc[q] /\ \A k \in Keys : arcOwner(k) = q => z.alarms[k] = {}
    <3>1. CASE q = p
      <4>1. s.arc[p] /\ ~arcGroupHasAlarm(s.alarms, p)
        BY <1>9, <1>11, <2>1, <3>1
      <4>2. QED BY <1>11, <3>1, <4>1 DEF arcGroupHasAlarm
    <3>2. CASE q # p
      <4>1. S0.arc = arc
        BY DEF S0
      <4>2. QED BY <1>3, <1>5, <1>6, <1>7, <1>11, <2>1, <3>2, <4>1 DEF TimersQuiet
    <3>3. QED BY <3>1, <3>2
  <2>2. QED BY <2>1 DEF TimersQuiet
<1>13. Heard(z) /\ Audited(z)
  BY <1>5, <1>7, <1>11 DEF Heard, Audited
<1>14. Handling(z)
  BY <1>11, <1>12, <1>13 DEF Handling
<1>15. PICK t : t = notifyAlarm(z, p, b)
  OBVIOUS
<1>16. p \in Keys /\ p \notin PMs /\ b \in SUBSET Bits
  BY AlarmAssumption DEF Keys, Bits
<1>17. Handling(t) /\ t.tca = z.tca /\ \A q \in Keys \ {p} : t.alarms[q] = z.alarms[q]
  BY <1>14, <1>15, <1>16, NotifyFact
<1>18. PICK v : v = pollARCKey(t, p)
  OBVIOUS
<1>19. /\ v \in Handler
       /\ v.alarms = t.alarms /\ v.tca = t.tca /\ v.seq = t.seq /\ v.heard = t.heard
       /\ \A q \in Points \ {p} : v.age[q] = t.age[q] /\ v.arc[q] = t.arc[q]
       /\ v.age[p] # Untimed => v.arc[p] /\ ~arcGroupHasAlarm(t.alarms, p)
  BY <1>17, <1>18, PollFact DEF Handling
<1>20. TimersQuiet(v)
  <2>1. ASSUME NEW q \in Points, v.age[q] # Untimed
        PROVE  v.arc[q] /\ \A k \in Keys : arcOwner(k) = q => v.alarms[k] = {}
    <3>1. CASE q = p
      BY <1>19, <2>1, <3>1 DEF arcGroupHasAlarm
    <3>2. CASE q # p
      BY <1>17, <1>19, <2>1, <3>2 DEF Handling, TimersQuiet
    <3>3. QED BY <3>1, <3>2
  <2>2. QED BY <2>1 DEF TimersQuiet
<1>21. Heard(v)
  BY <1>17, <1>19 DEF Handling, Heard
<1>22. Audited(v)
  BY <1>13, <1>16, <1>17, <1>19, BitsFact DEF Audited
<1>23. Finish(v)
  BY <1>1, <1>2, <1>4, <1>8, <1>15, <1>18 DEF SetArc, S0
<1>24. /\ existing' = existing /\ locked' = locked /\ armed' \in BOOLEAN
       /\ savedArc' \in [Points -> BOOLEAN]
  BY <1>1, <1>3 DEF SetArc, TypeOK
<1>25. Handling(v)
  BY <1>19, <1>20, <1>21 DEF Handling
<1>26. QED BY <1>22, <1>23, <1>24, <1>25, FinishFact

\* Alarms that come and go: events, new thresholds, polls and time synchronization.
LEMMA NotifyAlarmFact ==
  ASSUME TypeOK, AlarmInv, NEW k \in Points \cup Equipment, NEW b \in SUBSET Codes[k],
         NotifyAlarm(k, b) \/ SetThreshold(k, b)
  PROVE  TypeOK' /\ AlarmInv'
<1>1. k \in Keys /\ k \notin PMs /\ b \in SUBSET Bits
  BY AlarmAssumption DEF Keys, Bits
<1>2. PICK s : s = S0
  OBVIOUS
<1>3. PICK t : t = notifyAlarm(s, k, b)
  OBVIOUS
<1>4. Handling(s) /\ Audited(s)
  BY <1>2, S0Fact
<1>5. Handling(t) /\ t.tca = s.tca /\ \A q \in Keys \ {k} : t.alarms[q] = s.alarms[q]
  BY <1>1, <1>3, <1>4, NotifyFact
<1>6. Audited(t)
  BY <1>1, <1>4, <1>5, BitsFact DEF Audited
<1>7. /\ Finish(t) /\ existing' = existing /\ locked' = locked /\ armed' \in BOOLEAN
      /\ savedArc' \in [Points -> BOOLEAN]
  BY <1>2, <1>3 DEF NotifyAlarm, SetThreshold, TypeOK
<1>8. QED BY <1>5, <1>6, <1>7, FinishFact

LEMMA PollPerformanceFact ==
  ASSUME TypeOK, AlarmInv,
         \/ \E boundary \in BOOLEAN, sample \in Samples : PollPerformance(boundary, sample)
         \/ PollLate \/ SynchronizeTime
  PROVE  TypeOK' /\ AlarmInv'
<1>1. Handling(S0) /\ Audited(S0)
  BY S0Fact
<1>2. \E s : Handling(s) /\ Audited(s) /\ Finish(s)
  <2>1. CASE \E boundary \in BOOLEAN, sample \in Samples : PollPerformance(boundary, sample)
    <3>1. PICK boundary \in BOOLEAN, sample \in Samples : PollPerformance(boundary, sample)
      BY <2>1
    <3>2. PICK s : s = evaluatedUpTo(S0, sample)[Len(PMOrder)]
      OBVIOUS
    <3>3. PICK t : t = clearPerformanceTCANotifications(s)
      OBVIOUS
    <3>4. Handling(s) /\ Audited(s)
      BY <1>1, <3>2, EvaluateAllFact
    <3>5. Handling(t) /\ Audited(t)
      BY <3>3, <3>4, ClearAllFact
    <3>6. Finish(s) \/ Finish(t)
      BY <3>1, <3>2, <3>3 DEF PollPerformance
    <3>7. QED BY <3>4, <3>5, <3>6
  <2>2. CASE PollLate \/ SynchronizeTime
    <3>1. PICK t : t = clearPerformanceTCANotifications(S0)
      OBVIOUS
    <3>2. Handling(t) /\ Audited(t)
      BY <1>1, <3>1, ClearAllFact
    <3>3. QED BY <2>2, <3>1, <3>2 DEF PollLate, SynchronizeTime
  <2>3. QED BY <2>1, <2>2
<1>3. PICK s : Handling(s) /\ Audited(s) /\ Finish(s)
  BY <1>2
<1>4. /\ existing' = existing /\ locked' = locked
      /\ savedArc' \in [Points -> BOOLEAN]
  BY DEF PollPerformance, PollLate, SynchronizeTime, TypeOK
<1>5. armed' \in BOOLEAN
  BY Zenon DEF PollPerformance, PollLate, SynchronizeTime, TypeOK
<1>6. QED BY <1>3, <1>4, <1>5, FinishFact

LEMMA ConfigureFact ==
  ASSUME TypeOK, AlarmInv,
         FirstPoll \/ (\E l \in Lockable : SetAdministrativeState(l)) \/ \E k \in PMs : CreatePM(k)
  PROVE  TypeOK' /\ AlarmInv'
<1>1. UNCHANGED <<alarms, tca, seq, age, arc, interval, olt, hushed>> /\ existing \subseteq existing'
  BY DEF FirstPoll, SetAdministrativeState, CreatePM, engine, mib
<1>2. existing' \subseteq PMs /\ locked' \subseteq Lockable
  BY DEF FirstPoll, SetAdministrativeState, CreatePM, mib, TypeOK
<1>3. armed' \in BOOLEAN
  BY Zenon DEF FirstPoll, SetAdministrativeState, CreatePM, engine, TypeOK
<1>4. savedArc' \in [Points -> BOOLEAN]
  BY DEF FirstPoll, SetAdministrativeState, CreatePM, mib, TypeOK
<1>5. TypeOK'
  BY <1>1, <1>2, <1>3, <1>4 DEF TypeOK
<1>6. QED BY <1>1, <1>5, SideFact DEF AlarmInv

LEMMA DeletePMFact ==
  ASSUME TypeOK, AlarmInv, NEW k \in PMs, DeletePM(k)
  PROVE  TypeOK' /\ AlarmInv'
<1>1. PICK gone \in SUBSET PMs : gone = {k}
  OBVIOUS
<1>2. /\ discardTCA(gone) /\ Forget(gone) /\ existing' = existing \ gone
      /\ UNCHANGED <<seq, age, armed, arc, interval, locked>> /\ savedArc' = arc
  BY <1>1 DEF DeletePM
<1>3. /\ alarms' \in [Keys -> SUBSET Bits] /\ tca' \in [PMs -> SUBSET PMBits]
      /\ olt' \in Observer /\ hushed' \subseteq Keys
      /\ Numbered' /\ InStep' /\ AlertIsAudited'
      /\ \A q \in Keys : alarms'[q] = alarms[q] \/ alarms'[q] = {}
  BY <1>2, DiscardFact
<1>4. TypeOK'
  BY <1>2, <1>3 DEF TypeOK
<1>5. TimerMeansQuiet'
  BY <1>2, <1>3 DEF AlarmInv, TimerMeansQuiet
<1>6. QED BY <1>3, <1>4, <1>5 DEF AlarmInv

LEMMA MibResetFact ==
  ASSUME TypeOK, AlarmInv, MibReset
  PROVE  TypeOK' /\ AlarmInv'
<1>1. PICK gone \in SUBSET PMs : gone = PMs
  OBVIOUS
<1>2. /\ discardTCA(gone) /\ Forget(existing) /\ existing' = {} /\ locked' = {}
      /\ seq' = seq /\ age' = [p \in Points |-> Untimed]
      /\ interval' = [p \in Points |-> 0]
  BY <1>1 DEF MibReset
<1>3. /\ alarms' \in [Keys -> SUBSET Bits] /\ tca' \in [PMs -> SUBSET PMBits]
      /\ olt' \in Observer /\ hushed' \subseteq Keys
      /\ Numbered' /\ InStep' /\ AlertIsAudited'
  <2>1. existing \in SUBSET PMs
    BY DEF TypeOK
  <2>2. gone \cap existing \subseteq existing /\ existing \subseteq gone /\ existing \ gone \subseteq existing'
    BY <1>1, <2>1
  <2>3. QED BY <1>2, <2>1, <2>2, DiscardFact
<1>4. arc' \in [Points -> BOOLEAN] /\ savedArc' \in [Points -> BOOLEAN] /\ armed' \in BOOLEAN
  BY Zenon DEF MibReset
<1>5. /\ age' \in [Points -> Untimed..Oldest] /\ interval' \in [Points -> Intervals]
      /\ seq' \in 0..MaxSeq /\ existing' \subseteq PMs /\ locked' \subseteq Lockable
  BY <1>2, UntimedFact, AlarmAssumption DEF TypeOK
<1>6. TypeOK'
  BY <1>3, <1>4, <1>5 DEF TypeOK
<1>7. TimerMeansQuiet'
  BY <1>2 DEF TimerMeansQuiet
<1>8. QED BY <1>3, <1>6, <1>7 DEF AlarmInv

LEMMA GetAllAlarmsFact ==
  ASSUME TypeOK, AlarmInv, NEW mode, GetAllAlarms(mode)
  PROVE  TypeOK' /\ AlarmInv'
<1> DEFINE skipped == {k \in Keys : mode = 1 /\ arcEnabled(arc, k)}
<1>1. PICK f : f = [k \in Keys |-> IF k \in skipped THEN {} ELSE alarms[k]]
  OBVIOUS
<1>2. /\ UNCHANGED <<alarms, tca, age, armed, existing, arc, interval, locked, savedArc>>
      /\ seq' = 0 /\ hushed' = {k \in skipped : alarms[k] # {}}
  BY DEF GetAllAlarms, mib
<1>3. olt' = [synced |-> TRUE, seq |-> 0, missed |-> 0, table |-> f]
  BY <1>1 DEF GetAllAlarms
<1>4. /\ f \in [Keys -> SUBSET Bits] /\ 0 \in 0..MaxSeq /\ 0 \in 0..(MaxSeq - 1)
      /\ \A k \in Keys : f[k] = IF k \in skipped THEN {} ELSE alarms[k]
  BY <1>1, AlarmAssumption DEF TypeOK
<1>5. ASSUME NEW c \in BOOLEAN
      PROVE  [synced |-> c, seq |-> 0, missed |-> 0, table |-> f] \in Observer
  BY <1>4 DEF Observer
<1>6. olt' \in Observer
  BY <1>3, <1>5, Zenon
<1>7. olt'.seq = 0 /\ olt'.missed = 0 /\ olt'.table = f
  BY <1>3
<1>8. TypeOK'
  BY <1>2, <1>4, <1>6 DEF TypeOK
<1>9. Numbered'
  BY <1>2, <1>7, AlarmAssumption DEF Numbered, advanced
<1>10. InStep'
  BY <1>2, <1>4, <1>7 DEF InStep
<1>11. TimerMeansQuiet' /\ AlertIsAudited'
  BY <1>2 DEF AlarmInv, TimerMeansQuiet, AlertIsAudited
<1>12. QED BY <1>8, <1>9, <1>10, <1>11 DEF AlarmInv

LEMMA SessionFact ==
  ASSUME TypeOK, AlarmInv, ResetCommunicationSession
  PROVE  TypeOK' /\ AlarmInv'
<1>1. /\ UNCHANGED <<alarms, tca, age, armed, existing, arc, interval, locked, savedArc>>
      /\ seq' = 0 /\ hushed' = {} /\ olt' = Lost
  BY DEF ResetCommunicationSession, mib
<1>2. olt' \in Observer /\ ~olt'.synced /\ 0 \in 0..MaxSeq
  BY <1>1, LostFact, AlarmAssumption
<1>3. TypeOK'
  BY <1>1, <1>2 DEF TypeOK
<1>4. Numbered' /\ InStep'
  BY <1>2 DEF Numbered, InStep
<1>5. TimerMeansQuiet' /\ AlertIsAudited'
  BY <1>1 DEF AlarmInv, TimerMeansQuiet, AlertIsAudited
<1>6. QED BY <1>3, <1>4, <1>5 DEF AlarmInv

LEMMA RestartFact ==
  ASSUME TypeOK, AlarmInv, Restart
  PROVE  TypeOK' /\ AlarmInv'
<1>1. UNCHANGED <<existing, interval, locked, savedArc>> /\ arc' = savedArc
  BY DEF Restart
<1>2. CASE RestoreAccepted
  <2>1. UNCHANGED <<alarms, tca, seq, age, armed, olt, hushed, arc>>
    BY <1>1, <1>2 DEF Restart, RestoreAccepted, engine
  <2>2. TypeOK'
    BY <1>1, <2>1 DEF TypeOK
  <2>3. QED BY <1>1, <2>1, <2>2, SideFact DEF AlarmInv
<1>3. CASE ~RestoreAccepted
  <2>1. /\ alarms' = Clear /\ tca' = [k \in PMs |-> {}] /\ seq' = 0
        /\ age' = [p \in Points |-> Untimed] /\ olt' = Lost /\ hushed' = {}
    BY <1>3 DEF Restart
  <2>2. armed' \in BOOLEAN
    BY <1>3, Zenon DEF Restart
  <2>3. /\ alarms' \in [Keys -> SUBSET Bits] /\ tca' \in [PMs -> SUBSET PMBits] /\ seq' \in 0..MaxSeq
        /\ age' \in [Points -> Untimed..Oldest] /\ hushed' \subseteq Keys
    BY <2>1, UntimedFact, AlarmAssumption DEF Clear
  <2>4. olt' \in Observer /\ ~olt'.synced
    BY <2>1, LostFact
  <2>5. TypeOK'
    BY <1>1, <2>2, <2>3, <2>4 DEF TypeOK
  <2>6. Numbered' /\ InStep' /\ TimerMeansQuiet' /\ AlertIsAudited'
    BY <2>1, <2>4 DEF Numbered, InStep, TimerMeansQuiet, AlertIsAudited
  <2>7. QED BY <2>5, <2>6 DEF AlarmInv
<1>4. QED BY <1>2, <1>3

-----------------------------------------------------------------------------
(* The theorems.                                                           *)

\* Types, the sequence number and the invariants of the alarm table hold in every state:
\* alarms, ARC timers, alerts and resets of internal/engine in any order, frames lost.
THEOREM Alarms == Spec => [](TypeOK /\ AlarmInv)
<1>1. Init => TypeOK /\ AlarmInv
  BY InitFact
<1>2. TypeOK /\ AlarmInv /\ [Next]_vars => TypeOK' /\ AlarmInv'
  <2>1. SUFFICES ASSUME TypeOK, AlarmInv, [Next]_vars PROVE TypeOK' /\ AlarmInv'
    OBVIOUS
  <2>2. CASE \E k \in Points \cup Equipment : \E b \in SUBSET Codes[k] : NotifyAlarm(k, b)
    BY <2>1, <2>2, NotifyAlarmFact
  <2>3. CASE Tick BY <2>1, <2>3, TickFact
  <2>4. CASE PollARC BY <2>1, <2>4, PollARCFact
  <2>5. CASE FirstPoll BY <2>1, <2>5, ConfigureFact
  <2>6. CASE \E boundary \in BOOLEAN, sample \in Samples : PollPerformance(boundary, sample)
    BY <2>1, <2>6, PollPerformanceFact
  <2>7. CASE PollLate BY <2>1, <2>7, PollPerformanceFact
  <2>8. CASE \E p \in Points : \E b \in SUBSET Codes[p] :
               SetThreshold(p, b) \/ \E on \in BOOLEAN, i \in Intervals : SetArc(p, on, i, b)
    <3>1. PICK p \in Points :
            \E b \in SUBSET Codes[p] :
              SetThreshold(p, b) \/ \E on \in BOOLEAN, i \in Intervals : SetArc(p, on, i, b)
      BY <2>8
    <3>2. PICK b \in SUBSET Codes[p] :
            SetThreshold(p, b) \/ \E on \in BOOLEAN, i \in Intervals : SetArc(p, on, i, b)
      BY <3>1
    <3>3. CASE SetThreshold(p, b) BY <2>1, <3>3, NotifyAlarmFact
    <3>4. CASE \E on \in BOOLEAN, i \in Intervals : SetArc(p, on, i, b)
      BY <2>1, <3>4, SetArcFact
    <3>5. QED BY <3>2, <3>3, <3>4
  <2>9. CASE \E l \in Lockable : SetAdministrativeState(l) BY <2>1, <2>9, ConfigureFact
  <2>10. CASE \E k \in PMs : CreatePM(k) \/ DeletePM(k)
    <3>1. CASE \E k \in PMs : CreatePM(k) BY <2>1, <3>1, ConfigureFact
    <3>2. CASE \E k \in PMs : DeletePM(k) BY <2>1, <3>2, DeletePMFact
    <3>3. QED BY <2>10, <3>1, <3>2
  <2>11. CASE MibReset BY <2>1, <2>11, MibResetFact
  <2>12. CASE SynchronizeTime BY <2>1, <2>12, PollPerformanceFact
  <2>13. CASE \E mode \in {0, 1} : GetAllAlarms(mode) BY <2>1, <2>13, GetAllAlarmsFact
  <2>14. CASE ResetCommunicationSession BY <2>1, <2>14, SessionFact
  <2>15. CASE Restart BY <2>1, <2>15, RestartFact
  <2>16. CASE UNCHANGED vars
    <3>1. UNCHANGED <<alarms, tca, seq, age, armed, existing, arc, interval, locked, savedArc,
                      olt, hushed>>
      BY <2>16 DEF vars, engine, mib
    <3>2. TypeOK'
      BY <2>1, <3>1 DEF TypeOK
    <3>3. QED BY <2>1, <3>1, <3>2, SideFact DEF AlarmInv
  <2>17. QED
    BY <2>1, <2>2, <2>3, <2>4, <2>5, <2>6, <2>7, <2>8, <2>9, <2>10, <2>11, <2>12, <2>13, <2>14,
       <2>15, <2>16 DEF Next
<1>3. QED BY <1>1, <1>2, PTL DEF Spec

\* Every variable of the alarm table keeps its type; the numbers stay within 0..MaxSeq.
THEOREM TypeCorrect == Spec => []TypeOK
BY Alarms, PTL

\* notifyAlarmLocked reports every change that no lock and no ARC covers: an OLT with the
\* ONU's sequence number knows the table.
THEOREM Known == Spec => []InStep
<1>1. AlarmInv => InStep
  BY DEF AlarmInv
<1>2. QED BY Alarms, <1>1, PTL

\* nextAlarmSequence advances with the frames and with nothing else: no gap without a loss.
THEOREM Gapless == Spec => []NoFalseGap
<1>1. TypeOK /\ AlarmInv => NoFalseGap
  BY AlarmAssumption DEF AlarmInv, Numbered, NoFalseGap, TypeOK, Observer, advanced
<1>2. QED BY Alarms, <1>1, PTL

\* pollARCKeyLocked lets a problem-free timer run only under ARC, in a group without alarms.
THEOREM QuietTimers == Spec => []TimerMeansQuiet
<1>1. AlarmInv => TimerMeansQuiet
  BY DEF AlarmInv
<1>2. QED BY Alarms, <1>1, PTL

\* An alert on record belongs to an existing performance ME and is in the alarm table.
THEOREM AuditedAlerts == Spec => []AlertIsAudited
<1>1. AlarmInv => AlertIsAudited
  BY DEF AlarmInv
<1>2. QED BY Alarms, <1>1, PTL
=============================================================================
