------------------------- MODULE SectionWindowProofs -------------------------
(***************************************************************************)
(* For every image, window size, number of transaction identifiers from    *)
(* two up and number of faults: type correctness of SectionWindow and      *)
(* SinkIsPrefix, the claim that the sink receives the image in order.      *)
(***************************************************************************)
EXTENDS SectionWindow, TLAPS

Data == ToSet(Image)
EngType == [window : Seq(Data), expected : 0 .. WindowSize - 1,
            failed : BOOLEAN, received : Seq(Data)]

OltType == [st : {"window", "send", "await", "done"}, base : 0 .. Len(Image),
            size : 0 .. WindowSize, pos : 0 .. WindowSize, tci : 0 .. Tcis - 1]

\* The next window has another transaction identifier.
LEMMA NewTci ==
  ASSUME NEW t \in 0 .. Tcis - 1
  PROVE  (t + 1) % Tcis # t /\ (t + 1) % Tcis \in 0 .. Tcis - 1
<1> USE WindowAssumption
<1> DEFINE q == (t + 1) \div Tcis
           r == (t + 1) % Tcis
<1>1. q \in Int /\ r \in 0 .. Tcis - 1 /\ t + 1 = Tcis * q + r
  OBVIOUS
<1> HIDE DEF q, r
<1>2. ASSUME r = t PROVE FALSE
  <2>1. Tcis * q \in Int /\ Tcis * q = 1
    BY <1>1, <1>2
  <2>2. CASE q <= 0
    BY <1>1, <2>1, <2>2
  <2>3. CASE q >= 1
    <3>1. Tcis * q >= Tcis * 1
      BY <1>1, <2>3
    <3>2. QED BY <2>1, <3>1
  <2>4. QED BY <1>1, <2>2, <2>3
<1>3. QED BY <1>1, <1>2 DEF r

\* The section the OLT sends is one of its window.
LEMMA SectionFact ==
  ASSUME TypeOK, SectionInv, olt.st = "send"
  PROVE  /\ section \in Section
         /\ section.number = olt.pos /\ section.data = Image[olt.base + olt.pos + 1]
         /\ section.acked <=> olt.pos = olt.size - 1
         /\ section.tci = olt.tci
         /\ olt.base + olt.pos < Len(Image)
<1> USE WindowAssumption
<1>1. /\ olt.base \in Nat /\ olt.pos \in Nat /\ olt.size \in 0 .. WindowSize
      /\ olt.tci \in 0 .. Tcis - 1
      /\ olt.pos < olt.size /\ olt.base + olt.size <= Len(Image)
      /\ Len(Image) \in Nat /\ DOMAIN Image = 1 .. Len(Image)
  BY DEF TypeOK, SectionInv
<1>2. olt.base + olt.pos + 1 \in DOMAIN Image /\ olt.pos \in 0 .. WindowSize - 1
  <2>1. olt.size \in Nat /\ olt.size <= WindowSize /\ WindowSize \in Nat
    BY <1>1
  <2>2. olt.base + olt.pos + 1 \in 1 .. Len(Image)
    BY <1>1, <2>1
  <2>3. olt.pos \in 0 .. WindowSize - 1
    BY <1>1, <2>1
  <2>4. QED BY <1>1, <2>2, <2>3
<1>3. Image[olt.base + olt.pos + 1] \in ToSet(Image)
  BY <1>2, WindowAssumption
<1>4. (olt.pos = olt.size - 1) \in BOOLEAN
  OBVIOUS
<1>5. section \in Section
  BY <1>1, <1>2, <1>3, <1>4 DEF section, Section
<1>6. /\ section.number = olt.pos /\ section.data = Image[olt.base + olt.pos + 1]
      /\ section.tci = olt.tci
  BY DEF section
<1>7. section.acked <=> olt.pos = olt.size - 1
  BY Zenon DEF section
<1>8. olt.base + olt.pos < Len(Image)
  BY <1>1
<1>9. QED BY <1>5, <1>6, <1>7, <1>8

\* downloadSoftwareSection of a section without response: ignored in a failed window, kept
\* when it is the expected one, and otherwise the failure of the window.
LEMMA OneWayFact ==
  ASSUME TypeOK, SectionInv, olt.st = "send", ~Answered, ~section.acked, ~repeated(section),
         NEW e, e = afterSection(eng, section)
  PROVE  /\ e \in EngType /\ Len(e.window) < WindowSize /\ e.received = eng.received
         /\ \/ eng.failed /\ e = eng
            \/ /\ ~eng.failed /\ eng.expected = olt.pos /\ ~e.failed
               /\ e.window = Append(eng.window, section.data) /\ e.expected = olt.pos + 1
            \/ ~eng.failed /\ e.failed /\ e.window = <<>> /\ e.expected = 0 /\ olt.pos # 0
<1> USE WindowAssumption
<1>1. /\ section.number = olt.pos /\ section.data \in Data
      /\ olt.base + olt.pos < Len(Image) /\ olt.pos # olt.size - 1
  BY SectionFact DEF Section, Data
<1>2. /\ eng \in EngType /\ Len(eng.window) < WindowSize
      /\ olt.base \in Nat /\ olt.pos \in Nat /\ olt.size \in 0 .. WindowSize
      /\ olt.pos < olt.size /\ Len(Image) \in Nat
  BY DEF TypeOK, EngType, Data, SectionInv
<1>3. /\ Len(eng.received) = olt.base
      /\ eng.failed => olt.pos # 0
      /\ ~eng.failed => Len(eng.window) = eng.expected /\ eng.expected <= olt.pos
  BY DEF SectionInv, Collecting, Holds, repeated
<1>4. reopened(eng, section) = eng
  BY <1>1, <1>3 DEF reopened
<1>5. CASE eng.failed
  <2>1. e = eng
    BY <1>4, <1>5 DEF afterSection
  <2>2. QED BY <1>2, <1>5, <2>1
<1>6. CASE ~eng.failed /\ eng.expected = olt.pos
  <2>1. inOrder(eng, section) /\ fits(eng)
    BY <1>1, <1>2, <1>3, <1>6 DEF inOrder, fits, EngType
  <2>2. ~(eng.expected + 1 >= WindowSize)
    BY <1>1, <1>2, <1>6
  <2> DEFINE w == Append(eng.window, section.data)
  <2>3. w \in Seq(Data) /\ Len(w) = Len(eng.window) + 1
    BY <1>1, <1>2 DEF EngType
  <2>4. e = [eng EXCEPT !.window = w, !.expected = @ + 1]
    BY <1>4, <1>6, <2>1, <2>2 DEF afterSection
  <2> HIDE DEF w
  <2>5. /\ e.window = w /\ e.expected = olt.pos + 1 /\ e.failed = eng.failed
        /\ e.received = eng.received
    BY <1>2, <1>6, <2>4 DEF EngType
  <2>6. Len(w) < WindowSize /\ olt.pos + 1 \in 0 .. WindowSize - 1
    BY <1>1, <1>2, <1>3, <1>6, <2>2, <2>3
  <2>7. e \in EngType
    BY <1>2, <1>6, <2>3, <2>4, <2>6 DEF EngType
  <2>8. QED BY <1>6, <2>5, <2>6, <2>7 DEF w
<1>7. CASE ~eng.failed /\ eng.expected # olt.pos
  <2>1. ~inOrder(eng, section)
    BY <1>1, <1>7 DEF inOrder
  <2>2. e = [eng EXCEPT !.window = <<>>, !.expected = 0, !.failed = ~section.acked]
    BY <1>4, <1>7, <2>1 DEF afterSection, rejectSoftwareWindow
  <2>3. /\ e.window = <<>> /\ e.expected = 0 /\ e.failed
        /\ e.received = eng.received
    BY <1>2, <2>2 DEF EngType
  <2>4. e \in EngType /\ Len(e.window) < WindowSize
    <3>1. <<>> \in Seq(Data) /\ 0 \in 0 .. WindowSize - 1 /\ Len(<<>>) = 0
      OBVIOUS
    <3>2. ASSUME NEW b \in BOOLEAN
          PROVE  [eng EXCEPT !.window = <<>>, !.expected = 0, !.failed = b] \in EngType
      BY <1>2, <3>1 DEF EngType
    <3>3. e \in EngType
      BY <2>2, <3>2, Zenon
    <3>4. QED BY <2>3, <3>1, <3>3
  <2>5. olt.pos # 0
    BY <1>2, <1>3, <1>7 DEF EngType
  <2>6. QED BY <1>7, <2>3, <2>4, <2>5
<1>8. QED BY <1>5, <1>6, <1>7

\* The engine between windows, as a value.
LEMMA ResetFact ==
  ASSUME NEW e \in EngType, NEW w \in Seq(Data)
  PROVE  /\ [e EXCEPT !.window = <<>>, !.expected = 0, !.failed = FALSE] \in EngType
         /\ [e EXCEPT !.window = <<>>, !.expected = 0, !.failed = FALSE, !.received = w] \in EngType
<1>1. <<>> \in Seq(Data) /\ 0 \in 0 .. WindowSize - 1
  BY WindowAssumption
<1>2. ASSUME NEW b \in BOOLEAN
      PROVE  /\ [e EXCEPT !.window = <<>>, !.expected = 0, !.failed = b] \in EngType
             /\ [e EXCEPT !.window = <<>>, !.expected = 0, !.failed = b, !.received = w] \in EngType
  BY <1>1 DEF EngType
<1>3. QED BY <1>2, Zenon

\* Concatenation, place by place.
LEMMA ConcatFact ==
  ASSUME NEW S, NEW a \in Seq(S), NEW b \in Seq(S)
  PROVE  /\ a \o b \in Seq(S) /\ Len(a \o b) = Len(a) + Len(b)
         /\ \A i \in 1 .. Len(a) + Len(b) :
              (a \o b)[i] = IF i <= Len(a) THEN a[i] ELSE b[i - Len(a)]
OBVIOUS

\* One more section of the image at the end of a window.
LEMMA AppendFact ==
  ASSUME NEW q \in Seq(Data), NEW d \in Data, NEW b \in Nat, NEW n \in Nat,
         Holds(q, b, n), d = Image[b + n + 1]
  PROVE  Append(q, d) \in Seq(Data) /\ Holds(Append(q, d), b, n + 1)
<1>1. Len(q) = n /\ \A i \in 1 .. n : q[i] = Image[b + i]
  BY DEF Holds
<1> DEFINE w == Append(q, d)
<1>2. /\ w \in Seq(Data) /\ Len(w) = n + 1 /\ w[n + 1] = d
      /\ \A i \in 1 .. n : w[i] = q[i]
  BY <1>1
<1> HIDE DEF w
<1>3. ASSUME NEW i \in 1 .. n + 1 PROVE w[i] = Image[b + i]
  <2>1. CASE i = n + 1
    <3>1. b + n + 1 = b + (n + 1) OBVIOUS
    <3>2. QED BY <1>2, <2>1, <3>1
  <2>2. CASE i # n + 1
    <3>1. i \in 1 .. n BY <2>2
    <3>2. QED BY <1>1, <1>2, <3>1
  <2>3. QED BY <2>1, <2>2
<1>4. Holds(w, b, n + 1)
  BY <1>2, <1>3 DEF Holds
<1>5. QED BY <1>2, <1>4 DEF w

\* downloadSoftwareSection of the closing section: the whole window is passed on when it is
\* complete, and in any case the engine is ready for the next one.
LEMMA ClosingFact ==
  ASSUME TypeOK, SectionInv, olt.st = "send", ~Answered, section.acked,
         NEW e, e = afterSection(eng, section)
  PROVE  /\ e \in EngType
         /\ e.window = <<>> /\ e.expected = 0 /\ ~e.failed
         /\ resultOf(eng, section) => Holds(e.received, 0, olt.base + olt.size)
         /\ ~resultOf(eng, section) => Holds(e.received, 0, olt.base)
<1> USE WindowAssumption
<1>1. /\ section.number = olt.pos /\ section.data = Image[olt.base + olt.pos + 1]
      /\ section.data \in Data
      /\ olt.base + olt.pos < Len(Image) /\ olt.pos = olt.size - 1
  BY SectionFact DEF Section, Data
<1>2. /\ eng \in EngType
      /\ olt.base \in Nat /\ olt.pos \in Nat /\ olt.size \in Nat /\ Len(Image) \in Nat
  BY DEF TypeOK, EngType, Data
<1>3. /\ Holds(eng.received, 0, olt.base)
      /\ eng.failed => olt.pos # 0
      /\ ~eng.failed => Holds(eng.window, olt.base, eng.expected) /\ eng.expected <= olt.pos
  BY DEF SectionInv, Collecting
<1>4. reopened(eng, section) = eng
  BY <1>1, <1>3 DEF reopened
<1>5. CASE eng.failed
  <2>1. e = [eng EXCEPT !.window = <<>>, !.expected = 0, !.failed = FALSE]
    BY <1>4, <1>5 DEF afterSection, resetSoftwareWindow
  <2>2. e \in EngType
    BY <1>2, <2>1, ResetFact DEF EngType
  <2>3. e.window = <<>> /\ e.expected = 0 /\ ~e.failed /\ e.received = eng.received
    BY <1>2, <2>1 DEF EngType
  <2>4. ~resultOf(eng, section)
    BY <1>4, <1>5 DEF resultOf
  <2>5. QED BY <1>3, <2>2, <2>3, <2>4
<1>6. CASE ~eng.failed /\ eng.expected # olt.pos
  <2>1. ~inOrder(eng, section)
    BY <1>1, <1>6 DEF inOrder
  <2>2. e = [eng EXCEPT !.window = <<>>, !.expected = 0, !.failed = ~section.acked]
    BY <1>4, <1>6, <2>1 DEF afterSection, rejectSoftwareWindow
  <2>3. (~section.acked) = FALSE
    BY Zenon
  <2>4. e = [eng EXCEPT !.window = <<>>, !.expected = 0, !.failed = FALSE]
    BY <2>2, <2>3, Zenon
  <2>5. e \in EngType
    BY <1>2, <2>4, ResetFact DEF EngType
  <2>6. e.window = <<>> /\ e.expected = 0 /\ ~e.failed /\ e.received = eng.received
    BY <1>2, <2>4 DEF EngType
  <2>7. ~resultOf(eng, section)
    BY <1>4, <2>1 DEF resultOf
  <2>8. QED BY <1>3, <2>5, <2>6, <2>7
<1>7. CASE ~eng.failed /\ eng.expected = olt.pos
  <2>1. inOrder(eng, section) /\ fits(eng)
    BY <1>1, <1>2, <1>3, <1>7 DEF inOrder, fits, Holds
  <2>2. resultOf(eng, section)
    BY <1>4, <1>7, <2>1 DEF resultOf
  <2> DEFINE d == section.data
             w == Append(eng.window, d)
             s == eng.received \o w
  <2>3. e = [resetSoftwareWindow(eng) EXCEPT !.received = @ \o w]
    BY <1>4, <1>7, <2>1 DEF afterSection
  <2>4. e = [eng EXCEPT !.window = <<>>, !.expected = 0, !.failed = FALSE, !.received = s]
    BY <1>2, <2>3 DEF resetSoftwareWindow, EngType
  <2>5. /\ w \in Seq(Data) /\ Len(w) = olt.pos + 1
        /\ \A i \in 1 .. olt.pos + 1 : w[i] = Image[olt.base + i]
    <3>1. eng.window \in Seq(Data) /\ Holds(eng.window, olt.base, olt.pos)
      BY <1>2, <1>3, <1>7 DEF EngType
    <3>2. w \in Seq(Data) /\ Holds(w, olt.base, olt.pos + 1)
      BY <1>1, <1>2, <3>1, AppendFact
    <3>3. QED BY <3>2 DEF Holds
  <2> HIDE DEF w, d
  <2>6. /\ eng.received \in Seq(Data) /\ Len(eng.received) = olt.base
        /\ \A i \in 1 .. olt.base : eng.received[i] = Image[i]
    BY <1>2, <1>3 DEF Holds, EngType
  <2>7. /\ s \in Seq(Data) /\ Len(s) = olt.base + (olt.pos + 1)
        /\ \A i \in 1 .. Len(s) : s[i] = IF i <= olt.base THEN eng.received[i]
                                        ELSE w[i - olt.base]
    <3>1. /\ s \in Seq(Data) /\ Len(s) = Len(eng.received) + Len(w)
          /\ \A i \in 1 .. Len(eng.received) + Len(w) :
               s[i] = IF i <= Len(eng.received) THEN eng.received[i]
                      ELSE w[i - Len(eng.received)]
      <4>1. w \in Seq(Data) /\ eng.received \in Seq(Data)
        BY <2>5, <2>6
      <4>2. /\ eng.received \o w \in Seq(Data)
            /\ Len(eng.received \o w) = Len(eng.received) + Len(w)
            /\ \A i \in 1 .. Len(eng.received) + Len(w) :
                 (eng.received \o w)[i] = IF i <= Len(eng.received) THEN eng.received[i]
                                          ELSE w[i - Len(eng.received)]
        BY <4>1, ConcatFact
      <4>3. QED BY <4>2
    <3>2. QED BY <2>5, <2>6, <3>1
  <2> HIDE DEF s
  <2>8. \A i \in 1 .. Len(s) : s[i] = Image[i]
    <3>1. SUFFICES ASSUME NEW i \in 1 .. Len(s) PROVE s[i] = Image[i]
      OBVIOUS
    <3>2. CASE i <= olt.base
      BY <1>2, <2>6, <2>7, <3>2
    <3>3. CASE i > olt.base
      <4>1. i - olt.base \in 1 .. olt.pos + 1 /\ olt.base + (i - olt.base) = i
        BY <1>2, <2>7, <3>3
      <4>2. ~(i <= olt.base)
        BY <1>2, <2>7, <3>3
      <4>3. s[i] = w[i - olt.base]
        BY <2>7, <4>2
      <4>4. w[i - olt.base] = Image[olt.base + (i - olt.base)]
        BY <2>5, <4>1
      <4>5. QED BY <4>1, <4>3, <4>4
    <3>4. QED BY <1>2, <3>2, <3>3
  <2>9. Holds(s, 0, olt.base + olt.size)
    <3>1. olt.base + olt.size = Len(s) /\ Len(s) \in Nat
      BY <1>1, <1>2, <2>7
    <3>2. QED BY <2>8, <3>1 DEF Holds
  <2>10. e.window = <<>> /\ e.expected = 0 /\ ~e.failed /\ e.received = s
    BY <1>2, <2>4 DEF EngType
  <2>11. e \in EngType
    <3>1. [eng EXCEPT !.window = <<>>, !.expected = 0, !.failed = FALSE, !.received = s] \in EngType
      BY <1>2, <2>7, ResetFact
    <3>2. QED BY <2>4, <3>1, Zenon
  <2>12. QED BY <2>2, <2>9, <2>10, <2>11
<1>8. QED BY <1>5, <1>6, <1>7
-----------------------------------------------------------------------------
\* What handling the section at the OLT's position, or ignoring it as a repetition, leaves.
LEMMA OneWayStep ==
  ASSUME TypeOK, SectionInv, olt.st = "send", ~section.acked, HandleOneWay(section)
  PROVE  /\ ~Answered /\ olt.pos # olt.size - 1
         /\ eng' \in EngType /\ Len(eng'.window) < WindowSize /\ eng'.received = eng.received
         /\ oneWay' = <<section>> /\ oneWay' \in Seq(Section) /\ Len(oneWay') <= 1
         /\ eng'.failed => eng'.window = <<>> /\ olt.pos # 0
         /\ ~eng'.failed => /\ Holds(eng'.window, olt.base, eng'.expected)
                            /\ eng'.expected <= olt.pos \/ eng'.expected = olt.pos + 1
<1>1. /\ section \in Section /\ olt.pos # olt.size - 1 /\ olt.base \in Nat /\ olt.pos \in Nat
      /\ section.data = Image[olt.base + olt.pos + 1]
  BY SectionFact, SMTT(30) DEF TypeOK
<1>2. ~Answered
  BY <1>1 DEF SectionInv, Closed
<1>3. /\ eng \in EngType /\ Len(eng.window) < WindowSize
      /\ eng.failed => eng.window = <<>> /\ olt.pos # 0
      /\ ~eng.failed => /\ Holds(eng.window, olt.base, eng.expected)
                        /\ eng.expected <= olt.pos \/ eng.expected = olt.pos + 1
  BY <1>2 DEF TypeOK, EngType, Data, SectionInv, Collecting
<1>4. oneWay' = <<section>>
  BY DEF HandleOneWay, repeated
<1>5. oneWay' \in Seq(Section) /\ Len(oneWay') <= 1
  <2> DEFINE f == section
  <2>1. f \in Section BY <1>1
  <2> HIDE DEF f
  <2>2. <<f>> \in Seq(Section) /\ Len(<<f>>) <= 1
    BY <2>1
  <2>3. QED BY <1>4, <2>2 DEF f
<1>6. CASE repeated(section)
  <2>1. eng' = eng
    BY <1>6 DEF HandleOneWay
  <2>2. QED BY <1>1, <1>2, <1>3, <1>4, <1>5, <2>1
<1>7. CASE ~repeated(section)
  <2>1. PICK e : e = afterSection(eng, section)
    OBVIOUS
  <2>2. eng' = e
    BY <1>7, <2>1 DEF HandleOneWay
  <2>3. /\ e \in EngType /\ Len(e.window) < WindowSize /\ e.received = eng.received
        /\ \/ eng.failed /\ e = eng
           \/ /\ ~eng.failed /\ eng.expected = olt.pos /\ ~e.failed
              /\ e.window = Append(eng.window, section.data) /\ e.expected = olt.pos + 1
           \/ ~eng.failed /\ e.failed /\ e.window = <<>> /\ e.expected = 0 /\ olt.pos # 0
    BY <1>2, <1>7, <2>1, OneWayFact
  <2>4. ASSUME ~eng.failed, eng.expected = olt.pos,
               e.window = Append(eng.window, section.data), e.expected = olt.pos + 1
        PROVE  Holds(e.window, olt.base, e.expected)
    <3>1. eng.window \in Seq(Data) /\ Holds(eng.window, olt.base, olt.pos)
      BY <1>3, <2>4 DEF EngType
    <3>2. section.data \in Data
      BY <1>1 DEF Section, Data
    <3>3. Holds(Append(eng.window, section.data), olt.base, olt.pos + 1)
      BY <1>1, <3>1, <3>2, AppendFact
    <3>4. QED BY <2>4, <3>3
  <2>5. /\ e.failed => e.window = <<>> /\ olt.pos # 0
        /\ ~e.failed => /\ Holds(e.window, olt.base, e.expected)
                        /\ e.expected <= olt.pos \/ e.expected = olt.pos + 1
    BY <1>3, <2>3, <2>4
  <2>6. QED BY <1>1, <1>2, <1>4, <1>5, <2>2, <2>3, <2>5
<1>8. QED BY <1>6, <1>7

\* Init: the engine is idle and the sink empty.
LEMMA InitInv == Init => TypeOK /\ SectionInv
<1> SUFFICES ASSUME Init PROVE TypeOK /\ SectionInv
  OBVIOUS
<1> USE WindowAssumption
<1>1. olt \in [st : {"window", "send", "await", "done"}, base : 0 .. Len(Image),
               size : 0 .. WindowSize, pos : 0 .. WindowSize, tci : 0 .. Tcis - 1]
  <2>1. 0 \in 0 .. Len(Image) /\ 0 \in 0 .. WindowSize /\ 0 \in 0 .. Tcis - 1
    OBVIOUS
  <2>2. QED BY <2>1 DEF Init
<1>2. eng \in [window : Seq(ToSet(Image)), expected : 0 .. WindowSize - 1,
               failed : BOOLEAN, received : Seq(ToSet(Image))]
  <2>1. <<>> \in Seq(ToSet(Image)) /\ 0 \in 0 .. WindowSize - 1
    OBVIOUS
  <2>2. ASSUME NEW b \in BOOLEAN
        PROVE  [window |-> <<>>, expected |-> 0, failed |-> b, received |-> <<>>]
                 \in [window : Seq(ToSet(Image)), expected : 0 .. WindowSize - 1,
                      failed : BOOLEAN, received : Seq(ToSet(Image))]
    BY <2>1
  <2>3. QED BY <2>2, Zenon DEF Init
<1>3. TypeOK
  BY <1>1, <1>2 DEF TypeOK, Init
<1>4. SectionInv
  BY DEF Init, SectionInv, BetweenWindows, Collecting, Closed, Idle, Holds
<1>5. QED BY <1>3, <1>4

\* OpenWindow: the identifier is new, so that the slot does not answer for the window.
LEMMA OpenWindowStep ==
  ASSUME TypeOK, SectionInv, NEW n \in 1 .. WindowSize, OpenWindow(n)
  PROVE  TypeOK' /\ SectionInv'
<1> USE WindowAssumption
<1>1. PICK t : t = (olt.tci + 1) % Tcis
  OBVIOUS
<1>2. /\ olt.tci \in 0 .. Tcis - 1 /\ olt.base \in 0 .. Len(Image) /\ Len(Image) \in Nat
      /\ n \in 0 .. WindowSize /\ 0 \in 0 .. WindowSize /\ n \in Nat
      /\ olt \in OltType
  BY DEF TypeOK, OltType
<1>3. t # olt.tci /\ t \in 0 .. Tcis - 1
  BY <1>1, <1>2, NewTci
<1>4. olt' = [olt EXCEPT !.st = "send", !.base = olt.base, !.size = n, !.pos = 0, !.tci = t]
  BY <1>1 DEF OpenWindow, TypeOK
<1>5. /\ olt' \in OltType
      /\ olt'.st = "send" /\ olt'.base = olt.base /\ olt'.size = n /\ olt'.pos = 0
      /\ olt'.tci = t
  BY <1>2, <1>3, <1>4 DEF OltType
<1>6. TypeOK'
  BY <1>5 DEF TypeOK, OltType, OpenWindow
<1>7. Idle /\ Holds(eng.received, 0, olt.base) /\ (slot # <<>> => Answered)
  BY DEF SectionInv, BetweenWindows, OpenWindow
<1>8. eng' = eng /\ slot' = slot /\ oneWay' = oneWay /\ n > 0 /\ olt.base + n <= Len(Image)
  BY <1>2 DEF OpenWindow
<1>9. ~Answered'
  BY <1>3, <1>5, <1>7, <1>8 DEF Answered
<1>10. SectionInv'
  <2>1. Collecting'
    <3>1. /\ Holds(eng'.received, 0, olt'.base) /\ ~eng'.failed
          /\ Holds(eng'.window, olt'.base, eng'.expected) /\ eng'.expected <= olt'.pos
      BY <1>5, <1>7, <1>8 DEF Idle, Holds
    <3>2. QED BY <3>1 DEF Collecting, Holds
  <2>2. BetweenWindows' /\ Closed' /\ (olt'.st # "await")
    BY <1>5, <1>9 DEF BetweenWindows, Closed
  <2>3. olt'.pos < olt'.size /\ olt'.base + olt'.size <= Len(Image)
    BY <1>5, <1>8
  <2>4. QED BY <2>1, <2>2, <2>3 DEF SectionInv
<1>11. QED BY <1>6, <1>10

\* The OLT goes on to the next section.
LEMMA SentFact ==
  ASSUME TypeOK, SectionInv, olt.st = "send", olt.pos # olt.size - 1, Sent
  PROVE  /\ olt' \in OltType
         /\ olt'.st = "send" /\ olt'.base = olt.base /\ olt'.size = olt.size
         /\ olt'.pos = olt.pos + 1 /\ olt'.tci = olt.tci
         /\ olt'.pos < olt'.size /\ olt'.base + olt'.size <= Len(Image)
         /\ olt.pos \in Nat
<1> USE WindowAssumption
<1>1. /\ olt.base \in 0 .. Len(Image) /\ olt.size \in 0 .. WindowSize
      /\ olt.pos \in 0 .. WindowSize /\ olt.tci \in 0 .. Tcis - 1
      /\ olt.pos < olt.size /\ olt.base + olt.size <= Len(Image) /\ Len(Image) \in Nat
      /\ olt \in OltType
  BY DEF TypeOK, SectionInv, OltType
<1>2. olt.pos + 1 \in 0 .. WindowSize /\ olt.pos + 1 < olt.size
  BY <1>1
<1>3. olt' = [olt EXCEPT !.st = "send", !.base = olt.base, !.size = olt.size,
                         !.pos = olt.pos + 1, !.tci = olt.tci]
  BY DEF Sent, TypeOK
<1>4. /\ olt' \in OltType
      /\ olt'.st = "send" /\ olt'.base = olt.base /\ olt'.size = olt.size
      /\ olt'.pos = olt.pos + 1 /\ olt'.tci = olt.tci
  BY <1>1, <1>2, <1>3 DEF OltType
<1>5. QED BY <1>1, <1>2, <1>4

LEMMA SendSectionStep ==
  ASSUME TypeOK, SectionInv, SendSection
  PROVE  TypeOK' /\ SectionInv'
<1>1. /\ olt.st = "send" /\ ~section.acked /\ Sent /\ HandleOneWay(section)
      /\ slot' = slot /\ faults' = faults
  BY DEF SendSection
<1>2. /\ ~Answered /\ olt.pos # olt.size - 1
      /\ eng' \in EngType /\ Len(eng'.window) < WindowSize /\ eng'.received = eng.received
      /\ oneWay' \in Seq(Section) /\ Len(oneWay') <= 1
      /\ eng'.failed => eng'.window = <<>>
      /\ ~eng'.failed => /\ Holds(eng'.window, olt.base, eng'.expected)
                         /\ eng'.expected <= olt.pos \/ eng'.expected = olt.pos + 1
  BY <1>1, OneWayStep
<1>3. /\ olt' \in OltType
      /\ olt'.st = "send" /\ olt'.base = olt.base /\ olt'.size = olt.size
      /\ olt'.pos = olt.pos + 1 /\ olt'.tci = olt.tci
      /\ olt'.pos < olt'.size /\ olt'.base + olt'.size <= Len(Image)
      /\ olt.pos \in Nat
  BY <1>1, <1>2, SentFact
<1>4. TypeOK'
  BY <1>1, <1>2, <1>3 DEF TypeOK, OltType, EngType, Data
<1>5. ~Answered'
  BY <1>1, <1>2, <1>3 DEF Answered
<1>6. Collecting'
  <2>1. Holds(eng'.received, 0, olt'.base)
    BY <1>1, <1>2, <1>3 DEF SectionInv, Collecting
  <2>2. eng'.failed => eng'.window = <<>> /\ olt'.pos # 0
    BY <1>2, <1>3
  <2>3. ~eng'.failed => Holds(eng'.window, olt'.base, eng'.expected) /\ eng'.expected <= olt'.pos
    <3>1. eng'.expected \in Int
      BY <1>2, WindowAssumption DEF EngType
    <3>2. QED BY <1>2, <1>3, <3>1
  <2>4. QED BY <2>1, <2>2, <2>3 DEF Collecting, Holds
<1>7. SectionInv'
  BY <1>3, <1>5, <1>6 DEF SectionInv, BetweenWindows, Closed
<1>8. QED BY <1>4, <1>7

LEMMA LoseSectionStep ==
  ASSUME TypeOK, SectionInv, LoseSection
  PROVE  TypeOK' /\ SectionInv'
<1>1. /\ olt.st = "send" /\ ~section.acked /\ Sent /\ faults' \in 0 .. MaxFaults
      /\ eng' = eng /\ oneWay' = oneWay /\ slot' = slot
  BY WindowAssumption DEF LoseSection, TypeOK
<1>2. olt.pos # olt.size - 1
  BY <1>1, SectionFact
<1>3. ~Answered
  BY <1>1, <1>2 DEF SectionInv, Closed
<1>4. /\ olt' \in OltType
      /\ olt'.st = "send" /\ olt'.base = olt.base /\ olt'.size = olt.size
      /\ olt'.pos = olt.pos + 1 /\ olt'.tci = olt.tci
      /\ olt'.pos < olt'.size /\ olt'.base + olt'.size <= Len(Image)
      /\ olt.pos \in Nat
  BY <1>1, <1>2, SentFact
<1>5. TypeOK'
  BY <1>1, <1>4 DEF TypeOK, OltType
<1>6. ~Answered'
  BY <1>1, <1>3, <1>4 DEF Answered
<1>7. Collecting'
  <2>1. /\ Holds(eng.received, 0, olt.base)
        /\ eng.failed => eng.window = <<>> /\ olt.pos # 0
        /\ ~eng.failed => /\ Holds(eng.window, olt.base, eng.expected)
                          /\ eng.expected <= olt.pos \/ eng.expected = olt.pos + 1
    BY <1>1, <1>3 DEF SectionInv, Collecting
  <2>2. Holds(eng'.received, 0, olt'.base)
    BY <1>1, <1>4, <2>1
  <2>3. eng'.failed => eng'.window = <<>> /\ olt'.pos # 0
    BY <1>1, <1>4, <2>1
  <2>4. ~eng'.failed => Holds(eng'.window, olt'.base, eng'.expected) /\ eng'.expected <= olt'.pos
    <3>1. eng.expected \in Int
      BY WindowAssumption DEF TypeOK
    <3>2. QED BY <1>1, <1>4, <2>1, <3>1
  <2>5. QED BY <2>2, <2>3, <2>4 DEF Collecting, Holds
<1>8. SectionInv'
  BY <1>4, <1>6, <1>7 DEF SectionInv, BetweenWindows, Closed
<1>9. QED BY <1>5, <1>8

LEMMA RepeatSectionStep ==
  ASSUME TypeOK, SectionInv, RepeatSection
  PROVE  TypeOK' /\ SectionInv'
<1>1. /\ olt.st = "send" /\ ~section.acked /\ HandleOneWay(section)
      /\ slot' = slot /\ olt' = olt /\ faults' \in 0 .. MaxFaults
  BY WindowAssumption DEF RepeatSection, TypeOK
<1>2. /\ ~Answered /\ olt.pos # olt.size - 1
      /\ eng' \in EngType /\ Len(eng'.window) < WindowSize /\ eng'.received = eng.received
      /\ oneWay' = <<section>> /\ oneWay' \in Seq(Section) /\ Len(oneWay') <= 1
      /\ eng'.failed => eng'.window = <<>> /\ olt.pos # 0
      /\ ~eng'.failed => /\ Holds(eng'.window, olt.base, eng'.expected)
                         /\ eng'.expected <= olt.pos \/ eng'.expected = olt.pos + 1
  BY <1>1, OneWayStep
<1>3. TypeOK'
  BY <1>1, <1>2 DEF TypeOK, EngType, Data
<1>4. ~Answered'
  BY <1>1, <1>2 DEF Answered
<1>5. section' = section
  BY <1>1 DEF section
<1>6. Collecting'
  <2>1. Holds(eng'.received, 0, olt'.base)
    BY <1>1, <1>2 DEF SectionInv, Collecting
  <2>2. QED BY <1>1, <1>2, <1>5, <2>1 DEF Collecting, Holds
<1>7. SectionInv'
  BY <1>1, <1>4, <1>6 DEF SectionInv, BetweenWindows, Closed
<1>8. QED BY <1>3, <1>7

\* The closing section: executed once, and answered from the slot from then on.
LEMMA SendClosingStep ==
  ASSUME TypeOK, SectionInv, SendClosing
  PROVE  TypeOK' /\ SectionInv'
<1>1. /\ olt.st = "send" /\ section.acked /\ HandleAcked(section)
      /\ oneWay' = oneWay /\ faults' = faults
  BY DEF SendClosing
<1>2. olt' \in OltType /\ olt'.st = "await" /\ olt'.base = olt.base /\ olt'.size = olt.size
      /\ olt'.pos = olt.pos /\ olt'.tci = olt.tci
  BY DEF SendClosing, TypeOK, OltType
<1>3. /\ section.tci = olt.tci /\ olt.pos = olt.size - 1 /\ olt.tci \in 0 .. Tcis - 1
      /\ olt.pos < olt.size /\ olt.base + olt.size <= Len(Image)
  BY <1>1, SectionFact DEF SectionInv, TypeOK
<1>4. replayed(section) <=> Answered
  BY <1>3 DEF replayed, Answered
<1>5. CASE Answered
  <2>1. eng' = eng /\ slot' = slot
    BY <1>1, <1>4, <1>5 DEF HandleAcked
  <2>2. TypeOK'
    BY <1>1, <1>2, <2>1 DEF TypeOK, OltType
  <2>3. Answered'
    BY <1>2, <1>5, <2>1 DEF Answered
  <2>4. Closed'
    BY <1>1, <1>2, <1>5, <2>1 DEF SectionInv, Closed, Idle, Holds
  <2>5. QED BY <1>2, <1>3, <2>2, <2>3, <2>4 DEF SectionInv, BetweenWindows, Collecting
<1>6. CASE ~Answered
  <2>1. PICK e : e = afterSection(eng, section)
    OBVIOUS
  <2>2. PICK r \in BOOLEAN : r = resultOf(eng, section)
    BY Zenon DEF resultOf
  <2>3. eng' = e /\ slot' = <<[tci |-> olt.tci, ok |-> r]>>
    BY <1>1, <1>3, <1>4, <1>6, <2>1, <2>2, Zenon DEF HandleAcked
  <2>4. /\ e \in EngType /\ e.window = <<>> /\ e.expected = 0 /\ ~e.failed
        /\ Holds(e.received, 0, IF r THEN olt.base + olt.size ELSE olt.base)
    BY <1>1, <1>6, <2>1, <2>2, ClosingFact
  <2>5. /\ slot' \in Seq([tci : 0 .. Tcis - 1, ok : BOOLEAN]) /\ Len(slot') <= 1
        /\ slot' # <<>> /\ slot'[1].tci = olt.tci /\ slot'[1].ok = r
    BY <1>3, <2>3
  <2>6. TypeOK'
    BY <1>1, <1>2, <2>3, <2>4, <2>5, WindowAssumption DEF TypeOK, OltType, EngType, Data
  <2>7. Answered'
    BY <1>2, <2>5 DEF Answered
  <2>8. Closed'
    BY <1>2, <1>3, <2>3, <2>4, <2>5 DEF Closed, Idle, Holds
  <2>9. QED BY <1>2, <1>3, <2>6, <2>7, <2>8 DEF SectionInv, BetweenWindows, Collecting
<1>7. QED BY <1>5, <1>6

LEMMA LoseResponseStep ==
  ASSUME TypeOK, SectionInv, LoseResponse
  PROVE  TypeOK' /\ SectionInv'
<1>1. /\ olt.st = "await" /\ faults' \in 0 .. MaxFaults
      /\ eng' = eng /\ oneWay' = oneWay /\ slot' = slot
  <2>1. faults \in 0 .. MaxFaults /\ MaxFaults \in Nat
    BY WindowAssumption DEF TypeOK
  <2>2. /\ olt.st = "await" /\ faults < MaxFaults /\ faults' = faults + 1
        /\ eng' = eng /\ oneWay' = oneWay /\ slot' = slot
    BY DEF LoseResponse
  <2>3. QED BY <2>1, <2>2
<1>2. olt' \in OltType /\ olt'.st = "send" /\ olt'.base = olt.base /\ olt'.size = olt.size
      /\ olt'.pos = olt.pos /\ olt'.tci = olt.tci
  BY DEF LoseResponse, TypeOK, OltType
<1>3. TypeOK'
  BY <1>1, <1>2 DEF TypeOK, OltType
<1>4. Answered /\ Closed
  BY <1>1 DEF SectionInv
<1>5. Answered'
  BY <1>1, <1>2, <1>4 DEF Answered
<1>6. Closed'
  BY <1>1, <1>2, <1>4 DEF Closed, Idle, Holds
<1>7. olt'.pos < olt'.size /\ olt'.base + olt'.size <= Len(Image)
  BY <1>1, <1>2 DEF SectionInv
<1>8. QED BY <1>2, <1>3, <1>5, <1>6, <1>7 DEF SectionInv, BetweenWindows, Collecting

\* The response takes the OLT to the place the sink has reached.
LEMMA TakeResponseStep ==
  ASSUME TypeOK, SectionInv, TakeResponse
  PROVE  TypeOK' /\ SectionInv'
<1> USE WindowAssumption
<1>1. /\ olt.st = "await" /\ eng' = eng /\ oneWay' = oneWay /\ slot' = slot
      /\ faults' = faults
  BY DEF TakeResponse
<1>2. Answered /\ Closed /\ olt.base + olt.size <= Len(Image)
  BY <1>1 DEF SectionInv
<1>3. Idle /\ Holds(eng.received, 0, IF slot[1].ok THEN olt.base + olt.size ELSE olt.base)
  BY <1>1, <1>2 DEF Closed
<1>4. /\ olt' \in OltType /\ olt'.st \in {"window", "done"} /\ olt'.tci = olt.tci
      /\ olt'.base = IF slot[1].ok THEN olt.base + olt.size ELSE olt.base
  <2>1. olt \in OltType /\ Len(Image) \in Nat /\ olt.base + olt.size \in 0 .. Len(Image)
    BY <1>2 DEF TypeOK, OltType
  <2>2. CASE slot[1].ok
    BY <2>1, <2>2 DEF TakeResponse, OltType
  <2>3. CASE ~slot[1].ok
    BY <2>1, <2>3 DEF TakeResponse, OltType
  <2>4. QED BY <2>2, <2>3
<1>5. TypeOK'
  BY <1>1, <1>4 DEF TypeOK, OltType
<1>6. Answered'
  BY <1>1, <1>2, <1>4 DEF Answered
<1>7. BetweenWindows'
  BY <1>1, <1>3, <1>4, <1>6 DEF BetweenWindows, Idle, Holds
<1>8. QED BY <1>4, <1>5, <1>7 DEF SectionInv, Collecting, Closed

-----------------------------------------------------------------------------
LEMMA NextInv ==
  ASSUME TypeOK, SectionInv, [Next]_vars
  PROVE  TypeOK' /\ SectionInv'
<1>1. ASSUME NEW n \in 1 .. WindowSize, OpenWindow(n) PROVE TypeOK' /\ SectionInv'
  BY <1>1, OpenWindowStep
<1>2. CASE SendSection BY <1>2, SendSectionStep
<1>3. CASE LoseSection BY <1>3, LoseSectionStep
<1>4. CASE RepeatSection BY <1>4, RepeatSectionStep
<1>5. CASE SendClosing BY <1>5, SendClosingStep
<1>6. CASE LoseResponse BY <1>6, LoseResponseStep
<1>7. CASE TakeResponse BY <1>7, TakeResponseStep
<1>8. CASE UNCHANGED vars
  <2>1. TypeOK'
    BY <1>8 DEF TypeOK, vars
  <2>2. SectionInv'
    BY <1>8 DEF SectionInv, BetweenWindows, Collecting, Closed, Idle, Answered, Holds,
                section, vars
  <2>3. QED BY <2>1, <2>2
<1>9. QED BY <1>1, <1>2, <1>3, <1>4, <1>5, <1>6, <1>7, <1>8 DEF Next

\* The engine's window, the digest of the last section and the slot always fit the window
\* the OLT is sending.
THEOREM Sections == Spec => [](TypeOK /\ SectionInv)
<1>1. Init => TypeOK /\ SectionInv
  BY InitInv
<1>2. TypeOK /\ SectionInv /\ [Next]_vars => (TypeOK /\ SectionInv)'
  BY NextInv
<1>3. QED BY <1>1, <1>2, PTL DEF Spec

\* Every variable keeps its type: in particular what softwareDownload collects of a window
\* never outgrows the negotiated size.
THEOREM TypeCorrect == Spec => []TypeOK
BY Sections, PTL

\* What holds the first sections of the image is a prefix of it.
LEMMA PrefixFact ==
  ASSUME NEW q \in Seq(Data), NEW n \in 0 .. Len(Image), Holds(q, 0, n)
  PROVE  IsPrefix(q, Image)
<1> USE WindowAssumption
<1>1. Len(q) = n /\ n \in Nat /\ Len(Image) \in Nat /\ n <= Len(Image)
  BY DEF Holds
<1>2. \A i \in 1 .. n : q[i] = Image[i]
  BY <1>1 DEF Holds
<1>3. /\ SubSeq(Image, 1, n) \in Seq(Data) /\ Len(SubSeq(Image, 1, n)) = n
      /\ \A i \in 1 .. n : SubSeq(Image, 1, n)[i] = Image[i]
  BY <1>1 DEF Data
<1>4. q = SubSeq(Image, 1, n)
  BY <1>1, <1>2, <1>3
<1>5. QED BY <1>1, <1>4 DEF IsPrefix

\* For every image and window size, and whatever the OMCC loses or repeats, the sink of
\* downloadSoftwareSection has received a prefix of the image: each section once, in order,
\* and ahead of the OLT by at most the window whose response is outstanding.
THEOREM SinkInOrder == Spec => []SinkIsPrefix
<1>1. ASSUME TypeOK, SectionInv PROVE SinkIsPrefix
  <2> USE WindowAssumption
  <2>1. /\ eng.received \in Seq(Data) /\ olt.base \in 0 .. Len(Image) /\ Len(Image) \in Nat
        /\ olt.size \in Nat /\ olt.st \in {"window", "send", "await", "done"}
    BY <1>1 DEF TypeOK, Data
  <2>2. \/ Holds(eng.received, 0, olt.base)
        \/ /\ olt.st \in {"send", "await"} /\ Answered /\ slot[1].ok
           /\ Holds(eng.received, 0, olt.base + olt.size)
           /\ olt.base + olt.size \in 0 .. Len(Image)
    <3>1. CASE olt.st \in {"window", "done"}
      BY <1>1, <3>1 DEF SectionInv, BetweenWindows
    <3>2. CASE olt.st \in {"send", "await"} /\ Answered
      <4>1. olt.base + olt.size \in 0 .. Len(Image)
        BY <1>1, <2>1, <3>2 DEF SectionInv
      <4>2. QED BY <1>1, <3>2, <4>1 DEF SectionInv, Closed
    <3>3. CASE olt.st \in {"send", "await"} /\ ~Answered
      BY <1>1, <3>3 DEF SectionInv, Collecting
    <3>4. QED BY <2>1, <3>1, <3>2, <3>3
  <2>3. IsPrefix(eng.received, Image)
    BY <2>1, <2>2, PrefixFact
  <2>4. QED BY <2>2, <2>3 DEF SinkIsPrefix, Holds, Answered
<1>2. QED BY <1>1, Sections, PTL
=============================================================================
