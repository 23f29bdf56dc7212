---------------------------- MODULE SectionWindow ----------------------------
(***************************************************************************)
(* Download sections of a software image (downloadSoftwareSection), from   *)
(* an OLT that follows the window protocol over an OMCC that loses and     *)
(* repeats frames.                                                         *)
(*                                                                         *)
(* The OLT sends a window of sections, numbered from 0; only the last one  *)
(* asks for a response.  A lost section therefore shows up only when the   *)
(* window is closed, and the whole window is then sent again.  One section *)
(* is one unit of data; Image may hold equal sections at different places. *)
(***************************************************************************)
EXTENDS Naturals, Sequences, SequencesExt

CONSTANTS
  Image,      \* the sections of the image, a sequence
  WindowSize, \* the negotiated window size
  Tcis,       \* transaction identifiers in use, 0 .. Tcis - 1
  MaxFaults   \* bound: frames the OMCC loses or repeats

ASSUME WindowAssumption ==
  /\ Image \in Seq(ToSet(Image))
  /\ WindowSize \in Nat \ {0}
  /\ Tcis \in Nat /\ Tcis >= 2
  /\ MaxFaults \in Nat

VARIABLES
  olt,      \* the OLT: st ("window", "send", "await", "done"), base (sections
            \* confirmed), size and pos (of the window being sent), tci
  eng,      \* softwareDownload: window, expectedSection, windowFailed, and what
            \* the sink has received
  oneWay,   \* Engine.oneWayDigest: the last section without response, a
            \* sequence of at most one frame
  slot,     \* Engine.transactions of the channel: at most one answered frame
  faults

vars == <<olt, eng, oneWay, slot, faults>>

Init ==
  /\ olt = [st |-> "window", base |-> 0, size |-> 0, pos |-> 0, tci |-> 0]
  /\ eng = [window |-> <<>>, expected |-> 0, failed |-> FALSE, received |-> <<>>]
  /\ oneWay = <<>> /\ slot = <<>>
  /\ faults = 0

-----------------------------------------------------------------------------
(* The engine, as functions of its state.                                  *)

\* Mutant: the failure of the window is not forgotten.
resetKeepsFailure(e) == [e EXCEPT !.window = <<>>, !.expected = 0]

\* resetSoftwareWindow.
resetSoftwareWindow(e) ==
  [e EXCEPT !.window = <<>>, !.expected = 0, !.failed = FALSE]

\* Mutant: what has been collected of a failed window is kept.
rejectKeepsWindow(e, acked) == [e EXCEPT !.expected = 0, !.failed = ~acked]

\* rejectSoftwareWindow: a section that asks for a response is told of the
\* failure at once, the others leave the failure for the closing section.
rejectSoftwareWindow(e, acked) ==
  [e EXCEPT !.window = <<>>, !.expected = 0, !.failed = ~acked]

\* A failed window is over when its closing section or a new section 0 comes.
reopened(e, f) ==
  IF e.failed /\ f.number = 0 THEN resetSoftwareWindow(e) ELSE e

\* The section is the expected one.
inOrder(e, f) == f.number = e.expected

\* The image has room for one more section.
fits(e) == Len(e.received) + Len(e.window) < Len(Image)

\* downloadSoftwareSection: the new state.
afterSection(e0, f) ==
  LET e == reopened(e0, f)
      w == Append(e.window, f.data)
  IN  CASE e.failed /\ f.acked -> resetSoftwareWindow(e)
        [] e.failed /\ ~f.acked -> e
        [] ~e.failed /\ ~(inOrder(e, f) /\ fits(e)) ->
             rejectSoftwareWindow(e, f.acked)
        [] ~e.failed /\ inOrder(e, f) /\ fits(e) /\ f.acked ->
             [resetSoftwareWindow(e) EXCEPT !.received = @ \o w]
        [] OTHER ->
             IF e.expected + 1 >= WindowSize
             THEN rejectSoftwareWindow(e, FALSE)
             ELSE [e EXCEPT !.window = w, !.expected = @ + 1]

\* ... and its result, for a section that asks for one.
resultOf(e0, f) ==
  LET e == reopened(e0, f) IN ~e.failed /\ inOrder(e, f) /\ fits(e)

\* The last section without response, once more.
repeated(f) == oneWay = <<f>>

\* HandleFrame of a section without response.
HandleOneWay(f) ==
  IF repeated(f) THEN UNCHANGED <<eng, oneWay>>
  ELSE eng' = afterSection(eng, f) /\ oneWay' = <<f>>

\* Mutant: the slot is not consulted.
noSlot(f) == FALSE

\* The last section with a response, once more: it is answered from the slot.
replayed(f) == slot # <<>> /\ slot[1].tci = f.tci

\* HandleFrame of a section with a response.
HandleAcked(f) ==
  IF replayed(f) THEN UNCHANGED <<eng, slot>>
  ELSE /\ eng' = afterSection(eng, f)
       /\ slot' = <<[tci |-> f.tci, ok |-> resultOf(eng, f)]>>

-----------------------------------------------------------------------------
(* The OLT and the OMCC (external).                                        *)

\* The section at the OLT's position.
section == [number |-> olt.pos, data |-> Image[olt.base + olt.pos + 1],
            acked |-> olt.pos = olt.size - 1, tci |-> olt.tci]

\* The OLT may close a window early, and gives every window a new identifier.
OpenWindow(n) ==
  /\ olt.st = "window" /\ olt.base < Len(Image)
  /\ n <= WindowSize /\ olt.base + n <= Len(Image)
  /\ olt' = [olt EXCEPT !.st = "send", !.size = n, !.pos = 0,
                        !.tci = (@ + 1) % Tcis]
  /\ UNCHANGED <<eng, oneWay, slot, faults>>

\* The OLT goes on with the next section.
Sent == olt' = [olt EXCEPT !.pos = @ + 1]

SendSection ==
  /\ olt.st = "send" /\ ~section.acked
  /\ Sent
  /\ HandleOneWay(section)
  /\ UNCHANGED <<slot, faults>>

LoseSection ==
  /\ olt.st = "send" /\ ~section.acked /\ faults < MaxFaults
  /\ Sent /\ faults' = faults + 1
  /\ UNCHANGED <<eng, oneWay, slot>>

\* A section the OMCC repeats before the OLT sends the next.
RepeatSection ==
  /\ olt.st = "send" /\ ~section.acked /\ faults < MaxFaults
  /\ faults' = faults + 1
  /\ HandleOneWay(section)
  /\ UNCHANGED <<olt, slot>>

\* The closing section reaches the engine; the response is still to come.
SendClosing ==
  /\ olt.st = "send" /\ section.acked
  /\ HandleAcked(section)
  /\ olt' = [olt EXCEPT !.st = "await"]
  /\ UNCHANGED <<oneWay, faults>>

\* The closing section or its response is lost; the OLT sends it again.
LoseResponse ==
  /\ olt.st = "await" /\ faults < MaxFaults
  /\ olt' = [olt EXCEPT !.st = "send"] /\ faults' = faults + 1
  /\ UNCHANGED <<eng, oneWay, slot>>

TakeResponse ==
  /\ olt.st = "await"
  /\ olt' = IF ~slot[1].ok THEN [olt EXCEPT !.st = "window"]
            ELSE [olt EXCEPT !.base = @ + olt.size,
                             !.st = IF olt.base + olt.size = Len(Image)
                                    THEN "done" ELSE "window"]
  /\ UNCHANGED <<eng, oneWay, slot, faults>>

Next ==
  \/ \E n \in 1 .. WindowSize : OpenWindow(n)
  \/ SendSection
  \/ LoseSection
  \/ RepeatSection
  \/ SendClosing
  \/ LoseResponse
  \/ TakeResponse

Spec == Init /\ [][Next]_vars

\* The OLT keeps on sending; faults are bounded, not assumed to stop.
Fairness ==
  /\ \A n \in 1 .. WindowSize : WF_vars(OpenWindow(n))
  /\ WF_vars(SendSection) /\ WF_vars(SendClosing) /\ WF_vars(TakeResponse)

FairSpec == Spec /\ Fairness

-----------------------------------------------------------------------------
(* Properties.                                                             *)

Section == [number : 0 .. WindowSize - 1, data : ToSet(Image), acked : BOOLEAN,
            tci : 0 .. Tcis - 1]

\* Every variable has its type; a window never outgrows the negotiated size.
TypeOK ==
  /\ olt \in [st : {"window", "send", "await", "done"}, base : 0 .. Len(Image),
             size : 0 .. WindowSize, pos : 0 .. WindowSize, tci : 0 .. Tcis - 1]
  /\ eng \in [window : Seq(ToSet(Image)), expected : 0 .. WindowSize - 1,
             failed : BOOLEAN, received : Seq(ToSet(Image))]
  /\ Len(eng.window) < WindowSize
  /\ oneWay \in Seq(Section) /\ Len(oneWay) <= 1
  /\ slot \in Seq([tci : 0 .. Tcis - 1, ok : BOOLEAN]) /\ Len(slot) <= 1
  /\ faults \in 0 .. MaxFaults

\* The sink receives the image and nothing else: every section once, in order,
\* window by whole window, whatever is lost or repeated; it is ahead of the
\* OLT by the window whose response is still to come, and never behind.
SinkIsPrefix ==
  /\ IsPrefix(eng.received, Image)
  /\ \/ Len(eng.received) = olt.base
     \/ olt.st \in {"send", "await"} /\ Len(eng.received) = olt.base + olt.size
          /\ slot # <<>> /\ slot[1].ok /\ slot[1].tci = olt.tci

\* What SinkIsPrefix rests on.  Between windows the engine is idle.  Until the closing
\* section is handled, a window that has not failed holds the sections of the image from the
\* OLT's base on, none beyond the one being sent; and only a section whose digest is kept
\* can be there before the OLT has moved on.  Then the slot answers for the window.
Holds(seq, from, n) == Len(seq) = n /\ \A i \in 1 .. n : seq[i] = Image[from + i]

Idle == eng.window = <<>> /\ eng.expected = 0 /\ ~eng.failed
Answered == slot # <<>> /\ slot[1].tci = olt.tci

BetweenWindows ==
  olt.st \in {"window", "done"} =>
    /\ Idle /\ Holds(eng.received, 0, olt.base)
    /\ slot # <<>> => Answered

Collecting ==
  olt.st = "send" /\ ~Answered =>
    /\ Holds(eng.received, 0, olt.base)
    /\ eng.failed => eng.window = <<>> /\ olt.pos # 0
    /\ ~eng.failed =>
         /\ Holds(eng.window, olt.base, eng.expected)
         /\ \/ eng.expected <= olt.pos
            \/ eng.expected = olt.pos + 1 /\ oneWay = <<section>> /\ ~section.acked

Closed ==
  olt.st \in {"send", "await"} /\ Answered =>
    /\ olt.pos = olt.size - 1 /\ Idle
    /\ Holds(eng.received, 0, IF slot[1].ok THEN olt.base + olt.size ELSE olt.base)

SectionInv ==
  /\ BetweenWindows /\ Collecting /\ Closed
  /\ olt.st = "await" => Answered
  /\ olt.st \in {"send", "await"} => olt.pos < olt.size /\ olt.base + olt.size <= Len(Image)

\* Under fairness the whole image arrives when the OMCC stops failing: a lost
\* section, a failed window or a repeated frame never wedges the download.
DownloadCompletes == <>(olt.st = "done" /\ eng.received = Image)
=============================================================================
