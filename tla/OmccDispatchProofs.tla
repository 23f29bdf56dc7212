------------------------- MODULE OmccDispatchProofs -------------------------
(***************************************************************************)
(* For every queue capacity and any number of frames, resets and kernel    *)
(* sessions: type correctness of OmccDispatch; SessionFresh, the claim     *)
(* that a receive begun before a session reset never reaches the engine;   *)
(* no frame of the current generation is lost; kernel sessions are handled *)
(* in order; and the receive path implements the queue of OmccQueue.       *)
(***************************************************************************)
EXTENDS OmccDispatch, FiniteSetTheorems, TLAPS

\* What the queue operations do to the set of queued frames.
LEMMA RangeAppend ==
  ASSUME NEW S, NEW q \in Seq(S), NEW f \in S
  PROVE  Append(q, f) \in Seq(S) /\ Range(Append(q, f)) = Range(q) \cup {f}
<1> DEFINE r == Append(q, f)
<1>1. /\ r \in Seq(S) /\ DOMAIN r = 1 .. Len(q) + 1
      /\ \A i \in 1 .. Len(q) : r[i] = q[i]
      /\ r[Len(q) + 1] = f
      /\ DOMAIN q = 1 .. Len(q) /\ Len(q) \in Nat
  OBVIOUS
<1> HIDE DEF r
<1>2. Range(r) \subseteq Range(q) \cup {f}
  BY <1>1 DEF Range
<1>3. Range(q) \cup {f} \subseteq Range(r)
  BY <1>1 DEF Range
<1>4. QED BY <1>1, <1>2, <1>3 DEF r

\* The elements of a queue are its head and those of its tail.
LEMMA RangeTail ==
  ASSUME NEW S, NEW q \in Seq(S), q # <<>>
  PROVE  /\ Tail(q) \in Seq(S) /\ Head(q) \in S
         /\ Range(q) = Range(Tail(q)) \cup {Head(q)}
<1> DEFINE r == Tail(q)
<1>1. /\ r \in Seq(S) /\ Len(q) \in Nat \ {0} /\ DOMAIN q = 1 .. Len(q)
      /\ DOMAIN r = 1 .. Len(q) - 1
      /\ \A i \in 1 .. Len(q) - 1 : r[i] = q[i + 1]
      /\ Head(q) = q[1] /\ q[1] \in S
  OBVIOUS
<1> HIDE DEF r
<1>2. Range(r) \cup {q[1]} \subseteq Range(q)
  BY <1>1 DEF Range
<1>3. ASSUME NEW i \in 1 .. Len(q) PROVE q[i] \in Range(r) \cup {q[1]}
  <2>1. CASE i = 1 BY <2>1
  <2>2. CASE i # 1
    <3>1. i - 1 \in 1 .. Len(q) - 1 /\ r[i - 1] = q[i]
      BY <1>1, <2>2
    <3>2. QED BY <1>1, <3>1 DEF Range
  <2>3. QED BY <2>1, <2>2
<1>4. Range(q) \subseteq Range(r) \cup {q[1]}
  BY <1>1, <1>3 DEF Range
<1>5. QED BY <1>1, <1>2, <1>4 DEF r

\* The cleared queue holds nothing.
LEMMA RangeEmpty == ASSUME NEW S PROVE <<>> \in Seq(S) /\ Range(<<>>) = {}
BY DEF Range

\* Facts about the steps that touch the queue: push, pop and peek.
LEMMA PushFact ==
  ASSUME TypeOK, NEW f \in Frame, push(f)
  PROVE  /\ high' \in Seq(Frame) /\ normal' \in Seq(Frame)
         /\ Pending' = Pending \cup {f}
<1>1. high \in Seq(Frame) /\ normal \in Seq(Frame)
  BY DEF TypeOK
<1>2. /\ Append(high, f) \in Seq(Frame)
      /\ Range(Append(high, f)) = Range(high) \cup {f}
  BY <1>1, RangeAppend
<1>3. /\ Append(normal, f) \in Seq(Frame)
      /\ Range(Append(normal, f)) = Range(normal) \cup {f}
  BY <1>1, RangeAppend
<1>4. CASE f.prio = "high"
  <2>1. high' = Append(high, f) /\ normal' = normal
    BY <1>4 DEF push
  <2>2. QED BY <1>1, <1>2, <2>1 DEF Pending
<1>5. CASE f.prio # "high"
  <2>1. normal' = Append(normal, f) /\ high' = high
    BY <1>5 DEF push
  <2>2. QED BY <1>1, <1>3, <2>1 DEF Pending
<1>6. QED BY <1>4, <1>5

\* pop removes nothing but the frame peek shows.
LEMMA PopFact ==
  ASSUME TypeOK, outputReady, pop
  PROVE  /\ high' \in Seq(Frame) /\ normal' \in Seq(Frame)
         /\ Pending = Pending' \cup {peek}
         /\ peek \in Frame
<1>1. CASE high # <<>>
  <2>1. high' = Tail(high) /\ normal' = normal /\ peek = Head(high)
    BY <1>1 DEF pop, peek
  <2>2. QED BY <1>1, <2>1, RangeTail DEF TypeOK, Pending
<1>2. CASE high = <<>>
  <2>1. normal # <<>> /\ normal' = Tail(normal) /\ high' = high /\ peek = Head(normal)
    BY <1>2 DEF pop, peek, outputReady
  <2>2. QED BY <2>1, RangeTail DEF TypeOK, Pending
<1>3. QED BY <1>1, <1>2

-----------------------------------------------------------------------------
\* The receive path starts well typed.
LEMMA InitTypeOK == Init => TypeOK
<1> SUFFICES ASSUME Init PROVE TypeOK
  OBVIOUS
<1>1. high \in Seq(Frame) /\ normal \in Seq(Frame)
  BY RangeEmpty DEF Init
<1>2. QED BY <1>1 DEF Init, TypeOK

\* Every step of receiver, dispatcher and main loop preserves the types.
LEMMA NextTypeOK == TypeOK /\ [Next]_vars => TypeOK'
<1> SUFFICES ASSUME TypeOK, [Next]_vars PROVE TypeOK'
  OBVIOUS
<1> USE DEF rxVars, dispVars, mainVars
<1>2. CASE Cancel BY <1>2 DEF TypeOK, Cancel
<1>3. CASE RxLoad BY <1>3 DEF TypeOK, RxLoad
<1>4. ASSUME NEW r \in Records, RxRead(r)
      PROVE  TypeOK'
  <2> DEFINE f == [id |-> nextId, prio |-> r[1], inst |-> r[2], sess |-> r[3],
                   gen |-> rxGen, began |-> rxBegan]
  <2>0. r[1] \in Prio /\ r[2] \in Nat /\ r[3] \in Nat
    BY DispatchAssumption
  <2>1. f \in Frame
    BY <2>0 DEF TypeOK, Frame
  <2>2. rxFrame' = {f} /\ wire' = wire \cup {f}
    BY <1>4 DEF RxRead
  <2>3. QED BY <1>4, <2>1, <2>2 DEF TypeOK, RxRead
<1>5. CASE RxStop BY <1>5 DEF TypeOK, RxStop
<1>6. CASE Enqueue
  <2>1. PICK f \in rxFrame : Ingress(f)
    BY <1>6 DEF Enqueue
  <2>2. f \in Frame
    BY <2>1 DEF TypeOK
  <2>3. high' \in Seq(Frame) /\ normal' \in Seq(Frame)
    BY <2>1, <2>2, PushFact DEF Ingress, TypeOK
  <2>4. /\ queueErr' \in BOOLEAN
        /\ dpc' \in {"select", "publish", "stopped"}
    BY <2>1 DEF Ingress, TypeOK
  <2>5. QED BY <1>6, <2>3, <2>4 DEF TypeOK, Enqueue
<1>7. CASE ResetTake BY <1>7, RangeEmpty DEF TypeOK, ResetTake
<1>8. CASE ResetPublish BY <1>8 DEF TypeOK, ResetPublish, acknowledge
<1>9. CASE DispatcherStop BY <1>9 DEF TypeOK, DispatcherStop
<1>10. CASE TakeFrame
  <2>1. /\ high' \in Seq(Frame) /\ normal' \in Seq(Frame)
        /\ peek \in Frame
    BY <1>10, PopFact DEF TakeFrame
  <2>2. SessionOf(peek) \in [inst : Nat, sess : Nat]
    BY <2>1 DEF Frame, SessionOf
  <2>3. QED BY <1>10, <2>1, <2>2 DEF TypeOK, TakeFrame
<1>11. CASE SessionResetEvent BY <1>11 DEF TypeOK, SessionResetEvent
<1>12. CASE ResetAcknowledged BY <1>12 DEF TypeOK, ResetAcknowledged
<1>13. CASE OtherWork BY <1>13 DEF TypeOK, OtherWork
<1>14. CASE WorkDone BY <1>14 DEF TypeOK, WorkDone
<1>15. CASE TakeError BY <1>15 DEF TypeOK, TakeError
<1>16. CASE MainFail BY <1>16 DEF TypeOK, MainFail
<1>17. CASE MainCancelled BY <1>17 DEF TypeOK, MainCancelled
<1>18. CASE UNCHANGED vars BY <1>18 DEF TypeOK, vars
<1>19. QED
  BY <1>2, <1>3, <1>4, <1>5, <1>6, <1>7, <1>8, <1>9, <1>10, <1>11,
     <1>12, <1>13, <1>14, <1>15, <1>16, <1>17, <1>18 DEF Next

\* Every reachable state of the receive path is well typed.
THEOREM TypeCorrect == Spec => []TypeOK
BY InitTypeOK, NextTypeOK, PTL DEF Spec

-----------------------------------------------------------------------------
\* The inductive invariant holds when the goroutines start.
LEMMA InitSession == Init => SessionInv
<1> SUFFICES ASSUME Init PROVE SessionInv
  OBVIOUS
<1>1. Pending = {}
  BY RangeEmpty DEF Init, Pending
<1>2. QED BY <1>1 DEF Init, SessionInv, SessionFresh

\* Every step preserves the relation of generations, frames and Reset calls.
LEMMA NextSession == TypeOK /\ SessionInv /\ [Next]_vars => SessionInv'
<1> SUFFICES ASSUME TypeOK, SessionInv, [Next]_vars, Running' PROVE SessionInv'
  BY DEF SessionInv
<1> USE DEF rxVars, dispVars, mainVars, Running, SessionFresh
<1>2. CASE Cancel
  BY <1>2 DEF TypeOK, SessionInv, Cancel, Pending
<1>3. CASE RxLoad
  BY <1>3 DEF TypeOK, SessionInv, RxLoad, Pending
<1>4. ASSUME NEW r \in Records, RxRead(r)
      PROVE  SessionInv'
  BY <1>4 DEF TypeOK, SessionInv, RxRead, Pending
<1>5. CASE RxStop
  BY <1>5 DEF TypeOK, SessionInv, RxStop, Pending
<1>6. CASE Enqueue
  <2>1. PICK f \in rxFrame : Ingress(f)
    BY <1>6 DEF Enqueue
  <2>2. f \in Frame
    BY <2>1 DEF TypeOK
  <2>3. Pending' = Pending \/ (Pending' = Pending \cup {f} /\ f.gen = generation)
    BY <2>1, <2>2, PushFact DEF Ingress, Pending
  <2>4. mpc # "offer" => \A g \in Pending' : g.began = calls
    BY <1>6, <2>1, <2>3 DEF SessionInv, Enqueue
  <2>5. dpc' \in {"select", "stopped"}
    BY <1>6, <2>1 DEF Ingress, Enqueue
  <2>6. QED BY <1>6, <2>4, <2>5 DEF TypeOK, SessionInv, Enqueue
<1>7. CASE ResetTake
  <2>1. Pending' = {}
    BY <1>7, RangeEmpty DEF ResetTake, Pending
  <2>2. /\ mpc' = "ackwait" /\ dpc' = "publish"
        /\ generation' = generation + 1 /\ generation + 1 = calls
        /\ published = generation /\ rxGen <= published
    BY <1>7 DEF ResetTake, SessionInv
  <2>3. \A f \in rxFrame : f.gen <= generation /\ f.gen \in Nat
    BY <1>7 DEF ResetTake, SessionInv, TypeOK, Frame
  <2>4. QED BY <1>7, <2>1, <2>2, <2>3 DEF TypeOK, SessionInv, ResetTake
<1>8. CASE ResetPublish
  BY <1>8 DEF TypeOK, SessionInv, ResetPublish, acknowledge, Pending
<1>9. CASE DispatcherStop
  BY <1>9 DEF TypeOK, SessionInv, DispatcherStop, Pending
<1>10. CASE TakeFrame
  <2>1. Pending = Pending' \cup {peek} /\ peek \in Frame
    BY <1>10, PopFact DEF TakeFrame
  <2>2. peek.began = calls
    BY <1>10, <2>1 DEF TakeFrame, SessionInv
  <2>3. \A f \in Pending' : f.began = calls
    BY <1>10, <2>1 DEF TakeFrame, SessionInv
  <2>4. CASE observe(peek) = "stale"
    BY <1>10, <2>3, <2>4 DEF TypeOK, SessionInv, TakeFrame
  <2>5. CASE observe(peek) = "accept"
    BY <1>10, <2>2, <2>3, <2>5 DEF TypeOK, SessionInv, TakeFrame
  <2>6. CASE observe(peek) = "advance"
    BY <1>10, <2>2, <2>6 DEF TypeOK, SessionInv, TakeFrame
  <2>7. QED BY <1>10, <2>4, <2>5, <2>6 DEF TakeFrame
<1>11. CASE SessionResetEvent
  BY <1>11 DEF TypeOK, SessionInv, SessionResetEvent, Pending
<1>12. CASE ResetAcknowledged
  BY <1>12 DEF TypeOK, SessionInv, ResetAcknowledged, Pending
<1>13. CASE OtherWork
  BY <1>13 DEF TypeOK, SessionInv, OtherWork, Pending
<1>14. CASE WorkDone
  BY <1>14 DEF TypeOK, SessionInv, WorkDone, Pending
<1>15. CASE TakeError
  BY <1>15 DEF TakeError
<1>16. CASE MainFail
  BY <1>16 DEF MainFail
<1>17. CASE MainCancelled
  BY <1>17 DEF MainCancelled
<1>18. CASE UNCHANGED vars
  BY <1>18 DEF TypeOK, SessionInv, vars, Pending
<1>19. QED
  BY <1>2, <1>3, <1>4, <1>5, <1>6, <1>7, <1>8, <1>9, <1>10, <1>11,
     <1>12, <1>13, <1>14, <1>15, <1>16, <1>17, <1>18 DEF Next

\* No frame whose receive began before the latest Reset call is handled, for
\* every capacity and every number of frames, resets and kernel sessions.
THEOREM SessionFreshness == Spec => []SessionFresh
<1>1. SessionInv => SessionFresh
  BY DEF SessionInv, SessionFresh, Running
<1>2. QED
  BY InitSession, NextSession, TypeCorrect, <1>1, PTL DEF Spec

-----------------------------------------------------------------------------
\* Nothing has been read when the goroutines start.
LEMMA InitLoss == Init => LossInv
BY DEF Init, LossInv, NoSilentLoss

\* Every step keeps track of the frames of the current generation.
LEMMA NextLoss == TypeOK /\ SessionInv /\ LossInv /\ [Next]_vars => LossInv'
<1> SUFFICES ASSUME TypeOK, SessionInv, LossInv, [Next]_vars PROVE LossInv'
  OBVIOUS
<1> USE DEF rxVars, dispVars, mainVars, Running, NoSilentLoss
<1>2. CASE Cancel BY <1>2 DEF LossInv, Cancel, Pending
<1>3. CASE RxLoad BY <1>3 DEF LossInv, RxLoad, Pending
<1>4. ASSUME NEW r \in Records, RxRead(r)
      PROVE  LossInv'
  <2> DEFINE f == [id |-> nextId, prio |-> r[1], inst |-> r[2], sess |-> r[3],
                   gen |-> rxGen, began |-> rxBegan]
  <2>1. /\ rxpc = "read" /\ rxpc' = "send" /\ rxFrame' = {f} /\ wire' = wire \cup {f}
        /\ Pending' = Pending
        /\ UNCHANGED <<dpc, generation, published, taken>>
    BY <1>4 DEF RxRead, Pending
  <2>2. f.gen <= published
    BY <1>4 DEF RxRead, SessionInv
  <2> HIDE DEF f
  <2>3. QED BY <2>1, <2>2 DEF LossInv
<1>5. CASE RxStop BY <1>5 DEF LossInv, RxStop, Pending
<1>6. CASE Enqueue
  <2>1. PICK f \in rxFrame : Ingress(f)
    BY <1>6 DEF Enqueue
  <2>2. f \in Frame /\ rxFrame = {f}
    BY <1>6, <2>1 DEF TypeOK, LossInv, Enqueue
  <2>3. \/ f.gen # generation /\ Pending' = Pending
        \/ Pending' = Pending \cup {f}
        \/ dpc' = "stopped"
    BY <2>1, <2>2, PushFact DEF Ingress, Pending
  <2>4. QED BY <1>6, <2>2, <2>3 DEF LossInv, Enqueue
<1>7. CASE ResetTake BY <1>7 DEF LossInv, ResetTake
<1>8. CASE ResetPublish
  <2>1. \A f \in wire : f.gen \in Nat /\ f.gen <= published
    BY DEF LossInv, TypeOK, Frame
  <2>2. published + 1 = generation /\ published' = generation /\ generation' = generation
    BY <1>8 DEF ResetPublish, SessionInv
  <2>3. \A f \in wire : f.gen # generation /\ f.gen <= generation
    BY <2>1, <2>2 DEF TypeOK
  <2>4. QED BY <1>8, <2>2, <2>3 DEF LossInv, ResetPublish
<1>9. CASE DispatcherStop BY <1>9 DEF LossInv, DispatcherStop
<1>10. CASE TakeFrame
  <2>1. Pending = Pending' \cup {peek} /\ taken' = taken \cup {peek}
    BY <1>10, PopFact DEF TakeFrame
  <2>2. QED BY <1>10, <2>1 DEF LossInv, TakeFrame
<1>11. CASE SessionResetEvent BY <1>11 DEF LossInv, SessionResetEvent, Pending
<1>12. CASE ResetAcknowledged BY <1>12 DEF LossInv, ResetAcknowledged, Pending
<1>13. CASE OtherWork BY <1>13 DEF LossInv, OtherWork, Pending
<1>14. CASE WorkDone BY <1>14 DEF LossInv, WorkDone, Pending
<1>15. CASE TakeError BY <1>15 DEF LossInv, TakeError, Pending
<1>16. CASE MainFail BY <1>16 DEF LossInv, MainFail, Pending
<1>17. CASE MainCancelled BY <1>17 DEF LossInv, MainCancelled, Pending
<1>18. CASE UNCHANGED vars BY <1>18 DEF LossInv, vars, Pending
<1>19. QED
  BY <1>2, <1>3, <1>4, <1>5, <1>6, <1>7, <1>8, <1>9, <1>10, <1>11,
     <1>12, <1>13, <1>14, <1>15, <1>16, <1>17, <1>18 DEF Next

\* The inductive invariants of generations and of frames hold together.
LEMMA SessionAndLoss == Spec => [](SessionInv /\ LossInv)
BY InitSession, NextSession, InitLoss, NextLoss, TypeCorrect, PTL DEF Spec

\* The dispatcher drops no frame of its generation and carries on, for every capacity.
THEOREM Lossless == Spec => []NoSilentLoss
<1>1. LossInv => NoSilentLoss BY DEF LossInv
<1>2. QED BY <1>1, SessionAndLoss, PTL

-----------------------------------------------------------------------------
\* No kernel session has been observed when the goroutines start.
LEMMA InitKernel == Init => KernelInv
<1> SUFFICES ASSUME Init PROVE KernelInv
  OBVIOUS
<1>1. Pending = {}
  BY RangeEmpty DEF Init, Pending
<1>2. QED BY <1>1 DEF Init, KernelInv

\* Every step preserves the order of kernel sessions.
LEMMA NextKernel == TypeOK /\ KernelInv /\ [Next]_vars => KernelInv'
<1> SUFFICES ASSUME TypeOK, KernelInv, [Next]_vars, XgsEvidence PROVE KernelInv'
  BY DEF KernelInv
<1> USE DEF rxVars, dispVars, mainVars
<1>2. CASE Cancel BY <1>2 DEF KernelInv, Cancel, Pending
<1>3. CASE RxLoad BY <1>3 DEF KernelInv, RxLoad, Pending
<1>4. ASSUME NEW r \in Records, RxRead(r)
      PROVE  KernelInv'
  <2>0. r[2] \in Nat /\ r[2] >= 1
    BY DispatchAssumption
  <2>1. /\ \A f \in rxFrame' : f.inst >= 1
        /\ Pending' = Pending /\ UNCHANGED <<known, era, cur>>
    BY <1>4, <2>0 DEF RxRead, Pending
  <2>2. QED BY <2>1 DEF KernelInv
<1>5. CASE RxStop BY <1>5 DEF KernelInv, RxStop, Pending
<1>6. CASE Enqueue
  <2>1. PICK f \in rxFrame : Ingress(f)
    BY <1>6 DEF Enqueue
  <2>2. Pending' \subseteq Pending \cup {f}
    BY <2>1, PushFact DEF Ingress, Pending, TypeOK
  <2>3. QED BY <1>6, <2>1, <2>2 DEF KernelInv, Enqueue
<1>7. CASE ResetTake BY <1>7, RangeEmpty DEF KernelInv, ResetTake, Pending
<1>8. CASE ResetPublish BY <1>8 DEF KernelInv, ResetPublish, Pending
<1>9. CASE DispatcherStop BY <1>9 DEF KernelInv, DispatcherStop, Pending
<1>10. CASE TakeFrame
  <2>1. /\ Pending = Pending' \cup {peek} /\ peek \in Frame
        /\ era' = {g \in era : g.inst = peek.inst} \cup {peek}
        /\ rxFrame' = rxFrame
    BY <1>10, PopFact DEF TakeFrame
  <2>2. /\ peek.sess \in Nat /\ peek.inst \in Nat /\ peek.inst >= 1
        /\ known.sess \in Nat /\ known.inst \in Nat
    BY <2>1 DEF KernelInv, Frame, TypeOK
  <2>3. \A g \in era : g.sess \in Nat /\ g.inst = known.inst /\ g.sess <= known.sess
    BY DEF TypeOK, Frame, KernelInv
  <2>4. CASE observe(peek) = "stale"
    <3>1. /\ peek.sess < known.sess /\ peek.inst = known.inst
          /\ UNCHANGED <<known, cur>>
      BY <1>10, <2>4 DEF TakeFrame, observe
    <3>2. \A g \in era' : g.inst = known.inst /\ g.sess <= known.sess
      BY <2>1, <2>2, <2>3, <3>1
    <3>3. QED BY <2>1, <2>2, <3>1, <3>2 DEF KernelInv
  <2>5. CASE observe(peek) # "stale"
    <3>1. /\ known' = SessionOf(peek) /\ cur' = {peek}
          /\ \/ known.inst = 0 \/ peek.inst # known.inst
             \/ known.sess <= peek.sess
      BY <1>10, <2>2, <2>5 DEF TakeFrame, observe
    <3>2. known'.inst = peek.inst /\ known'.sess = peek.sess
      BY <3>1 DEF SessionOf
    <3>3. \A g \in era' : g.inst = peek.inst /\ g.sess <= peek.sess
      BY <2>1, <2>2, <2>3, <3>1
    <3>4. /\ \A f \in cur' : SessionOf(f) = known'
          /\ known'.inst # 0
      BY <2>2, <3>1, <3>2
    <3>5. \A f \in rxFrame' \cup Pending' : f.inst >= 1
      BY <2>1 DEF KernelInv
    <3>6. QED BY <3>2, <3>3, <3>4, <3>5 DEF KernelInv
  <2>6. QED BY <2>4, <2>5
<1>11. CASE SessionResetEvent BY <1>11 DEF KernelInv, SessionResetEvent, Pending
<1>12. CASE ResetAcknowledged BY <1>12 DEF KernelInv, ResetAcknowledged, Pending
<1>13. CASE OtherWork BY <1>13 DEF KernelInv, OtherWork, Pending
<1>14. CASE WorkDone BY <1>14 DEF KernelInv, WorkDone, Pending
<1>15. CASE TakeError BY <1>15 DEF KernelInv, TakeError, Pending
<1>16. CASE MainFail BY <1>16 DEF KernelInv, MainFail, Pending
<1>17. CASE MainCancelled BY <1>17 DEF KernelInv, MainCancelled, Pending
<1>18. CASE UNCHANGED vars BY <1>18 DEF KernelInv, vars, Pending
<1>19. QED
  BY <1>2, <1>3, <1>4, <1>5, <1>6, <1>7, <1>8, <1>9, <1>10, <1>11,
     <1>12, <1>13, <1>14, <1>15, <1>16, <1>17, <1>18 DEF Next

\* observeXGSOMCIKernelSession keeps the sessions of the frames it accepts from one kernel
\* instance in order, although high-priority frames overtake and late records arrive.
THEOREM SessionOrder == Spec => []KernelSessionOrder
<1>1. KernelInv => KernelSessionOrder
  BY DEF KernelInv, KernelSessionOrder, SessionOf
<1>2. QED BY <1>1, InitKernel, NextKernel, TypeCorrect, PTL DEF Spec
-----------------------------------------------------------------------------
\* The queued frames are frames.
LEMMA PendingTyped == ASSUME TypeOK PROVE Pending \subseteq Frame
<1>1. ASSUME NEW q \in Seq(Frame) PROVE Range(q) \subseteq Frame
  <2>1. DOMAIN q = 1 .. Len(q) /\ \A i \in 1 .. Len(q) : q[i] \in Frame
    OBVIOUS
  <2>2. QED BY <2>1 DEF Range
<1>2. QED BY <1>1 DEF TypeOK, Pending

\* Appending the youngest frame keeps a queue in receive order.
LEMMA OrderAppend ==
  ASSUME NEW q \in Seq(Frame), NEW f \in Frame, InOrder(q),
         \A g \in Range(q) : g.id < f.id
  PROVE  InOrder(Append(q, f))
<1> DEFINE r == Append(q, f)
<1>1. /\ DOMAIN r = 1 .. Len(q) + 1 /\ DOMAIN q = 1 .. Len(q) /\ Len(q) \in Nat
      /\ \A i \in 1 .. Len(q) : r[i] = q[i]
      /\ r[Len(q) + 1] = f
  OBVIOUS
<1> HIDE DEF r
<1>2. SUFFICES ASSUME NEW i \in DOMAIN r, NEW j \in DOMAIN r, i < j
               PROVE  r[i].id < r[j].id
  BY DEF InOrder, r
<1>3. i \in 1 .. Len(q) /\ r[i] = q[i] /\ q[i] \in Range(q)
  BY <1>1, <1>2 DEF Range
<1>4. CASE j = Len(q) + 1
  BY <1>1, <1>3, <1>4
<1>5. CASE j # Len(q) + 1
  <2>1. j \in 1 .. Len(q) /\ r[j] = q[j]
    BY <1>1, <1>5
  <2>2. QED BY <1>1, <1>2, <1>3, <2>1 DEF InOrder
<1>6. QED BY <1>4, <1>5

\* The head of an ordered queue is older than the rest, which stays ordered.
LEMMA OrderTail ==
  ASSUME NEW q \in Seq(Frame), q # <<>>, InOrder(q)
  PROVE  /\ InOrder(Tail(q))
         /\ \A g \in Range(Tail(q)) : Head(q).id < g.id
<1> DEFINE r == Tail(q)
<1>1. /\ Len(q) \in Nat \ {0} /\ DOMAIN q = 1 .. Len(q)
      /\ DOMAIN r = 1 .. Len(q) - 1
      /\ \A i \in 1 .. Len(q) - 1 : r[i] = q[i + 1]
      /\ Head(q) = q[1]
  OBVIOUS
<1> HIDE DEF r
<1>2. \A i \in DOMAIN r : i + 1 \in DOMAIN q /\ r[i] = q[i + 1] /\ 1 < i + 1
  BY <1>1
<1>3. \A i, j \in DOMAIN r : i < j => i + 1 < j + 1
  BY <1>1
<1>4. InOrder(r)
  BY <1>2, <1>3 DEF InOrder
<1>5. ASSUME NEW g \in Range(r) PROVE q[1].id < g.id
  <2>1. PICK i \in DOMAIN r : g = r[i]
    BY DEF Range
  <2>2. 1 \in DOMAIN q
    BY <1>1
  <2>3. QED BY <1>2, <2>1, <2>2 DEF InOrder
<1>6. QED BY <1>1, <1>4, <1>5 DEF r

\* A queue holds at most as many frames as it is long.
LEMMA RangeSize ==
  ASSUME NEW q \in Seq(Frame)
  PROVE  IsFiniteSet(Range(q)) /\ Cardinality(Range(q)) <= Len(q)
<1>1. DOMAIN q = 1 .. Len(q) /\ Len(q) \in Nat
  OBVIOUS
<1>2. q \in Surjection(1 .. Len(q), Range(q))
  <2>1. q \in [1 .. Len(q) -> Range(q)]
    BY <1>1 DEF Range
  <2>2. \A y \in Range(q) : \E i \in 1 .. Len(q) : q[i] = y
    BY <1>1 DEF Range
  <2>3. QED BY <2>1, <2>2 DEF Surjection
<1>3. IsFiniteSet(1 .. Len(q)) /\ Cardinality(1 .. Len(q)) = Len(q)
  BY <1>1, FS_Interval
<1>4. QED BY <1>2, <1>3, FS_Surjection

\* So the abstract queue is never larger than the two concrete ones.
LEMMA PendingSize ==
  ASSUME TypeOK
  PROVE  IsFiniteSet(Pending) /\ Cardinality(Pending) <= Len(high) + Len(normal)
<1> DEFINE H == Range(high)
           N == Range(normal)
<1>1. high \in Seq(Frame) /\ normal \in Seq(Frame)
  BY DEF TypeOK
<1>2. /\ IsFiniteSet(H) /\ Cardinality(H) <= Len(high)
      /\ IsFiniteSet(N) /\ Cardinality(N) <= Len(normal)
  BY <1>1, RangeSize
<1> HIDE DEF H, N
<1>3. IsFiniteSet(H \cap N) /\ Cardinality(H \cap N) \in Nat
  BY <1>2, FS_Intersection, FS_CardinalityType
<1>4. /\ IsFiniteSet(H \cup N)
      /\ Cardinality(H \cup N) = Cardinality(H) + Cardinality(N) - Cardinality(H \cap N)
  BY <1>2, FS_Union
<1>5. Cardinality(H) \in Nat /\ Cardinality(N) \in Nat
  BY <1>2, FS_CardinalityType
<1>6. Len(high) \in Nat /\ Len(normal) \in Nat
  BY <1>1
<1>7. Cardinality(H \cup N) <= Len(high) + Len(normal)
  BY <1>2, <1>3, <1>4, <1>5, <1>6
<1>8. QED BY <1>4, <1>7 DEF H, N, Pending

-----------------------------------------------------------------------------
\* Both queues start empty.
LEMMA InitQueue == Init => QueueInv
<1> SUFFICES ASSUME Init PROVE QueueInv
  OBVIOUS
<1>1. Range(high) = {} /\ Range(normal) = {} /\ Pending = {}
  BY RangeEmpty DEF Init, Pending
<1>2. InOrder(high) /\ InOrder(normal)
  BY DEF Init, InOrder
<1>3. QED BY <1>1, <1>2 DEF Init, QueueInv

\* What accepting the frame the receiver offers does to the two queues.
LEMMA PushOrder ==
  ASSUME TypeOK, QueueInv, NEW f \in rxFrame, push(f)
  PROVE  /\ \A g \in Range(high') : g.prio = "high"
         /\ \A g \in Range(normal') : g.prio = "normal"
         /\ InOrder(high') /\ InOrder(normal')
         /\ Pending' = Pending \cup {f}
<1>1. /\ high \in Seq(Frame) /\ normal \in Seq(Frame) /\ f \in Frame
      /\ f.prio = "high" \/ f.prio = "normal"
  BY DEF TypeOK, Frame, Prio
<1>2. Pending' = Pending \cup {f}
  BY <1>1, PushFact
<1>3. /\ \A g \in Range(high) : g.id < f.id
      /\ \A g \in Range(normal) : g.id < f.id
      /\ InOrder(high) /\ InOrder(normal)
      /\ \A g \in Range(high) : g.prio = "high"
      /\ \A g \in Range(normal) : g.prio = "normal"
  BY DEF QueueInv, Pending
<1>4. CASE f.prio = "high"
  <2>1. high' = Append(high, f) /\ normal' = normal
    BY <1>4 DEF push
  <2>2. Range(high') = Range(high) \cup {f}
    BY <1>1, <2>1, RangeAppend
  <2>3. InOrder(high')
    BY <1>1, <1>3, <2>1, OrderAppend
  <2>4. QED BY <1>2, <1>3, <1>4, <2>1, <2>2, <2>3
<1>5. CASE f.prio = "normal"
  <2>1. normal' = Append(normal, f) /\ high' = high
    BY <1>5 DEF push
  <2>2. Range(normal') = Range(normal) \cup {f}
    BY <1>1, <2>1, RangeAppend
  <2>3. InOrder(normal')
    BY <1>1, <1>3, <2>1, OrderAppend
  <2>4. QED BY <1>2, <1>3, <1>5, <2>1, <2>2, <2>3
<1>6. QED BY <1>1, <1>4, <1>5

\* What handing over the next frame does to them: it was the first of all that wait.
LEMMA PopOrder ==
  ASSUME TypeOK, QueueInv, outputReady, pop
  PROVE  /\ \A g \in Range(high') : g.prio = "high"
         /\ \A g \in Range(normal') : g.prio = "normal"
         /\ InOrder(high') /\ InOrder(normal')
         /\ peek \in Pending /\ Pending' = Pending \ {peek}
         /\ \A g \in Pending : Queue!Before(peek, g)
<1>1. high \in Seq(Frame) /\ normal \in Seq(Frame)
  BY DEF TypeOK
<1>2. /\ InOrder(high) /\ InOrder(normal)
      /\ \A g \in Range(high) : g.prio = "high"
      /\ \A g \in Range(normal) : g.prio = "normal"
  BY DEF QueueInv
<1>3. \A g \in Range(high) \cup Range(normal) : g \in Frame /\ g.id \in Nat
  BY PendingTyped DEF Pending, Frame
<1>4. CASE high # <<>>
  <2>1. high' = Tail(high) /\ normal' = normal /\ peek = Head(high)
    BY <1>4 DEF pop, peek
  <2>2. Range(high) = Range(high') \cup {peek}
    BY <1>1, <1>4, <2>1, RangeTail
  <2>3. InOrder(high') /\ \A g \in Range(high') : peek.id < g.id
    BY <1>1, <1>2, <1>4, <2>1, OrderTail
  <2>4. peek \notin Range(high') /\ peek \notin Range(normal) /\ peek.prio = "high"
    BY <1>2, <1>3, <2>2, <2>3
  <2>5. \A g \in Pending : Queue!Before(peek, g)
    BY <1>2, <1>3, <2>2, <2>3, <2>4 DEF Queue!Before, Pending
  <2>6. QED BY <1>2, <2>1, <2>2, <2>3, <2>4, <2>5 DEF Pending
<1>5. CASE high = <<>>
  <2>1. normal # <<>> /\ normal' = Tail(normal) /\ high' = high /\ peek = Head(normal)
    BY <1>5 DEF pop, peek, outputReady
  <2>2. Range(normal) = Range(normal') \cup {peek} /\ Range(high) = {}
    BY <1>1, <1>5, <2>1, RangeTail, RangeEmpty
  <2>3. InOrder(normal') /\ \A g \in Range(normal') : peek.id < g.id
    BY <1>1, <1>2, <2>1, OrderTail
  <2>4. peek \notin Range(normal') /\ peek.prio = "normal"
    BY <1>2, <1>3, <2>2, <2>3
  <2>5. \A g \in Pending : Queue!Before(peek, g)
    BY <1>2, <1>3, <2>2, <2>3, <2>4 DEF Queue!Before, Pending
  <2>6. QED BY <1>2, <2>1, <2>2, <2>3, <2>4, <2>5 DEF Pending
<1>6. QED BY <1>4, <1>5

\* Every step keeps the two queues in receive order.
LEMMA NextQueue == TypeOK /\ LossInv /\ QueueInv /\ [Next]_vars => QueueInv'
<1> SUFFICES ASSUME TypeOK, LossInv, QueueInv, [Next]_vars PROVE QueueInv'
  OBVIOUS
<1> USE DEF rxVars, dispVars, mainVars
<1>1. CASE UNCHANGED <<high, normal, nextId, taken>> /\ rxFrame' \subseteq rxFrame
  BY <1>1 DEF QueueInv, Pending, InOrder
<1>2. ASSUME NEW r \in Records, RxRead(r)
      PROVE  QueueInv'
  <2>1. /\ \A f \in rxFrame' : f.id = nextId
        /\ nextId' = nextId + 1 /\ UNCHANGED <<high, normal, taken>>
    BY <1>2 DEF RxRead
  <2>2. \A f \in Pending \cup taken : f.id < nextId
    BY DEF QueueInv
  <2>3. \A f \in Pending \cup taken : f.id \in Nat
    BY PendingTyped DEF TypeOK, Frame
  <2>4. /\ \A f \in rxFrame' \cup Pending \cup taken : f.id < nextId + 1
        /\ \A f \in rxFrame', g \in Pending \cup taken : g.id < f.id
    BY <2>1, <2>2, <2>3 DEF TypeOK
  <2>5. QED BY <2>1, <2>4 DEF QueueInv, Pending, InOrder
<1>3. CASE Enqueue
  <2>1. PICK f \in rxFrame : Ingress(f)
    BY <1>3 DEF Enqueue
  <2>2. rxFrame' = {} /\ UNCHANGED <<nextId, taken>>
    BY <1>3 DEF Enqueue
  <2>3. CASE push(f)
    <3>1. /\ \A g \in Range(high') : g.prio = "high"
          /\ \A g \in Range(normal') : g.prio = "normal"
          /\ InOrder(high') /\ InOrder(normal')
          /\ Pending' = Pending \cup {f}
      BY <2>1, <2>3, PushOrder
    <3>2. QED BY <2>1, <2>2, <3>1 DEF QueueInv, InOrder
  <2>4. CASE UNCHANGED <<high, normal>>
    BY <2>2, <2>4, <1>1
  <2>5. QED BY <2>1, <2>3, <2>4 DEF Ingress
<1>4. CASE ResetTake
  <2>1. /\ high' = <<>> /\ normal' = <<>>
        /\ UNCHANGED <<rxFrame, nextId, taken>>
    BY <1>4 DEF ResetTake
  <2>2. Range(high') = {} /\ Range(normal') = {} /\ Pending' = {}
    BY <2>1, RangeEmpty DEF Pending
  <2>3. QED BY <2>1, <2>2 DEF QueueInv, InOrder
<1>5. CASE TakeFrame
  <2>1. /\ outputReady /\ pop /\ taken' = taken \cup {peek}
        /\ UNCHANGED <<rxFrame, nextId>>
    BY <1>5 DEF TakeFrame
  <2>2. /\ \A g \in Range(high') : g.prio = "high"
        /\ \A g \in Range(normal') : g.prio = "normal"
        /\ InOrder(high') /\ InOrder(normal')
        /\ peek \in Pending /\ Pending' = Pending \ {peek}
    BY <2>1, PopOrder
  <2>3. Pending' \cup taken' \subseteq Pending \cup taken
    BY <2>1, <2>2
  <2>4. QED BY <2>1, <2>2, <2>3 DEF QueueInv, InOrder
<1>6. QED
  BY <1>1, <1>2, <1>3, <1>4, <1>5
  DEF Next, vars, Cancel, RxLoad, RxStop, ResetPublish, DispatcherStop,
      SessionResetEvent, ResetAcknowledged, OtherWork, WorkDone, TakeError, MainFail,
      MainCancelled

\* Every step of the receive path is a step of the abstract queue or none at all.
LEMMA StepRefines ==
  TypeOK /\ QueueInv /\ [Next]_vars => [Queue!Next]_(Queue!vars)
<1> SUFFICES ASSUME TypeOK, QueueInv, [Next]_vars PROVE [Queue!Next]_(Queue!vars)
  OBVIOUS
<1> USE DEF rxVars, dispVars, mainVars
<1>1. CASE UNCHANGED <<high, normal, taken>> /\ (dpc' # "stopped") = (dpc # "stopped")
  BY <1>1 DEF Queue!vars, Pending
<1>2. CASE Enqueue
  <2>1. PICK f \in rxFrame : Ingress(f)
    BY <1>2 DEF Enqueue
  <2>2. dpc = "select" /\ taken' = taken
    BY <1>2 DEF Enqueue
  <2>3. CASE f.gen # generation
    BY <1>1, <2>1, <2>2, <2>3 DEF Ingress
  <2>4. CASE f.gen = generation /\ ~Full
    <3>1. push(f) /\ dpc' = dpc
      BY <2>1, <2>4 DEF Ingress
    <3>2. Pending' = Pending \cup {f}
      BY <2>1, <3>1, PushOrder
    <3>3. Cardinality(Pending) < Capacity
      <4>1. /\ Len(high) + Len(normal) \in Nat
            /\ Len(high) + Len(normal) < Capacity
        BY <2>4, DispatchAssumption DEF Full, TypeOK
      <4>2. Cardinality(Pending) \in Nat /\ Cardinality(Pending) <= Len(high) + Len(normal)
        BY PendingSize, FS_CardinalityType
      <4>3. QED BY <4>1, <4>2, DispatchAssumption
    <3>4. \A g \in Pending \cup taken : g.id < f.id
      BY <2>1 DEF QueueInv
    <3>5. Queue!Cardinality(Pending) = Cardinality(Pending)
      BY Zenon DEF Queue!Cardinality, Cardinality
    <3>6. Queue!Accept(f)
      BY <2>2, <3>1, <3>2, <3>3, <3>4, <3>5 DEF Queue!Accept
    <3>7. QED BY <3>2, <3>6 DEF Queue!Next
  <2>5. CASE f.gen = generation /\ Full
    <3>1. dpc' = "stopped" /\ UNCHANGED <<high, normal>>
      BY <2>1, <2>5 DEF Ingress
    <3>2. Queue!Close
      BY <2>2, <3>1 DEF Queue!Close, Pending
    <3>3. QED BY <3>2 DEF Queue!Next
  <2>6. QED BY <2>3, <2>4, <2>5
<1>3. CASE ResetTake
  <2>1. /\ dpc = "select" /\ dpc' = "publish" /\ taken' = taken
        /\ Pending' = {}
    BY <1>3, RangeEmpty DEF ResetTake, Pending
  <2>2. Queue!Forget
    BY <2>1 DEF Queue!Forget
  <2>3. QED BY <2>2 DEF Queue!Next
<1>4. CASE DispatcherStop
  <2>1. Queue!Close
    BY <1>4 DEF DispatcherStop, Queue!Close, Pending
  <2>2. QED BY <2>1 DEF Queue!Next
<1>5. CASE TakeFrame
  <2>1. /\ outputReady /\ pop /\ taken' = taken \cup {peek}
        /\ dpc = "select" /\ dpc' = dpc
    BY <1>5 DEF TakeFrame
  <2>2. /\ peek \in Pending /\ Pending' = Pending \ {peek}
        /\ \A g \in Pending : Queue!Before(peek, g)
    BY <2>1, PopOrder
  <2>3. Queue!Deliver(peek)
    BY <2>1, <2>2 DEF Queue!Deliver
  <2>4. QED BY <2>2, <2>3 DEF Queue!Next
<1>6. CASE ResetPublish
  BY <1>1, <1>6 DEF ResetPublish
<1>7. QED
  BY <1>1, <1>2, <1>3, <1>4, <1>5, <1>6
  DEF Next, vars, Cancel, RxLoad, RxRead, RxStop,
      SessionResetEvent, ResetAcknowledged, OtherWork, WorkDone, TakeError, MainFail,
      MainCancelled

\* The receive path starts as an empty open queue.
LEMMA InitRefines == Init => Queue!Init
BY RangeEmpty DEF Init, Queue!Init, Pending

\* Receiver, dispatcher and main loop together implement the bounded, session-scoped
\* priority queue of OmccQueue, for every capacity.
THEOREM ImplementsQueue == Spec => QueueSpec
<1>1. Spec => []QueueInv
  BY InitQueue, NextQueue, SessionAndLoss, TypeCorrect, PTL DEF Spec
<1>2. QED
  BY <1>1, InitRefines, StepRefines, TypeCorrect, PTL DEF Spec, QueueSpec, Queue!Spec
=============================================================================
