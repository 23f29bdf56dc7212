---------------------------- MODULE OmccDispatch ----------------------------
(***************************************************************************)
(* The OMCC receive path of airoha-omcid: the receiver goroutine, the      *)
(* transaction dispatcher goroutine and the main select loop, which meet   *)
(* only on unbuffered channels and on one atomic generation counter.       *)
(*                                                                         *)
(*   receiver:   load generation -> ReadFrame -> Enqueue (rendezvous)      *)
(*   dispatcher: select over reset / ingress / frames                      *)
(*   main:       select over frames / platform events / tickers / errors   *)
(*                                                                         *)
(* A rendezvous on an unbuffered channel is one step of both goroutines.   *)
(* The dispatcher's reset case is two steps (bump and clear, then publish  *)
(* and acknowledge) because the receiver may load the counter in between.  *)
(* Payloads are abstracted to a priority class, the driver instance and    *)
(* that instance's OMCC session.  The daemon does not rely on the driver   *)
(* to order either: a record may bear any of them.  The process ends when  *)
(* main returns.                                                           *)
(***************************************************************************)
EXTENDS Naturals, Sequences, FiniteSets, Functions

Prio == {"high", "normal"}

CONSTANTS
  Capacity,      \* transactionQueueCapacity, 1024 in the daemon
  XgsEvidence,   \* TRUE when the XGS-PON evidence writer is configured
  MaxFrames,     \* bound: frames the transport delivers
  MaxResets,     \* bound: Reset calls after which no reset event comes
  Records        \* what a record may be: priority class, kernel driver
                 \* instance, OMCC session of that instance

ASSUME DispatchAssumption ==
  /\ Capacity \in Nat \ {0}
  /\ XgsEvidence \in BOOLEAN
  /\ MaxFrames \in Nat
  /\ MaxResets \in Nat
  /\ Records \subseteq Prio \X (Nat \ {0}) \X Nat

VARIABLES
  rxpc,         \* receiver: "load", "read", "send", "done"
  rxGen,        \* receiver's local generation
  rxBegan,      \* history: Reset calls begun when rxGen was loaded
  rxFrame,      \* the frame the receiver offers (empty or a singleton)
  nextId,       \* receive order of the next frame
  dpc,          \* dispatcher: "select", "publish", "stopped"
  generation,   \* run()'s local generation
  published,    \* Dispatcher.generation, the atomic
  high, normal, \* frameQueue
  mpc,          \* main: "select", "busy" (in a case body), "offer" and
                \* "ackwait" (in Reset), "boundary" (handling the frame that
                \* announced a kernel session), "stopped"
  cur,          \* the frame main works on (empty or a singleton)
  ack,          \* the acknowledged channel holds a value
  queueErr,     \* Dispatcher.errors holds ErrQueueFull
  recvErr,      \* receiveErrors holds an error
  cancelled,    \* the signal context is done
  known,        \* kernel instance and session of the evidence, 0 before the
                \* first frame
  calls,        \* Reset calls begun so far
  wire,         \* history: every frame read
  taken,        \* history: every frame main received from the dispatcher
  era           \* history: those received since one of another instance was

rxVars == <<rxpc, rxGen, rxBegan, rxFrame>>
dispVars == <<dpc, generation, published, high, normal>>
mainVars == <<mpc, cur, known, calls, taken, era, era>>
vars == <<rxVars, nextId, dispVars, mainVars, ack, queueErr, recvErr,
          cancelled, wire>>

\* transport.Frame, with the generation Enqueue pairs it with (queuedFrame).
\* began is history: how many Reset calls had begun when the receive started.
Frame == [id : Nat, prio : Prio, inst : Nat, sess : Nat, gen : Nat, began : Nat]

Pending == Range(high) \cup Range(normal)

Init ==
  /\ rxpc = "load" /\ rxGen = 0 /\ rxBegan = 0 /\ rxFrame = {}
  /\ nextId = 1
  /\ dpc = "select" /\ generation = 0 /\ published = 0
  /\ high = <<>> /\ normal = <<>>
  /\ mpc = "select" /\ cur = {} /\ calls = 0
  /\ known = [inst |-> 0, sess |-> 0]
  /\ ack = FALSE /\ queueErr = FALSE /\ recvErr = FALSE /\ cancelled = FALSE
  /\ wire = {} /\ taken = {} /\ era = {}

Running == mpc # "stopped"

-----------------------------------------------------------------------------
(* The environment: the process supervisor.                                *)

Cancel ==
  /\ Running /\ ~cancelled
  /\ cancelled' = TRUE
  /\ UNCHANGED <<rxVars, nextId, dispVars, mainVars, ack, queueErr,
                 recvErr, wire>>

-----------------------------------------------------------------------------
(* The receiver goroutine.                                                 *)

\* Mutant: the counter is read one behind.
RxLoadStale ==
  /\ Running /\ rxpc = "load"
  /\ rxpc' = "read"
  /\ rxGen' = published - 1
  /\ rxBegan' = calls
  /\ UNCHANGED <<rxFrame, nextId, dispVars, mainVars, ack, queueErr,
                 recvErr, cancelled, wire>>

RxLoad ==
  /\ Running /\ rxpc = "load"
  /\ rxpc' = "read"
  /\ rxGen' = published
  /\ rxBegan' = calls
  /\ UNCHANGED <<rxFrame, nextId, dispVars, mainVars, ack, queueErr,
                 recvErr, cancelled, wire>>

\* ReadFrame returns a record, of whatever session of whatever instance.
RxRead(r) ==
  /\ Running /\ rxpc = "read" /\ nextId <= MaxFrames
  /\ LET f == [id |-> nextId, prio |-> r[1], inst |-> r[2], sess |-> r[3],
               gen |-> rxGen, began |-> rxBegan]
     IN  /\ rxFrame' = {f}
         /\ wire' = wire \cup {f}
  /\ nextId' = nextId + 1
  /\ rxpc' = "send"
  /\ UNCHANGED <<rxGen, rxBegan, dispVars, mainVars, ack, queueErr,
                 recvErr, cancelled>>

\* ReadFrame fails, or the context ends while it waits or while Enqueue does;
\* a failed Enqueue reports nothing when the context is done.
RxStop ==
  /\ Running
  /\ \/ rxpc = "read" /\ recvErr' = TRUE
     \/ rxpc \in {"read", "send"} /\ cancelled /\ UNCHANGED recvErr
  /\ rxpc' = "done" /\ rxFrame' = {}
  /\ UNCHANGED <<rxGen, rxBegan, nextId, dispVars, mainVars, ack,
                 queueErr, cancelled, wire>>

-----------------------------------------------------------------------------
(* The dispatcher goroutine.                                               *)

push(f) ==
  IF f.prio = "high"
  THEN high' = Append(high, f) /\ UNCHANGED normal
  ELSE normal' = Append(normal, f) /\ UNCHANGED high

Full == Len(high) + Len(normal) >= Capacity

\* Mutant: no generation check.
IngressAnyGeneration(f) ==
  \/ /\ ~Full
     /\ push(f)
     /\ UNCHANGED <<dpc, queueErr>>
  \/ /\ Full
     /\ queueErr' = TRUE
     /\ dpc' = "stopped"
     /\ UNCHANGED <<high, normal>>

\* Mutant: a full queue drops the frame and carries on.
IngressDropsWhenFull(f) ==
  \/ /\ f.gen # generation \/ Full
     /\ UNCHANGED <<dpc, high, normal, queueErr>>
  \/ /\ f.gen = generation /\ ~Full
     /\ push(f)
     /\ UNCHANGED <<dpc, queueErr>>

\* case item := <-d.ingress, the dispatcher's half of Enqueue.
Ingress(f) ==
  \/ /\ f.gen # generation
     /\ UNCHANGED <<dpc, high, normal, queueErr>>
  \/ /\ f.gen = generation /\ ~Full
     /\ push(f)
     /\ UNCHANGED <<dpc, queueErr>>
  \/ /\ f.gen = generation /\ Full
     /\ queueErr' \in IF cancelled THEN BOOLEAN ELSE {TRUE}
     /\ dpc' = "stopped"
     /\ UNCHANGED <<high, normal>>

Enqueue ==
  /\ Running /\ rxpc = "send" /\ dpc = "select"
  /\ \E f \in rxFrame : Ingress(f)
  /\ rxpc' = "load" /\ rxFrame' = {}
  /\ UNCHANGED <<rxGen, rxBegan, nextId, generation, published,
                 mainVars, ack, recvErr, cancelled, wire>>

\* case acknowledged := <-d.reset, meeting main's send in Reset.
ResetTake ==
  /\ Running /\ mpc = "offer" /\ dpc = "select"
  /\ generation' = generation + 1
  /\ high' = <<>> /\ normal' = <<>>
  /\ dpc' = "publish"
  /\ mpc' = "ackwait"
  /\ UNCHANGED <<rxVars, nextId, published, cur, known, calls, taken,
                 era, ack, queueErr, recvErr, cancelled, wire>>

\* acknowledged <- generation; the mutant forgets it.
noAcknowledge == UNCHANGED ack
acknowledge == ack' = TRUE

ResetPublish ==
  /\ Running /\ dpc = "publish"
  /\ published' = generation
  /\ acknowledge
  /\ dpc' = "select"
  /\ UNCHANGED <<rxVars, nextId, generation, high, normal, mainVars,
                 queueErr, recvErr, cancelled, wire>>

DispatcherStop ==
  /\ Running /\ dpc = "select" /\ cancelled
  /\ dpc' = "stopped"
  /\ UNCHANGED <<rxVars, nextId, generation, published, high, normal,
                 mainVars, ack, queueErr, recvErr, cancelled, wire>>

-----------------------------------------------------------------------------
(* The main loop.                                                          *)

\* Mutant: an older session is a new boundary like any other change.
observeNoStale(f) ==
  IF \/ ~XgsEvidence \/ known.inst = 0
     \/ f.inst = known.inst /\ f.sess = known.sess
  THEN "accept" ELSE "advance"

\* observeXGSOMCIKernelSession: sessions are compared within an instance; a
\* frame of another instance is a boundary whatever its session.
observe(f) ==
  CASE ~XgsEvidence \/ known.inst = 0 -> "accept"
    [] XgsEvidence /\ known.inst # 0 /\ f.inst # known.inst -> "advance"
    [] XgsEvidence /\ known.inst # 0 /\ f.inst = known.inst ->
         IF f.sess < known.sess THEN "stale"
         ELSE IF f.sess = known.sess THEN "accept" ELSE "advance"

SessionOf(f) == [inst |-> f.inst, sess |-> f.sess]

peek == IF high # <<>> THEN Head(high) ELSE Head(normal)

\* Mutant: the low-priority queue is shortened first.
popNormalFirst ==
  IF normal # <<>>
  THEN normal' = Tail(normal) /\ UNCHANGED high
  ELSE high' = Tail(high) /\ UNCHANGED normal

pop ==
  IF high # <<>>
  THEN high' = Tail(high) /\ UNCHANGED normal
  ELSE normal' = Tail(normal) /\ UNCHANGED high

\* if queue.length() != 0; the mutant forgets the second queue.
onlyHigh == high # <<>>
outputReady == high # <<>> \/ normal # <<>>

\* case output <- next, meeting case frame := <-dispatcher.Frames().
TakeFrame ==
  /\ Running /\ mpc = "select" /\ dpc = "select"
  /\ outputReady
  /\ pop
  /\ taken' = taken \cup {peek}
  /\ era' = {g \in era : g.inst = peek.inst} \cup {peek}
  /\ \/ /\ observe(peek) = "stale"
        /\ UNCHANGED <<mpc, cur, known, calls>>
     \/ /\ observe(peek) = "accept"
        /\ mpc' = "busy" /\ cur' = {peek}
        /\ known' = IF XgsEvidence THEN SessionOf(peek) ELSE known
        /\ UNCHANGED calls
     \/ /\ observe(peek) = "advance"
        /\ mpc' = "offer" /\ cur' = {peek}
        /\ known' = SessionOf(peek)
        /\ calls' = calls + 1
  /\ UNCHANGED <<rxVars, nextId, dpc, generation, published, ack,
                 queueErr, recvErr, cancelled, wire>>

\* case value := <-platformEvents with an omcc-session-reset event.
SessionResetEvent ==
  /\ Running /\ mpc = "select" /\ calls < MaxResets
  /\ mpc' = "offer" /\ cur' = {}
  /\ calls' = calls + 1
  /\ UNCHANGED <<rxVars, nextId, dispVars, known, taken, era, ack, queueErr,
                 recvErr, cancelled, wire>>

\* Reset returns: the event is dispatched, or the frame that announced the
\* new kernel session is handled.
ResetAcknowledged ==
  /\ Running /\ mpc = "ackwait" /\ ack
  /\ ack' = FALSE
  /\ mpc' = IF cur = {} THEN "busy" ELSE "boundary"
  /\ UNCHANGED <<rxVars, nextId, dispVars, cur, known, calls,
                 taken, era, queueErr, recvErr, cancelled, wire>>

\* Any other case: another platform event or a ticker.
OtherWork ==
  /\ Running /\ mpc = "select"
  /\ mpc' = "busy" /\ cur' = {}
  /\ UNCHANGED <<rxVars, nextId, dispVars, known, calls, taken, era,
                 ack, queueErr, recvErr, cancelled, wire>>

WorkDone ==
  /\ Running /\ mpc \in {"busy", "boundary"}
  /\ mpc' = "select" /\ cur' = {}
  /\ UNCHANGED <<rxVars, nextId, dispVars, known, calls, taken, era,
                 ack, queueErr, recvErr, cancelled, wire>>

\* main returns: dispatcher.Errors() or receiveErrors had an error ...
TakeError ==
  /\ Running /\ mpc = "select" /\ (queueErr \/ recvErr)
  /\ mpc' = "stopped" /\ cur' = {}
  /\ UNCHANGED <<rxVars, nextId, dispVars, known, calls, taken, era, ack,
                 queueErr, recvErr, cancelled, wire>>

\* ... or a transport write failed or the event helper ended ...
MainFail ==
  /\ Running /\ mpc \in {"busy", "boundary"}
  /\ mpc' = "stopped" /\ cur' = {}
  /\ UNCHANGED <<rxVars, nextId, dispVars, known, calls, taken, era, ack,
                 queueErr, recvErr, cancelled, wire>>

\* ... or the context is done while main is in its select or in one of Reset's.
MainCancelled ==
  /\ Running /\ cancelled /\ mpc \in {"select", "offer", "ackwait"}
  /\ mpc' = "stopped" /\ cur' = {}
  /\ UNCHANGED <<rxVars, nextId, dispVars, known, calls, taken, era, ack,
                 queueErr, recvErr, cancelled, wire>>

Next ==
  \/ Cancel
  \/ RxLoad
  \/ \E r \in Records : RxRead(r)
  \/ RxStop
  \/ Enqueue
  \/ ResetTake
  \/ ResetPublish
  \/ DispatcherStop
  \/ TakeFrame
  \/ SessionResetEvent
  \/ ResetAcknowledged
  \/ OtherWork
  \/ WorkDone
  \/ TakeError
  \/ MainFail
  \/ MainCancelled

Spec == Init /\ [][Next]_vars

\* Goroutines the Go scheduler never starves: a step that stays possible is
\* taken (WF); a select case that is ready again and again is taken (SF: the
\* runtime chooses among ready cases uniformly).  The OLT need not send, the
\* kernel, the event helper and the supervisor need not do anything.
ServeFairness ==
  /\ SF_vars(ResetTake)
  /\ WF_vars(ResetPublish)
  /\ SF_vars(TakeFrame)
  /\ WF_vars(ResetAcknowledged)
  /\ WF_vars(WorkDone)

Fairness ==
  /\ ServeFairness
  /\ WF_vars(RxLoad)
  /\ SF_vars(Enqueue)
  /\ SF_vars(TakeError)
  /\ SF_vars(MainCancelled)

\* Serving the queue needs nothing of the receiver and of the error paths.
ServeSpec == Spec /\ ServeFairness
FairSpec == Spec /\ Fairness

-----------------------------------------------------------------------------
(* Properties.                                                             *)

\* Every variable has its type; the receiver, the main loop and the
\* acknowledgement channel hold at most one item.
TypeOK ==
  /\ rxpc \in {"load", "read", "send", "done"}
  /\ rxGen \in Nat /\ rxBegan \in Nat
  /\ rxFrame \subseteq Frame
  /\ nextId \in Nat
  /\ dpc \in {"select", "publish", "stopped"}
  /\ generation \in Nat /\ published \in Nat
  /\ high \in Seq(Frame) /\ normal \in Seq(Frame)
  /\ mpc \in {"select", "busy", "offer", "ackwait", "boundary", "stopped"}
  /\ cur \subseteq Frame
  /\ known \in [inst : Nat, sess : Nat]
  /\ calls \in Nat
  /\ ack \in BOOLEAN /\ queueErr \in BOOLEAN /\ recvErr \in BOOLEAN
  /\ cancelled \in BOOLEAN
  /\ wire \subseteq Frame /\ taken \subseteq Frame /\ era \subseteq Frame

\* A frame whose receive began before the latest Reset call never reaches
\* HandleFrame, wherever it was when Reset ran: read but not offered, offered,
\* queued.  The one exception is the frame that announces a kernel session,
\* which main holds across the Reset it causes itself.
SessionFresh ==
  /\ mpc = "busy" => \A f \in cur : f.began = calls
  /\ mpc = "boundary" => \A f \in cur : f.began + 1 = calls

\* The inductive strengthening of SessionFresh.  The local generation is one
\* behind the Reset calls exactly while main offers a reset; the published one
\* trails the local one until the dispatcher acknowledges; and whoever carries
\* the current generation while no reset is offered began after the last call.
SessionInv ==
  Running =>
    /\ mpc = "offer" => generation + 1 = calls
    /\ mpc # "offer" => generation = calls
    /\ dpc = "publish" => published + 1 = generation
    /\ dpc = "select" => published = generation
    /\ published <= generation
    /\ rxGen <= published
    /\ rxpc \in {"read", "send"} /\ mpc # "offer" /\ rxGen = generation
         => rxBegan = calls
    /\ \A f \in rxFrame :
         /\ f.gen <= generation
         /\ mpc # "offer" /\ f.gen = generation => f.began = calls
    /\ mpc # "offer" => \A f \in Pending : f.began = calls
    /\ mpc \in {"offer", "ackwait"} => \A f \in cur : f.began + 1 = calls
    /\ SessionFresh

\* While the dispatcher runs, a frame received in its generation is offered,
\* queued or handed over: overflow never drops a frame and carries on.
NoSilentLoss ==
  dpc = "select" /\ rxpc # "done" =>
    \A f \in wire : f.gen = generation => f \in rxFrame \cup Pending \cup taken

\* Its inductive strengthening: the receiver offers exactly the frame it has read last, and
\* no frame read so far carries a generation that has not been published.
LossInv ==
  /\ rxpc # "send" => rxFrame = {}
  /\ rxpc = "send" => \E f \in wire : rxFrame = {f}
  /\ \A f \in wire : f.gen <= published
  /\ NoSilentLoss

\* XGS-PON: while the frames taken come from one kernel instance, none of an
\* older session is handled after one of a newer session has been, although
\* high-priority frames overtake the others in the queue and late records
\* reach the daemon.  (A frame of another instance starts a new order.)
KernelSessionOrder ==
  XgsEvidence /\ mpc \in {"busy", "boundary"} =>
    \A f \in cur : \A g \in era : g.inst = f.inst /\ g.sess <= f.sess

\* Its inductive strengthening: the session observed last is that of the frame
\* in main's hands, and of the instance of the frames taken since that
\* instance appeared, none of which is newer; instances are counted from 1, so
\* that the 0 of "none observed" is told apart.
KernelInv ==
  XgsEvidence =>
    /\ \A f \in rxFrame \cup Pending : f.inst >= 1
    /\ known.inst = 0 => era = {}
    /\ \A g \in era : g.inst = known.inst /\ g.sess <= known.sess
    /\ \A f \in cur : SessionOf(f) = known

\* The dispatcher and the select loop implement the abstract queue: priority,
\* FIFO per class, at most once, bounded, emptied by a reset.
Queue == INSTANCE OmccQueue WITH
  pending <- Pending, delivered <- taken, open <- (dpc # "stopped")

QueueSpec == Queue!Spec

\* What the refinement rests on: each queue holds the frames of its class in receive order,
\* and every frame behind the receiver is older than the one it offers.
InOrder(q) == \A i, j \in DOMAIN q : i < j => q[i].id < q[j].id

QueueInv ==
  /\ \A f \in Range(high) : f.prio = "high"
  /\ \A f \in Range(normal) : f.prio = "normal"
  /\ InOrder(high) /\ InOrder(normal)
  /\ \A f \in rxFrame \cup Pending \cup taken : f.id < nextId
  /\ \A f \in rxFrame, g \in Pending \cup taken : g.id < f.id

Left(i) == (\A f \in Pending : f.id # i) \/ dpc = "stopped" \/ ~Running

\* Under fairness every queued high-priority frame leaves the queue (handed
\* over or dropped by a reset) unless the dispatcher or the daemon ends.  Of a
\* normal one that is promised once no more frames arrive: peek prefers the
\* high-priority queue, so an OLT that never stops sending such requests holds
\* the others back for as long.
FrameServed ==
  \A i \in 1 .. MaxFrames :
    (\E f \in Pending : f.id = i /\ (f.prio = "high" \/ nextId > MaxFrames))
      ~> Left(i)

\* Under fairness a Reset call returns while the dispatcher is alive.
ResetReturns ==
  mpc = "offer" ~> (mpc \in {"busy", "boundary", "stopped"} \/ dpc = "stopped")

\* "Queue exhaustion terminates the daemon": once the dispatcher has reported
\* ErrQueueFull the main loop returns.
ExhaustionTerminates == queueErr ~> ~Running
=============================================================================
