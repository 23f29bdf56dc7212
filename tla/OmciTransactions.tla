-------------------------- MODULE OmciTransactions --------------------------
(***************************************************************************)
(* The transaction layer of the protocol engine (internal/engine), facing  *)
(* an OLT over an OMCC that loses and delays messages.                     *)
(*                                                                         *)
(* Each priority channel is stop-and-wait: the OLT repeats a request until *)
(* it accepts a response with the request's transaction identifier, and    *)
(* the engine keeps the last identifier and response of every channel so   *)
(* that a repeated request is answered without being executed again.  The  *)
(* OMCC keeps order, so a repeated request reaches the engine before the   *)
(* next one of its channel; channels interleave freely.                    *)
(*                                                                         *)
(* Two retrievals span several requests: MIB upload and Get all alarms     *)
(* take a snapshot, which the following "next" requests page through until *)
(* it expires.  Every request that changes the MIB is "Set" here, but for  *)
(* MIB reset, which also ends the uploads.                                 *)
(***************************************************************************)
EXTENDS Naturals, Sequences, FiniteSets, Functions

CONSTANTS
  Channels,     \* subset of {"low", "high", "ext"}
  Kinds,        \* subset of {"mib", "alarm"}: the retrievals the OLT runs
  Tids,         \* transaction identifiers in use on a channel, 0 .. Tids - 1
  Repeats,      \* bound: copies of one request in flight on a channel
  MaxRequests,  \* bound: requests per channel
  HighRequests, \* bound: requests on the high-priority channel
  MaxVersion    \* bound: changes told apart, of the MIB and of the alarm table

ASSUME TransactionsAssumption ==
  /\ Channels \subseteq {"low", "high", "ext"}
  /\ Kinds \subseteq {"mib", "alarm"}
  /\ Tids \in Nat /\ Tids >= 2
  /\ Repeats \in Nat \ {0}
  /\ MaxRequests \in Nat /\ MaxVersion \in Nat

ASSUME HighAssumption == HighRequests \in 0 .. MaxRequests

Devices == {"baseline", "extended"}
device(c) == IF c = "ext" THEN "extended" ELSE "baseline"

\* Uploads are run on the low and extended channels only; the high-priority
\* channel shares the baseline sessions but not their requests.
Ops(c) == {[type |-> "Set"], [type |-> "MibReset"]} \cup
          IF c = "high" THEN {}
          ELSE [type : {"Upload", "Next", "NextBeyond"}, kind : Kinds]

VARIABLES
  olt,      \* per channel: the outstanding request, or the one last answered
  req,      \* per channel: requests on their way to HandleFrame
  resp,     \* per channel: responses on their way to the OLT
  slot,     \* Engine.transactions
  upload,   \* Engine.upload and Engine.alarmUpload
  version,  \* history: the state of the MIB and of the alarm table
  execs,    \* history: how often each request of the session was executed,
            \* pages of a retrieval aside
  collect   \* history: the version of the upload the OLT is collecting

vars == <<olt, req, resp, slot, upload, version, execs, collect>>

\* A response: its request, what it carries and, for the pages of a retrieval,
\* the state they show.
Answer == [id : Nat, content : {"result", "count", "page", "empty"},
           kind : {"mib", "alarm"}, ver : Nat]
NoAnswer == [id |-> 0, content |-> "empty", kind |-> "mib", ver |-> 0]

NoSlot == [valid |-> FALSE, answer |-> NoAnswer]
NoUpload == [st |-> "none", ver |-> 0]

Init ==
  /\ olt = [c \in Channels |-> [wait |-> FALSE, id |-> 0, op |-> [type |-> "Set"]]]
  /\ req = [c \in Channels |-> <<>>] /\ resp = [c \in Channels |-> <<>>]
  /\ slot = [c \in Channels |-> NoSlot]
  /\ upload = [k \in Kinds |-> [d \in Devices |-> NoUpload]]
  /\ version = [k \in {"mib", "alarm"} |-> 0]
  /\ execs = [c \in Channels |-> [i \in 1 .. MaxRequests |-> 0]]
  /\ collect = [c \in Channels |-> [k \in Kinds |-> MaxVersion + 1]]

-----------------------------------------------------------------------------
(* The OLT and the OMCC (external).                                        *)

tid(id) == id % Tids

\* A retrieval is paged through only once its first response has arrived.
Offers(c, op) ==
  op.type \in {"Next", "NextBeyond"} => collect[c][op.kind] <= MaxVersion

Budget(c) == IF c = "high" THEN HighRequests ELSE MaxRequests

SendNew(c, op) ==
  /\ ~olt[c].wait /\ olt[c].id < Budget(c) /\ Offers(c, op)
  /\ olt' = [olt EXCEPT ![c] = [wait |-> TRUE, id |-> @.id + 1, op |-> op]]
  /\ req' = [req EXCEPT ![c] = Append(@, [id |-> olt[c].id + 1, op |-> op])]
  /\ collect' = IF op.type = "Upload"
                THEN [collect EXCEPT ![c][op.kind] = MaxVersion + 1]
                ELSE collect
  /\ UNCHANGED <<resp, slot, upload, version, execs>>

Retransmit(c) ==
  /\ olt[c].wait
  /\ Cardinality({i \in DOMAIN req[c] : req[c][i].id = olt[c].id})
       + Cardinality({i \in DOMAIN resp[c] : resp[c][i].id = olt[c].id}) < Repeats
  /\ req' = [req EXCEPT ![c] = Append(@, [id |-> olt[c].id, op |-> olt[c].op])]
  /\ UNCHANGED <<olt, resp, slot, upload, version, execs, collect>>

\* A frame that HandleFrame rejects with an error (main counts it) goes the same way: no
\* response, and nothing to remember.
LoseRequest(c) ==
  /\ req[c] # <<>>
  /\ req' = [req EXCEPT ![c] = Tail(@)]
  /\ UNCHANGED <<olt, resp, slot, upload, version, execs, collect>>

LoseResponse(c) ==
  /\ resp[c] # <<>>
  /\ resp' = [resp EXCEPT ![c] = Tail(@)]
  /\ UNCHANGED <<olt, req, slot, upload, version, execs, collect>>

\* The OLT accepts a response by its transaction identifier alone.
Accept(c) ==
  /\ resp[c] # <<>>
  /\ resp' = [resp EXCEPT ![c] = Tail(@)]
  /\ LET a == Head(resp[c]) IN
       IF olt[c].wait /\ tid(a.id) = tid(olt[c].id)
       THEN /\ olt' = [olt EXCEPT ![c].wait = FALSE]
            /\ collect' = IF a.content = "count"
                          THEN [collect EXCEPT ![c][a.kind] = a.ver]
                          ELSE collect
       ELSE UNCHANGED <<olt, collect>>
  /\ UNCHANGED <<req, slot, upload, version, execs>>

-----------------------------------------------------------------------------
(* The engine.                                                             *)

\* Mutant: all channels share one slot.
oneSlot(c) == CHOOSE b \in Channels : TRUE
transactionPriority(c) == c

isNext(op) == op.type \in {"Next", "NextBeyond"}

\* Mutant: any request finds the last response of its channel.
replayIgnoresTid(c, r) == slot[transactionPriority(c)].valid

\* replayTransaction finds a response.  A page that had contents is repeated
\* only while its snapshot lives (refreshUpload, refreshAlarmUpload).
replayFound(c, r) ==
  LET last == slot[transactionPriority(c)] IN
  /\ last.valid /\ tid(last.answer.id) = tid(r.id)
  /\ isNext(r.op) /\ last.answer.content = "page"
       => upload[r.op.kind][device(c)].st = "live"

\* A repeated first request revives its snapshot even when that has expired
\* and has not been deleted yet.
afterReplay(c, op) ==
  IF op.type = "Upload" /\ upload[op.kind][device(c)].st # "none"
  THEN [upload EXCEPT ![op.kind][device(c)].st = "live"]
  ELSE upload

\* Mutants: a page shows the current state; a page off by one.
pageOffByOne(c, op) == upload[op.kind][device(c)].ver - 1
pageOfCurrent(c, op) == version[op.kind]
page(c, op) == upload[op.kind][device(c)].ver

\* The responses of dispatch.
answerTo(c, r) ==
  LET op == r.op
      live == isNext(op) /\ upload[op.kind][device(c)].st = "live"
  IN  CASE op.type \in {"Set", "MibReset"} ->
             [id |-> r.id, content |-> "result", kind |-> "mib", ver |-> 0]
        [] op.type = "Upload" ->
             [id |-> r.id, content |-> "count", kind |-> op.kind,
              ver |-> version[op.kind]]
        [] op.type = "Next" /\ live ->
             [id |-> r.id, content |-> "page", kind |-> op.kind,
              ver |-> page(c, op)]
        [] OTHER -> [NoAnswer EXCEPT !.id = r.id]

\* What dispatch leaves of the snapshots.
afterDispatch(c, op) ==
  CASE op.type = "Upload" ->
         [upload EXCEPT ![op.kind][device(c)] =
            [st |-> "live", ver |-> version[op.kind]]]
    [] op.type = "MibReset" ->
         [k \in Kinds |-> IF k = "mib" THEN [d \in Devices |-> NoUpload]
                          ELSE upload[k]]
    [] isNext(op) /\ upload[op.kind][device(c)].st = "expired" ->
         [upload EXCEPT ![op.kind][device(c)] = NoUpload]
    [] OTHER -> upload

\* Mutant: a repeated request is recognised and dropped.
ReplaySilent(c) ==
  /\ req[c] # <<>>
  /\ replayFound(c, Head(req[c]))
  /\ upload' = afterReplay(c, Head(req[c]).op)
  /\ req' = [req EXCEPT ![c] = Tail(@)]
  /\ UNCHANGED <<olt, resp, slot, version, execs, collect>>

\* HandleFrame of a request that is found in its channel's slot ...
Replay(c) ==
  /\ req[c] # <<>>
  /\ LET r == Head(req[c]) IN
       /\ replayFound(c, r)
       /\ resp' = [resp EXCEPT ![c] =
                     Append(@, slot[transactionPriority(c)].answer)]
       /\ upload' = afterReplay(c, r.op)
  /\ req' = [req EXCEPT ![c] = Tail(@)]
  /\ UNCHANGED <<olt, slot, version, execs, collect>>

\* ... and of one that is not: dispatch, then rememberTransaction.
Execute(c) ==
  /\ req[c] # <<>>
  /\ LET r == Head(req[c])
         changes == r.op.type \in {"Set", "MibReset"}
     IN  /\ ~replayFound(c, r)
         /\ version' = IF changes /\ version["mib"] < MaxVersion
                       THEN [version EXCEPT !["mib"] = @ + 1] ELSE version
         /\ upload' = afterDispatch(c, r.op)
         /\ slot' = [slot EXCEPT ![transactionPriority(c)] =
                       [valid |-> TRUE, answer |-> answerTo(c, r)]]
         /\ resp' = [resp EXCEPT ![c] = Append(@, answerTo(c, r))]
         /\ execs' = IF isNext(r.op) THEN execs ELSE [execs EXCEPT ![c][r.id] = @ + 1]
  /\ req' = [req EXCEPT ![c] = Tail(@)]
  /\ UNCHANGED <<olt, collect>>

\* A minute passes without a request for the snapshot.
Expire(k, d) ==
  /\ upload[k][d].st = "live"
  /\ upload' = [upload EXCEPT ![k][d].st = "expired"]
  /\ UNCHANGED <<olt, req, resp, slot, version, execs, collect>>

\* Without a request: notifyAlarmLocked changes the alarm table, UpdateAutonomous the MIB.
AutonomousChange(k) ==
  /\ version[k] < MaxVersion
  /\ version' = [version EXCEPT ![k] = @ + 1]
  /\ UNCHANGED <<olt, req, resp, slot, upload, execs, collect>>

\* Mutant: the replay slots survive the session.
forgetNoSlots == UNCHANGED slot
forgetSlots == slot' = [c \in Channels |-> NoSlot]

\* ResetCommunicationSession after the dispatcher has dropped its frames; the
\* carrier is down, so responses are lost and the OLT starts over, numbering
\* its transactions from the beginning.
ResetCommunicationSession ==
  /\ forgetSlots
  /\ upload' = [k \in Kinds |-> [d \in Devices |-> NoUpload]]
  /\ olt' = [c \in Channels |-> [wait |-> FALSE, id |-> 0, op |-> [type |-> "Set"]]]
  /\ req' = [c \in Channels |-> <<>>] /\ resp' = [c \in Channels |-> <<>>]
  /\ execs' = [c \in Channels |-> [i \in 1 .. MaxRequests |-> 0]]
  /\ collect' = [c \in Channels |-> [k \in Kinds |-> MaxVersion + 1]]
  /\ UNCHANGED version

Next ==
  \/ \E c \in Channels : \E op \in Ops(c) : SendNew(c, op)
  \/ \E c \in Channels : Retransmit(c)
  \/ \E c \in Channels : LoseRequest(c)
  \/ \E c \in Channels : LoseResponse(c)
  \/ \E c \in Channels : Accept(c)
  \/ \E c \in Channels : Replay(c)
  \/ \E c \in Channels : Execute(c)
  \/ \E k \in Kinds, d \in Devices : Expire(k, d)
  \/ \E k \in Kinds : AutonomousChange(k)
  \/ ResetCommunicationSession

Spec == Init /\ [][Next]_vars

\* The OLT repeats an unanswered request (WF); an OMCC that is used again and
\* again delivers, and HandleFrame serves what it delivers (SF).
Fairness ==
  \A c \in Channels :
    /\ WF_vars(Retransmit(c))
    /\ SF_vars(Replay(c) \/ Execute(c))
    /\ SF_vars(Accept(c))

FairSpec == Spec /\ Fairness

-----------------------------------------------------------------------------
(* Properties.                                                             *)

Op == {[type |-> "Set"], [type |-> "MibReset"]} \cup
      [type : {"Upload", "Next", "NextBeyond"}, kind : Kinds]
Request == [id : 1 .. MaxRequests, op : Op]

\* Every variable has its type, and no channel carries a request that is not its own.
TypeOK ==
  /\ olt \in [Channels -> [wait : BOOLEAN, id : 0 .. MaxRequests, op : Op]]
  /\ req \in [Channels -> Seq(Request)]
  /\ \A c \in Channels : /\ olt[c].op \in Ops(c)
                         /\ \A r \in Range(req[c]) : r.op \in Ops(c)
  /\ resp \in [Channels -> Seq(Answer)]
  /\ slot \in [Channels -> [valid : BOOLEAN, answer : Answer]]
  /\ collect \in [Channels -> [Kinds -> 0 .. MaxVersion + 1]]
  /\ execs \in [Channels -> [1 .. MaxRequests -> Nat]]
  /\ upload \in [Kinds -> [Devices ->
       [st : {"none", "live", "expired"}, ver : 0 .. MaxVersion]]]
  /\ version \in [{"mib", "alarm"} -> 0 .. MaxVersion]

\* In one session no request is executed twice, however often the OLT repeats
\* it and whatever the other channels do in between: a repeated Create, Set or
\* software command changes nothing.  (A page whose snapshot has expired is
\* computed again; it only reads.)
AtMostOnce == \A c \in Channels, i \in 1 .. MaxRequests : execs[c][i] <= 1

\* The response the OLT is about to accept answers its outstanding request,
\* which has been executed in this session.
AnswerIsOwn ==
  \A c \in Channels :
    resp[c] # <<>> /\ olt[c].wait /\ tid(Head(resp[c]).id) = tid(olt[c].id)
      => /\ Head(resp[c]).id = olt[c].id
         /\ isNext(olt[c].op) \/ execs[c][olt[c].id] > 0

\* Every page the OLT accepts shows the state its upload was taken at, whatever
\* other channels changed meanwhile and however often messages were repeated;
\* a snapshot that is gone yields empty pages, never newer ones.
UploadConsistent ==
  \A c \in Channels :
    resp[c] # <<>> /\ olt[c].wait /\ Head(resp[c]).id = olt[c].id
      /\ Head(resp[c]).content = "page"
      => Head(resp[c]).ver = collect[c][Head(resp[c]).kind]

\* What the three rest on.  Stop-and-wait over channels that keep order leaves at most two
\* requests in transit, the outstanding one and its predecessor; the slot is never older
\* than a response in transit nor newer than a request, so that two identifiers tell
\* them apart, and a request newer than the slot has not been executed.
Ascending(q) == \A i, j \in DOMAIN q : i < j => q[i].id <= q[j].id

oldest(c) == IF olt[c].wait THEN olt[c].id - 1 ELSE olt[c].id
lastId(c) == slot[c].answer.id

ChannelInv(c) ==
  /\ Ascending(req[c]) /\ Ascending(resp[c])
  /\ olt[c].wait => olt[c].id >= 1
  /\ oldest(c) <= lastId(c) /\ lastId(c) <= olt[c].id
  /\ slot[c].valid <=> lastId(c) # 0
  /\ \A r \in Range(req[c]) :
       /\ lastId(c) <= r.id /\ r.id <= olt[c].id
       /\ r.id = olt[c].id => r.op = olt[c].op
  /\ \A a \in Range(resp[c]) : oldest(c) <= a.id /\ a.id <= lastId(c)
  /\ \A i \in 1 .. MaxRequests :
       execs[c][i] <= 1 /\ (i > lastId(c) => execs[c][i] = 0)
  /\ olt[c].wait /\ lastId(c) = olt[c].id => isNext(olt[c].op) \/ execs[c][lastId(c)] = 1

\* A snapshot, as long as there is one, has the version that the OLT is collecting or is
\* about to learn; what answers the outstanding request was made for its operation.
Shows(c, k, v) == upload[k][device(c)].st = "none" \/ upload[k][device(c)].ver = v

AnswerFits(c, a) ==
  olt[c].wait /\ a.id = olt[c].id =>
    /\ a.content = "count" =>
         /\ olt[c].op.type = "Upload" /\ a.kind = olt[c].op.kind
         /\ a.ver <= MaxVersion /\ Shows(c, a.kind, a.ver)
    /\ a.content = "page" =>
         /\ olt[c].op.type = "Next" /\ a.kind = olt[c].op.kind
         /\ a.ver = collect[c][a.kind]

UploadInv(c) ==
  /\ \A k \in Kinds : c # "high" /\ collect[c][k] <= MaxVersion => Shows(c, k, collect[c][k])
  /\ olt[c].wait /\ olt[c].op.type = "Upload" => collect[c][olt[c].op.kind] = MaxVersion + 1
  /\ olt[c].wait /\ isNext(olt[c].op) => collect[c][olt[c].op.kind] <= MaxVersion
  /\ \A a \in Range(resp[c]) \cup {slot[c].answer} : AnswerFits(c, a)

TransactionInv == \A c \in Channels : ChannelInv(c) /\ UploadInv(c)

\* Under fairness every request is answered or its session ends.
EveryRequestAnswered == \A c \in Channels : olt[c].wait ~> ~olt[c].wait
=============================================================================
