----------------------- MODULE OmciTransactionsProofs -----------------------
(***************************************************************************)
(* For every number of transaction identifiers from two up, any number of  *)
(* requests, repetitions, changes and sessions and any set of channels:    *)
(* type correctness of OmciTransactions, at-most-once execution, the match *)
(* of a response with its request, and the consistency of uploads.         *)
(***************************************************************************)
EXTENDS OmciTransactions, TLAPS

\* Division with remainder by the number of identifiers.
LEMMA Division ==
  ASSUME NEW n \in Nat
  PROVE  n = Tids * (n \div Tids) + tid(n) /\ n \div Tids \in Int /\ tid(n) \in Int
BY TransactionsAssumption DEF tid

\* No two products with a factor of two or more are neighbours.
LEMMA NoUnitProduct ==
  ASSUME NEW p \in Int, NEW q \in Int
  PROVE  Tids * p - Tids * q # 1
<1> SUFFICES ASSUME Tids * p - Tids * q = 1 PROVE FALSE
  OBVIOUS
<1> USE TransactionsAssumption
<1>1. Tids * (p - q) = 1
  OBVIOUS
<1>2. CASE p - q <= 0
  BY <1>1, <1>2
<1>3. CASE p - q >= 1
  <2>1. Tids * (p - q) >= Tids * 1
    BY <1>3
  <2>2. QED BY <1>1, <2>1
<1>4. QED BY <1>2, <1>3

\* Two identifiers tell a request and its predecessor apart.
LEMMA TidFact ==
  ASSUME NEW a \in Nat, NEW n \in Nat, n - 1 <= a, a <= n, tid(a) = tid(n)
  PROVE  a = n
<1> SUFFICES ASSUME n = a + 1 PROVE FALSE
  OBVIOUS
<1> DEFINE p == n \div Tids
           q == a \div Tids
<1>1. /\ n = Tids * p + tid(n) /\ a = Tids * q + tid(n)
      /\ p \in Int /\ q \in Int /\ tid(n) \in Int
  BY Division
<1> HIDE DEF p, q
<1>2. Tids * p - Tids * q = 1
  <2>1. Tids * p \in Int /\ Tids * q \in Int
    BY <1>1, TransactionsAssumption
  <2>2. QED BY <1>1, <2>1
<1>3. QED BY <1>1, <1>2, NoUnitProduct

\* Sending on a channel: the youngest message goes last.
LEMMA AppendFact ==
  ASSUME NEW S, NEW q \in Seq(S), NEW m \in S
  PROVE  /\ Append(q, m) \in Seq(S) /\ Range(Append(q, m)) = Range(q) \cup {m}
         /\ Ascending(q) /\ (\A g \in Range(q) : g.id <= m.id) => Ascending(Append(q, m))
<1> DEFINE r == Append(q, m)
<1>1. /\ r \in Seq(S) /\ DOMAIN r = 1 .. Len(q) + 1
      /\ \A i \in 1 .. Len(q) : r[i] = q[i]
      /\ r[Len(q) + 1] = m
      /\ DOMAIN q = 1 .. Len(q) /\ Len(q) \in Nat
  OBVIOUS
<1> HIDE DEF r
<1>2. Range(r) = Range(q) \cup {m}
  <2>1. Range(r) \subseteq Range(q) \cup {m} BY <1>1 DEF Range
  <2>2. Range(q) \cup {m} \subseteq Range(r) BY <1>1 DEF Range
  <2>3. QED BY <2>1, <2>2
<1>3. ASSUME Ascending(q), \A g \in Range(q) : g.id <= m.id,
             NEW i \in DOMAIN r, NEW j \in DOMAIN r, i < j
      PROVE  r[i].id <= r[j].id
  <2>1. i \in 1 .. Len(q) /\ r[i] = q[i] /\ q[i] \in Range(q)
    BY <1>1, <1>3 DEF Range
  <2>2. CASE j = Len(q) + 1
    BY <1>1, <1>3, <2>1, <2>2
  <2>3. CASE j # Len(q) + 1
    <3>1. j \in 1 .. Len(q) /\ r[j] = q[j]
      BY <1>1, <2>3
    <3>2. QED BY <1>1, <1>3, <2>1, <3>1 DEF Ascending
  <2>4. QED BY <2>2, <2>3
<1>4. QED BY <1>1, <1>2, <1>3 DEF Ascending, r

\* Receiving from a channel: the oldest message comes first.
LEMMA TailFact ==
  ASSUME NEW S, NEW q \in Seq(S), q # <<>>
  PROVE  /\ Tail(q) \in Seq(S) /\ Head(q) \in S
         /\ Range(q) = Range(Tail(q)) \cup {Head(q)}
         /\ Ascending(q) =>
              Ascending(Tail(q)) /\ \A g \in Range(Tail(q)) : Head(q).id <= g.id
<1> DEFINE r == Tail(q)
<1>1. /\ r \in Seq(S) /\ Len(q) \in Nat \ {0} /\ DOMAIN q = 1 .. Len(q)
      /\ DOMAIN r = 1 .. Len(q) - 1
      /\ \A i \in 1 .. Len(q) - 1 : r[i] = q[i + 1]
      /\ Head(q) = q[1] /\ q[1] \in S /\ 1 \in DOMAIN q
  OBVIOUS
<1> HIDE DEF r
<1>2. \A i \in DOMAIN r : i + 1 \in DOMAIN q /\ r[i] = q[i + 1] /\ 1 < i + 1
  BY <1>1
<1>3. \A i \in DOMAIN q : i = 1 \/ (i - 1 \in DOMAIN r /\ q[i] = r[i - 1])
  BY <1>1
<1>4. Range(r) \cup {q[1]} \subseteq Range(q)
  BY <1>1, <1>2 DEF Range
<1>5. Range(q) \subseteq Range(r) \cup {q[1]}
  BY <1>3 DEF Range
<1>6. ASSUME Ascending(q) PROVE Ascending(r) /\ \A g \in Range(r) : q[1].id <= g.id
  <2>1. \A i, j \in DOMAIN r : i < j => i + 1 < j + 1
    BY <1>1
  <2>2. Ascending(r)
    BY <1>2, <1>6, <2>1 DEF Ascending
  <2>3. ASSUME NEW g \in Range(r) PROVE q[1].id <= g.id
    <3>1. PICK i \in DOMAIN r : g = r[i]
      BY DEF Range
    <3>2. QED BY <1>1, <1>2, <1>6, <3>1 DEF Ascending
  <2>4. QED BY <2>2, <2>3
<1>7. QED BY <1>1, <1>4, <1>5, <1>6 DEF r

\* A channel that has been cut carries nothing.
LEMMA EmptyFact ==
  ASSUME NEW S PROVE <<>> \in Seq(S) /\ Range(<<>>) = {} /\ Ascending(<<>>)
BY DEF Range, Ascending

\* The operations of a channel; the high-priority one runs no retrieval.
LEMMA OpFact ==
  ASSUME NEW c, NEW op \in Ops(c)
  PROVE  /\ op \in Op
         /\ op.type \in {"Set", "MibReset", "Upload", "Next", "NextBeyond"}
         /\ op.type \notin {"Set", "MibReset"} => op.kind \in Kinds /\ c # "high"
<1>1. CASE op \in {[type |-> "Set"], [type |-> "MibReset"]}
  BY <1>1 DEF Op
<1>2. CASE op \notin {[type |-> "Set"], [type |-> "MibReset"]}
  <2>1. op \in [type : {"Upload", "Next", "NextBeyond"}, kind : Kinds] /\ c # "high"
    BY <1>2 DEF Ops
  <2>2. QED BY <2>1 DEF Op
<1>3. QED BY <1>1, <1>2

-----------------------------------------------------------------------------
UploadType == [Kinds -> [Devices -> [st : {"none", "live", "expired"}, ver : 0 .. MaxVersion]]]

\* Replacing one snapshot.
LEMMA SnapshotFact ==
  ASSUME NEW u \in UploadType, NEW k \in Kinds, NEW d \in Devices,
         NEW x \in [st : {"none", "live", "expired"}, ver : 0 .. MaxVersion]
  PROVE  /\ [u EXCEPT ![k][d] = x] \in UploadType
         /\ \A j \in Kinds, e \in Devices :
              \/ [u EXCEPT ![k][d] = x][j][e] = u[j][e]
              \/ j = k /\ e = d /\ [u EXCEPT ![k][d] = x][j][e] = x
         /\ [u EXCEPT ![k][d] = x][k][d] = x
BY DEF UploadType

\* A snapshot that expires keeps its version.
LEMMA ExpireFact ==
  ASSUME NEW u \in UploadType, NEW k \in Kinds, NEW d \in Devices
  PROVE  /\ [u EXCEPT ![k][d].st = "expired"] \in UploadType
         /\ \A j \in Kinds, e \in Devices :
              /\ [u EXCEPT ![k][d].st = "expired"][j][e].ver = u[j][e].ver
              /\ j # k \/ e # d => [u EXCEPT ![k][d].st = "expired"][j][e] = u[j][e]
<1> DEFINE x == [u[k][d] EXCEPT !.st = "expired"]
<1>1. u[k][d] \in [st : {"none", "live", "expired"}, ver : 0 .. MaxVersion]
  BY DEF UploadType
<1>2. /\ x \in [st : {"none", "live", "expired"}, ver : 0 .. MaxVersion]
      /\ x.ver = u[k][d].ver
  BY <1>1
<1>3. [u EXCEPT ![k][d].st = "expired"] = [u EXCEPT ![k][d] = x]
  OBVIOUS
<1> HIDE DEF x
<1>4. /\ [u EXCEPT ![k][d] = x] \in UploadType
      /\ \A j \in Kinds, e \in Devices :
           \/ [u EXCEPT ![k][d] = x][j][e] = u[j][e]
           \/ j = k /\ e = d /\ [u EXCEPT ![k][d] = x][j][e] = x
  BY <1>2, SnapshotFact
<1>5. QED BY <1>2, <1>3, <1>4

\* Clearing the wait of a channel keeps its type.
LEMMA WaitFact ==
  ASSUME NEW S, NEW T, NEW o \in [wait : BOOLEAN, id : S, op : T]
  PROVE  [o EXCEPT !.wait = FALSE] \in [wait : BOOLEAN, id : S, op : T]
<1>1. ASSUME NEW b \in BOOLEAN PROVE [o EXCEPT !.wait = b] \in [wait : BOOLEAN, id : S, op : T]
  OBVIOUS
<1>2. QED BY <1>1, Zenon

\* Counting an execution keeps the type of the counts.
LEMMA CountFact ==
  ASSUME NEW S, NEW e \in [S -> Nat], NEW i \in S
  PROVE  [e EXCEPT ![i] = @ + 1] \in [S -> Nat]
OBVIOUS

\* What a repeated request leaves of the snapshots: their versions.
LEMMA ReplayFact ==
  ASSUME TypeOK, NEW c \in Channels, NEW op \in Ops(c)
  PROVE  /\ afterReplay(c, op) \in UploadType
         /\ \A k \in Kinds, d \in Devices :
              /\ afterReplay(c, op)[k][d].ver = upload[k][d].ver
              /\ upload[k][d].st = "none" => afterReplay(c, op)[k][d].st = "none"
<1>1. upload \in UploadType /\ device(c) \in Devices
  BY DEF TypeOK, UploadType, device, Devices
<1>2. CASE op.type = "Upload" /\ upload[op.kind][device(c)].st # "none"
  <2>1. op.kind \in Kinds
    BY <1>2, OpFact
  <2>2. afterReplay(c, op) = [upload EXCEPT ![op.kind][device(c)].st = "live"]
    BY <1>2 DEF afterReplay
  <2>3. QED BY <1>1, <1>2, <2>1, <2>2, SMTT(30) DEF UploadType
<1>3. CASE ~(op.type = "Upload" /\ upload[op.kind][device(c)].st # "none")
  <2>1. afterReplay(c, op) = upload
    BY <1>3 DEF afterReplay
  <2>2. QED BY <1>1, <2>1
<1>4. QED BY <1>2, <1>3

\* What an executed request leaves of them: an upload request takes one snapshot; any
\* other only ends some.
LEMMA DispatchFact ==
  ASSUME TypeOK, NEW c \in Channels, NEW op \in Ops(c)
  PROVE  /\ afterDispatch(c, op) \in UploadType
         /\ \A k \in Kinds, d \in Devices :
              \/ afterDispatch(c, op)[k][d] = upload[k][d]
              \/ afterDispatch(c, op)[k][d].st = "none"
              \/ /\ op.type = "Upload" /\ k = op.kind /\ d = device(c)
                 /\ afterDispatch(c, op)[k][d].ver = version[k]
         /\ op.type = "Upload" =>
              afterDispatch(c, op)[op.kind][device(c)].ver = version[op.kind]
<1>1. /\ upload \in UploadType /\ device(c) \in Devices
      /\ version \in [{"mib", "alarm"} -> 0 .. MaxVersion]
      /\ Kinds \subseteq {"mib", "alarm"} /\ MaxVersion \in Nat
  BY TransactionsAssumption DEF TypeOK, UploadType, device, Devices
<1>2. NoUpload \in [st : {"none", "live", "expired"}, ver : 0 .. MaxVersion] /\ NoUpload.st = "none"
  BY <1>1 DEF NoUpload
<1>3. CASE op.type = "Upload"
  <2>1. op.kind \in Kinds /\ version[op.kind] \in 0 .. MaxVersion
    BY <1>1, <1>3, OpFact
  <2>2. afterDispatch(c, op) = [upload EXCEPT ![op.kind][device(c)] =
                                  [st |-> "live", ver |-> version[op.kind]]]
    BY <1>3 DEF afterDispatch, isNext
  <2> DEFINE x == [st |-> "live", ver |-> version[op.kind]]
  <2>3. x \in [st : {"none", "live", "expired"}, ver : 0 .. MaxVersion] /\ x.ver = version[op.kind]
    BY <2>1
  <2> HIDE DEF x
  <2>4. /\ [upload EXCEPT ![op.kind][device(c)] = x] \in UploadType
        /\ \A k \in Kinds, d \in Devices :
             \/ [upload EXCEPT ![op.kind][device(c)] = x][k][d] = upload[k][d]
             \/ /\ k = op.kind /\ d = device(c)
                /\ [upload EXCEPT ![op.kind][device(c)] = x][k][d] = x
        /\ [upload EXCEPT ![op.kind][device(c)] = x][op.kind][device(c)] = x
    BY <1>1, <2>1, <2>3, SnapshotFact
  <2>5. afterDispatch(c, op) = [upload EXCEPT ![op.kind][device(c)] = x]
    BY <2>2 DEF x
  <2>6. QED BY <1>3, <2>3, <2>4, <2>5
<1>4. CASE op.type = "MibReset"
  <2>1. afterDispatch(c, op) =
          [k \in Kinds |-> IF k = "mib" THEN [d \in Devices |-> NoUpload] ELSE upload[k]]
    BY <1>4 DEF afterDispatch, isNext
  <2>2. QED BY <1>1, <1>2, <1>4, <2>1 DEF UploadType
<1>5. CASE isNext(op) /\ upload[op.kind][device(c)].st = "expired"
  <2>1. op.kind \in Kinds
    BY <1>5, OpFact DEF isNext
  <2>2. afterDispatch(c, op) = [upload EXCEPT ![op.kind][device(c)] = NoUpload]
    BY <1>5 DEF afterDispatch, isNext
  <2>3. /\ [upload EXCEPT ![op.kind][device(c)] = NoUpload] \in UploadType
        /\ \A k \in Kinds, d \in Devices :
             \/ [upload EXCEPT ![op.kind][device(c)] = NoUpload][k][d] = upload[k][d]
             \/ /\ k = op.kind /\ d = device(c)
                /\ [upload EXCEPT ![op.kind][device(c)] = NoUpload][k][d] = NoUpload
    BY <1>1, <1>2, <2>1, SnapshotFact
  <2>4. QED BY <1>2, <1>5, <2>2, <2>3 DEF isNext
<1>6. CASE /\ op.type \notin {"Upload", "MibReset"}
           /\ ~(isNext(op) /\ upload[op.kind][device(c)].st = "expired")
  <2>1. afterDispatch(c, op) = upload
    BY <1>6 DEF afterDispatch
  <2>2. QED BY <1>1, <1>6, <2>1
<1>7. QED BY <1>3, <1>4, <1>5, <1>6

\* What an executed request is answered.
LEMMA AnswerFact ==
  ASSUME TypeOK, NEW c \in Channels, NEW r \in Range(req[c])
  PROVE  /\ answerTo(c, r) \in Answer /\ answerTo(c, r).id = r.id
         /\ answerTo(c, r).content = "count" =>
              /\ r.op.type = "Upload" /\ answerTo(c, r).kind = r.op.kind
              /\ answerTo(c, r).ver = version[r.op.kind]
         /\ answerTo(c, r).content = "page" =>
              /\ r.op.type = "Next" /\ answerTo(c, r).kind = r.op.kind
              /\ answerTo(c, r).ver = upload[r.op.kind][device(c)].ver
              /\ upload[r.op.kind][device(c)].st = "live"
<1> DEFINE op == r.op
<1>1. /\ op \in Ops(c) /\ r \in Request /\ r.id \in Nat
      /\ upload \in UploadType /\ device(c) \in Devices
      /\ version \in [{"mib", "alarm"} -> 0 .. MaxVersion]
      /\ Kinds \subseteq {"mib", "alarm"} /\ MaxVersion \in Nat
  <2>1. Range(req[c]) \subseteq Request
    <3>1. req[c] \in Seq(Request)
      BY DEF TypeOK
    <3>2. QED BY <3>1 DEF Range
  <2>2. r.id \in Nat
    BY <2>1, TransactionsAssumption DEF Request
  <2>3. QED
    BY <2>1, <2>2, TransactionsAssumption DEF TypeOK, UploadType, device, Devices
<1> HIDE DEF op
<1>0. /\ r.op = op
      /\ \A k \in Kinds : k \in {"mib", "alarm"} /\ version[k] \in Nat
      /\ \A k \in Kinds : upload[k][device(c)].ver \in Nat
  BY <1>1 DEF op, UploadType
<1>2. CASE op.type \in {"Set", "MibReset"}
  <2>1. answerTo(c, r) = [id |-> r.id, content |-> "result", kind |-> "mib", ver |-> 0]
    BY <1>0, <1>2 DEF answerTo
  <2>2. QED BY <1>0, <1>1, <2>1 DEF Answer
<1>3. CASE op.type = "Upload"
  <2>1. answerTo(c, r) = [id |-> r.id, content |-> "count", kind |-> op.kind,
                          ver |-> version[op.kind]]
    BY <1>0, <1>3 DEF answerTo
  <2>2. op.kind \in Kinds /\ version[op.kind] \in Nat
    BY <1>0, <1>1, <1>3, OpFact
  <2>3. op.kind \in {"mib", "alarm"} /\ r.id \in Nat
    BY <1>0, <1>1, <2>2
  <2>4. answerTo(c, r) \in Answer
    BY <2>1, <2>2, <2>3 DEF Answer
  <2>5. QED BY <1>0, <1>3, <2>1, <2>4
<1>4. CASE op.type = "Next" /\ upload[op.kind][device(c)].st = "live"
  <2>1. answerTo(c, r) = [id |-> r.id, content |-> "page", kind |-> op.kind,
                          ver |-> upload[op.kind][device(c)].ver]
    BY <1>0, <1>4 DEF answerTo, isNext, page
  <2>2. op.kind \in Kinds
    BY <1>1, <1>4, OpFact
  <2>3. upload[op.kind][device(c)].ver \in Nat
    BY <1>0, <2>2
  <2>4. op.kind \in {"mib", "alarm"} /\ r.id \in Nat
    BY <1>0, <1>1, <2>2
  <2>5. answerTo(c, r) \in Answer
    BY <2>1, <2>3, <2>4 DEF Answer
  <2>6. QED BY <1>0, <1>4, <2>1, <2>5
<1>5. CASE /\ op.type \notin {"Set", "MibReset", "Upload"}
           /\ ~(op.type = "Next" /\ upload[op.kind][device(c)].st = "live")
  <2>1. answerTo(c, r) = [NoAnswer EXCEPT !.id = r.id]
    BY <1>0, <1>5 DEF answerTo
  <2>2. QED BY <1>0, <1>1, <2>1 DEF Answer, NoAnswer
<1>6. QED BY <1>2, <1>3, <1>4, <1>5

-----------------------------------------------------------------------------
\* The requests on a channel.
ReqType(q) ==
  /\ q \in [Channels -> Seq(Request)]
  /\ \A c \in Channels : \A r \in Range(q[c]) : r.op \in Ops(c)

\* Taking the first request off a channel.
LEMMA TakeRequest ==
  ASSUME TypeOK, NEW c \in Channels, req[c] # <<>>, req' = [req EXCEPT ![c] = Tail(@)]
  PROVE  /\ ReqType(req')
         /\ Head(req[c]) \in Range(req[c]) /\ Head(req[c]) \in Request
         /\ Head(req[c]).op \in Ops(c)
<1>1. req[c] \in Seq(Request) /\ ReqType(req)
  BY DEF TypeOK, ReqType
<1>2. /\ Tail(req[c]) \in Seq(Request) /\ Head(req[c]) \in Request
      /\ Range(req[c]) = Range(Tail(req[c])) \cup {Head(req[c])}
  BY <1>1, TailFact
<1>3. /\ req'[c] = Tail(req[c]) /\ \A d \in Channels : d # c => req'[d] = req[d]
      /\ req' \in [Channels -> Seq(Request)]
  BY <1>1, <1>2 DEF ReqType
<1>4. QED BY <1>1, <1>2, <1>3 DEF ReqType

\* Putting a request on a channel.
LEMMA PutRequest ==
  ASSUME TypeOK, NEW c \in Channels, NEW m \in Request, m.op \in Ops(c),
         req' = [req EXCEPT ![c] = Append(@, m)]
  PROVE  ReqType(req')
<1>1. req[c] \in Seq(Request) /\ ReqType(req)
  BY DEF TypeOK, ReqType
<1>2. /\ Append(req[c], m) \in Seq(Request)
      /\ Range(Append(req[c], m)) = Range(req[c]) \cup {m}
  BY <1>1, AppendFact
<1>3. /\ req'[c] = Append(req[c], m) /\ \A d \in Channels : d # c => req'[d] = req[d]
      /\ req' \in [Channels -> Seq(Request)]
  BY <1>1, <1>2 DEF ReqType
<1>4. QED BY <1>1, <1>2, <1>3 DEF ReqType

\* Taking the first response off a channel.
LEMMA TakeResponse ==
  ASSUME TypeOK, NEW c \in Channels, resp[c] # <<>>, resp' = [resp EXCEPT ![c] = Tail(@)]
  PROVE  /\ resp' \in [Channels -> Seq(Answer)]
         /\ Head(resp[c]) \in Range(resp[c]) /\ Head(resp[c]) \in Answer
<1>1. resp[c] \in Seq(Answer)
  BY DEF TypeOK
<1>2. /\ Tail(resp[c]) \in Seq(Answer) /\ Head(resp[c]) \in Answer
      /\ Range(resp[c]) = Range(Tail(resp[c])) \cup {Head(resp[c])}
  BY <1>1, TailFact
<1>3. QED BY <1>2 DEF TypeOK

-----------------------------------------------------------------------------
\* The session starts well typed.
LEMMA InitTypeOK == Init => TypeOK
<1> SUFFICES ASSUME Init PROVE TypeOK
  OBVIOUS
<1> USE TransactionsAssumption
<1>1. [type |-> "Set"] \in Op /\ \A c \in Channels : [type |-> "Set"] \in Ops(c)
  BY DEF Op, Ops
<1>2. /\ olt \in [Channels -> [wait : BOOLEAN, id : 0 .. MaxRequests, op : Op]]
      /\ \A c \in Channels : olt[c].op \in Ops(c)
  BY <1>1 DEF Init
<1>3. /\ req \in [Channels -> Seq(Request)] /\ resp \in [Channels -> Seq(Answer)]
      /\ \A c \in Channels : Range(req[c]) = {}
  BY EmptyFact DEF Init
<1>4. slot \in [Channels -> [valid : BOOLEAN, answer : Answer]]
  BY DEF Init, NoSlot, NoAnswer, Answer
<1>5. upload \in [Kinds -> [Devices ->
        [st : {"none", "live", "expired"}, ver : 0 .. MaxVersion]]]
  BY DEF Init, NoUpload
<1>6. /\ collect \in [Channels -> [Kinds -> 0 .. MaxVersion + 1]]
      /\ execs \in [Channels -> [1 .. MaxRequests -> Nat]]
      /\ version \in [{"mib", "alarm"} -> 0 .. MaxVersion]
  BY DEF Init
<1>7. QED BY <1>2, <1>3, <1>4, <1>5, <1>6 DEF TypeOK

LEMMA BudgetFact ==
  ASSUME NEW c, NEW n \in Nat, n < Budget(c)
  PROVE  n < MaxRequests
BY TransactionsAssumption, HighAssumption DEF Budget

\* Whatever the OLT, the OMCC and the engine do next keeps the types.  That a count which
\* is accepted is a version takes the other invariant.
LEMMA NextTypeOK == TypeOK /\ TransactionInv /\ [Next]_vars => TypeOK'
<1> SUFFICES ASSUME TypeOK, TransactionInv, [Next]_vars PROVE TypeOK'
  OBVIOUS
<1> USE TransactionsAssumption
<1>1. ASSUME NEW c \in Channels, NEW op \in Ops(c), SendNew(c, op) PROVE TypeOK'
  <2> DEFINE m == [id |-> olt[c].id + 1, op |-> op]
  <2>1. op \in Op /\ (op.type = "Upload" => op.kind \in Kinds)
    BY OpFact
  <2>2. /\ olt' = [olt EXCEPT ![c] = [wait |-> TRUE, id |-> @.id + 1, op |-> op]]
        /\ olt[c].id < Budget(c) /\ req' = [req EXCEPT ![c] = Append(@, m)]
        /\ UNCHANGED <<resp, slot, upload, version, execs>>
    BY <1>1 DEF SendNew
  <2>3. m \in Request /\ m.op = op
    <3>1. olt[c].id \in 0 .. MaxRequests
      BY DEF TypeOK
    <3>2. olt[c].id \in Nat /\ olt[c].id < MaxRequests
      BY <2>2, <3>1, BudgetFact
    <3>3. olt[c].id + 1 \in 1 .. MaxRequests
      BY <3>2
    <3>4. QED BY <2>1, <3>3 DEF Request
  <2>4. ReqType(req')
    BY <2>2, <2>3, PutRequest
  <2>5. /\ olt' \in [Channels -> [wait : BOOLEAN, id : 0 .. MaxRequests, op : Op]]
        /\ \A d \in Channels : olt'[d].op \in Ops(d)
    BY <2>1, <2>2, <2>3 DEF TypeOK, Request
  <2>6. collect' \in [Channels -> [Kinds -> 0 .. MaxVersion + 1]]
    BY <1>1, <2>1 DEF SendNew, TypeOK
  <2>7. QED BY <2>2, <2>4, <2>5, <2>6 DEF TypeOK, ReqType
<1>2. ASSUME NEW c \in Channels, Retransmit(c) PROVE TypeOK'
  <2> DEFINE m == [id |-> olt[c].id, op |-> olt[c].op]
  <2>1. /\ req' = [req EXCEPT ![c] = Append(@, m)] /\ olt[c].wait
        /\ UNCHANGED <<olt, resp, slot, upload, version, execs, collect>>
    BY <1>2 DEF Retransmit
  <2>2. olt[c].id >= 1
    BY <2>1 DEF TransactionInv, ChannelInv
  <2>3. m \in Request /\ m.op \in Ops(c)
    BY <2>2 DEF TypeOK, Request
  <2>4. ReqType(req')
    BY <2>1, <2>3, PutRequest
  <2>5. QED BY <2>1, <2>4 DEF TypeOK, ReqType
<1>3. ASSUME NEW c \in Channels, LoseRequest(c) PROVE TypeOK'
  BY <1>3, TakeRequest DEF LoseRequest, TypeOK, ReqType
<1>4. ASSUME NEW c \in Channels, LoseResponse(c) PROVE TypeOK'
  BY <1>4, TakeResponse DEF LoseResponse, TypeOK
<1>5. ASSUME NEW c \in Channels, Accept(c) PROVE TypeOK'
  <2> DEFINE a == Head(resp[c])
  <2>1. resp' \in [Channels -> Seq(Answer)] /\ a \in Range(resp[c]) /\ a \in Answer
    BY <1>5, TakeResponse DEF Accept
  <2>2. UNCHANGED <<req, slot, upload, version, execs>>
    BY <1>5 DEF Accept
  <2>3. CASE olt[c].wait /\ tid(a.id) = tid(olt[c].id)
    <3>1. a.id = olt[c].id
      <4>1. a.id \in Nat /\ olt[c].id \in Nat
        BY <2>1 DEF Answer, TypeOK
      <4>2. olt[c].id - 1 <= a.id /\ a.id <= lastId(c) /\ lastId(c) <= olt[c].id
        BY <2>1, <2>3 DEF TransactionInv, ChannelInv, oldest
      <4>3. lastId(c) \in Nat
        BY DEF lastId, TypeOK, Answer
      <4>4. QED BY <2>3, <4>1, <4>2, <4>3, TidFact
    <3>2. AnswerFits(c, a)
      BY <2>1 DEF TransactionInv, UploadInv
    <3>3. a.content = "count" => a.kind \in Kinds /\ a.ver \in 0 .. MaxVersion
      <4>1. a.content = "count" =>
              /\ olt[c].op.type = "Upload" /\ a.kind = olt[c].op.kind
              /\ a.ver <= MaxVersion
        BY <2>3, <3>1, <3>2 DEF AnswerFits
      <4>2. olt[c].op \in Ops(c) /\ a.ver \in Nat
        BY <2>1 DEF TypeOK, Answer
      <4>3. QED BY <4>1, <4>2, OpFact
    <3>4. /\ olt' = [olt EXCEPT ![c].wait = FALSE]
          /\ collect' = IF a.content = "count" THEN [collect EXCEPT ![c][a.kind] = a.ver]
                        ELSE collect
      BY <1>5, <2>3 DEF Accept
    <3>5. olt' \in [Channels -> [wait : BOOLEAN, id : 0 .. MaxRequests, op : Op]]
      <4> DEFINE x == [olt[c] EXCEPT !.wait = FALSE]
      <4>1. x \in [wait : BOOLEAN, id : 0 .. MaxRequests, op : Op]
        <5>1. olt[c] \in [wait : BOOLEAN, id : 0 .. MaxRequests, op : Op]
          BY DEF TypeOK
        <5>2. QED BY <5>1, WaitFact
      <4>2. olt' = [olt EXCEPT ![c] = x]
        BY <3>4
      <4> HIDE DEF x
      <4>3. QED BY <4>1, <4>2 DEF TypeOK
    <3>6. \A d \in Channels : olt'[d].op = olt[d].op
      BY <3>4 DEF TypeOK
    <3>7. collect' \in [Channels -> [Kinds -> 0 .. MaxVersion + 1]]
      <4>1. CASE a.content # "count"
        BY <3>4, <4>1 DEF TypeOK
      <4>2. CASE a.content = "count"
        <5>1. [collect[c] EXCEPT ![a.kind] = a.ver] \in [Kinds -> 0 .. MaxVersion + 1]
          BY <3>3, <4>2 DEF TypeOK
        <5>2. collect' = [collect EXCEPT ![c] = [collect[c] EXCEPT ![a.kind] = a.ver]]
          BY <3>4, <4>2
        <5>3. QED BY <5>1, <5>2 DEF TypeOK
      <4>3. QED BY <4>1, <4>2
    <3>8. QED BY <2>1, <2>2, <3>5, <3>6, <3>7 DEF TypeOK
  <2>4. CASE ~(olt[c].wait /\ tid(a.id) = tid(olt[c].id))
    BY <1>5, <2>1, <2>2, <2>4 DEF Accept, TypeOK
  <2>5. QED BY <2>3, <2>4
<1>6. ASSUME NEW c \in Channels, Replay(c) PROVE TypeOK'
  <2> DEFINE r == Head(req[c])
  <2>1. /\ ReqType(req') /\ r.op \in Ops(c)
        /\ UNCHANGED <<olt, slot, version, execs, collect>>
        /\ upload' = afterReplay(c, r.op)
        /\ resp' = [resp EXCEPT ![c] = Append(@, slot[c].answer)]
    BY <1>6, TakeRequest DEF Replay, transactionPriority
  <2>2. upload' \in UploadType
    BY <2>1, ReplayFact
  <2>3. Append(resp[c], slot[c].answer) \in Seq(Answer)
    BY AppendFact DEF TypeOK
  <2>4. resp' \in [Channels -> Seq(Answer)]
    BY <2>1, <2>3 DEF TypeOK
  <2>5. QED BY <2>1, <2>2, <2>4 DEF TypeOK, ReqType, UploadType
<1>7. ASSUME NEW c \in Channels, Execute(c) PROVE TypeOK'
  <2> DEFINE r == Head(req[c])
             a == answerTo(c, r)
  <2>1. /\ ReqType(req') /\ r \in Range(req[c]) /\ r \in Request /\ r.op \in Ops(c)
        /\ UNCHANGED <<olt, collect>>
        /\ upload' = afterDispatch(c, r.op)
        /\ slot' = [slot EXCEPT ![c] = [valid |-> TRUE, answer |-> a]]
        /\ resp' = [resp EXCEPT ![c] = Append(@, a)]
    BY <1>7, TakeRequest DEF Execute, transactionPriority
  <2>2. upload' \in UploadType
    BY <2>1, DispatchFact
  <2>3. a \in Answer
    BY <2>1, AnswerFact
  <2> HIDE DEF a
  <2>4. Append(resp[c], a) \in Seq(Answer)
    BY <2>3, AppendFact DEF TypeOK
  <2>5. resp' \in [Channels -> Seq(Answer)]
    BY <2>1, <2>4 DEF TypeOK
  <2>6. slot' \in [Channels -> [valid : BOOLEAN, answer : Answer]]
    BY <2>1, <2>3 DEF TypeOK
  <2>7. version' \in [{"mib", "alarm"} -> 0 .. MaxVersion]
    BY <1>7 DEF Execute, TypeOK
  <2>8. execs' \in [Channels -> [1 .. MaxRequests -> Nat]]
    <3>1. execs' = execs \/ execs' = [execs EXCEPT ![c][r.id] = @ + 1]
      BY <1>7 DEF Execute
    <3>2. [execs[c] EXCEPT ![r.id] = @ + 1] \in [1 .. MaxRequests -> Nat]
      <4>1. execs[c] \in [1 .. MaxRequests -> Nat] /\ r.id \in 1 .. MaxRequests
        BY <2>1 DEF TypeOK, Request
      <4>2. QED BY <4>1, CountFact
    <3>3. [execs EXCEPT ![c][r.id] = @ + 1] =
            [execs EXCEPT ![c] = [execs[c] EXCEPT ![r.id] = @ + 1]]
      OBVIOUS
    <3>4. PICK counts : counts = [execs[c] EXCEPT ![r.id] = @ + 1]
      OBVIOUS
    <3>5. counts \in [1 .. MaxRequests -> Nat] /\ (execs' = execs \/ execs' = [execs EXCEPT ![c] = counts])
      BY <3>1, <3>2, <3>3, <3>4, Zenon
    <3>6. execs \in [Channels -> [1 .. MaxRequests -> Nat]]
      BY DEF TypeOK
    <3>7. [execs EXCEPT ![c] = counts] \in [Channels -> [1 .. MaxRequests -> Nat]]
      BY <3>5, <3>6
    <3>8. QED BY <3>5, <3>6, <3>7, Zenon
  <2>9. QED BY <2>1, <2>2, <2>5, <2>6, <2>7, <2>8 DEF TypeOK, ReqType, UploadType
<1>8. ASSUME NEW k \in Kinds, NEW d \in Devices, Expire(k, d) PROVE TypeOK'
  <2>1. upload \in UploadType /\ upload' = [upload EXCEPT ![k][d].st = "expired"]
    BY <1>8 DEF Expire, TypeOK, UploadType
  <2>2. upload' \in UploadType
    BY <2>1, ExpireFact
  <2>3. QED BY <1>8, <2>2 DEF Expire, TypeOK, UploadType
<1>9. CASE \E k \in Kinds : AutonomousChange(k)
  BY <1>9, TransactionsAssumption DEF AutonomousChange, TypeOK
<1>10. CASE ResetCommunicationSession
  <2>1. [type |-> "Set"] \in Op /\ \A c \in Channels : [type |-> "Set"] \in Ops(c)
    BY DEF Op, Ops
  <2>2. /\ olt' \in [Channels -> [wait : BOOLEAN, id : 0 .. MaxRequests, op : Op]]
        /\ \A c \in Channels : olt'[c].op \in Ops(c)
    BY <1>10, <2>1 DEF ResetCommunicationSession
  <2>3. /\ req' \in [Channels -> Seq(Request)] /\ resp' \in [Channels -> Seq(Answer)]
        /\ \A c \in Channels : Range(req'[c]) = {}
    BY <1>10, EmptyFact DEF ResetCommunicationSession
  <2>4. slot' \in [Channels -> [valid : BOOLEAN, answer : Answer]]
    BY <1>10 DEF ResetCommunicationSession, forgetSlots, NoSlot, NoAnswer, Answer
  <2>5. upload' \in [Kinds -> [Devices ->
          [st : {"none", "live", "expired"}, ver : 0 .. MaxVersion]]]
    BY <1>10 DEF ResetCommunicationSession, NoUpload
  <2>6. /\ collect' \in [Channels -> [Kinds -> 0 .. MaxVersion + 1]]
        /\ execs' \in [Channels -> [1 .. MaxRequests -> Nat]]
        /\ version' = version
    BY <1>10 DEF ResetCommunicationSession, TypeOK
  <2>7. QED BY <2>2, <2>3, <2>4, <2>5, <2>6 DEF TypeOK
<1>11. CASE UNCHANGED vars BY <1>11 DEF vars, TypeOK
<1>12. QED
  BY <1>1, <1>2, <1>3, <1>4, <1>5, <1>6, <1>7, <1>8, <1>9, <1>10, <1>11 DEF Next

-----------------------------------------------------------------------------
\* At the start of a session nothing is in transit and nothing has been executed.
LEMMA InitTransaction == Init => TransactionInv
<1> SUFFICES ASSUME Init, NEW c \in Channels PROVE ChannelInv(c) /\ UploadInv(c)
  BY DEF TransactionInv
<1> USE TransactionsAssumption
<1>1. /\ olt[c] = [wait |-> FALSE, id |-> 0, op |-> [type |-> "Set"]]
      /\ req[c] = <<>> /\ resp[c] = <<>> /\ slot[c] = NoSlot
      /\ execs[c] = [i \in 1 .. MaxRequests |-> 0]
      /\ collect[c] = [k \in Kinds |-> MaxVersion + 1]
  BY DEF Init
<1>2. /\ ~olt[c].wait /\ olt[c].id = 0 /\ ~slot[c].valid /\ slot[c].answer = NoAnswer
      /\ NoAnswer.id = 0
  BY <1>1 DEF NoSlot, NoAnswer
<1>3. /\ Range(req[c]) = {} /\ Range(resp[c]) = {}
      /\ Ascending(req[c]) /\ Ascending(resp[c])
  BY <1>1, EmptyFact
<1>4. ChannelInv(c)
  BY <1>1, <1>2, <1>3 DEF ChannelInv, oldest, lastId
<1>5. UploadInv(c)
  BY <1>1, <1>2, <1>3 DEF UploadInv, AnswerFits
<1>6. QED BY <1>4, <1>5

\* A step on another channel.
LEMMA ChannelFrame ==
  ASSUME NEW d \in Channels, ChannelInv(d),
         UNCHANGED <<olt[d], req[d], resp[d], slot[d], execs[d]>>
  PROVE  ChannelInv(d)'
BY DEF ChannelInv, oldest, lastId, Ascending, isNext

\* Steps that end snapshots or change nothing but their state.
Kept(d) ==
  d # "high" => \A k \in Kinds :
    \/ upload'[k][device(d)].st = "none"
    \/ /\ upload'[k][device(d)].ver = upload[k][device(d)].ver
       /\ upload[k][device(d)].st # "none"

\* What a snapshot shows survives such a step.
LEMMA ShowsKept ==
  ASSUME NEW d, d # "high", Kept(d), NEW k \in Kinds, NEW v, Shows(d, k, v)
  PROVE  Shows(d, k, v)'
BY DEF Kept, Shows

\* So does the match of an answer with the outstanding request.
LEMMA FitsKept ==
  ASSUME TypeOK, NEW d \in Channels, Kept(d), NEW a, AnswerFits(d, a),
         UNCHANGED <<olt[d], collect[d]>>
  PROVE  AnswerFits(d, a)'
<1>1. ASSUME olt[d].wait, a.id = olt[d].id, a.content = "count"
      PROVE  Shows(d, a.kind, a.ver)'
  <2>1. /\ olt[d].op.type = "Upload" /\ a.kind = olt[d].op.kind
        /\ Shows(d, a.kind, a.ver)
    BY <1>1 DEF AnswerFits
  <2>2. a.kind \in Kinds /\ d # "high"
    BY <2>1, OpFact DEF TypeOK
  <2>3. QED BY <2>1, <2>2, ShowsKept
<1>2. QED BY <1>1 DEF AnswerFits

\* A step that leaves the channel's retrieval alone preserves its invariant.
LEMMA UploadFrame ==
  ASSUME TypeOK, NEW d \in Channels, UploadInv(d), Kept(d),
         UNCHANGED <<olt[d], slot[d], collect[d]>>,
         \A a \in Range(resp'[d]) : a \in Range(resp[d]) \cup {slot[d].answer}
  PROVE  UploadInv(d)'
<1>1. ASSUME NEW k \in Kinds, d # "high", collect[d][k] <= MaxVersion
      PROVE  Shows(d, k, collect[d][k])'
  <2>1. Shows(d, k, collect[d][k])
    BY <1>1 DEF UploadInv
  <2>2. Shows(d, k, collect[d][k]) => upload[k][device(d)].st = "none" \/ upload[k][device(d)].ver = collect[d][k]
    BY DEF Shows
  <2>3. QED BY <1>1, <2>1, <2>2 DEF Kept, Shows
<1>2. ASSUME NEW a \in Range(resp'[d]) \cup {slot[d].answer} PROVE AnswerFits(d, a)'
  <2>1. AnswerFits(d, a)
    BY DEF UploadInv
  <2>2. QED BY <2>1, FitsKept
<1>3. QED BY <1>1, <1>2 DEF UploadInv, isNext

\* The ids and versions that the invariant compares are numbers.
LEMMA Numbers ==
  ASSUME TypeOK, NEW c \in Channels
  PROVE  /\ olt[c].id \in Nat /\ lastId(c) \in Nat /\ olt[c].op \in Ops(c)
         /\ \A r \in Range(req[c]) : r \in Request /\ r.id \in 1 .. MaxRequests /\ r.op \in Ops(c)
         /\ \A a \in Range(resp[c]) : a \in Answer /\ a.id \in Nat
<1> USE TransactionsAssumption
<1>1. req[c] \in Seq(Request) /\ resp[c] \in Seq(Answer)
  BY DEF TypeOK
<1>2. Range(req[c]) \subseteq Request /\ Range(resp[c]) \subseteq Answer
  BY <1>1 DEF Range
<1>3. \A r \in Range(req[c]) : r.id \in 1 .. MaxRequests
  BY <1>2 DEF Request
<1>4. \A a \in Range(resp[c]) : a.id \in Nat
  BY <1>2 DEF Answer
<1>5. olt[c].id \in Nat /\ olt[c].op \in Ops(c)
  BY DEF TypeOK
<1>6. lastId(c) \in Nat
  BY DEF TypeOK, lastId, Answer
<1>7. QED BY <1>2, <1>3, <1>4, <1>5, <1>6 DEF TypeOK

-----------------------------------------------------------------------------
\* Every step preserves the order of a channel's messages, its slot and its counts.
LEMMA NextChannel ==
  TypeOK /\ TransactionInv /\ [Next]_vars => \A d \in Channels : ChannelInv(d)'
<1> SUFFICES ASSUME TypeOK, TransactionInv, [Next]_vars, NEW d \in Channels
             PROVE  ChannelInv(d)'
  OBVIOUS
<1> USE TransactionsAssumption
<1>0. /\ ChannelInv(d) /\ olt[d].id \in Nat /\ lastId(d) \in Nat
      /\ \A r \in Range(req[d]) : r \in Request /\ r.id \in 1 .. MaxRequests
      /\ \A a \in Range(resp[d]) : a \in Answer /\ a.id \in Nat
      /\ req[d] \in Seq(Request) /\ resp[d] \in Seq(Answer)
  BY Numbers DEF TransactionInv, TypeOK
<1>1. CASE UNCHANGED <<olt[d], req[d], resp[d], slot[d], execs[d]>>
  BY <1>0, <1>1, ChannelFrame
<1>2. ASSUME NEW op \in Ops(d), SendNew(d, op) PROVE ChannelInv(d)'
  <2> DEFINE m == [id |-> olt[d].id + 1, op |-> op]
  <2>1. /\ ~olt[d].wait /\ olt[d].id < MaxRequests
        /\ olt'[d] = [wait |-> TRUE, id |-> olt[d].id + 1, op |-> op]
        /\ req'[d] = Append(req[d], m)
        /\ UNCHANGED <<resp, slot, execs>>
    BY <1>0, <1>2, BudgetFact DEF SendNew, TypeOK
  <2>2. m \in Request /\ m.id = olt[d].id + 1 /\ m.op = op
    BY <1>0, <2>1, OpFact DEF Request
  <2>3. olt'[d].wait /\ olt'[d].id = olt[d].id + 1 /\ olt'[d].op = op
    BY <2>1
  <2> HIDE DEF m
  <2>4. lastId(d) = olt[d].id /\ lastId(d)' = lastId(d)
    BY <1>0, <2>1 DEF ChannelInv, oldest, lastId
  <2>5. \A r \in Range(req[d]) : r.id <= m.id
    BY <1>0, <2>2 DEF ChannelInv
  <2>6. Range(req'[d]) = Range(req[d]) \cup {m} /\ Ascending(req'[d])
    BY <1>0, <2>1, <2>2, <2>5, AppendFact DEF ChannelInv
  <2>7. \A r \in Range(req'[d]) :
          /\ lastId(d) <= r.id /\ r.id <= olt[d].id + 1
          /\ r.id = olt[d].id + 1 => r.op = op
    BY <1>0, <2>2, <2>4, <2>6 DEF ChannelInv
  <2>8. \A a \in Range(resp[d]) : olt[d].id <= a.id /\ a.id <= lastId(d)
    BY <1>0, <2>1 DEF ChannelInv, oldest
  <2>9. QED
    BY <1>0, <2>1, <2>3, <2>4, <2>6, <2>7, <2>8, SMTT(30) DEF ChannelInv, oldest, lastId, Ascending
<1>3. CASE Retransmit(d)
  <2> DEFINE m == [id |-> olt[d].id, op |-> olt[d].op]
  <2>1. /\ olt[d].wait /\ req'[d] = Append(req[d], m)
        /\ UNCHANGED <<olt, resp, slot, execs>>
    BY <1>3 DEF Retransmit, TypeOK
  <2>2. m \in Request /\ m.id = olt[d].id /\ m.op = olt[d].op
    BY <1>0, <2>1 DEF Request, ChannelInv, TypeOK
  <2> HIDE DEF m
  <2>3. Range(req'[d]) = Range(req[d]) \cup {m} /\ Ascending(req'[d])
    BY <1>0, <2>1, <2>2, AppendFact DEF ChannelInv
  <2>4. QED
    BY <1>0, <2>1, <2>2, <2>3 DEF ChannelInv, oldest, lastId, Ascending
<1>4. CASE LoseRequest(d)
  <2>1. /\ req[d] # <<>> /\ req'[d] = Tail(req[d])
        /\ UNCHANGED <<olt, resp, slot, execs>>
    BY <1>4 DEF LoseRequest, TypeOK
  <2>2. Range(req'[d]) \subseteq Range(req[d]) /\ Ascending(req'[d])
    BY <1>0, <2>1, TailFact DEF ChannelInv
  <2>3. QED
    BY <1>0, <2>1, <2>2 DEF ChannelInv, oldest, lastId, Ascending
<1>5. ASSUME resp[d] # <<>>, resp'[d] = Tail(resp[d]),
             UNCHANGED <<olt[d], req[d], slot[d], execs[d]>>
      PROVE  ChannelInv(d)'
  <2>1. Range(resp'[d]) \subseteq Range(resp[d]) /\ Ascending(resp'[d])
    BY <1>0, <1>5, TailFact DEF ChannelInv
  <2>2. QED
    BY <1>0, <1>5, <2>1 DEF ChannelInv, oldest, lastId, Ascending
<1>6. CASE LoseResponse(d)
  BY <1>5, <1>6 DEF LoseResponse, TypeOK
<1>7. CASE Accept(d)
  <2> DEFINE a == Head(resp[d])
  <2>1. /\ resp[d] # <<>> /\ resp'[d] = Tail(resp[d])
        /\ UNCHANGED <<req, slot, execs>>
    BY <1>7 DEF Accept, TypeOK
  <2>2. CASE ~(olt[d].wait /\ tid(a.id) = tid(olt[d].id))
    BY <1>5, <1>7, <2>1, <2>2 DEF Accept
  <2>3. CASE olt[d].wait /\ tid(a.id) = tid(olt[d].id)
    <3>1. ~olt'[d].wait /\ olt'[d].id = olt[d].id /\ olt'[d].op = olt[d].op
      BY <1>7, <2>3 DEF Accept, TypeOK
    <3>2. /\ a \in Range(resp[d]) /\ Range(resp'[d]) \subseteq Range(resp[d])
          /\ Ascending(resp'[d]) /\ \A g \in Range(resp'[d]) : a.id <= g.id
      BY <1>0, <2>1, TailFact DEF ChannelInv
    <3>3. a.id = olt[d].id
      <4>1. olt[d].id - 1 <= a.id /\ a.id <= lastId(d) /\ lastId(d) <= olt[d].id
        BY <1>0, <2>3, <3>2 DEF ChannelInv, oldest
      <4>2. a.id \in Nat /\ a.id <= olt[d].id
        BY <1>0, <3>2, <4>1
      <4>3. QED BY <1>0, <2>3, <4>1, <4>2, TidFact
    <3>4. lastId(d) = olt[d].id
      BY <1>0, <3>2, <3>3 DEF ChannelInv
    <3>5. \A g \in Range(resp'[d]) : olt[d].id <= g.id /\ g.id <= lastId(d)
      BY <1>0, <3>2, <3>3 DEF ChannelInv
    <3>6. QED
      BY <1>0, <2>1, <3>1, <3>2, <3>4, <3>5 DEF ChannelInv, oldest, lastId, Ascending
  <2>4. QED BY <2>2, <2>3
<1>8. CASE Replay(d)
  <2> DEFINE a == slot[d].answer
  <2>1. /\ req[d] # <<>> /\ req'[d] = Tail(req[d]) /\ resp'[d] = Append(resp[d], a)
        /\ UNCHANGED <<olt, slot, execs>>
    BY <1>8 DEF Replay, transactionPriority, TypeOK
  <2>2. Range(req'[d]) \subseteq Range(req[d]) /\ Ascending(req'[d])
    BY <1>0, <2>1, TailFact DEF ChannelInv
  <2>3. a \in Answer /\ a.id = lastId(d)
    BY DEF TypeOK, lastId
  <2> HIDE DEF a
  <2>4. Range(resp'[d]) = Range(resp[d]) \cup {a} /\ Ascending(resp'[d])
    BY <1>0, <2>1, <2>3, AppendFact DEF ChannelInv
  <2>5. \A g \in Range(resp'[d]) : oldest(d) <= g.id /\ g.id <= lastId(d)
    BY <1>0, <2>3, <2>4 DEF ChannelInv, oldest
  <2>6. lastId(d)' = lastId(d) /\ oldest(d)' = oldest(d)
    BY <2>1 DEF lastId, oldest
  <2>7. QED
    BY <1>0, <2>1, <2>2, <2>4, <2>5, <2>6 DEF ChannelInv, Ascending
<1>9. CASE Execute(d)
  <2> DEFINE r == Head(req[d])
             a == answerTo(d, r)
  <2>1. /\ req[d] # <<>> /\ req'[d] = Tail(req[d]) /\ resp'[d] = Append(resp[d], a)
        /\ slot'[d] = [valid |-> TRUE, answer |-> a]
        /\ olt' = olt /\ ~replayFound(d, r)
        /\ execs' = IF isNext(r.op) THEN execs ELSE [execs EXCEPT ![d][r.id] = @ + 1]
    BY <1>9 DEF Execute, transactionPriority, TypeOK
  <2>2. /\ r \in Range(req[d]) /\ Range(req'[d]) \subseteq Range(req[d])
        /\ Ascending(req'[d]) /\ \A g \in Range(req'[d]) : r.id <= g.id
    BY <1>0, <2>1, TailFact DEF ChannelInv
  <2>3. a \in Answer /\ a.id = r.id /\ r.id \in 1 .. MaxRequests
    BY <1>0, <2>2, AnswerFact
  <2>4. /\ lastId(d) <= r.id /\ r.id <= olt[d].id
        /\ r.id = olt[d].id => r.op = olt[d].op
    BY <1>0, <2>2 DEF ChannelInv
  <2>5. ~isNext(r.op) => lastId(d) < r.id
    <3>1. lastId(d) = r.id /\ ~isNext(r.op) => replayFound(d, r)
      BY <1>0, <2>3 DEF replayFound, transactionPriority, lastId, ChannelInv
    <3>2. QED BY <1>0, <2>1, <2>3, <2>4, <3>1
  <2> HIDE DEF a, r
  <2>6. \A g \in Range(resp[d]) : g.id <= a.id /\ oldest(d) <= g.id
    BY <1>0, <2>3, <2>4 DEF ChannelInv
  <2>7. Range(resp'[d]) = Range(resp[d]) \cup {a} /\ Ascending(resp'[d])
    BY <1>0, <2>1, <2>3, <2>6, AppendFact DEF ChannelInv
  <2>8. lastId(d)' = r.id /\ slot'[d].valid /\ oldest(d)' = oldest(d)
    BY <2>1, <2>3 DEF lastId, oldest
  <2>9. oldest(d) <= r.id
    BY <1>0, <2>3, <2>4 DEF ChannelInv, oldest
  <2>10. execs[d] \in [1 .. MaxRequests -> Nat]
    BY DEF TypeOK
  <2>11. /\ \A i \in 1 .. MaxRequests : execs'[d][i] <= 1 /\ (i > r.id => execs'[d][i] = 0)
         /\ isNext(r.op) \/ execs'[d][r.id] = 1
    <3>1. \A i \in 1 .. MaxRequests : execs[d][i] <= 1 /\ (i > lastId(d) => execs[d][i] = 0)
      BY <1>0 DEF ChannelInv
    <3>2. CASE isNext(r.op)
      BY <1>0, <2>1, <2>3, <2>4, <3>1, <3>2
    <3>3. CASE ~isNext(r.op)
      <4>1. execs[d][r.id] = 0
        BY <1>0, <2>3, <2>5, <3>1, <3>3
      <4>2. \A i \in 1 .. MaxRequests :
              execs'[d][i] = IF i = r.id THEN execs[d][i] + 1 ELSE execs[d][i]
        BY <2>1, <2>3, <2>10, <3>3 DEF TypeOK
      <4>3. ASSUME NEW i \in 1 .. MaxRequests
            PROVE  execs'[d][i] <= 1 /\ (i > r.id => execs'[d][i] = 0)
        <5>1. CASE i = r.id
          <6>1. execs'[d][i] = execs[d][i] + 1 /\ execs[d][i] = 0
            BY <4>1, <4>2, <5>1
          <6>2. execs'[d][i] = 1
            BY <6>1
          <6>3. QED BY <2>3, <5>1, <6>2
        <5>2. CASE i # r.id
          <6>1. execs'[d][i] = execs[d][i]
            BY <4>2, <5>2
          <6>2. execs[d][i] <= 1 /\ (i > lastId(d) => execs[d][i] = 0)
            BY <3>1
          <6>3. lastId(d) \in Nat /\ r.id \in Nat /\ lastId(d) <= r.id
            BY <1>0, <2>3, <2>4
          <6>4. QED BY <6>1, <6>2, <6>3
        <5>3. QED BY <5>1, <5>2
      <4>4. execs'[d][r.id] = 1
        BY <2>3, <4>1, <4>2
      <4>5. QED BY <4>3, <4>4
    <3>4. QED BY <3>2, <3>3
  <2>12. \A g \in Range(resp'[d]) : oldest(d) <= g.id /\ g.id <= r.id
    BY <2>3, <2>6, <2>7, <2>9
  <2>13. \A g \in Range(req'[d]) :
           /\ r.id <= g.id /\ g.id <= olt[d].id
           /\ g.id = olt[d].id => g.op = olt[d].op
    BY <1>0, <2>2 DEF ChannelInv
  <2>14. olt[d].wait => olt[d].id >= 1
    BY <1>0 DEF ChannelInv
  <2>15. r.id # 0
    BY <2>3
  <2>16. QED
    BY <2>1, <2>2, <2>4, <2>7, <2>8, <2>9, <2>11, <2>12, <2>13, <2>14, <2>15
    DEF ChannelInv, Ascending, oldest
<1>10. CASE ResetCommunicationSession
  <2>1. /\ olt'[d] = [wait |-> FALSE, id |-> 0, op |-> [type |-> "Set"]]
        /\ req'[d] = <<>> /\ resp'[d] = <<>> /\ slot'[d] = NoSlot
        /\ execs'[d] = [i \in 1 .. MaxRequests |-> 0]
    BY <1>10 DEF ResetCommunicationSession, forgetSlots
  <2>2. /\ ~olt'[d].wait /\ olt'[d].id = 0 /\ ~slot'[d].valid /\ slot'[d].answer.id = 0
    BY <2>1 DEF NoSlot, NoAnswer
  <2>3. /\ Range(req'[d]) = {} /\ Range(resp'[d]) = {}
        /\ Ascending(req'[d]) /\ Ascending(resp'[d])
    BY <2>1, EmptyFact
  <2>4. QED BY <2>1, <2>2, <2>3 DEF ChannelInv, oldest, lastId, Ascending
<1>11. ASSUME NEW c \in Channels, c # d,
              \/ \E op \in Ops(c) : SendNew(c, op)
              \/ Retransmit(c) \/ LoseRequest(c) \/ LoseResponse(c)
              \/ Accept(c) \/ Replay(c) \/ Execute(c)
       PROVE  ChannelInv(d)'
  <2>1. UNCHANGED <<olt[d], req[d], resp[d], slot[d], execs[d]>>
    BY <1>11 DEF SendNew, Retransmit, LoseRequest, LoseResponse, Accept, Replay, Execute,
                 TypeOK, transactionPriority
  <2>2. QED BY <1>1, <2>1
<1>12. QED
  BY <1>1, <1>2, <1>3, <1>4, <1>6, <1>7, <1>8, <1>9, <1>10, <1>11
  DEF Next, vars, Expire, AutonomousChange

-----------------------------------------------------------------------------
\* A request that is executed and is not a page was never executed before: it is the
\* outstanding one, and everything sent so far answers an earlier one.
LEMMA FirstExecution ==
  ASSUME TypeOK, TransactionInv, NEW c \in Channels, Execute(c), ~isNext(Head(req[c]).op)
  PROVE  /\ olt[c].wait /\ Head(req[c]).id = olt[c].id /\ Head(req[c]).op = olt[c].op
         /\ lastId(c) < olt[c].id
         /\ \A a \in Range(resp[c]) : a.id # olt[c].id
<1> DEFINE r == Head(req[c])
<1>0. /\ ChannelInv(c) /\ olt[c].id \in Nat /\ lastId(c) \in Nat
      /\ \A a \in Range(resp[c]) : a.id \in Nat
      /\ req[c] \in Seq(Request)
  BY Numbers DEF TransactionInv, TypeOK
<1>1. req[c] # <<>> /\ ~replayFound(c, r)
  BY DEF Execute
<1>2. r \in Range(req[c])
  BY <1>0, <1>1, TailFact
<1>3. /\ r.id \in Nat /\ r.id # 0 /\ lastId(c) <= r.id /\ r.id <= olt[c].id
      /\ r.id = olt[c].id => r.op = olt[c].op
  BY <1>0, <1>2, Numbers, TransactionsAssumption DEF ChannelInv
<1>4. lastId(c) = r.id => replayFound(c, r)
  BY <1>0, <1>3 DEF replayFound, transactionPriority, lastId, ChannelInv
<1>5. lastId(c) < r.id
  BY <1>0, <1>1, <1>3, <1>4
<1>6. olt[c].wait /\ r.id = olt[c].id
  BY <1>0, <1>3, <1>5 DEF ChannelInv, oldest
<1>7. QED BY <1>0, <1>3, <1>5, <1>6 DEF ChannelInv

\* Two channels that run uploads use different snapshots.
LEMMA DevicesDiffer ==
  ASSUME NEW c \in Channels, NEW d \in Channels, c # d, c # "high", d # "high"
  PROVE  device(c) # device(d)
BY TransactionsAssumption DEF device

\* Every step preserves what the snapshots and the answers in transit show.
LEMMA NextUpload ==
  TypeOK /\ TransactionInv /\ [Next]_vars => \A d \in Channels : UploadInv(d)'
<1> SUFFICES ASSUME TypeOK, TransactionInv, [Next]_vars, NEW d \in Channels
             PROVE  UploadInv(d)'
  OBVIOUS
<1> USE TransactionsAssumption
<1>0. /\ ChannelInv(d) /\ UploadInv(d) /\ olt[d].id \in Nat /\ lastId(d) \in Nat
      /\ \A a \in Range(resp[d]) : a \in Answer /\ a.id \in Nat
      /\ req[d] \in Seq(Request) /\ resp[d] \in Seq(Answer)
      /\ olt[d].op \in Ops(d)
      /\ upload \in UploadType /\ device(d) \in Devices
      /\ collect[d] \in [Kinds -> 0 .. MaxVersion + 1]
  BY Numbers DEF TransactionInv, TypeOK, UploadType, device, Devices
<1>1. ASSUME UNCHANGED upload PROVE Kept(d)
  BY <1>1 DEF Kept
<1>2. ASSUME NEW op \in Ops(d), SendNew(d, op) PROVE UploadInv(d)'
  <2>1. /\ ~olt[d].wait /\ Offers(d, op)
        /\ olt'[d] = [wait |-> TRUE, id |-> olt[d].id + 1, op |-> op]
        /\ UNCHANGED <<resp, slot, upload>>
        /\ collect' = IF op.type = "Upload" THEN [collect EXCEPT ![d][op.kind] = MaxVersion + 1]
                      ELSE collect
    BY <1>2 DEF SendNew, TypeOK
  <2>2. op.type \in {"Upload", "Next", "NextBeyond"} => op.kind \in Kinds
    BY OpFact
  <2>3. olt'[d].wait /\ olt'[d].id = olt[d].id + 1 /\ olt'[d].op = op
    BY <2>1
  <2>4. \A a \in Range(resp[d]) \cup {slot[d].answer} : a.id # olt[d].id + 1
    BY <1>0 DEF ChannelInv, lastId
  <2>5. \A k \in Kinds : collect'[d][k] = IF op.type = "Upload" /\ k = op.kind
                                         THEN MaxVersion + 1 ELSE collect[d][k]
    BY <1>0, <2>1, <2>2 DEF TypeOK
  <2>6. \A a \in Range(resp'[d]) \cup {slot'[d].answer} : AnswerFits(d, a)'
    BY <2>1, <2>3, <2>4 DEF AnswerFits
  <2>7. \A k \in Kinds : d # "high" /\ collect'[d][k] <= MaxVersion
                           => Shows(d, k, collect[d][k])' /\ collect'[d][k] = collect[d][k]
    <3>1. SUFFICES ASSUME NEW k \in Kinds, d # "high", collect'[d][k] <= MaxVersion
                   PROVE  Shows(d, k, collect[d][k])' /\ collect'[d][k] = collect[d][k]
      OBVIOUS
    <3>2. collect'[d][k] = collect[d][k]
      BY <2>5, <3>1
    <3>3. Shows(d, k, collect[d][k])
      BY <1>0, <3>1, <3>2 DEF UploadInv
    <3>4. QED BY <2>1, <3>2, <3>3 DEF Shows
  <2>8. op.type = "Upload" => collect'[d][op.kind] = MaxVersion + 1
    BY <2>2, <2>5
  <2>9. isNext(op) => collect'[d][op.kind] <= MaxVersion
    BY <2>1, <2>2, <2>5 DEF Offers, isNext
  <2>10. QED BY <2>3, <2>6, <2>7, <2>8, <2>9 DEF UploadInv, Shows
<1>3. CASE Retransmit(d) \/ LoseRequest(d)
  BY <1>0, <1>1, <1>3, UploadFrame DEF Retransmit, LoseRequest
<1>4. CASE LoseResponse(d)
  <2>1. /\ resp[d] # <<>> /\ resp'[d] = Tail(resp[d])
        /\ UNCHANGED <<olt, slot, collect, upload>>
    BY <1>4 DEF LoseResponse, TypeOK
  <2>2. Range(resp'[d]) \subseteq Range(resp[d])
    BY <1>0, <2>1, TailFact
  <2>3. QED BY <1>0, <1>1, <2>1, <2>2, UploadFrame
<1>5. CASE Accept(d)
  <2> DEFINE a == Head(resp[d])
  <2>1. /\ resp[d] # <<>> /\ resp'[d] = Tail(resp[d])
        /\ UNCHANGED <<slot, upload>>
    BY <1>5 DEF Accept, TypeOK
  <2>2. a \in Range(resp[d]) /\ Range(resp'[d]) \subseteq Range(resp[d])
    BY <1>0, <2>1, TailFact
  <2>3. CASE ~(olt[d].wait /\ tid(a.id) = tid(olt[d].id))
    <3>1. UNCHANGED <<olt, collect>>
      BY <1>5, <2>3 DEF Accept
    <3>2. QED BY <1>0, <1>1, <2>1, <2>2, <3>1, UploadFrame
  <2>4. CASE olt[d].wait /\ tid(a.id) = tid(olt[d].id)
    <3>1. /\ ~olt'[d].wait
          /\ collect' = IF a.content = "count" THEN [collect EXCEPT ![d][a.kind] = a.ver]
                        ELSE collect
      BY <1>5, <2>4 DEF Accept, TypeOK
    <3>2. a.id = olt[d].id
      <4>1. olt[d].id - 1 <= a.id /\ a.id <= lastId(d) /\ lastId(d) <= olt[d].id
        BY <1>0, <2>2, <2>4 DEF ChannelInv, oldest
      <4>2. a.id \in Nat /\ a.id <= olt[d].id
        BY <1>0, <2>2, <4>1
      <4>3. QED BY <1>0, <2>4, <4>1, <4>2, TidFact
    <3>3. a.content = "count" => Shows(d, a.kind, a.ver)
      BY <1>0, <2>2, <2>4, <3>2 DEF UploadInv, AnswerFits
    <3>4. ASSUME NEW k \in Kinds, d # "high", collect'[d][k] <= MaxVersion
          PROVE  \/ upload[k][device(d)].st = "none"
                 \/ upload[k][device(d)].ver = collect'[d][k]
      <4>1. CASE a.content = "count" /\ k = a.kind
        <5>1. collect'[d][k] = a.ver
          BY <1>0, <3>1, <4>1 DEF TypeOK
        <5>2. QED BY <3>3, <4>1, <5>1 DEF Shows
      <4>2. CASE ~(a.content = "count" /\ k = a.kind)
        <5>1. collect'[d][k] = collect[d][k]
          BY <1>0, <3>1, <4>2 DEF TypeOK
        <5>2. QED BY <1>0, <3>4, <5>1 DEF UploadInv, Shows
      <4>3. QED BY <4>1, <4>2
    <3>5. QED BY <2>1, <3>1, <3>4 DEF UploadInv, AnswerFits, Shows
  <2>5. QED BY <2>3, <2>4
<1>6. ASSUME NEW c \in Channels, Replay(c) PROVE UploadInv(d)'
  <2> DEFINE r == Head(req[c])
  <2>1. /\ r.op \in Ops(c) /\ upload' = afterReplay(c, r.op)
        /\ UNCHANGED <<olt, slot, collect>>
        /\ resp' = [resp EXCEPT ![c] = Append(@, slot[c].answer)]
    BY <1>6, TakeRequest DEF Replay, transactionPriority
  <2>2. Kept(d)
    <3>1. \A k \in Kinds, b \in Devices :
            /\ upload'[k][b].ver = upload[k][b].ver
            /\ upload[k][b].st = "none" => upload'[k][b].st = "none"
      BY <2>1, ReplayFact
    <3>2. QED BY <1>0, <3>1 DEF Kept
  <2>3. \A a \in Range(resp'[d]) : a \in Range(resp[d]) \cup {slot[d].answer}
    <3>1. CASE c = d
      <4>1. resp'[d] = Append(resp[d], slot[d].answer) /\ slot[d].answer \in Answer
        BY <2>1, <3>1 DEF TypeOK
      <4>2. QED BY <1>0, <4>1, AppendFact
    <3>2. CASE c # d
      BY <2>1, <3>2 DEF TypeOK
    <3>3. QED BY <3>1, <3>2
  <2>4. QED BY <1>0, <2>1, <2>2, <2>3, UploadFrame
<1>7. ASSUME NEW c \in Channels, Execute(c), c # d PROVE UploadInv(d)'
  <2> DEFINE r == Head(req[c])
  <2>1. /\ r.op \in Ops(c) /\ upload' = afterDispatch(c, r.op)
        /\ UNCHANGED <<olt, collect, slot[d], resp[d]>>
    BY <1>7, TakeRequest DEF Execute, transactionPriority, TypeOK
  <2>2. d # "high" /\ r.op.type = "Upload" => device(c) # device(d)
    BY <1>7, <2>1, OpFact, DevicesDiffer
  <2>3. Kept(d)
    BY <1>0, <2>1, <2>2, DispatchFact DEF Kept
  <2>4. QED BY <1>0, <2>1, <2>3, UploadFrame
<1>8. CASE Execute(d)
  <2>0. PICK r, a, op : r = Head(req[d]) /\ a = answerTo(d, r) /\ op = olt[d].op
    OBVIOUS
  <2>1. /\ r \in Range(req[d]) /\ r.op \in Ops(d)
        /\ UNCHANGED <<olt, collect>> /\ upload' = afterDispatch(d, r.op)
        /\ slot'[d] = [valid |-> TRUE, answer |-> a]
        /\ resp'[d] = Append(resp[d], a)
    BY <1>8, <2>0, TakeRequest DEF Execute, transactionPriority, TypeOK
  <2>2. /\ a \in Answer /\ a.id = r.id
        /\ a.content = "count" =>
             r.op.type = "Upload" /\ a.kind = r.op.kind /\ a.ver = version[r.op.kind]
        /\ a.content = "page" =>
             /\ r.op.type = "Next" /\ a.kind = r.op.kind
             /\ a.ver = upload[r.op.kind][device(d)].ver
             /\ upload[r.op.kind][device(d)].st = "live"
    BY <2>0, <2>1, AnswerFact
  <2>3. r.id = olt[d].id => r.op = op
    BY <1>0, <2>0, <2>1 DEF ChannelInv
  <2>4. r.op.type # "Upload" => Kept(d)
    <3>1. \A k \in Kinds, b \in Devices : r.op.type # "Upload" =>
            upload'[k][b] = upload[k][b] \/ upload'[k][b].st = "none"
      BY <2>1, DispatchFact
    <3>2. QED BY <1>0, <3>1 DEF Kept
  <2>5. r.op.type = "Upload" =>
          /\ olt[d].wait /\ r.op = op
          /\ \A g \in Range(resp[d]) : g.id # olt[d].id
    BY <1>8, <2>0, FirstExecution DEF isNext
  <2>6. slot'[d].answer = a /\ Range(resp'[d]) = Range(resp[d]) \cup {a}
    BY <1>0, <2>1, <2>2, AppendFact
  <2>7. ASSUME NEW k \in Kinds, d # "high", collect[d][k] <= MaxVersion
        PROVE  Shows(d, k, collect[d][k])'
    <3>1. Shows(d, k, collect[d][k])
      BY <1>0, <2>7 DEF UploadInv
    <3>2. CASE r.op.type = "Upload"
      <4>1. collect[d][r.op.kind] = MaxVersion + 1
        BY <1>0, <2>0, <2>5, <3>2 DEF UploadInv
      <4>2. k # r.op.kind
        BY <2>7, <4>1
      <4>3. upload'[k][device(d)] = upload[k][device(d)] \/ upload'[k][device(d)].st = "none"
        BY <1>0, <2>1, <4>2, DispatchFact
      <4>4. QED BY <2>1, <3>1, <4>3 DEF Shows
    <3>3. CASE r.op.type # "Upload"
      BY <2>1, <2>4, <2>7, <3>1, <3>3 DEF Kept, Shows
    <3>4. QED BY <3>2, <3>3
  <2>8. ASSUME NEW g \in Range(resp[d]) PROVE AnswerFits(d, g)'
    <3>1. AnswerFits(d, g)
      BY <1>0 DEF UploadInv
    <3>2. CASE r.op.type = "Upload"
      BY <2>1, <2>5, <3>2 DEF AnswerFits
    <3>3. CASE r.op.type # "Upload"
      BY <2>1, <2>4, <3>1, <3>3, FitsKept
    <3>4. QED BY <3>2, <3>3
  <2>9. AnswerFits(d, a)'
    <3>1. SUFFICES ASSUME olt[d].wait, a.id = olt[d].id
                   PROVE  /\ a.content = "count" =>
                               /\ op.type = "Upload" /\ a.kind = op.kind
                               /\ a.ver <= MaxVersion /\ Shows(d, a.kind, a.ver)'
                          /\ a.content = "page" =>
                               /\ op.type = "Next" /\ a.kind = op.kind
                               /\ a.ver = collect[d][a.kind]
      BY <2>0, <2>1 DEF AnswerFits
    <3>2. r.op = op
      BY <2>2, <2>3, <3>1
    <3>3. ASSUME a.content = "count"
          PROVE  /\ op.type = "Upload" /\ a.kind = op.kind
                 /\ a.ver <= MaxVersion /\ Shows(d, a.kind, a.ver)'
      <4>1. r.op.type = "Upload" /\ a.kind = r.op.kind /\ a.ver = version[r.op.kind]
        BY <2>2, <3>3
      <4>2. r.op.kind \in Kinds
        BY <2>1, <4>1, OpFact
      <4>3. a.ver <= MaxVersion
        <5>1. version[r.op.kind] \in 0 .. MaxVersion
          BY <4>2 DEF TypeOK
        <5>2. QED BY <4>1, <5>1
      <4>4. upload'[a.kind][device(d)].ver = a.ver
        BY <2>1, <4>1, DispatchFact
      <4>5. QED BY <3>2, <4>1, <4>3, <4>4 DEF Shows
    <3>4. ASSUME a.content = "page"
          PROVE  op.type = "Next" /\ a.kind = op.kind /\ a.ver = collect[d][a.kind]
      <4>1. /\ r.op.type = "Next" /\ a.kind = r.op.kind
            /\ a.ver = upload[r.op.kind][device(d)].ver
            /\ upload[r.op.kind][device(d)].st = "live"
        BY <2>2, <3>4
      <4>2. r.op.kind \in Kinds /\ d # "high"
        BY <2>1, <4>1, OpFact
      <4>3. collect[d][r.op.kind] <= MaxVersion
        BY <1>0, <2>0, <3>1, <3>2, <4>1 DEF UploadInv, isNext
      <4>4. Shows(d, r.op.kind, collect[d][r.op.kind])
        BY <1>0, <4>2, <4>3 DEF UploadInv
      <4>5. QED BY <3>2, <4>1, <4>4 DEF Shows
    <3>5. QED BY <3>3, <3>4
  <2>10. \A g \in Range(resp'[d]) \cup {slot'[d].answer} : AnswerFits(d, g)'
    BY <2>6, <2>8, <2>9
  <2>11. QED BY <1>0, <2>1, <2>7, <2>10 DEF UploadInv, isNext
<1>9. ASSUME NEW k \in Kinds, NEW e \in Devices, Expire(k, e) PROVE UploadInv(d)'
  <2>1. /\ upload' = [upload EXCEPT ![k][e].st = "expired"] /\ upload[k][e].st = "live"
        /\ UNCHANGED <<olt, resp, slot, collect>>
    BY <1>9 DEF Expire
  <2>2. Kept(d)
    <3>1. \A j \in Kinds, b \in Devices :
            /\ upload'[j][b].ver = upload[j][b].ver
            /\ j # k \/ b # e => upload'[j][b] = upload[j][b]
      BY <1>0, <2>1, ExpireFact
    <3>2. QED BY <1>0, <2>1, <3>1 DEF Kept
  <2>3. QED BY <1>0, <2>1, <2>2, UploadFrame
<1>10. CASE ResetCommunicationSession
  <2>1. /\ olt'[d] = [wait |-> FALSE, id |-> 0, op |-> [type |-> "Set"]]
        /\ collect'[d] = [k \in Kinds |-> MaxVersion + 1]
    BY <1>10 DEF ResetCommunicationSession
  <2>2. ~olt'[d].wait /\ \A k \in Kinds : ~(collect'[d][k] <= MaxVersion)
    BY <2>1
  <2>3. QED BY <2>2 DEF UploadInv, AnswerFits
<1>11. ASSUME NEW c \in Channels, c # d,
              \/ \E op \in Ops(c) : SendNew(c, op)
              \/ Retransmit(c) \/ LoseRequest(c) \/ LoseResponse(c) \/ Accept(c)
       PROVE  UploadInv(d)'
  <2>1. UNCHANGED <<olt[d], resp[d], slot[d], collect[d], upload>>
    BY <1>11 DEF SendNew, Retransmit, LoseRequest, LoseResponse, Accept, TypeOK
  <2>2. QED BY <1>0, <1>1, <2>1, UploadFrame
<1>12. CASE (\E k \in Kinds : AutonomousChange(k)) \/ UNCHANGED vars
  BY <1>0, <1>1, <1>12, UploadFrame DEF AutonomousChange, vars
<1>13. QED
  BY <1>2, <1>3, <1>4, <1>5, <1>6, <1>7, <1>8, <1>9, <1>10, <1>11, <1>12 DEF Next

-----------------------------------------------------------------------------
\* Types and transaction order hold together, for every choice of the constants.
THEOREM Transactions == Spec => [](TypeOK /\ TransactionInv)
<1>1. TypeOK /\ TransactionInv /\ [Next]_vars => TransactionInv'
  BY NextChannel, NextUpload DEF TransactionInv
<1>2. QED
  BY <1>1, InitTypeOK, InitTransaction, NextTypeOK, PTL DEF Spec

\* Every reachable state of the transaction layer is well typed.
THEOREM TypeCorrect == Spec => []TypeOK
BY Transactions, PTL

\* No request is executed twice in a session, however often it is repeated and with as few
\* as two transaction identifiers.
THEOREM ExecutedOnce == Spec => []AtMostOnce
<1>1. TransactionInv => AtMostOnce
  BY DEF TransactionInv, ChannelInv, AtMostOnce
<1>2. QED BY <1>1, Transactions, PTL

\* A response the OLT would accept answers its outstanding request, which was executed.
THEOREM OwnAnswer == Spec => []AnswerIsOwn
<1>1. ASSUME TypeOK, TransactionInv, NEW c \in Channels, resp[c] # <<>>, olt[c].wait,
             tid(Head(resp[c]).id) = tid(olt[c].id)
      PROVE  /\ Head(resp[c]).id = olt[c].id
             /\ isNext(olt[c].op) \/ execs[c][olt[c].id] > 0
  <2> DEFINE a == Head(resp[c])
  <2>1. /\ ChannelInv(c) /\ olt[c].id \in Nat /\ lastId(c) \in Nat
        /\ \A g \in Range(resp[c]) : g.id \in Nat
        /\ resp[c] \in Seq(Answer)
    BY <1>1, Numbers DEF TransactionInv, TypeOK
  <2>2. a \in Range(resp[c])
    BY <1>1, <2>1, TailFact
  <2>3. /\ a.id \in Nat /\ olt[c].id - 1 <= a.id /\ a.id <= lastId(c)
        /\ lastId(c) <= olt[c].id
    BY <1>1, <2>1, <2>2 DEF ChannelInv, oldest
  <2>4. a.id = olt[c].id
    <3>1. a.id <= olt[c].id
      BY <2>1, <2>3
    <3>2. QED BY <1>1, <2>1, <2>3, <3>1, TidFact
  <2>5. lastId(c) = olt[c].id
    BY <2>1, <2>3, <2>4
  <2>6. QED BY <1>1, <2>1, <2>4, <2>5 DEF ChannelInv
<1>2. TypeOK /\ TransactionInv => AnswerIsOwn
  BY <1>1 DEF AnswerIsOwn
<1>3. QED BY <1>2, Transactions, PTL

\* The pages of one upload show one state, whatever changes and repeats in between.
THEOREM ConsistentUploads == Spec => []UploadConsistent
<1>1. ASSUME TypeOK, TransactionInv, NEW c \in Channels, resp[c] # <<>>
      PROVE  AnswerFits(c, Head(resp[c]))
  BY <1>1, TailFact DEF TypeOK, TransactionInv, UploadInv
<1>2. TypeOK /\ TransactionInv => UploadConsistent
  BY <1>1 DEF UploadConsistent, AnswerFits
<1>3. QED BY <1>2, Transactions, PTL
=============================================================================
