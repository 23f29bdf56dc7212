------------------------- MODULE ServiceGraphProofs -------------------------
(***************************************************************************)
(* For every set of plans, whatever MEs and attribute values the OLT       *)
(* offers: the service graph of the accepted MIB is resolved along no      *)
(* dangling pointer, and every service in it is two-way.                   *)
(***************************************************************************)
EXTENDS ServiceGraph, TLAPS

\* What every step keeps: the checks hold of the MIB, and its keys are class and entity.
KeysOk(m) == DOMAIN m \subseteq STRING \X Nat
GraphInv == plan \in Plans /\ KeysOk(mib) /\ Accepts(mib)

LEMMA IdsFact ==
  ASSUME NEW m, KeysOk(m), NEW c, NEW i
  PROVE  i \in Ids(m, c) <=> Has(m, c, i)
<1>1. ASSUME i \in Ids(m, c) PROVE Has(m, c, i)
  <2>1. PICK k \in DOMAIN m : k[1] = c /\ k[2] = i
    BY <1>1 DEF Ids
  <2>2. k = <<k[1], k[2]>>
    BY DEF KeysOk
  <2>3. QED BY <2>1, <2>2 DEF Has
<1>2. ASSUME Has(m, c, i) PROVE i \in Ids(m, c)
  BY <1>2 DEF Has, Ids
<1>3. QED BY <1>1, <1>2

LEMMA NextGraph ==
  ASSUME GraphInv, [Next]_vars
  PROVE  GraphInv'
<1> USE PlanAssumption
<1>1. CASE Create
  <2>1. PICK o \in Offers[plan] : mib' = With(mib, o[1], o[2]) /\ Accepts(mib') /\ plan' = plan
    BY <1>1 DEF Create, Created
  <2>2. DOMAIN mib' \subseteq DOMAIN mib \cup {o[1]}
    BY <2>1 DEF With
  <2>3. QED BY <2>1, <2>2 DEF GraphInv, KeysOk
<1>2. CASE Set
  <2>1. DOMAIN mib' = DOMAIN mib /\ Accepts(mib') /\ plan' = plan
    BY <1>2 DEF Set, Changed
  <2>2. QED BY <2>1 DEF GraphInv, KeysOk
<1>3. CASE Delete
  <2>1. DOMAIN mib' \subseteq DOMAIN mib /\ Accepts(mib') /\ plan' = plan
    BY <1>3 DEF Delete, Deleted, Restrict
  <2>2. QED BY <2>1 DEF GraphInv, KeysOk
<1>4. CASE Reset
  BY <1>4 DEF Reset, GraphInv, KeysOk
<1>5. CASE UNCHANGED vars
  BY <1>5 DEF vars, GraphInv
<1>6. QED BY <1>1, <1>2, <1>3, <1>4, <1>5 DEF Next

\* Every MIB the OLT can bring about passes all the checks: what the theorems start from.
LEMMA AlwaysAccepted == Spec => []GraphInv
<1>1. Init => GraphInv
  BY PlanAssumption DEF Init, GraphInv, KeysOk
<1>2. GraphInv /\ [Next]_vars => GraphInv'
  BY NextGraph
<1>3. QED BY <1>1, <1>2, PTL DEF Spec

-----------------------------------------------------------------------------
\* The checks of each class, by entity.
LEMMA Checked ==
  ASSUME GraphInv, NEW i
  PROVE  /\ Has(mib, "uni", i) => UniOk(mib, i)
         /\ Has(mib, "tcont", i) => SchedulingOk(mib, i)
         /\ Has(mib, "limiter", i) => LimiterOk(mib, i)
         /\ Has(mib, "gem", i) => GemOk(mib, i)
         /\ Has(mib, "iw", i) => InterworkingOk(mib, i)
         /\ Has(mib, "mciw", i) => MulticastInterworkingOk(mib, i)
         /\ Has(mib, "mapper", i) => MapperOk(mib, i)
         /\ Has(mib, "port", i) => BridgePortOk(mib, i)
         /\ Has(mib, "subscriber", i) => SubscriberOk(mib, i)
         /\ Has(mib, "filter", i) => FilterOk(mib, i)
         /\ Has(mib, "vlanop", i) => OperationOk(mib, i)
         /\ Has(mib, "ext", i) => ExtendedOk(mib, i)
<1>1. KeysOk(mib) /\ BuildsGraph(mib)
  BY DEF GraphInv, Accepts
<1>2. \A c : i \in Ids(mib, c) <=> Has(mib, c, i)
  BY <1>1, IdsFact
<1>3. QED BY <1>1, <1>2 DEF BuildsGraph

LEMMA PackageFact ==
  ASSUME NEW m, NEW rows, PackagesOk(m, rows), NEW n \in DOMAIN rows
  PROVE  Has(m, "profile", rows[n].profile)
<1>1. /\ rows[n].key <= 1023
      /\ rows[n].vlan \in 0 .. 4097 \cup {Null}
      /\ Has(m, "profile", rows[n].profile)
  BY DEF PackagesOk
<1>2. QED BY <1>1, SMTT(30)

\* Each class of ME with pointers, one after the other.
LEMMA NothingDangles ==
  ASSUME GraphInv, NEW k \in DOMAIN mib, NEW r \in Pointers(mib, k)
  PROVE  r \in DOMAIN mib
<1>1. PICK c, i : k = <<c, i>>
  BY DEF GraphInv, KeysOk
<1>2. Has(mib, c, i) /\ k[1] = c /\ k[2] = i
  BY <1>1 DEF Has
<1> DEFINE a == mib[k]
<1>3. At(mib, c, i) = a
  BY <1>1 DEF At
<1> HIDE DEF a
<1>4. CASE c = "gem"
  <2> DEFINE rate == Has(mib, "onu", 0) /\ At(mib, "onu", 0).option = 1
  <2>1. \/ r = <<"tcont", a.tcont>>
        \/ r = <<IF rate THEN "tcont" ELSE "queue", a.upstream>>
        \/ r = <<"queue", a.downstream>> /\ a.downstream # Null
        \/ r = <<"td", a.upTD>> /\ a.upTD # Null
        \/ r = <<"td", a.downTD>> /\ a.downTD # Null
    BY <1>2, <1>4 DEF Pointers, a
  <2>2. /\ Has(mib, "tcont", a.tcont)
        /\ a.downstream = Null \/ Has(mib, "queue", a.downstream)
        /\ DescriptorOk(mib, a.upTD) /\ DescriptorOk(mib, a.downTD)
        /\ UpstreamPointerOk(mib, a)
    BY <1>2, <1>3, <1>4, Checked DEF GemOk
  <2>3. IF rate THEN Has(mib, "tcont", a.upstream) ELSE Has(mib, "queue", a.upstream)
    BY <2>2 DEF UpstreamPointerOk
  <2>4. QED BY <2>1, <2>2, <2>3 DEF Has, DescriptorOk
<1>4a. CASE c = "queue"
  <2>1. /\ r = <<"scheduler", a.scheduler>> /\ a.scheduler # 0
        /\ Has(mib, "tcont", a.owner)
    BY <1>2, <1>4a DEF Pointers, a
  <2>2. i \in QueuesOf(mib, a.owner)
    BY <1>2, <1>3, <1>4a, IdsFact DEF QueuesOf, GraphInv
  <2>3. QueueOk(mib, a.owner, i)
    BY <2>1, <2>2, Checked DEF SchedulingOk
  <2>4. QED BY <1>3, <1>4a, <2>1, <2>3 DEF QueueOk, Has
<1>5. CASE c = "iw"
  <2>1. \/ r = <<"gem", a.gem>> \/ r = <<"gal", a.gal>>
        \/ r = <<IF a.option = 1 THEN "bridge" ELSE "mapper", a.service>>
        \/ a.option = 5 /\ r = <<"uni", a.tp>> /\ a.tp \notin {0, Null}
    BY <1>2, <1>5 DEF Pointers, a
  <2>2. /\ Has(mib, "gem", a.gem) /\ GalOk(mib, a.gal) /\ ServiceOk(mib, a.option, a.service)
        /\ a.option = 5 /\ a.tp \notin {0, Null} => Has(mib, "uni", a.tp)
    BY <1>2, <1>3, <1>5, Checked DEF InterworkingOk
  <2>3. QED BY <2>1, <2>2 DEF Has, GalOk, ServiceOk
<1>6. CASE c = "mciw"
  <2>1. \/ r = <<"gem", a.gem>> \/ (r = <<"gal", a.gal>> /\ a.gal # 0)
        \/ /\ a.option # 0 /\ a.service # 0
           /\ r = <<IF a.option = 1 THEN "bridge" ELSE "mapper", a.service>>
    BY <1>2, <1>6 DEF Pointers, a
  <2>2. /\ Has(mib, "gem", a.gem) /\ (a.gal = 0 \/ GalOk(mib, a.gal))
        /\ a.option = 0 \/ a.service = 0 \/ ServiceOk(mib, a.option, a.service)
    BY <1>2, <1>3, <1>6, Checked DEF MulticastInterworkingOk
  <2>3. QED BY <2>1, <2>2 DEF Has, GalOk, ServiceOk
<1>7. CASE c = "mapper"
  <2>1. \/ \E p \in DOMAIN a.pbits : r = <<"iw", a.pbits[p]>> /\ a.pbits[p] # Null
        \/ r = <<"uni", a.tp>> /\ a.tp # Null
    BY <1>2, <1>7 DEF Pointers, Range, a
  <2>2. /\ a.tp = Null \/ Has(mib, "uni", a.tp)
        /\ \A p \in DOMAIN a.pbits : a.pbits[p] # Null => Has(mib, "iw", a.pbits[p])
    BY <1>2, <1>3, <1>7, Checked DEF MapperOk, BranchOk
  <2>3. QED BY <2>1, <2>2 DEF Has
<1>8. CASE c = "port"
  <2>1. \/ r = <<"bridge", a.bridge>>
        \/ r = <<CASE a.tpType = 1 -> "uni" [] a.tpType = 3 -> "mapper"
                   [] a.tpType = 5 -> "iw" [] OTHER -> "mciw", a.tp>>
        \/ r = <<"td", a.outTD>> /\ a.outTD \notin {0, Null}
        \/ r = <<"td", a.inTD>> /\ a.inTD \notin {0, Null}
    BY <1>2, <1>8 DEF Pointers, a
  <2>2. /\ Has(mib, "bridge", a.bridge) /\ TerminationOk(mib, a)
        /\ OptionalDescriptorOk(mib, a.outTD) /\ OptionalDescriptorOk(mib, a.inTD)
    BY <1>2, <1>3, <1>8, Checked DEF BridgePortOk
  <2>3. QED BY <2>1, <2>2 DEF Has, TerminationOk, OptionalDescriptorOk, DescriptorOk
<1>9. CASE c = "limiter"
  <2>1. \/ r = LimiterParent(a)
        \/ \E n \in DOMAIN a.tds : r = <<"td", a.tds[n]>> /\ a.tds[n] \notin {0, Null}
    BY <1>2, <1>9 DEF Pointers, Range, a
  <2>2. /\ LimiterParent(a) \in DOMAIN mib
        /\ \A n \in DOMAIN a.tds : OptionalDescriptorOk(mib, a.tds[n])
    BY <1>2, <1>3, <1>9, Checked DEF LimiterOk
  <2>3. QED BY <2>1, <2>2 DEF Has, OptionalDescriptorOk, DescriptorOk
<1>10. CASE c = "filter"
  <2>1. r = <<"port", i>>
    BY <1>2, <1>10 DEF Pointers
  <2>2. Has(mib, "port", i)
    BY <1>2, <1>10, Checked DEF FilterOk
  <2>3. QED BY <2>1, <2>2 DEF Has
<1>11. CASE c = "vlanop"
  <2>1. r = OperationTarget(mib, i)
    BY <1>2, <1>11 DEF Pointers
  <2>2. QED BY <1>2, <1>11, <2>1, Checked DEF OperationOk
<1>12. CASE c = "ext"
  <2>1. r = ExtendedTarget(mib, i)
    BY <1>2, <1>12 DEF Pointers
  <2>2. QED BY <1>2, <1>12, <2>1, Checked DEF ExtendedOk
<1>13. CASE c = "subscriber"
  <2>1. \/ r = <<IF a.meType = 0 THEN "port" ELSE "mapper", i>>
        \/ a.packages = << >> /\ r = <<"profile", a.profile>>
        \/ \E n \in DOMAIN a.packages : r = <<"profile", a.packages[n].profile>>
    BY <1>2, <1>13 DEF Pointers, a
  <2>2. /\ (a.meType = 0 /\ Has(mib, "port", i)) \/ (a.meType = 1 /\ Has(mib, "mapper", i))
        /\ PackagesOk(mib, a.packages)
        /\ a.packages = << >> => Has(mib, "profile", a.profile)
    BY <1>2, <1>3, <1>13, Checked DEF SubscriberOk
  <2>3. \A n \in DOMAIN a.packages : Has(mib, "profile", a.packages[n].profile)
    BY <2>2, PackageFact
  <2>4. QED BY <2>1, <2>2, <2>3 DEF Has
<1>14. CASE c \notin {"gem", "queue", "iw", "mciw", "mapper", "port", "limiter", "filter", "vlanop",
                      "ext", "subscriber"}
  BY <1>2, <1>14 DEF Pointers
<1>15. QED BY <1>4, <1>4a, <1>5, <1>6, <1>7, <1>8, <1>9, <1>10, <1>11, <1>12, <1>13, <1>14

\* The checks of buildServiceGraph leave no dangling pointer among those it resolves the graph
\* along, whatever MEs the OLT creates, sets or deletes and in whatever order.
THEOREM References == Spec => []NoDangling
<1>1. GraphInv => NoDangling
  BY NothingDangles DEF NoDangling
<1>2. QED BY <1>1, AlwaysAccepted, PTL

-----------------------------------------------------------------------------
\* Where a frame of UNI u leaves through a bridge.
LEMMA BridgedUplink ==
  ASSUME GraphInv, NEW n, Has(mib, "port", n), NEW q, Has(mib, "port", q),
         At(mib, "port", n).tpType = 1, At(mib, "port", q).bridge = At(mib, "port", n).bridge,
         NEW i, i # Null,
         \/ At(mib, "port", q).tpType = 5 /\ i = At(mib, "port", q).tp
         \/ /\ At(mib, "port", q).tpType = 3
            /\ i \in Range(At(mib, "mapper", At(mib, "port", q).tp).pbits)
  PROVE  At(mib, "port", n).tp \in Downlinks(mib, i)
<1> DEFINE b == At(mib, "port", n).bridge
           u == At(mib, "port", n).tp
           x == At(mib, "port", q).tp
<1>1. KeysOk(mib)
  BY DEF GraphInv
<1>2. Has(mib, "bridge", b) /\ n \in PortsOf(mib, b, 1)
  BY <1>1, IdsFact, Checked DEF BridgePortOk, PortsOf
<1>3. TerminationOk(mib, At(mib, "port", q)) /\ At(mib, "port", q).bridge = b
  BY Checked DEF BridgePortOk
<1>4. CASE At(mib, "port", q).tpType = 5 /\ i = x
  <2>1. At(mib, "iw", i).option = 1 /\ At(mib, "iw", i).service = b
    BY <1>3, <1>4 DEF TerminationOk
  <2>2. QED BY <1>2, <2>1 DEF Downlinks
<1>5. CASE At(mib, "port", q).tpType = 3 /\ i \in Range(At(mib, "mapper", x).pbits)
  <2>1. Has(mib, "mapper", x)
    BY <1>3, <1>5 DEF TerminationOk
  <2>2. BranchOk(mib, x, i)
    BY <1>5, <2>1, Checked DEF MapperOk, Range
  <2>3. At(mib, "iw", i).option = 5 /\ At(mib, "iw", i).service = x
    BY <2>2 DEF BranchOk
  <2>4. q \in PortsOf(mib, b, 3) /\ b \in Ids(mib, "bridge")
    BY <1>1, <1>2, <1>3, <1>5, IdsFact DEF PortsOf
  <2>5. b \in BridgesOfMapper(mib, x)
    BY <2>4 DEF BridgesOfMapper
  <2>6. QED BY <1>2, <2>3, <2>5 DEF Downlinks
<1>6. QED BY <1>4, <1>5

\* Where it leaves through a mapper bound to the UNI.
LEMMA DirectUplink ==
  ASSUME GraphInv, NEW u, Has(mib, "uni", u), NEW x, Has(mib, "mapper", x),
         At(mib, "mapper", x).tp = u, NEW i, i # Null, i \in Range(At(mib, "mapper", x).pbits)
  PROVE  u \in Downlinks(mib, i)
<1>1. u # Null
  BY Checked DEF UniOk, Null
<1>2. At(mib, "mapper", x).tpType = 1
  BY <1>1, Checked DEF MapperOk
<1>3. BranchOk(mib, x, i)
  BY Checked DEF MapperOk, Range
<1>4. QED BY <1>2, <1>3 DEF BranchOk, Downlinks

\* The checks of mapper, bridge port and interworking point together make every service
\* two-way: where a UNI may send it also receives.
THEOREM BothDirections == Spec => []TwoWay
<1>1. ASSUME GraphInv, NEW u \in Ids(mib, "uni"), NEW i \in Uplinks(mib, u)
      PROVE  u \in Downlinks(mib, i)
  <2>1. KeysOk(mib) /\ Has(mib, "uni", u) /\ i # Null
    BY <1>1, IdsFact DEF GraphInv, Uplinks
  <2>2. \/ \E x \in Ids(mib, "mapper") : /\ At(mib, "mapper", x).tp = u
                                         /\ i \in Range(At(mib, "mapper", x).pbits)
        \/ \E b \in Ids(mib, "bridge") : \E n \in PortsOf(mib, b, 1) :
             /\ At(mib, "port", n).tp = u
             /\ \/ \E q \in PortsOf(mib, b, 5) : i = At(mib, "port", q).tp
                \/ \E q \in PortsOf(mib, b, 3) :
                     i \in Range(At(mib, "mapper", At(mib, "port", q).tp).pbits)
    BY <1>1 DEF Uplinks
  <2>3. CASE \E x \in Ids(mib, "mapper") : /\ At(mib, "mapper", x).tp = u
                                           /\ i \in Range(At(mib, "mapper", x).pbits)
    BY <1>1, <2>1, <2>3, IdsFact, DirectUplink
  <2>4. ASSUME NEW b \in Ids(mib, "bridge"), NEW n \in PortsOf(mib, b, 1),
               At(mib, "port", n).tp = u, NEW t \in {3, 5}, NEW q \in PortsOf(mib, b, t),
               \/ t = 5 /\ i = At(mib, "port", q).tp
               \/ t = 3 /\ i \in Range(At(mib, "mapper", At(mib, "port", q).tp).pbits)
        PROVE  u \in Downlinks(mib, i)
    <3>1. /\ n \in Ids(mib, "port") /\ q \in Ids(mib, "port")
          /\ At(mib, "port", n).bridge = b /\ At(mib, "port", q).bridge = b
          /\ At(mib, "port", n).tpType = 1 /\ At(mib, "port", q).tpType = t
      BY <2>4 DEF PortsOf
    <3>2. Has(mib, "port", n) /\ Has(mib, "port", q)
      BY <2>1, <3>1, IdsFact
    <3>3. QED BY <1>1, <2>1, <2>4, <3>1, <3>2, BridgedUplink
  <2>5. QED BY <2>2, <2>3, <2>4
<1>2. GraphInv => TwoWay
  BY <1>1 DEF TwoWay
<1>3. QED BY <1>2, AlwaysAccepted, PTL
=============================================================================
