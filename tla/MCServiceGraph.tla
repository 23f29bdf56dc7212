--------------------------- MODULE MCServiceGraph ---------------------------
(***************************************************************************)
(* Three provisioning plans for ServiceGraph on a GPON ONU: a bridged      *)
(* internet service, an IPTV service on a mapper bound directly to a UNI,  *)
(* and quality of service on a bridge.  Each plan offers its service's     *)
(* MEs, variants of them that conflict with one another, and faulty ones.  *)
(* Two of the eight P-bits are modelled.                                   *)
(***************************************************************************)
EXTENDS ServiceGraph

Uni == 257

mcMode == "GPON"
mcPlans == {"bridged", "iptv", "qos"}

Base ==
  (<<"onu", 0>> :> [option |-> 0, admin |-> 0])
  @@ (<<"pack", 257>> :> [admin |-> 0])
  @@ (<<"uni", Uni>> :> [admin |-> 0])
  @@ (<<"unig", Uni>> :> [admin |-> 0])
  @@ (<<"tcont", 1>> :> [alloc |-> Null, policy |-> 1])
  @@ (<<"queue", 1>> :> [owner |-> 1, priority |-> 0, scheduler |-> 1, weight |-> 1])
  @@ (<<"queue", 2>> :> [owner |-> 2, priority |-> 0, scheduler |-> 0, weight |-> 0])
  @@ (<<"scheduler", 1>> :> [tcont |-> 1, policy |-> 1])

SecondTCont == <<"tcont", 2>> :> [alloc |-> Null, policy |-> 0]

mcFactory == [p \in mcPlans |-> IF p = "iptv" THEN Base ELSE Base @@ SecondTCont]

-----------------------------------------------------------------------------
Gal == [payload |-> 48]
Gem(port, t) == [port |-> port, tcont |-> t, direction |-> 3, upstream |-> t, downstream |-> Null,
                 upTD |-> Null, downTD |-> Null, ring |-> 0]
Iw(gem, option, service, tp) ==
  [gem |-> gem, option |-> option, service |-> service, tp |-> tp, gal |-> 1, loopback |-> 0]
PBits(a, b) == [q \in 0 .. 1 |-> IF q = 0 THEN a ELSE b]
Mapper(type, tp, pbits) ==
  [tpType |-> type, tp |-> tp, pbits |-> pbits, unmarked |-> 1, default |-> 0]
Bridge == [flags |-> <<0, 1, 0, 0>>, maxAge |-> 1536, hello |-> 256, delay |-> 1024, ageing |-> 300]
Port(b, number, type, tp, td) ==
  [bridge |-> b, number |-> number, tpType |-> type, tp |-> tp, cost |-> 1, stp |-> 0,
   outTD |-> td, inTD |-> 0]
Filter(entries) == [entries |-> entries, operation |-> 16]
Td(cir, pir) == [cir |-> cir, pir |-> pir, colour |-> 0, ingress |-> 0, egress |-> 0, meter |-> 0]
Limiter(parent, td) == [parent |-> parent, tpType |-> 1, tds |-> <<td, 0, Null>>]
VlanOp(association, pointer) ==
  [up |-> 1, tci |-> 100, down |-> 1, association |-> association, pointer |-> pointer]
Tag(priority, vid) == [priority |-> priority, vid |-> vid, tpid |-> 4]
Rule(vid) == [direction |-> 0, etherType |-> 0, criteria |-> 0, outer |-> Tag(15, 4096),
              inner |-> Tag(8, 100), outerTreatment |-> Tag(15, 0), innerTreatment |-> Tag(0, vid)]
Ext(association, pointer, rules) ==
  [association |-> association, pointer |-> pointer, down |-> 0, enhanced |-> 0, maximum |-> 1,
   classicRules |-> rules, enhancedRules |-> << >>]
AclPart0(key, gem, start, stop) ==
  [key |-> key, part |-> 0, gem |-> gem, vlan |-> 0, start |-> start, stop |-> stop]
AclPart1(key, reset) == [key |-> key, part |-> 1, reset |-> reset]
AclPart2(key, prefix) == [key |-> key, part |-> 2, prefix |-> prefix]
Profile(rows) ==
  [version |-> 2, function |-> 0, leave |-> 0, upTag |-> 0, upTCI |-> 0, downTag |-> 0,
   downTCI |-> 0, forward |-> 0, dynamic |-> rows, static |-> << >>]
Subscriber(type, profile, packages) ==
  [meType |-> type, profile |-> profile, enforcement |-> 0, packages |-> packages,
   previews |-> << >>]
Package(profile) == [key |-> 1, vlan |-> 4097, profile |-> profile]
Preview0 == [key |-> 1, part |-> 0, ani |-> 0, uni |-> 0]
Preview1(time) == [key |-> 1, part |-> 1, group |-> 224, duration |-> 1, timeLeft |-> time]
McIw(gem, rows) == [gem |-> gem, option |-> 0, service |-> 0, reserved |-> 0, gal |-> 0,
                    v4 |-> rows, v6 |-> << >>]
Row(gem, start, stop) == [gem |-> gem, secondary |-> 0, start |-> start, stop |-> stop]

Faulty(S, f, v) == {<<o[1], [o[2] EXCEPT ![f] = v]>> : o \in S}

-----------------------------------------------------------------------------
(* The bridged service: two GEM ports of two T-CONTs behind one mapper. *)

BridgedService ==
  (<<"gal", 1>> :> Gal)
  @@ (<<"gem", 1>> :> Gem(100, 1)) @@ (<<"gem", 2>> :> Gem(101, 2))
  @@ (<<"bridge", 1>> :> Bridge)
  @@ (<<"mapper", 1>> :> Mapper(0, Null, PBits(1, 2)))
  @@ (<<"iw", 1>> :> Iw(1, 5, 1, 0)) @@ (<<"iw", 2>> :> Iw(2, 5, 1, Null))
  @@ (<<"port", 1>> :> Port(1, 1, 1, Uni, 0)) @@ (<<"port", 2>> :> Port(1, 2, 3, 1, 0))
  @@ (<<"filter", 1>> :> Filter(<<100>>))

Pairwise(f) == {<<k, f[k]>> : k \in DOMAIN f}

BridgedOffers ==
  {o \in Pairwise(BridgedService) : o[1] # <<"mapper", 1>>}
  \cup {<<<<"mapper", 1>>, Mapper(0, Null, PBits(Null, Null))>>,
        <<<<"mapper", 2>>, Mapper(0, Null, PBits(Null, Null))>>,
        <<<<"gem", 2>>, Gem(100, 2)>>,
        <<<<"iw", 2>>, Iw(1, 1, 1, 0)>>,
        <<<<"port", 2>>, Port(1, 2, 5, 2, 0)>>,
        <<<<"port", 2>>, Port(1, 1, 3, 1, 0)>>}
  \cup Faulty({<<<<"gem", 1>>, Gem(100, 1)>>}, "port", 4096)
  \cup Faulty({<<<<"gem", 1>>, Gem(100, 1)>>}, "direction", 0)
  \cup Faulty({<<<<"gem", 1>>, Gem(100, 1)>>}, "upstream", 2)
  \cup Faulty({<<<<"gem", 1>>, Gem(100, 1)>>}, "ring", 4)
  \cup Faulty({<<<<"iw", 1>>, Iw(1, 5, 1, 0)>>}, "loopback", 1)
  \cup Faulty({<<<<"iw", 1>>, Iw(1, 5, 1, 0)>>}, "option", 3)
  \cup Faulty({<<<<"bridge", 1>>, Bridge>>}, "maxAge", 0)
  \cup Faulty({<<<<"bridge", 1>>, Bridge>>}, "ageing", 9)
  \cup Faulty({<<<<"filter", 1>>, Filter(<<100>>)>>}, "entries", <<4095>>)
  \cup Faulty({<<<<"filter", 1>>, Filter(<<100>>)>>}, "operation", 34)

BridgedSettings ==
  {<<<<"mapper", 1>>, "pbits", PBits(a, b)>> : a \in {1, Null}, b \in {2, Null}}
  \cup {<<<<"mapper", 2>>, "pbits", PBits(a, Null)>> : a \in {2, Null}}
  \cup {<<<<"iw", 2>>, "service", i>> : i \in {1, 2}}
  \cup {<<<<"tcont", t>>, "alloc", a>> : t \in {1, 2}, a \in {Null, 1000}}
  \cup {<<<<"tcont", 1>>, "alloc", 5000>>, <<<<"mapper", 1>>, "tpType", 1>>}

-----------------------------------------------------------------------------
(* The multicast service of a mapper bound to the UNI. *)

IptvService ==
  (<<"gal", 1>> :> Gal) @@ (<<"gem", 1>> :> Gem(100, 1))
  @@ (<<"gem", 2>> :> [Gem(200, 1) EXCEPT !.direction = 1])
  @@ (<<"mapper", 1>> :> Mapper(1, Uni, PBits(1, Null)))
  @@ (<<"iw", 1>> :> Iw(1, 5, 1, Uni))
  @@ (<<"mciw", 1>> :> McIw(2, <<Row(200, 224, 239)>>))
  @@ (<<"profile", 1>> :> Profile(<<AclPart0(1, 200, 224, 230)>>))
  @@ (<<"subscriber", 1>> :> Subscriber(1, 1, << >>))

IptvOffers ==
  {o \in Pairwise(IptvService) : o[1] # <<"mapper", 1>>}
  \cup {<<<<"mapper", 1>>, Mapper(1, Uni, PBits(Null, Null))>>,
        <<<<"gem", 1>>, [Gem(100, 1) EXCEPT !.direction = 1]>>,
        <<<<"mciw", 1>>, McIw(2, <<Row(200, 100, 239)>>)>>,
        <<<<"mciw", 1>>, McIw(2, <<Row(200, 224, 225), Row(200, 226, 227)>>)>>,
        <<<<"iw", 1>>, Iw(1, 5, 1, 0)>>,
        <<<<"bridge", 1>>, Bridge>>,
        <<<<"port", 1>>, Port(1, 1, 1, Uni, 0)>>,
        <<<<"port", 2>>, Port(1, 2, 6, 1, 0)>>,
        <<<<"subscriber", 1>>, Subscriber(0, 1, << >>)>>,
        <<<<"subscriber", 1>>, Subscriber(1, 0, <<Package(1)>>)>>}
  \cup Faulty({<<<<"profile", 1>>, Profile(<< >>)>>}, "version", 4)
  \cup Faulty({<<<<"profile", 1>>, Profile(<< >>)>>}, "upTag", 4)

\* The tables arrive row by row and part by part.
IptvSettings ==
  {<<<<"mapper", 1>>, "pbits", PBits(a, Null)>> : a \in {1, Null}}
  \cup {<<<<"profile", 1>>, "dynamic", rows>> :
          rows \in {<<AclPart0(1, 200, 224, 230)>>,
                    <<AclPart0(1, 200, 224, 230), AclPart0(2, 200, 230, 231)>>,
                    <<AclPart0(1, 200, 224, 230), AclPart2(2, "mc6")>>,
                    <<AclPart0(1, 200, 224, 230), AclPart2(1, "v6")>>,
                    <<AclPart0(1, 200, 224, 230), AclPart1(1, 24)>>,
                    <<AclPart0(1, 200, 224, 230), AclPart1(1, 25)>>}}
  \cup {<<<<"subscriber", 1>>, "previews", rows>> :
          rows \in {<< >>, <<Preview0>>, <<Preview0, Preview1(1)>>, <<Preview0, Preview1(2)>>}}
  \cup {<<<<"subscriber", 1>>, "packages", rows>> : rows \in {<< >>, <<Package(1)>>}}
  \cup {<<<<"tcont", 1>>, "alloc", a>> : a \in {Null, 1000}}

-----------------------------------------------------------------------------
(* Traffic descriptors, rate limiting, scheduling and VLAN operations. *)

QosService ==
  (<<"td", 1>> :> Td(1, 2))
  @@ (<<"bridge", 1>> :> Bridge)
  @@ (<<"port", 1>> :> Port(1, 1, 1, Uni, 1))
  @@ (<<"limiter", 1>> :> Limiter(1, 1))
  @@ (<<"gem", 1>> :> [Gem(100, 1) EXCEPT !.upTD = 1, !.downstream = 2])
  @@ (<<"ext", 1>> :> Ext(2, Uni, <<Rule(100)>>))
  @@ (<<"vlanop", 1>> :> VlanOp(3, 1))

QosOffers ==
  Pairwise(QosService)
  \cup {<<<<"td", 1>>, Td(3, 2)>>, <<<<"td", 2>>, Td(2, 0)>>,
        <<<<"limiter", 2>>, Limiter(1, Null)>>,
        <<<<"vlanop", Uni>>, VlanOp(0, 0)>>,
        <<<<"vlanop", 1>>, VlanOp(1, 1)>>,
        <<<<"vlanop", 1>>, [VlanOp(3, 1) EXCEPT !.up = 3]>>,
        <<<<"ext", 1>>, Ext(2, Uni, <<Rule(4095)>>)>>,
        <<<<"ext", 1>>, Ext(2, Uni, <<Rule(100), Rule(101)>>)>>,
        <<<<"ext", 2>>, Ext(0, 1, << >>)>>}

QosSettings ==
  {<<<<"scheduler", 1>>, "tcont", t>> : t \in {1, 2, 3}}
  \cup {<<<<"queue", 2>>, "priority", 8>>, <<<<"queue", 1>>, "scheduler", 0>>,
        <<<<"scheduler", 1>>, "policy", 2>>, <<<<"scheduler", 1>>, "policy", 3>>,
        <<<<"port", 1>>, "outTD", 2>>, <<<<"port", 1>>, "cost", 0>>,
        <<<<"gem", 1>>, "upTD", 2>>,
        <<<<"uni", Uni>>, "admin", 1>>, <<<<"uni", Uni>>, "admin", 2>>}

-----------------------------------------------------------------------------
mcService == [p \in mcPlans |->
  CASE p = "bridged" -> [k \in DOMAIN BridgedService \cup DOMAIN mcFactory[p] |->
                           CASE k \in DOMAIN BridgedService -> BridgedService[k]
                             [] k = <<"tcont", 1>> -> [alloc |-> 1000, policy |-> 1]
                             [] OTHER -> mcFactory[p][k]]
    [] p = "iptv" -> IptvService @@ (<<"tcont", 1>> :> [alloc |-> 1000, policy |-> 1]) @@ mcFactory[p]
    [] p = "qos" -> QosService @@ mcFactory[p]]
mcOffers == [p \in mcPlans |-> CASE p = "bridged" -> BridgedOffers [] p = "iptv" -> IptvOffers
                                 [] p = "qos" -> QosOffers]
mcSettings == [p \in mcPlans |-> CASE p = "bridged" -> BridgedSettings [] p = "iptv" -> IptvSettings
                                   [] p = "qos" -> QosSettings]
=============================================================================
