---------------------------- MODULE ServiceGraph ----------------------------
(***************************************************************************)
(* The service graph, internal/platform/graph.go and multicast.go: which   *)
(* managed-entity configurations the platform accepts.  Every mutation the *)
(* OLT asks for is applied to a copy of the MIB; the copy replaces the MIB *)
(* only when its service graph and its multicast policy both build         *)
(* (exec.go, Apply; MibStore models the commit itself).                    *)
(*                                                                         *)
(* A MIB is a function from keys <<class, entity>> to attribute records,   *)
(* with the defaults of absent attributes filled in.  A table attribute is *)
(* a sequence of rows.  An address is its first octet; an IPv6 prefix is   *)
(* "v4", "v6" or "mc6" (multicast).                                        *)
(***************************************************************************)
EXTENDS Naturals, Sequences, SequencesExt, FiniteSets, Functions, TLC

CONSTANTS
  Mode,       \* "GPON" or "XGSPON"
  Plans,      \* provisioning plans, explored one at a time
  Factory,    \* Factory[p]: the MIB after a reset
  Offers,     \* Offers[p]: the <<key, attributes>> the OLT may create
  Settings,   \* Settings[p]: the <<key, attribute, value>> it may set
  Service     \* Service[p]: the finished service of the plan

VARIABLES
  plan,       \* which plan this OLT follows
  mib         \* the accepted MIB
vars == <<plan, mib>>

MP == INSTANCE MulticastPolicy

-----------------------------------------------------------------------------
(* Reading the MIB. *)

Null == 65535
Ids(m, c) == {k[2] : k \in {q \in DOMAIN m : q[1] = c}}
Has(m, c, i) == <<c, i>> \in DOMAIN m
At(m, c, i) == m[<<c, i>>]
Distinct(S, F(_)) == \A i, j \in S : F(i) = F(j) => i = j
DistinctSeq(seq, F(_)) == Distinct(DOMAIN seq, LAMBDA i : F(seq[i]))
Boolean == {0, 1}

AllocLimit == IF Mode = "XGSPON" THEN 16383 ELSE 4095
PortLimit == IF Mode = "XGSPON" THEN 65534 ELSE 4095

\* A traffic descriptor pointer that may be null.
DescriptorOk(m, i) == i = Null \/ Has(m, "td", i)
\* Bridge ports and rate limiters write null as 0 too.
OptionalDescriptorOk(m, i) == i = 0 \/ DescriptorOk(m, i)

-----------------------------------------------------------------------------
(* Ports, T-CONTs, schedulers and queues. *)

OnuOk(m) == Has(m, "onu", 0) => At(m, "onu", 0).option <= 2 /\ At(m, "onu", 0).admin \in Boolean

CircuitPacksOk(m) ==
  /\ Distinct(Ids(m, "pack"), LAMBDA i : i % 256)
  /\ \A i \in Ids(m, "pack") : At(m, "pack", i).admin \in Boolean

UniOk(m, i) ==
  /\ i \in 257 .. 260
  /\ At(m, "uni", i).admin \in Boolean
  /\ Has(m, "unig", i) => At(m, "unig", i).admin \in Boolean

TContOk(m, t) == At(m, "tcont", t).alloc \in 0 .. AllocLimit \cup {Null} /\ At(m, "tcont", t).policy <= 2

AllocIDsDistinct(m) ==
  Distinct({t \in Ids(m, "tcont") : At(m, "tcont", t).alloc # Null}, LAMBDA t : At(m, "tcont", t).alloc)

SchedulersOf(m, t) == {s \in Ids(m, "scheduler") : At(m, "scheduler", s).tcont = t}
QueuesOf(m, t) == {q \in Ids(m, "queue") : At(m, "queue", q).owner = t}

\* One scheduler at most; its policy overrides the T-CONT's.
PolicyOf(m, t) ==
  IF SchedulersOf(m, t) = {} THEN At(m, "tcont", t).policy
  ELSE At(m, "scheduler", CHOOSE s \in SchedulersOf(m, t) : TRUE).policy

QueueOk(m, t, q) ==
  LET a == At(m, "queue", q)
  IN /\ a.priority < 8
     /\ a.scheduler # 0 => Has(m, "scheduler", a.scheduler) /\ At(m, "scheduler", a.scheduler).tcont = t

SchedulingOk(m, t) ==
  /\ Cardinality(SchedulersOf(m, t)) <= 1
  /\ PolicyOf(m, t) <= 2
  /\ \A q \in QueuesOf(m, t) : QueueOk(m, t, q)
  /\ Distinct(QueuesOf(m, t), LAMBDA q : At(m, "queue", q).priority)
  /\ PolicyOf(m, t) = 2 => \E q \in QueuesOf(m, t) : At(m, "queue", q).weight # 0

TrafficDescriptorOk(m, i) ==
  LET a == At(m, "td", i)
  IN /\ a.pir # 0 => a.cir <= a.pir
     /\ a.colour \in Boolean
     /\ a.ingress \in 0 .. 7 \ {1} /\ a.egress <= 7 /\ a.meter <= 2

LimiterParent(a) == <<CASE a.tpType = 1 -> "bridge" [] a.tpType = 2 -> "mapper" [] OTHER -> "none", a.parent>>

LimiterOk(m, i) ==
  LET a == At(m, "limiter", i)
  IN LimiterParent(a) \in DOMAIN m /\ \A n \in DOMAIN a.tds : OptionalDescriptorOk(m, a.tds[n])

-----------------------------------------------------------------------------
(* GEM ports and their interworking. *)

\* Rate-controlled ONUs point at the T-CONT, the others at one of its queues.
UpstreamPointerOk(m, a) ==
  IF Has(m, "onu", 0) /\ At(m, "onu", 0).option = 1
  THEN a.upstream = a.tcont
  ELSE Has(m, "queue", a.upstream) /\ At(m, "queue", a.upstream).owner = a.tcont

GemOk(m, i) ==
  LET a == At(m, "gem", i)
  IN /\ a.port <= PortLimit
     /\ Has(m, "tcont", a.tcont)
     /\ a.direction \in 1 .. 3
     /\ UpstreamPointerOk(m, a)
     /\ a.downstream = Null \/ Has(m, "queue", a.downstream)
     /\ DescriptorOk(m, a.upTD) /\ DescriptorOk(m, a.downTD)
     /\ a.ring <= 3

GalOk(m, i) == Has(m, "gal", i) /\ At(m, "gal", i).payload = 48

ServiceOk(m, option, service) ==
  \/ option = 1 /\ Has(m, "bridge", service)
  \/ option = 5 /\ Has(m, "mapper", service)

\* Mutant: the GEM port may be gone.
InterworkingAnyGem(m, i) ==
  LET a == At(m, "iw", i)
  IN /\ ServiceOk(m, a.option, a.service)
     /\ a.option = 5 /\ a.tp \notin {0, Null} => Has(m, "uni", a.tp)
     /\ GalOk(m, a.gal)
     /\ a.loopback = 0

InterworkingOk(m, i) ==
  LET a == At(m, "iw", i)
  IN /\ Has(m, "gem", a.gem)
     /\ ServiceOk(m, a.option, a.service)
     /\ a.option = 5 /\ a.tp \notin {0, Null} => Has(m, "uni", a.tp)
     /\ GalOk(m, a.gal)
     /\ a.loopback = 0

GroupPortOk(g) == IF Mode = "GPON" THEN g <= 4095 ELSE g # Null

\* multicastIPv4Ranges and multicastIPv6Ranges: valid rows, no key twice.
RangesOk(rows, multicast) ==
  /\ \A i \in DOMAIN rows : /\ GroupPortOk(rows[i].gem)
                            /\ rows[i].start \in multicast /\ rows[i].stop \in multicast
                            /\ rows[i].start <= rows[i].stop
  /\ DistinctSeq(rows, LAMBDA r : <<r.gem, r.secondary>>)

MulticastInterworkingOk(m, i) ==
  LET a == At(m, "mciw", i)
  IN /\ Has(m, "gem", a.gem) /\ At(m, "gem", a.gem).direction \in {1, 3}
     /\ a.option = 0 \/ (a.option \in {1, 5} /\ (a.service = 0 \/ ServiceOk(m, a.option, a.service)))
     /\ a.reserved = 0
     /\ a.gal = 0 \/ GalOk(m, a.gal)
     /\ RangesOk(a.v4, 224 .. 239) /\ RangesOk(a.v6, {255})

-----------------------------------------------------------------------------
(* Mappers and bridges. *)

\* Mutant: a P-bit may point at another mapper's interworking.
BranchAnyOwner(m, i, b) ==
  LET a == At(m, "mapper", i)
      iw == At(m, "iw", b)
  IN /\ Has(m, "iw", b)
     /\ a.tpType = 0 => iw.tp \in {0, Null}
     /\ a.tpType = 1 => iw.tp = a.tp

\* A P-bit's interworking belongs to this mapper and ends where the mapper ends.
BranchOk(m, i, b) ==
  LET a == At(m, "mapper", i)
      iw == At(m, "iw", b)
  IN /\ Has(m, "iw", b)
     /\ iw.option = 5 /\ iw.service = i
     /\ a.tpType = 0 => iw.tp \in {0, Null}
     /\ a.tpType = 1 => iw.tp = a.tp

\* Mutant: every P-bit must be mapped at once.
MapperComplete(m, i) ==
  LET a == At(m, "mapper", i)
  IN /\ a.unmarked \in Boolean /\ a.default <= 7
     /\ (a.tpType = 0 /\ a.tp = Null) \/ (a.tpType = 1 /\ Has(m, "uni", a.tp))
     /\ \A p \in DOMAIN a.pbits : BranchOk(m, i, a.pbits[p])

MapperOk(m, i) ==
  LET a == At(m, "mapper", i)
  IN /\ a.unmarked \in Boolean /\ a.default <= 7
     /\ (a.tpType = 0 /\ a.tp = Null) \/ (a.tpType = 1 /\ Has(m, "uni", a.tp))
     /\ \A p \in DOMAIN a.pbits : a.pbits[p] # Null => BranchOk(m, i, a.pbits[p])

BridgeOk(m, i) ==
  LET a == At(m, "bridge", i)
  IN /\ \A f \in DOMAIN a.flags : a.flags[f] \in Boolean
     /\ a.maxAge \in 1536 .. 10240 /\ a.hello \in 256 .. 2560 /\ a.delay \in 1024 .. 7680
     /\ a.ageing = 0 \/ a.ageing \in 10 .. 1000000

\* validateBridgePortTP.
TerminationOk(m, a) ==
  \/ a.tpType = 1 /\ Has(m, "uni", a.tp)
  \/ a.tpType = 3 /\ Has(m, "mapper", a.tp) /\ At(m, "mapper", a.tp).tpType = 0
  \/ a.tpType = 5 /\ Has(m, "iw", a.tp) /\ At(m, "iw", a.tp).option = 1
                  /\ At(m, "iw", a.tp).service = a.bridge
  \/ a.tpType = 6 /\ Has(m, "mciw", a.tp)
                  /\ (At(m, "mciw", a.tp).option = 1 => At(m, "mciw", a.tp).service \in {0, a.bridge})

PortSettingsOk(a) == a.cost # 0 /\ a.stp \in Boolean

BridgePortOk(m, i) ==
  LET a == At(m, "port", i)
  IN /\ Has(m, "bridge", a.bridge)
     /\ TerminationOk(m, a) /\ PortSettingsOk(a)
     /\ OptionalDescriptorOk(m, a.outTD) /\ OptionalDescriptorOk(m, a.inTD)

PortNumbersDistinct(m) ==
  Distinct(Ids(m, "port"), LAMBDA i : <<At(m, "port", i).bridge, At(m, "port", i).number>>)

-----------------------------------------------------------------------------
(* Multicast profiles and subscribers. *)

\* The parts of an access list row, by its key.
PartsOf(rows, key) == {rows[i] : i \in {j \in DOMAIN rows : rows[j].key = key}}
Complete(rows, parts) ==
  {key \in {rows[i].key : i \in DOMAIN rows} : \A n \in parts : \E r \in PartsOf(rows, key) : r.part = n}
Part(rows, key, n) == CHOOSE r \in PartsOf(rows, key) : r.part = n
PrefixOf(rows, key) ==
  IF \E r \in PartsOf(rows, key) : r.part = 2 THEN Part(rows, key, 2).prefix ELSE "v4"

AclRowOk(rows, key) ==
  LET r == Part(rows, key, 0)
      prefix == PrefixOf(rows, key)
  IN /\ GroupPortOk(r.gem)
     /\ r.vlan \in 0 .. 4095 \cup {4097, Null}
     /\ r.start <= r.stop
     /\ prefix = "mc6" \/ (prefix = "v4" /\ r.start \in 224 .. 239 /\ r.stop \in 224 .. 239)

\* Part 1 of a dynamic row: the reserved preview reset times.
PreviewResetOk(rows, key) == Part(rows, key, 1).reset \notin 25 .. 240

\* Rows without their part 0 mean nothing yet; resolved rows do not overlap.
AclOk(rows) ==
  /\ \A i \in DOMAIN rows : rows[i].part <= 2 /\ rows[i].key <= 1023
  /\ DistinctSeq(rows, LAMBDA r : <<r.key, r.part>>)
  /\ \A key \in Complete(rows, {0}) : AclRowOk(rows, key)
  /\ \A k1, k2 \in Complete(rows, {0}) :
       k1 # k2 /\ PrefixOf(rows, k1) = PrefixOf(rows, k2) =>
         \/ Part(rows, k1, 0).stop < Part(rows, k2, 0).start
         \/ Part(rows, k2, 0).stop < Part(rows, k1, 0).start

ProfileOk(m, i) ==
  LET a == At(m, "profile", i)
  IN /\ a.version \in {1, 2, 3, 16, 17} /\ a.function <= 2 /\ a.leave \in Boolean
     /\ a.upTag <= 3 /\ (a.upTag # 0 => a.upTCI % 4096 # 4095)
     /\ a.downTag <= 7 /\ (a.downTag >= 2 => a.downTCI % 4096 # 4095)
     /\ a.forward \in Boolean
     /\ AclOk(a.dynamic) /\ AclOk(a.static)
     /\ \A key \in Complete(a.dynamic, {0, 1}) : PreviewResetOk(a.dynamic, key)

PackagesOk(m, rows) ==
  /\ DistinctSeq(rows, LAMBDA r : r.key)
  /\ \A i \in DOMAIN rows : /\ rows[i].key <= 1023
                            /\ rows[i].vlan \in 0 .. 4097 \cup {Null}
                            /\ Has(m, "profile", rows[i].profile)

\* An allowed preview is a row of two parts; half a row means nothing yet.
PreviewsOk(rows) ==
  /\ \A i \in DOMAIN rows : rows[i].part <= 1 /\ rows[i].key <= 1023
  /\ DistinctSeq(rows, LAMBDA r : <<r.key, r.part>>)
  /\ \A key \in Complete(rows, {0, 1}) :
       /\ Part(rows, key, 0).ani <= 4095 /\ Part(rows, key, 0).uni <= 4095
       /\ Part(rows, key, 1).group \in 224 .. 239

SubscriberOk(m, i) ==
  LET a == At(m, "subscriber", i)
  IN /\ \/ a.meType = 0 /\ Has(m, "port", i) /\ At(m, "port", i).tpType = 1
        \/ a.meType = 1 /\ Has(m, "mapper", i)
     /\ a.enforcement \in Boolean
     /\ PackagesOk(m, a.packages)
     /\ a.packages = << >> => Has(m, "profile", a.profile)
     /\ PreviewsOk(a.previews)

-----------------------------------------------------------------------------
(* VLAN filters and operations. *)

FilterOk(m, i) ==
  LET a == At(m, "filter", i)
  IN /\ Has(m, "port", i)
     /\ Len(a.entries) <= 12 /\ \A n \in DOMAIN a.entries : a.entries[n] % 4096 # 4095
     /\ a.operation <= 33

OperationTarget(m, i) ==
  LET a == At(m, "vlanop", i)
  IN CASE a.association = 0  -> <<"uni", i>>
       [] a.association = 10 -> <<"uni", a.pointer>>
       [] a.association = 2  -> <<"mapper", a.pointer>>
       [] a.association = 3  -> <<"port", a.pointer>>
       [] a.association = 5  -> <<"iw", a.pointer>>
       [] OTHER              -> <<"none", 0>>

OperationOk(m, i) ==
  LET a == At(m, "vlanop", i)
  IN /\ a.up <= 2 /\ (a.up # 0 => a.tci % 4096 # 4095)
     /\ a.down <= 1
     /\ OperationTarget(m, i) \in DOMAIN m

ExtendedTarget(m, i) ==
  LET a == At(m, "ext", i)
  IN CASE a.association = 0 -> <<"port", a.pointer>>
       [] a.association = 1 -> <<"mapper", a.pointer>>
       [] a.association = 2 -> <<"uni", a.pointer>>
       [] a.association = 5 -> <<"iw", a.pointer>>
       [] OTHER             -> <<"none", 0>>

\* ParseRow: the values a rule's filters and treatments may have.
TagFilterOk(f) == f.priority \in 0 .. 8 \cup {14, 15} /\ f.vid \in 0 .. 4096 \ {4095} /\ f.tpid \in {0} \cup 4 .. 7
TagTreatmentOk(t) == t.priority \in 0 .. 10 \cup {15} /\ t.vid \in 0 .. 4097 \ {4095} /\ t.tpid \in 0 .. 7 \ {5}
RuleOk(r) ==
  /\ r.direction <= 2 /\ r.etherType <= 5 /\ r.criteria <= 2
  /\ TagFilterOk(r.outer) /\ TagFilterOk(r.inner)
  /\ TagTreatmentOk(r.outerTreatment) /\ TagTreatmentOk(r.innerTreatment)

ExtendedOk(m, i) ==
  LET a == At(m, "ext", i)
      rules == IF a.enhanced = 1 THEN a.enhancedRules ELSE a.classicRules
  IN /\ ExtendedTarget(m, i) \in DOMAIN m
     /\ a.down <= 8 /\ a.enhanced \in Boolean
     /\ a.maximum = 0 \/ Len(rules) <= a.maximum
     /\ \A n \in DOMAIN rules : RuleOk(rules[n])

\* No two VLAN operations of either kind treat the same ME.
AssociationsDistinct(m) ==
  LET ops == {<<"vlanop", i>> : i \in Ids(m, "vlanop")} \cup {<<"ext", i>> : i \in Ids(m, "ext")}
      Target(o) == IF o[1] = "vlanop" THEN OperationTarget(m, o[2]) ELSE ExtendedTarget(m, o[2])
  IN Distinct(ops, Target)

-----------------------------------------------------------------------------
(* The whole graph, and the multicast policy made from it. *)

BuildsGraph(m) ==
  /\ OnuOk(m) /\ CircuitPacksOk(m)
  /\ \A i \in Ids(m, "uni") : UniOk(m, i)
  /\ \A t \in Ids(m, "tcont") : TContOk(m, t) /\ SchedulingOk(m, t)
  /\ AllocIDsDistinct(m)
  /\ \A i \in Ids(m, "td") : TrafficDescriptorOk(m, i)
  /\ \A i \in Ids(m, "limiter") : LimiterOk(m, i)
  /\ Distinct(Ids(m, "limiter"), LAMBDA i : LimiterParent(At(m, "limiter", i)))
  /\ \A i \in Ids(m, "gem") : GemOk(m, i)
  /\ Distinct(Ids(m, "gem"), LAMBDA i : At(m, "gem", i).port)
  /\ \A i \in Ids(m, "iw") : InterworkingOk(m, i)
  /\ \A i \in Ids(m, "mciw") : MulticastInterworkingOk(m, i)
  /\ \A i \in Ids(m, "mapper") : MapperOk(m, i)
  /\ \A i \in Ids(m, "bridge") : BridgeOk(m, i)
  /\ \A i \in Ids(m, "port") : BridgePortOk(m, i)
  /\ PortNumbersDistinct(m)
  /\ \A i \in Ids(m, "profile") : ProfileOk(m, i)
  /\ \A i \in Ids(m, "subscriber") : SubscriberOk(m, i)
  /\ \A i \in Ids(m, "filter") : FilterOk(m, i)
  /\ \A i \in Ids(m, "vlanop") : OperationOk(m, i)
  /\ \A i \in Ids(m, "ext") : ExtendedOk(m, i)
  /\ AssociationsDistinct(m)

\* The bridge ports of bridge b with termination type t.
PortsOf(m, b, t) == {i \in Ids(m, "port") : At(m, "port", i).bridge = b /\ At(m, "port", i).tpType = t}
\* The bridges a bridging mapper is a port of.
BridgesOfMapper(m, i) ==
  {b \in Ids(m, "bridge") : \E n \in PortsOf(m, b, 3) : At(m, "port", n).tp = i}

\* multicastAttachments, case 1: the UNI ports of the bridges a mapper serves.
MapperPorts(m, i) ==
  LET a == At(m, "mapper", i)
      bridges == IF a.tpType = 1 THEN Ids(m, "bridge") ELSE BridgesOfMapper(m, i)
  IN {n \in UNION {PortsOf(m, b, 1) : b \in bridges} : a.tpType = 0 \/ At(m, "port", n).tp = a.tp}

\* A mapper that no bridge serves sends the reports itself: every mapped P-bit needs a GEM
\* port with an upstream direction.
DirectMapperOk(m, i) ==
  LET a == At(m, "mapper", i)
  IN \A p \in DOMAIN a.pbits :
       a.pbits[p] # Null => At(m, "gem", At(m, "iw", a.pbits[p]).gem).direction \in {2, 3}

AttachmentOk(m, i) ==
  \/ At(m, "subscriber", i).meType = 0
  \/ MapperPorts(m, i) # {}
  \/ At(m, "mapper", i).tpType = 1 /\ DirectMapperOk(m, i)

\* convertMulticastACL and MulticastPolicy: what the engine is handed for a subscriber.
PolicyRows(rows) ==
  LET keys == SetToSortSeq(Complete(rows, {0}), LAMBDA x, y : x < y)
  IN [n \in DOMAIN keys |-> [row |-> keys[n], gem |-> Part(rows, keys[n], 0).gem,
                             vlan |-> Part(rows, keys[n], 0).vlan,
                             start |-> Part(rows, keys[n], 0).start,
                             stop |-> Part(rows, keys[n], 0).stop]]

PolicyProfiles(m) ==
  [p \in Ids(m, "profile") |->
     LET a == At(m, "profile", p)
     IN [version |-> a.version, function |-> a.function,
         acl |-> PolicyRows(a.dynamic), static |-> PolicyRows(a.static)]]

PolicyConfig(m, i) ==
  LET a == At(m, "subscriber", i)
      keys == SetToSortSeq(Complete(a.previews, {0, 1}), LAMBDA x, y : x < y)
  IN [profiles |-> PolicyProfiles(m), profile |-> a.profile,
      services |-> [n \in DOMAIN a.packages |->
                      [row |-> a.packages[n].key, vlan |-> a.packages[n].vlan,
                       profile |-> a.packages[n].profile]],
      allowed |-> [n \in DOMAIN keys |->
                     LET first == Part(a.previews, keys[n], 0)
                         second == Part(a.previews, keys[n], 1)
                     IN [row |-> keys[n], aniVLAN |-> first.ani, uniVLAN |-> first.uni,
                         duration |-> second.duration, timeLeft |-> second.timeLeft]]]

BuildsPolicy(m) ==
  /\ \A p \in Ids(m, "profile") :
       MP!ValidConfig([profiles |-> PolicyProfiles(m), profile |-> p,
                       services |-> << >>, allowed |-> << >>])
  /\ \A i \in Ids(m, "subscriber") : AttachmentOk(m, i) /\ MP!ValidConfig(PolicyConfig(m, i))

Accepts(m) == BuildsGraph(m) /\ BuildsPolicy(m)

\* The MIB after a reset passes the checks that every later one has to pass.
ASSUME PlanAssumption ==
  \A p \in Plans : /\ Accepts(Factory[p])
                   /\ DOMAIN Factory[p] \subseteq STRING \X Nat
                   /\ \A o \in Offers[p] : o[1] \in STRING \X Nat

-----------------------------------------------------------------------------
(* The OLT's operations.  One that is refused leaves the MIB as it is. *)

With(m, k, a) == [q \in DOMAIN m \cup {k} |-> IF q = k THEN a ELSE m[q]]
Created(m, p) == {With(m, o[1], o[2]) : o \in {q \in Offers[p] : q[1] \notin DOMAIN m}}
Changed(m, p) == {[m EXCEPT ![s[1]] = [@ EXCEPT ![s[2]] = s[3]]] : s \in {q \in Settings[p] : q[1] \in DOMAIN m}}
Deleted(m, p) == {Restrict(m, DOMAIN m \ {k}) : k \in DOMAIN m \ DOMAIN Factory[p]}

Create == mib' \in {m \in Created(mib, plan) : Accepts(m)} /\ UNCHANGED plan
Set == mib' \in {m \in Changed(mib, plan) : Accepts(m)} /\ UNCHANGED plan
Delete == mib' \in {m \in Deleted(mib, plan) : Accepts(m)} /\ UNCHANGED plan
Reset == mib' = Factory[plan] /\ Accepts(Factory[plan]) /\ UNCHANGED plan

Init == plan \in Plans /\ mib = Factory[plan]
Next == Create \/ Set \/ Delete \/ Reset
Spec == Init /\ [][Next]_vars

-----------------------------------------------------------------------------
(* Properties. *)

\* The pointers of ME k that the graph is resolved along, as the keys they must lead to.
\* Those that buildServiceGraph does not follow may lead nowhere: the T-CONT of a scheduler
\* (schedulers are looked up from the T-CONTs, graph.go:477-491), the scheduler of a queue
\* whose T-CONT is not there, the profile of a subscriber with service packages, the
\* termination point of a bridged interworking point, the service of a multicast
\* interworking point without an option.
Pointers(m, k) ==
  LET a == m[k]
      To(c, S) == {<<c, i>> : i \in S \ {0, Null}}
      Serving(option) == {<<IF option = 1 THEN "bridge" ELSE "mapper", a.service>>}
      upstream == IF Has(m, "onu", 0) /\ At(m, "onu", 0).option = 1 THEN "tcont" ELSE "queue"
      descriptors == CASE k[1] = "gem" -> {a.upTD, a.downTD}
                       [] k[1] = "port" -> {a.outTD, a.inTD}
                       [] k[1] = "limiter" -> Range(a.tds)
                       [] OTHER -> {}
  IN To("td", descriptors) \cup
     CASE k[1] = "gem" -> {<<"tcont", a.tcont>>, <<upstream, a.upstream>>}
                          \cup To("queue", {a.downstream})
       [] k[1] = "queue" -> IF Has(m, "tcont", a.owner) THEN To("scheduler", {a.scheduler}) ELSE {}
       [] k[1] = "iw" -> {<<"gem", a.gem>>, <<"gal", a.gal>>} \cup Serving(a.option)
                         \cup (IF a.option = 5 THEN To("uni", {a.tp}) ELSE {})
       [] k[1] = "mciw" -> {<<"gem", a.gem>>} \cup To("gal", {a.gal})
                           \cup (IF a.option = 0 \/ a.service = 0 THEN {} ELSE Serving(a.option))
       [] k[1] = "mapper" -> To("iw", Range(a.pbits)) \cup To("uni", {a.tp})
       [] k[1] = "port" -> {<<"bridge", a.bridge>>,
                            <<CASE a.tpType = 1 -> "uni" [] a.tpType = 3 -> "mapper"
                                [] a.tpType = 5 -> "iw" [] OTHER -> "mciw", a.tp>>}
       [] k[1] = "limiter" -> {LimiterParent(a)}
       [] k[1] = "filter" -> {<<"port", k[2]>>}
       [] k[1] = "vlanop" -> {OperationTarget(m, k[2])}
       [] k[1] = "ext" -> {ExtendedTarget(m, k[2])}
       [] k[1] = "subscriber" ->
            {<<IF a.meType = 0 THEN "port" ELSE "mapper", k[2]>>}
            \cup (IF a.packages = << >> THEN {<<"profile", a.profile>>}
                  ELSE {<<"profile", a.packages[n].profile>> : n \in DOMAIN a.packages})
       [] OTHER -> {}

\* Whatever the order of creates, sets and deletes, no pointer along which the service graph
\* of the accepted MIB is resolved leads to an ME that is not there: the helper is never
\* handed a graph with a dangling reference (ValidateServiceGraph).
NoDangling == \A k \in DOMAIN mib : Pointers(mib, k) \subseteq DOMAIN mib

\* The interworking points a frame from UNI u may leave by: through a bridge and its mapper
\* or interworking ports, or through a mapper bound to the UNI.
Uplinks(m, u) ==
  LET bridges == {b \in Ids(m, "bridge") : \E n \in PortsOf(m, b, 1) : At(m, "port", n).tp = u}
      ends(t) == {At(m, "port", n).tp : n \in UNION {PortsOf(m, b, t) : b \in bridges}}
      mappers == ends(3) \cup {i \in Ids(m, "mapper") : At(m, "mapper", i).tp = u}
  IN (ends(5) \cup UNION {Range(At(m, "mapper", i).pbits) : i \in mappers}) \ {Null}

\* The UNIs a frame arriving on interworking point i may be delivered to, found from the
\* interworking point's own service pointer.
Downlinks(m, i) ==
  LET a == At(m, "iw", i)
      bridges == IF a.option = 1 THEN {a.service} ELSE BridgesOfMapper(m, a.service)
      direct == IF a.option = 5 /\ At(m, "mapper", a.service).tpType = 1
                THEN {At(m, "mapper", a.service).tp} ELSE {}
  IN direct \cup {At(m, "port", n).tp : n \in UNION {PortsOf(m, b, 1) : b \in bridges}}

\* A service is two-way: a UNI that can send on a GEM interworking point also receives from
\* it, as far as the pointers go (a GEM port may itself be of one direction).  The two
\* directions are configured by different MEs and checked by three different
\* functions (validateMapper, validateBridgePortTP, buildGEMInterworking), so a change of
\* one end must be refused until the other end lets go.
TwoWay == \A u \in Ids(mib, "uni") : \A i \in Uplinks(mib, u) : u \in Downlinks(mib, i)

\* How much of a service is there: its MEs, its mapped P-bits and its active Alloc-IDs.
Extent(m) ==
  Cardinality(DOMAIN m)
  + Cardinality({q \in UNION {{i} \X DOMAIN At(m, "mapper", i).pbits : i \in Ids(m, "mapper")} :
                   At(m, "mapper", q[1]).pbits[q[2]] # Null})
  + Cardinality({t \in Ids(m, "tcont") : At(m, "tcont", t).alloc # Null})

\* m is a stage in building the service: nothing in it differs but what is still null.
Stage(m, p) ==
  /\ DOMAIN m \subseteq DOMAIN Service[p]
  /\ \A k \in DOMAIN m : \A f \in DOMAIN m[k] :
       CASE k[1] = "mapper" /\ f = "pbits" ->
              \A b \in DOMAIN m[k][f] : m[k][f][b] \in {Null, Service[p][k][f][b]}
         [] k[1] = "tcont" /\ f = "alloc" -> m[k][f] \in {Null, Service[p][k][f]}
         [] OTHER -> m[k][f] = Service[p][k][f]

\* The OLT is never stuck, although mapper and interworking point refer to each other: every
\* accepted MIB can be taken down by deletes and null settings one ME at a time, and every
\* stage of the intended service can be brought one step further.  (graph.go:308: "Null
\* mapper branches remain present as 0xffff so the OLT can construct a service over several
\* transactions.")
NeverStuck ==
  /\ Extent(mib) > Extent(Factory[plan]) =>
       \E m \in Deleted(mib, plan) \cup Changed(mib, plan) : Extent(m) < Extent(mib) /\ Accepts(m)
  /\ Stage(mib, plan) /\ mib # Service[plan] =>
       \E m \in Created(mib, plan) \cup Changed(mib, plan) :
         Stage(m, plan) /\ Extent(m) > Extent(mib) /\ Accepts(m)
=============================================================================
