--------------------------- MODULE MulticastPolicy ---------------------------
(***************************************************************************)
(* The G.988 multicast authorization engine, internal/multicast/policy.go: *)
(* which configurations it accepts, how a join is matched against the      *)
(* class 309 access lists and the class 310 service packages and allowed   *)
(* previews, and what it decides.                                          *)
(*                                                                         *)
(* The engine's state lives in MulticastRuntime; the operators here take   *)
(* it as parameters.  Addresses are numbers in address order, Wild is the  *)
(* unspecified source.  Deadlines are not compared with a clock: a group   *)
(* is "open" (no deadline), "preview" (running) or "due" (passed).         *)
(***************************************************************************)
EXTENDS Naturals, Sequences, FiniteSets, FiniteSetsExt, Functions

Wild == 0
AnyVLAN == 65535
AnyTag == 4097
NoTag == 4096

\* A stream is a source and a group; interface, subscriber and UNI VLAN are fixed.
Key(s, g) == [source |-> s, group |-> g]

-----------------------------------------------------------------------------
(* Configuration: what compile() rejects. *)

ValidACL(row) ==
  /\ row.row <= 1023 /\ row.gem <= 4095
  /\ row.vlan \in 0 .. 4095 \cup {AnyTag, AnyVLAN}
  /\ row.start <= row.stop

ValidAllowed(a) ==
  /\ a.row <= 1023 /\ a.aniVLAN <= 4095 /\ a.uniVLAN <= 4095
  /\ a.duration # 0 => a.timeLeft <= a.duration

DistinctRows(seq) == \A i, j \in DOMAIN seq : seq[i].row = seq[j].row => i = j

ValidID(p) == p \in 1 .. 65534

ValidProfile(p, profile) ==
  /\ ValidID(p)
  /\ profile.function \in 0 .. 2 /\ profile.version \in {1, 2, 3, 16, 17}
  /\ \A i \in DOMAIN profile.acl : ValidACL(profile.acl[i])
  /\ \A i \in DOMAIN profile.static : ValidACL(profile.static[i])

ValidServiceVLAN(vlan) == vlan \in 0 .. AnyTag \cup {AnyVLAN}

ValidConfig(cfg) ==
  /\ \A p \in DOMAIN cfg.profiles : ValidProfile(p, cfg.profiles[p])
  /\ DistinctRows(cfg.services) /\ DistinctRows(cfg.allowed)
  /\ \A i \in DOMAIN cfg.services :
       ValidServiceVLAN(cfg.services[i].vlan) /\ cfg.services[i].profile \in DOMAIN cfg.profiles
  /\ cfg.services = << >> => cfg.profile \in DOMAIN cfg.profiles
  /\ \A i \in DOMAIN cfg.allowed : ValidAllowed(cfg.allowed[i])

\* compile() starts the deadline of every timed row; preserveAllowedPreviewExpiries
\* keeps the old one of a row that did not change.  FALSE: the deadline has passed.
TimedRows(cfg) ==
  {cfg.allowed[i] : i \in {j \in DOMAIN cfg.allowed :
                             cfg.allowed[j].duration # 0 /\ cfg.allowed[j].timeLeft # 0}}

AllowedDeadlines(new, old, running) ==
  [a \in TimedRows(new) |-> a \in TimedRows(old) => running[a]]

-----------------------------------------------------------------------------
(* Matching a join. *)

ServiceVLANMatches(vlan, packet) ==
  CASE vlan = NoTag   -> ~packet.tagged
    [] vlan = AnyTag  -> packet.tagged
    [] vlan = AnyVLAN -> TRUE
    [] OTHER          -> packet.tagged /\ packet.id = vlan

AclMatches(row, k) == k.group \in row.start .. row.stop /\ row.source \in {Wild, k.source}

AllowedMatches(a, running, k, packet, ani) ==
  /\ a.duration # 0 => a.timeLeft # 0 /\ running[a]
  /\ a.group = k.group /\ a.source \in {Wild, k.source}
  /\ IF a.uniVLAN = 0 THEN ~packet.tagged ELSE packet.tagged /\ packet.id = a.uniVLAN
  /\ \/ ani = AnyVLAN
     \/ ani = AnyTag /\ a.aniVLAN # 0
     \/ ani = a.aniVLAN

\* Without service packages the subscriber's own profile is the only candidate.
Packages(cfg) ==
  IF cfg.services = << >>
  THEN << [row |-> 0, vlan |-> AnyVLAN, limit |-> 0, bandwidth |-> 0, profile |-> cfg.profile] >>
  ELSE cfg.services

Candidates(cfg, packet) ==
  {i \in DOMAIN Packages(cfg) : ServiceVLANMatches(Packages(cfg)[i].vlan, packet)}

\* The first match wins: candidates in row order, then rows in row order.
FirstOf(S) == CHOOSE p \in S : \A q \in S : p[1] < q[1] \/ (p[1] = q[1] /\ p[2] <= q[2])

NoMatch == [reason |-> "unauthorized"]

MatchOf(cfg, running, packet, k) ==
  LET cs == Packages(cfg)
      ACL(i) == cfg.profiles[cs[i].profile].acl
      rows == {p \in UNION {{i} \X DOMAIN ACL(i) : i \in Candidates(cfg, packet)} :
                 AclMatches(ACL(p[1])[p[2]], k)}
      Row(p) == ACL(p[1])[p[2]]
      Lenders(p) == {j \in DOMAIN cfg.allowed :
                       AllowedMatches(cfg.allowed[j], running, k, packet, Row(p).vlan)}
      Match(p, reason, timer, lender) ==
        [reason |-> reason, timer |-> timer, lender |-> lender,
         service |-> cs[p[1]], profile |-> cs[p[1]].profile, acl |-> Row(p)]
      authorized == {p \in rows : Row(p).preview = 0}
      lent == {p \in rows : Lenders(p) # {}}
  IN CASE authorized # {} -> Match(FirstOf(authorized), "authorized", "open", 0)
       [] authorized = {} /\ lent # {} ->
            LET p == FirstOf(lent)
                a == cfg.allowed[Min(Lenders(p))]
            IN Match(p, "allowed", IF a.duration = 0 THEN "open" ELSE "preview", a.row)
       [] authorized = {} /\ lent = {} /\ rows # {} -> Match(FirstOf(rows), "preview", "preview", 0)
       [] OTHER -> NoMatch

\* A rejected join is forwarded upstream when some candidate profile says so.
Forwarders(cfg, packet) ==
  {i \in Candidates(cfg, packet) : cfg.profiles[Packages(cfg)[i].profile].forward}

-----------------------------------------------------------------------------
(* Deciding a join. *)

\* expireLocked: Join, Monitor and Expire all remove what is due.
Unexpired(policy) == RestrictValues(policy, LAMBDA e : e.timer # "due")

ExceedsBandwidth(current, additional, limit) ==
  limit # 0 /\ (additional > limit \/ current > limit - additional)

OfService(policy, row) == {k \in DOMAIN policy : policy[k].service = row}
BandwidthOf(policy, keys) == MapThenSumSet(LAMBDA k : policy[k].bandwidth, keys)

GroupExceeded(cfg, policy, m) ==
  \/ cfg.limit # 0 /\ Cardinality(DOMAIN policy) >= cfg.limit
  \/ m.service.limit # 0 /\ Cardinality(OfService(policy, m.service.row)) >= m.service.limit

BandwidthExceeded(cfg, policy, m) ==
  \/ ExceedsBandwidth(BandwidthOf(policy, DOMAIN policy), m.acl.bandwidth, cfg.bandwidth)
  \/ ExceedsBandwidth(BandwidthOf(policy, OfService(policy, m.service.row)), m.acl.bandwidth,
                      m.service.bandwidth)

\* path: the GEM port and the ANI VLAN on which the stream comes down.
EntryOf(m) == [timer |-> m.timer, lender |-> m.lender, profile |-> m.profile,
               path |-> [gem |-> m.acl.gem, vlan |-> m.acl.vlan],
               bandwidth |-> m.acl.bandwidth, service |-> m.service.row, clients |-> {}]

\* startPreviewLocked.  reset: the daily reset hour passed since the last preview; early:
\* the repeat time after it has not.  used tells whether there was one; count matters only
\* against a repeat count, so it stays 0 without one.
StartPreview(acl, state, reset, early) ==
  LET s == IF reset THEN [count |-> 0, used |-> FALSE] ELSE state
      exhausted == acl.repeats # 0 /\ s.count >= acl.repeats
  IN IF (s.used /\ early) \/ exhausted
     THEN [accepted |-> FALSE, state |-> s]
     ELSE [accepted |-> TRUE,
           state |-> [count |-> IF acl.repeats = 0 THEN 0 ELSE s.count + 1, used |-> TRUE]]

Rejected(state, forward, profile) ==
  [accepted |-> FALSE, preview |-> state, forward |-> forward, profile |-> profile]
Accepted(state, entry) ==
  [accepted |-> TRUE, preview |-> state, forward |-> TRUE, profile |-> entry.profile, entry |-> entry]

\* What a row that is only previewed can decide.
Previewed(m, p) ==
  IF p.accepted THEN Accepted(p.state, EntryOf(m)) ELSE Rejected(p.state, FALSE, m.profile)
Previews(m, state) ==
  {Previewed(m, StartPreview(m.acl, state, reset, early)) :
     reset \in {b \in BOOLEAN : b => m.acl.resets}, early \in BOOLEAN}

\* Join: the decisions possible for stream k when policy holds the unexpired groups
\* and state is the preview history of k.
Decisions(cfg, running, policy, state, packet, k) ==
  LET m == MatchOf(cfg, running, packet, k)
      fs == Forwarders(cfg, packet)
      exceeded == GroupExceeded(cfg, policy, m) \/ (cfg.enforce /\ BandwidthExceeded(cfg, policy, m))
  IN  IF k \in DOMAIN policy THEN {Accepted(state, policy[k])}
      ELSE IF m.reason = "unauthorized"
      THEN {Rejected(state, fs # {}, IF fs = {} THEN 0 ELSE Packages(cfg)[Min(fs)].profile)}
      ELSE IF exceeded THEN {Rejected(state, FALSE, 0)}
      ELSE IF m.reason = "preview" THEN Previews(m, state) ELSE {Accepted(state, EntryOf(m))}

\* Mutant: a stream without clients stays.
LeaveOneKeeps(policy, k, a) == [policy EXCEPT ![k].clients = @ \ {a}]

\* Leave of one client address; a stream nobody holds disappears.
LeaveOne(policy, k, a) ==
  LET left == policy[k].clients \ {a}
  IN IF left = {} THEN RestrictDomain(policy, LAMBDA x : x # k)
     ELSE [policy EXCEPT ![k].clients = left]

Holds(policy, k, a) == k \in DOMAIN policy /\ a \in policy[k].clients
Pairs(policy) == UNION {{k} \X policy[k].clients : k \in DOMAIN policy}
=============================================================================
