--------------------------- MODULE MulticastRuntime ---------------------------
(***************************************************************************)
(* airoha-mcastd: the IGMP/MLD runtime (internal/multicast/runtime.go)     *)
(* with the policy engine it drives and the tc rules of its Linux backend. *)
(*                                                                         *)
(* Runtime.mu serialises the capture goroutines, the timers and the        *)
(* monitor, but one handler makes several backend calls, each of which may *)
(* fail and end it half way.  A handler is therefore a job (work) that     *)
(* takes one step per stream; nothing else runs until it is idle again.    *)
(*                                                                         *)
(* One subscriber on one interface and one UNI VLAN.  Deadlines pass at    *)
(* any moment between two jobs.  A message carries one membership record.  *)
(* The groups are of one address family, that of the profiles' version: a  *)
(* report that the other family's profile cannot build is a failed send.   *)
(***************************************************************************)
EXTENDS MulticastFilter

CONSTANTS
  Sources,     \* source addresses, Wild excluded
  Groups,      \* multicast groups
  Clients,     \* hosts of the UNI, records of an address and a MAC; two may share the address
  Configs,     \* policies the OLT may install, valid or not
  UniVLAN,     \* the VLAN tag of the hosts' reports
  Learnable,   \* robustness values (QRV) that downstream queries carry
  MaxFaults    \* failing backend calls in one behaviour

ASSUME AddressAssumption ==
  /\ Sources \subseteq Nat \ {Wild} /\ Groups \subseteq Nat
  /\ MaxFaults \in Nat

\* Addresses are of fixed width, tables are slices.
ASSUME TableAssumption ==
  /\ \E m \in Sources : \A s \in Sources : s <= m
  /\ \A c \in Configs : /\ DOMAIN c.services \subseteq Nat
                        /\ \A p \in DOMAIN c.profiles : DOMAIN c.profiles[p].acl \subseteq Nat

VARIABLES
  cfg,       \* Runtime.config
  running,   \* Engine.config previewExpiry: allowed rows whose deadline is still ahead
  policy,    \* Engine.state groups, per stream
  previews,  \* Engine.previews
  members,   \* Runtime.memberships
  streams,   \* Runtime.streams: the clients of every stream
  pending,   \* Runtime.pending
  learned,   \* Runtime.robustness
  rates,     \* Runtime.rates: reports of the current second
  rules,     \* LinuxBackend.dynamic, as the tc chain has it
  heard,     \* upstream's view of each group, after the last report of an aggregating profile
  work,      \* the job that holds Runtime.mu
  halted,    \* history: clients and groups whose last report ended half way
  missed,    \* history: groups whose last aggregate report the rate limit dropped
  diverged,  \* history: on which stream/address pairs engine and runtime differ for a known
             \* reason, and in which groups they ever have under this policy.  The engine knows
             \* a client by its address, the runtime by address and MAC
  faults

vars == <<cfg, running, policy, previews, members, streams, pending, learned, rates,
          rules, heard, work, halted, missed, diverged, faults>>

Keys == {Key(s, g) : s \in Sources \cup {Wild}, g \in Groups}
Addresses == {c.addr : c \in Clients}
Records == [type : {"include", "exclude"}, sources : SUBSET Sources]
           \cup [type : {"allow", "block"}, sources : (SUBSET Sources) \ {{}}]

Idle == [op |-> "idle"]
None == [mode |-> "none"]
Agreed == [now |-> {}, ever |-> {}]
Without(f, x) == RestrictDomain(f, LAMBDA y : y # x)
With(f, x, v) == [y \in DOMAIN f \cup {x} |-> IF y = x THEN v ELSE f[y]]
Profile(id) == cfg.profiles[id]

-----------------------------------------------------------------------------
(* Membership arithmetic. *)

Membership(c, g) ==
  IF <<c, g>> \in DOMAIN members THEN members[<<c, g>>] ELSE [mode |-> "include", sources |-> {}]

Transition(before, rec) ==
  CASE rec.type \in {"include", "exclude"} -> [mode |-> rec.type, sources |-> rec.sources]
    [] rec.type = "allow" ->
         [before EXCEPT !.sources = IF before.mode = "exclude" THEN @ \ rec.sources ELSE @ \cup rec.sources]
    [] rec.type = "block" ->
         [before EXCEPT !.sources = IF before.mode = "exclude" THEN @ \cup rec.sources ELSE @ \ rec.sources]

\* forwardingSources: the streams a membership needs, by source.
Forwarding(m) == IF m.mode = "exclude" THEN {Wild} ELSE m.sources

\* Mutant: one client excludes for all.
ExcludedByAny(st) == {s \in Sources : \E c \in DOMAIN st : s \in st[c].excluded}

\* effectiveReplicationGroup: what one stream replicates.  The sources that all its clients
\* exclude are left out; the path is that of the client the map iteration meets first.
ExcludedByAll(st) == {s \in Sources : \A c \in DOMAIN st : s \in st[c].excluded}
Effective(st) ==
  IF DOMAIN st = {} THEN {None}
  ELSE {[mode |-> "rule", path |-> st[c].path, excluded |-> ExcludedByAll(st)] : c \in DOMAIN st}

\* Mutant: sources that are included elsewhere stay excluded.
AggregateAll(g, sts) ==
  LET live == {k \in DOMAIN sts : k.group = g /\ DOMAIN sts[k] # {}}
  IN CASE live = {} -> None
       [] live # {} /\ Key(Wild, g) \in live ->
            [mode |-> "exclude", sources |-> ExcludedByAll(sts[Key(Wild, g)])]
       [] OTHER -> [mode |-> "include", sources |-> {k.source : k \in live}]

\* effectiveUpstreamGroup: the membership of group g that all its streams add up to.
Aggregate(g, sts) ==
  LET live == {k \in DOMAIN sts : k.group = g /\ DOMAIN sts[k] # {}}
      included == {k.source : k \in live} \ {Wild}
  IN CASE live = {} -> None
       [] live # {} /\ Key(Wild, g) \in live ->
            [mode |-> "exclude", sources |-> ExcludedByAll(sts[Key(Wild, g)]) \ included]
       [] OTHER -> [mode |-> "include", sources |-> included]

Robustness(p) ==
  LET set == Profile(p).robustness
  IN CASE set # 0 -> set
       [] set = 0 /\ learned[p] # 0 -> learned[p]
       [] OTHER -> 2

-----------------------------------------------------------------------------
(* Backend calls.  fault names the call of this step that fails, if any. *)

Faults == {"none", "tc", "send", "query"}
Strike(fault) ==
  /\ fault # "none" => faults < MaxFaults
  /\ faults' = IF fault = "none" THEN faults ELSE faults + 1

NoReport == UNCHANGED <<rates, heard, missed>>

\* BuildUpstreamFrame: what upstream takes a group for when a profile of a version announces
\* membership m.  Before IGMPv3 and MLDv2 a report names no sources, and IGMPv1 has no leave.
Everything == [mode |-> "exclude", sources |-> {}]
Conveyed(version, m, before) ==
  CASE version \in {3, 17} -> m
    [] version \notin {3, 17} /\ m # None -> Everything
    [] version \in {2, 16} /\ m = None -> None
    [] OTHER -> before

\* sendReportLocked.  A snooping profile (function 0) forwards the host's own join or leave,
\* an aggregating one announces what the streams add up to.  Any report may be the first of a
\* new second.
SendReport(p, g, join, aggregate, fault) ==
  LET limit == Profile(p).rate
      proxied == Profile(p).function # 0
      sent == proxied /\ fault # "send"
  IN \/ /\ limit # 0 /\ rates[p] >= limit /\ fault # "send"
        /\ missed' = IF proxied THEN missed \cup {g} ELSE missed
        /\ UNCHANGED <<rates, heard>>
     \/ /\ fault = "send" => join \/ Profile(p).version # 1
        /\ \E count \in {0, rates[p]} :
             rates' = IF limit = 0 THEN rates ELSE [rates EXCEPT ![p] = count + 1]
        /\ limit # 0 => rates'[p] <= limit
        /\ heard' = IF sent THEN [heard EXCEPT ![g] = Conveyed(Profile(p).version, aggregate, @)]
                    ELSE heard
        /\ missed' = IF sent THEN missed \ {g} ELSE missed

\* The report for a client that went: an aggregating profile leaves a group with its last one.
SendLeave(p, g, aggregate, fault) ==
  SendReport(p, g, Profile(p).function # 0 /\ aggregate # None, aggregate, fault)

\* SetReplication(Enable) when the rule changes; a failing one is rolled back.
Replicate(k, new, fault) ==
  rules' = IF fault = "tc" THEN rules ELSE With(rules, k, new)

\* The runtime replicates stream k for a client with address a.
Serves(sts, k, a) == k \in DOMAIN sts /\ \E c \in DOMAIN sts[k] : c.addr = a

\* History: of the pairs that may differ for a known reason, those that do, and the groups of
\* those and of the ones that agree again, but about another client.
Parted(more, again) ==
  LET now == {x \in diverged.now \cup more :
                Holds(policy', x[1], x[2]) # Serves(streams', x[1], x[2])}
  IN diverged' = [now |-> now, ever |-> diverged.ever \cup {x[1].group : x \in now \cup again}]

\* The pair of stream k and client c, when another client of the stream has the same address:
\* the engine forgets that one too when c goes.
Shared(k, c) == {<<k, d.addr>> : d \in {e \in Clients \ {c} : k \in DOMAIN streams /\ e \in DOMAIN streams[k]
                                                              /\ e.addr = c.addr}}

\* Mutant: the engine is not told.
ForgetNothing(k, c) == UNCHANGED policy

\* Engine.Leave; the caller has checked that the address holds the stream.
Forget(k, c) == policy' = LeaveOne(policy, k, c.addr)

-----------------------------------------------------------------------------
(* Withdrawing one client of a stream: finalizeClientLocked. *)

Finalize(k, c, report, fault, next) ==
  LET st == streams[k]
      p == st[c].profile
      last == DOMAIN st = {c}
      rest == Without(st, c)
      after == IF last THEN Without(streams, k) ELSE [streams EXCEPT ![k] = rest]
      said == report /\ (Profile(p).function = 0 \/ Aggregate(k.group, after) # Aggregate(k.group, streams))
      known == Holds(policy, k, c.addr)
  IN \/ \* tc refuses to remove the rule: nothing has happened yet
        /\ last /\ fault = "tc"
        /\ work' = Idle
        /\ UNCHANGED <<policy, streams, pending, rules, diverged>> /\ NoReport
     \/ \* the engine does not know the client: the rule may be gone, the client stays
        /\ ~known /\ fault = "none"
        /\ rules' = IF last THEN Without(rules, k) ELSE rules
        /\ work' = Idle
        /\ UNCHANGED <<policy, streams, pending, diverged>> /\ NoReport
     \/ /\ known
        /\ fault = "send" => said
        /\ fault # "query"
        /\ Forget(k, c)
        /\ streams' = after
        /\ pending' = Without(pending, <<k, c>>)
        /\ \/ /\ last /\ fault # "tc"
              /\ rules' = Without(rules, k)
           \/ /\ ~last
              /\ \E was \in Effective(st), now \in Effective(rest) :
                   /\ fault = "tc" => was # now
                   /\ IF was # now THEN Replicate(k, now, fault) ELSE UNCHANGED rules
        /\ IF said /\ fault # "tc" THEN SendLeave(p, k.group, Aggregate(k.group, after), fault) ELSE NoReport
        /\ work' = IF fault = "none" THEN next ELSE Idle
        /\ Parted(Shared(k, c), {})

-----------------------------------------------------------------------------
(* A membership report: Handle and applyRecordLocked. *)

Discarded == {x \in Pairs(policy) : policy[x[1]].timer = "due"}

Report(c, g, rec) ==
  LET before == Membership(c, g)
      wanted == Transition(before, rec)
      old == Forwarding(before)
      new == Forwarding(wanted)
  IN /\ work = Idle
     /\ work' = [op |-> "record", client |-> c, group |-> g, wanted |-> wanted, after |-> old,
                 drop |-> old \ new, add |-> new \ old, keep |-> old \cap new]
     /\ UNCHANGED <<cfg, running, policy, previews, members, streams, pending, learned,
                    rates, rules, heard, halted, missed, diverged, faults>>

\* The last member of a stream: ask whether anybody else listens, and wait.
AskLastMember(k, c, fault, next) ==
  LET p == streams[k][c].profile
      forwards == Profile(p).function = 0
  IN /\ fault # "tc"
     /\ fault = "send" => forwards
     /\ IF forwards /\ fault # "query" THEN SendReport(p, k.group, FALSE, None, fault) ELSE NoReport
     /\ pending' = IF fault = "none"
                   THEN With(pending, <<k, c>>, Robustness(p) - 1)
                   ELSE pending
     /\ work' = IF fault = "none" THEN next ELSE Idle
     /\ UNCHANGED <<policy, streams, rules, diverged>>

\* History: a record that did not get to its end.
Halting == halted' = IF work' = Idle THEN halted \cup {<<work.client, work.group>>} ELSE halted

\* removeLocked
DropSource(fault) ==
  /\ work.op = "record" /\ work.drop # {}
  /\ Strike(fault)
  /\ LET s == Min(work.drop)
         k == Key(s, work.group)
         c == work.client
         next == [work EXCEPT !.drop = @ \ {s}, !.after = @ \ {s}]
     IN IF k \notin DOMAIN streams \/ c \notin DOMAIN streams[k]
        THEN /\ fault = "none"
             /\ work' = next
             /\ UNCHANGED <<policy, streams, pending, rules, diverged>> /\ NoReport
        ELSE IF DOMAIN streams[k] # {c} \/ Profile(streams[k][c].profile).immediate
        THEN Finalize(k, c, TRUE, fault, next)
        ELSE AskLastMember(k, c, fault, next)
  /\ Halting
  /\ UNCHANGED <<cfg, running, previews, members, learned>>

\* The client record that a decision and the report's exclusions give.
ClientOf(d, s) == [profile |-> d.profile, path |-> d.entry.path,
                   excluded |-> IF s = Wild THEN work.wanted.sources ELSE {}]

\* Engine.Join: what is due disappears unnoticed, an accepted client is entered.
Enter(k, c, d) ==
  /\ policy' = LET live == Unexpired(policy)
               IN IF d.accepted
                  THEN With(live, k, [d.entry EXCEPT !.clients = @ \cup {c.addr}])
                  ELSE live
  /\ previews' = [previews EXCEPT ![k] = d.preview]

\* Mutant: the timer goes on.
CancelNothing(k, c) == UNCHANGED pending

\* A report of the client ends the wait for other members.
CancelLeave(k, c) == pending' = Without(pending, <<k, c>>)

JoinDecisions(k) == Decisions(cfg, running, Unexpired(policy), previews[k], UniVLAN, k)

\* addLocked, rejected: the host's own join may still be forwarded upstream.
RejectSource(k, c, d, fault) ==
  LET said == d.forward /\ d.profile # 0
      own == IF k.source = Wild THEN work.wanted ELSE [mode |-> "include", sources |-> {k.source}]
  IN /\ fault \in {"none", "send"} /\ (fault = "send" => said)
     /\ Enter(k, c, d)
     /\ IF said THEN SendReport(d.profile, k.group, TRUE, own, fault) ELSE NoReport
     /\ work' = IF fault = "send" THEN Idle ELSE [work EXCEPT !.add = @ \ {k.source}]
     /\ UNCHANGED <<streams, pending, rules>>

\* addLocked, accepted.  When tc fails the client leaves stream and engine again, whatever
\* it held before.
AdmitSource(k, c, d, fault) ==
  LET known == k \in DOMAIN streams
      st == IF known THEN streams[k] ELSE << >>
      joined == With(st, c, ClientOf(d, k.source))
      after == With(streams, k, joined)
  IN \E was \in Effective(st), now \in Effective(joined) :
       LET changed == ~known \/ was # now
           said == Profile(d.profile).function = 0 \/ changed
       IN /\ fault # "query" /\ (fault = "tc" => changed) /\ (fault = "send" => said)
          /\ CancelLeave(k, c)
          /\ IF fault = "tc"
             THEN /\ policy' = LET live == Unexpired(policy)
                               IN IF Holds(live, k, c.addr) THEN LeaveOne(live, k, c.addr) ELSE live
                  /\ previews' = [previews EXCEPT ![k] = d.preview]
                  /\ streams' = IF known THEN [streams EXCEPT ![k] = Without(st, c)] ELSE streams
                  /\ UNCHANGED rules /\ NoReport
                  /\ work' = Idle
             ELSE /\ Enter(k, c, d)
                  /\ streams' = after
                  /\ IF changed THEN Replicate(k, now, fault) ELSE UNCHANGED rules
                  /\ IF said THEN SendReport(d.profile, k.group, TRUE, Aggregate(k.group, after), fault)
                     ELSE NoReport
                  /\ work' = IF fault = "send" THEN Idle
                             ELSE [work EXCEPT !.add = @ \ {k.source}, !.after = @ \cup {k.source}]

AddSource(fault) ==
  /\ work.op = "record" /\ work.drop = {} /\ work.add # {}
  /\ Strike(fault)
  /\ LET k == Key(Min(work.add), work.group)
         c == work.client
     IN \E d \in JoinDecisions(k) : /\ IF d.accepted THEN AdmitSource(k, c, d, fault)
                                       ELSE RejectSource(k, c, d, fault)
                                    /\ Parted(Discarded \cup Shared(k, c), Discarded \cap Shared(k, c))
  /\ Halting
  /\ UNCHANGED <<cfg, running, learned, members>>

\* refreshLocked: a rejected refresh, or one without a stream, ends the whole report.  tc
\* failing for a client the stream does not hold is left out.
RefreshSource(k, c, d, fault) ==
  /\ Enter(k, c, d)
  /\ IF ~d.accepted \/ k \notin DOMAIN streams
     THEN /\ fault = "none"
          /\ work' = Idle
          /\ UNCHANGED <<streams, pending, rules>> /\ NoReport
          /\ Parted(Discarded \cup {<<k, c.addr>>}, {})
     ELSE LET st == streams[k]
              joined == With(st, c, ClientOf(d, k.source))
              after == [streams EXCEPT ![k] = joined]
          IN \E was \in Effective(st), now \in Effective(joined) :
             LET said == Profile(d.profile).function = 0 \/ was # now
             IN /\ fault # "query" /\ (fault = "tc" => was # now /\ c \in DOMAIN st)
                /\ fault = "send" => said
                /\ CancelLeave(k, c)
                /\ streams' = IF fault = "tc" THEN streams ELSE after
                /\ IF was # now THEN Replicate(k, now, fault) ELSE UNCHANGED rules
                /\ IF said /\ fault # "tc"
                   THEN SendReport(d.profile, k.group, TRUE, Aggregate(k.group, after), fault) ELSE NoReport
                /\ work' = IF fault = "none" THEN [work EXCEPT !.keep = @ \ {k.source}] ELSE Idle
                /\ Parted(Discarded, Discarded \cap Shared(k, c))

KeepSource(fault) ==
  /\ work.op = "record" /\ work.drop = {} /\ work.add = {} /\ work.keep # {}
  /\ Strike(fault)
  /\ LET k == Key(Min(work.keep), work.group)
     IN \E d \in JoinDecisions(k) : RefreshSource(k, work.client, d, fault)
  /\ Halting
  /\ UNCHANGED <<cfg, running, learned, members>>

\* The record is remembered only when every source of it went through.
CommitRecord ==
  /\ work.op = "record" /\ work.drop = {} /\ work.add = {} /\ work.keep = {}
  /\ LET x == <<work.client, work.group>>
         kept == IF work.wanted.mode = "include" THEN [work.wanted EXCEPT !.sources = work.after]
                 ELSE work.wanted
     IN members' = IF work.after = {} THEN Without(members, x) ELSE With(members, x, kept)
  /\ work' = Idle
  /\ halted' = halted \ {<<work.client, work.group>>}
  /\ UNCHANGED <<cfg, running, policy, previews, streams, pending, learned, rates, rules,
                 heard, missed, diverged, faults>>

-----------------------------------------------------------------------------
(* The 100 ms timer: Expire. *)

\* Engine.Expire hands over the groups that are due and forgets them.
StartExpire ==
  /\ work = Idle
  /\ work' = [op |-> "expire", todo |-> {[key |-> x[1], addr |-> x[2], profile |-> policy[x[1]].profile] :
                                           x \in Discarded}]
  /\ policy' = Unexpired(policy)
  /\ UNCHANGED <<cfg, running, previews, members, streams, pending, learned, rates, rules,
                 heard, halted, missed, faults>>
  /\ Parted({}, {})

\* The memberships of an address lose the expired source.
Unsubscribe(k, a) ==
  LET gone == {x \in DOMAIN members : x[1].addr = a /\ x[2] = k.group}
      left(m) == IF m.mode = "exclude" /\ k.source = Wild THEN {} ELSE m.sources \ {k.source}
  IN members' = [x \in {y \in DOMAIN members : y \notin gone \/ left(members[y]) # {}} |->
                   IF x \in gone THEN [members[x] EXCEPT !.sources = left(members[x])] ELSE members[x]]

\* The client that held expired group x leaves the stream, with its rule and its report.
Withdraw(x, gone, fault) ==
  LET k == x.key
      rest == work.todo \ {x}
      st == streams[k]
      left == Restrict(st, DOMAIN st \ gone)
      last == DOMAIN left = {}
      after == IF last THEN Without(streams, k) ELSE [streams EXCEPT ![k] = left]
      old == Aggregate(k.group, streams)
      said == \/ Profile(x.profile).function = 0
              \/ (old # None /\ Aggregate(k.group, after) # old)
  IN \E was \in Effective(st), now \in Effective(left) :
     /\ fault # "query" /\ (fault = "tc" => last \/ was # now) /\ (fault = "send" => said)
     /\ pending' = Restrict(pending, DOMAIN pending \ ({k} \X gone))
     /\ IF fault = "tc"
        THEN /\ streams' = [streams EXCEPT ![k] = left]
             /\ UNCHANGED <<rules, members>> /\ NoReport
        ELSE /\ streams' = after
             /\ rules' = CASE last -> Without(rules, k)
                           [] ~last /\ was # now -> With(rules, k, now)
                           [] OTHER -> rules
             /\ Unsubscribe(k, x.addr)
             /\ IF said THEN SendLeave(x.profile, k.group, Aggregate(k.group, after), fault)
                ELSE NoReport
     /\ Parted((UNION {Shared(k, c) : c \in gone}) \cup
               IF fault = "none" THEN {} ELSE {<<y.key, y.addr>> : y \in rest}, {})
     /\ work' = IF fault = "none" THEN [work EXCEPT !.todo = rest] ELSE Idle

\* One expired group; a failing call loses the ones that are left.
ExpireGroup(fault) ==
  /\ work.op = "expire"
  /\ Strike(fault)
  /\ UNCHANGED <<cfg, running, policy, previews, learned, halted>>
  /\ \E x \in work.todo :
       IF x.key \notin DOMAIN streams
       THEN /\ fault = "none"
            /\ work' = [work EXCEPT !.todo = @ \ {x}]
            /\ UNCHANGED <<streams, pending, rules, members, diverged>> /\ NoReport
       ELSE LET who == {c \in DOMAIN streams[x.key] : c.addr = x.addr}
            IN \E gone \in IF who = {} THEN {{}} ELSE {{c} : c \in who} : Withdraw(x, gone, fault)

\* proxyQueries: the proxy profiles in use originate general queries.
ProxyProfiles(c) ==
  LET used == IF c.services = << >> THEN {c.profile}
              ELSE {c.services[i].profile : i \in DOMAIN c.services}
  IN {p \in used : c.profiles[p].function = 2}

\* runGeneralQueriesLocked, then the pending leaves whose time has come.
GeneralQueries(due, fault) ==
  /\ work.op = "expire" /\ work.todo = {}
  /\ fault \in {"none", "query"} /\ (fault = "query" => ProxyProfiles(cfg) # {})
  /\ Strike(fault)
  /\ work' = IF fault = "query" THEN Idle ELSE [op |-> "leaves", todo |-> due]
  /\ UNCHANGED <<cfg, running, policy, previews, members, streams, pending, learned, rates, rules,
                 heard, halted, missed, diverged>>

\* Pending leaves run in the order of group and address.
Earlier(x, y) == \/ x[1].group < y[1].group
                 \/ x[1].group = y[1].group /\ x[2].addr <= y[2].addr

\* runPendingLeavesLocked: another query, or the end of the membership.
RunLeave(fault) ==
  /\ work.op = "leaves"
  /\ Strike(fault)
  /\ \E x \in {y \in work.todo : \A z \in work.todo : Earlier(y, z)} :
       LET k == x[1]
           c == x[2]
           next == [work EXCEPT !.todo = @ \ {x}]
           present == k \in DOMAIN streams /\ c \in DOMAIN streams[k]
       IN \/ /\ ~present /\ fault = "none"
             /\ pending' = Without(pending, x)
             /\ work' = next
             /\ UNCHANGED <<policy, streams, rules, diverged>> /\ NoReport
          \/ /\ present /\ pending[x] # 0 /\ fault \in {"none", "query"}
             /\ pending' = IF fault = "query" THEN pending ELSE [pending EXCEPT ![x] = @ - 1]
             /\ work' = IF fault = "query" THEN Idle ELSE next
             /\ UNCHANGED <<policy, streams, rules, diverged>> /\ NoReport
          \/ /\ present /\ pending[x] = 0
             /\ Finalize(k, c, Profile(streams[k][c].profile).function # 0, fault, next)
  /\ UNCHANGED <<cfg, running, previews, members, learned, halted>>

\* Only proxy profiles age clients, and never one that a leave is pending for.
Ageable == {x \in UNION {{k} \X DOMAIN streams[k] : k \in DOMAIN streams} :
              Profile(streams[x[1]][x[2]].profile).function = 2 /\ x \notin DOMAIN pending}

\* expireProxyMembershipsLocked collects the clients that were silent for too long.
StartAgeing(silent) ==
  /\ work.op = "leaves" /\ work.todo = {}
  /\ work' = IF silent = {} THEN Idle ELSE [op |-> "age", todo |-> silent]
  /\ UNCHANGED <<cfg, running, policy, previews, members, streams, pending, learned, rates,
                 rules, heard, halted, missed, diverged, faults>>

\* The membership record of an aged client stays behind.
AgeClient(fault) ==
  /\ work.op = "age"
  /\ Strike(fault)
  /\ \E x \in work.todo :
       LET rest == work.todo \ {x}
       IN Finalize(x[1], x[2], TRUE, fault, IF rest = {} THEN Idle ELSE [work EXCEPT !.todo = rest])
  /\ UNCHANGED <<cfg, running, previews, members, learned, halted>>

-----------------------------------------------------------------------------
(* The rest of the daemon. *)

\* publishMonitors: Monitor drops what is due before it lists the groups.
Publish ==
  /\ work = Idle
  /\ policy' = Unexpired(policy)
  /\ UNCHANGED <<cfg, running, previews, members, streams, pending, learned, rates, rules,
                 heard, work, halted, missed, faults>>
  /\ Parted(Discarded, {})

\* reload and configureLocked: an invalid policy or a failing backend changes nothing.
Reload(new, fault) ==
  /\ work = Idle /\ new # cfg
  /\ fault \in {"none", "tc"} /\ (fault = "tc" => ValidConfig(new))
  /\ Strike(fault)
  /\ IF ValidConfig(new) /\ fault = "none"
     THEN /\ cfg' = new
          /\ running' = AllowedDeadlines(new, cfg, running)
          /\ policy' = << >> /\ members' = << >> /\ streams' = << >> /\ pending' = << >>
          /\ rules' = << >>
          /\ previews' = [k \in Keys |-> [count |-> 0, used |-> FALSE]]
          /\ learned' = [p \in DOMAIN new.profiles |-> 0]
          /\ rates' = [p \in DOMAIN new.profiles |-> 0]
          /\ heard' = [g \in Groups |-> None]
          /\ halted' = {} /\ missed' = {} /\ diverged' = Agreed
     ELSE UNCHANGED <<cfg, running, policy, previews, members, streams, pending, learned,
                      rates, rules, heard, halted, missed, diverged>>
  /\ UNCHANGED work

\* learnQueryLocked: a downstream IGMP or MLD query teaches the profiles of its protocol that
\* have no configured robustness.
LearnQuery(qrv, mld) ==
  LET used == {Packages(cfg)[i].profile : i \in Candidates(cfg, UniVLAN)}
  IN /\ work = Idle /\ qrv # 0
     /\ learned' = [p \in DOMAIN learned |->
                      IF Profile(p).robustness = 0 /\ p \in used /\ (Profile(p).version > 3) = mld
                      THEN qrv ELSE learned[p]]
     /\ UNCHANGED <<cfg, running, policy, previews, members, streams, pending, rates, rules,
                    heard, work, halted, missed, diverged, faults>>

-----------------------------------------------------------------------------
(* Preview deadlines pass between two jobs. *)

PreviewEnds(k) ==
  /\ k \in DOMAIN policy /\ policy[k].timer = "preview" /\ policy[k].lender = 0
  /\ policy' = [policy EXCEPT ![k].timer = "due"]
  /\ UNCHANGED running

\* An allowed row and the streams that borrowed its deadline run out together.
AllowedEnds(a) ==
  /\ running[a]
  /\ running' = [running EXCEPT ![a] = FALSE]
  /\ policy' = [k \in DOMAIN policy |->
                  IF policy[k].lender = a.row THEN [policy[k] EXCEPT !.timer = "due"] ELSE policy[k]]

DeadlinePasses ==
  /\ work = Idle
  /\ (\E k \in Keys : PreviewEnds(k)) \/ (\E a \in DOMAIN running : AllowedEnds(a))
  /\ UNCHANGED <<cfg, previews, members, streams, pending, learned, rates, rules, heard, work,
                 halted, missed, diverged, faults>>

-----------------------------------------------------------------------------
Init ==
  /\ cfg \in {c \in Configs : ValidConfig(c)}
  /\ running = [a \in TimedRows(cfg) |-> TRUE]
  /\ policy = << >> /\ members = << >> /\ streams = << >> /\ pending = << >> /\ rules = << >>
  /\ previews = [k \in Keys |-> [count |-> 0, used |-> FALSE]]
  /\ learned = [p \in DOMAIN cfg.profiles |-> 0]
  /\ rates = [p \in DOMAIN cfg.profiles |-> 0]
  /\ heard = [g \in Groups |-> None]
  /\ work = Idle
  /\ halted = {} /\ missed = {} /\ diverged = Agreed /\ faults = 0

JobStep ==
  \/ \E fault \in Faults : \/ DropSource(fault) \/ AddSource(fault) \/ KeepSource(fault)
                           \/ ExpireGroup(fault) \/ RunLeave(fault) \/ AgeClient(fault)
                           \/ \E due \in SUBSET DOMAIN pending : GeneralQueries(due, fault)
  \/ CommitRecord
  \/ \E silent \in SUBSET Ageable : StartAgeing(silent)

Next ==
  \/ \E c \in Clients, g \in Groups, rec \in Records : Report(c, g, rec)
  \/ JobStep
  \/ StartExpire
  \/ Publish
  \/ \E new \in Configs, fault \in Faults : Reload(new, fault)
  \/ \E qrv \in Learnable, mld \in BOOLEAN : LearnQuery(qrv, mld)
  \/ DeadlinePasses

Spec == Init /\ [][Next]_vars

-----------------------------------------------------------------------------
(* Properties. *)

StreamPairs == UNION {{<<k, c.addr>> : c \in DOMAIN streams[k]} : k \in DOMAIN streams}

\* Every variable stays in its range; every stream, rule and pending leave is about a known key.
TypeOK ==
  /\ cfg \in Configs /\ ValidConfig(cfg)
  /\ running \in [TimedRows(cfg) -> BOOLEAN]
  /\ DOMAIN policy \subseteq Keys
  /\ \A k \in DOMAIN policy : /\ policy[k].timer \in {"open", "preview", "due"}
                              /\ policy[k].clients \in (SUBSET Addresses) \ {{}}
  /\ DOMAIN streams \subseteq Keys /\ DOMAIN rules \subseteq Keys
  /\ \A k \in DOMAIN streams : DOMAIN streams[k] \subseteq Clients
  /\ DOMAIN pending \subseteq Keys \X Clients
  /\ DOMAIN members \subseteq Clients \X Groups
  /\ halted \subseteq Clients \X Groups /\ missed \subseteq Groups
  /\ diverged.now \subseteq Keys \X Addresses /\ diverged.ever \subseteq Groups
  /\ faults \in 0 .. MaxFaults

\* Engine and runtime hold the same clients of the same streams whenever Runtime.mu is
\* free, even after failed tc and send calls; they part only over a client whose deadline
\* Join or Monitor noticed first, that was refreshed after it had aged out, or that shares its
\* address with one that left.
PolicyInStep ==
  work = Idle => \A x \in Pairs(policy) \cup StreamPairs :
                   x \in Pairs(policy) \cap StreamPairs \/ x \in diverged.now

\* What it rests on: entries, memberships and jobs are well-formed, and while a job runs only
\* the groups that Expire still has to withdraw are ahead in the engine.
IsEntry(e) ==
  e = [timer |-> e.timer, lender |-> e.lender, profile |-> e.profile, path |-> e.path,
       bandwidth |-> e.bandwidth, service |-> e.service, clients |-> e.clients]
AllSources == Sources \cup {Wild}
Modes == [mode : {"include", "exclude"}, sources : SUBSET AllSources]
JobOK(w) ==
  \/ w = Idle
  \/ w \in [op : {"record"}, client : Clients, group : Groups, wanted : Modes, after : SUBSET AllSources,
            drop : SUBSET AllSources, add : SUBSET AllSources, keep : SUBSET AllSources]
  \/ /\ w.op = "expire" /\ w = [op |-> "expire", todo |-> w.todo]
     /\ \A x \in w.todo : x.key \in Keys /\ x.addr \in Addresses
  \/ /\ w.op \in {"leaves", "age"} /\ w = [op |-> w.op, todo |-> w.todo]
     /\ w.todo \subseteq Keys \X Clients
FormInv ==
  /\ \A k \in DOMAIN policy : IsEntry(policy[k])
  /\ \A x \in DOMAIN members : members[x] \in Modes
  /\ JobOK(work)

Todo(w) == IF w.op = "expire" THEN {<<x.key, x.addr>> : x \in w.todo} ELSE {}
StepInv ==
  \A k \in Keys, a \in Addresses :
    /\ \/ Holds(policy, k, a) <=> Serves(streams, k, a)
       \/ <<k, a>> \in diverged.now \cup Todo(work)
    /\ <<k, a>> \in Todo(work) => ~Holds(policy, k, a)

PolicyInv == TypeOK /\ FormInv /\ StepInv

\* The streams and clients that ask for the packets of source s to group g.
Askers(s, g) ==
  {x \in UNION {{k} \X DOMAIN streams[k] : k \in DOMAIN streams} :
     /\ x[1].group = g
     /\ x[1].source = s \/ (x[1].source = Wild /\ s \notin streams[x[1]][x[2]].excluded)}

\* Sources, and one that no report names.
AnySource == Sources \cup {Max(Sources) + 1}

StaticACL == UNION {{cfg.profiles[p].static[i] : i \in DOMAIN cfg.profiles[p].static} :
                      p \in DOMAIN cfg.profiles}
Paths == {[gem |-> r.gem, vlan |-> r.vlan] : r \in StaticACL} \cup {rules[k].path : k \in DOMAIN rules} \cup
         UNION {{streams[k][c].path : c \in DOMAIN streams[k]} : k \in DOMAIN streams}
GEMs == {p.gem : p \in Paths}

\* Untagged packets, those of the VLANs in use, and AnyTag for an id that no rule names.
Tags == {NoTag, AnyTag} \cup {p.vlan : p \in Paths}

\* A source is asked for on a GEM with another VLAN than the one it is excluded on.
VlanIgnored(s, g, gem) ==
  LET specific == Key(s, g)
      wild == Key(Wild, g)
  IN /\ {specific, wild} \subseteq DOMAIN rules
     /\ rules[specific].path.gem = gem /\ rules[wild].path.gem = gem
     /\ rules[specific].path # rules[wild].path

\* What the chain does with such packets of source s to group g, and what was asked for.
Delivers(s, g, gem, tag) ==
  LET passes == Verdict(rules, StaticACL, s, g, gem, tag) = "pass"
      On(p) == p.gem = gem /\ Carries(p.vlan, tag)
      asked == \E x \in Askers(s, g) : On(streams[x[1]][x[2]].path)
  IN /\ asked => passes
     /\ passes => \/ asked \/ VlanIgnored(s, g, gem)
                  \/ \E r \in StaticACL : On(r) /\ AclMatches(r, Key(s, g))

\* The tc chain passes what some client asked for and nothing else but the static ranges,
\* as long as no backend call failed and engine and runtime never parted over the group:
\* include and exclude clients, specific and wildcard rules add up to what RFC 3376 asks for.
\* The exception: effectiveExcludedSources lets an excluded source through on the wildcard
\* rule's VLAN when somebody asks for it on the same GEM with another one.
DeliveryMatches ==
  work = Idle /\ faults = 0 =>
    \A g \in Groups \ diverged.ever, s \in AnySource, gem \in GEMs, tag \in Tags : Delivers(s, g, gem, tag)

\* docs/implementation.md:298 says that the runtime "tracks each client independently": a
\* stream that the last report of a client asked for, and that the runtime still holds for it,
\* is replicated, whatever other clients did.
ClientsIndependent ==
  work = Idle /\ faults = 0 => \A x \in DOMAIN members \ halted :
    \A s \in Forwarding(members[x]) :
      LET k == Key(s, x[2])
      IN k \in DOMAIN streams /\ x[1] \in DOMAIN streams[k] => k \in DOMAIN rules

\* What it rests on: profiles and exclusions are known ones, and without a fault every stream
\* has clients, on one path that is the engine's too, and the rule they add up to.
KnownInv ==
  /\ \A k \in DOMAIN policy : policy[k].profile \in DOMAIN cfg.profiles
  /\ \A k \in DOMAIN streams : \A c \in DOMAIN streams[k] :
       streams[k][c].profile \in DOMAIN cfg.profiles /\ streams[k][c].excluded \subseteq AllSources
  /\ work.op = "expire" => \A x \in work.todo : x.profile \in DOMAIN cfg.profiles
  /\ work.op = "age" => \A x \in work.todo : x[1] \in DOMAIN streams /\ x[2] \in DOMAIN streams[x[1]]

Replicated(k) ==
  /\ k \in DOMAIN rules <=> k \in DOMAIN streams
  /\ k \in DOMAIN streams =>
       /\ rules[k] \in Effective(streams[k])
       /\ \A c, d \in DOMAIN streams[k] : streams[k][c].path = streams[k][d].path
       /\ k \in DOMAIN policy => \A c \in DOMAIN streams[k] : streams[k][c].path = policy[k].path

DeliveryInv ==
  /\ \A x \in diverged.now : x[1].group \in diverged.ever
  /\ faults = 0 => /\ \A k \in DOMAIN streams : DOMAIN streams[k] # {}
                   /\ \A k \in Keys : k.group \in diverged.ever \/ Replicated(k)

\* The sources that an upstream membership lets through.
Admits(m, s) == CASE m.mode = "exclude" -> s \notin m.sources
                  [] m.mode = "include" -> s \in m.sources
                  [] m.mode = "none" -> FALSE

\* For aggregating profiles that forward no unauthorized joins the last report sent upstream
\* asks for every source some client asks for, unless a call failed or the rate limit dropped
\* that report.  Where all profiles are IGMPv3 or MLDv2 it asks for nothing else; where none is
\* IGMPv1, which has no leave, it asks for nothing in a group without clients.
Aggregating == \A p \in DOMAIN cfg.profiles : cfg.profiles[p].function # 0 /\ ~cfg.profiles[p].forward
Versions == {cfg.profiles[p].version : p \in DOMAIN cfg.profiles}
UpstreamInStep ==
  work = Idle /\ faults = 0 /\ Aggregating
    => \A g \in Groups \ missed, s \in AnySource :
         /\ Askers(s, g) # {} => Admits(heard[g], s)
         /\ Versions \subseteq {3, 17} /\ Admits(heard[g], s) => Askers(s, g) # {}
         /\ 1 \notin Versions /\ Admits(heard[g], s) => \E t \in AnySource : Askers(t, g) # {}

\* What it rests on: upstream was told what the streams add up to, while a job runs as well, as
\* far as the versions in use can say it.
Conveys(versions, h, m) ==
  \/ h = m
  \/ h = Everything /\ m # None /\ ~(versions \subseteq {3, 17})
  \/ m = None /\ 1 \in versions
UpstreamInv ==
  /\ DOMAIN heard = Groups
  /\ faults = 0 /\ Aggregating => \A g \in Groups \ missed : Conveys(Versions, heard[g], Aggregate(g, streams))

\* A last-member timer runs only for a client that no longer asks for the stream: a report
\* in answer to the query cancels the leave.  Only a report that ended half way may leave the
\* timer of a source it no longer names and the membership that still does.
PendingHasLeft ==
  work = Idle => \A x \in DOMAIN pending :
    \/ <<x[2], x[1].group>> \in halted
    \/ x[1].source \notin Forwarding(Membership(x[2], x[1].group))

\* What it rests on: in a job, a timer runs for a source that is to stay only until the job gets
\* to it, and a job towards an exclude membership ends with the wildcard source or with none.
LeaveInv ==
  /\ \A x \in DOMAIN pending :
       \/ work.op = "record" /\ x[2] = work.client /\ x[1].group = work.group
       \/ <<x[2], x[1].group>> \in halted
       \/ x[1].source \notin Forwarding(Membership(x[2], x[1].group))
  /\ work.op = "record" =>
       /\ \A s \in work.after : <<Key(s, work.group), work.client>> \in DOMAIN pending
                                  => s \in work.drop \cup work.keep
       /\ work.wanted.mode = "exclude" => work.after \subseteq work.drop \cup {Wild} /\ work.add \subseteq {Wild}
=============================================================================
