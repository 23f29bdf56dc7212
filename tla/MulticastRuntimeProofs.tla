----------------------- MODULE MulticastRuntimeProofs -----------------------
(***************************************************************************)
(* For any number of hosts, groups, sources and policies and any number of *)
(* failing calls: type correctness of MulticastRuntime, and that engine    *)
(* and runtime hold the same clients.                                      *)
(***************************************************************************)
EXTENDS MulticastRuntime, WellFoundedInduction, TLAPS

-----------------------------------------------------------------------------
(* Functions that grow and shrink by one, and least elements.              *)

LEMMA WithoutFact ==
  ASSUME NEW f, NEW x, NEW g, g = Without(f, x)
  PROVE  DOMAIN g = DOMAIN f \ {x} /\ \A y \in DOMAIN g : g[y] = f[y]
BY DEF Without, RestrictDomain, Restrict

LEMMA LeastBound ==
  ASSUME NEW T \in SUBSET Nat, T # {}
  PROVE  \E m \in T : \A y \in T : m <= y
<1> DEFINE R == OpToRel(<, Nat)
<1>1. IsWellFoundedOn(R, Nat) /\ T \subseteq Nat
  BY NatLessThanWellFounded
<1>2. \A x, y \in Nat : y < x => <<y, x>> \in R
  BY DEF OpToRel
<1> HIDE DEF R
<1>3. PICK x \in T : \A y \in T : ~(<<y, x>> \in R)
  BY <1>1, WFMin
<1>4. ASSUME NEW y \in T PROVE x <= y
  <2>1. x \in Nat /\ y \in Nat /\ ~(y < x)
    BY <1>1, <1>2, <1>3
  <2>2. QED BY <2>1
<1>5. QED BY <1>4

LEMMA LeastElement ==
  ASSUME NEW T \in SUBSET Nat, T # {}
  PROVE  Min(T) \in T
BY LeastBound, Zenon DEF Min

-----------------------------------------------------------------------------
(* The policy engine.                                                      *)

PolicyOK(pol) ==
  /\ DOMAIN pol \subseteq Keys
  /\ \A k \in DOMAIN pol : /\ IsEntry(pol[k]) /\ pol[k].timer \in {"open", "preview", "due"}
                           /\ pol[k].clients \in (SUBSET Addresses) \ {{}}

LEMMA UnexpiredFact ==
  ASSUME NEW pol, PolicyOK(pol), NEW live, live = Unexpired(pol)
  PROVE  /\ PolicyOK(live)
         /\ \A k, a : Holds(live, k, a) <=> Holds(pol, k, a) /\ pol[k].timer # "due"
<1>1. DOMAIN live = {k \in DOMAIN pol : pol[k].timer # "due"} /\ \A k \in DOMAIN live : live[k] = pol[k]
  BY DEF Unexpired, RestrictValues, Restrict
<1>2. QED BY <1>1 DEF PolicyOK, Holds

Entered(e, s) == [e EXCEPT !.clients = s]

LEMMA EntryFact ==
  ASSUME NEW e, IsEntry(e), NEW s, NEW f, f = Entered(e, s)
  PROVE  IsEntry(f) /\ f.timer = e.timer /\ f.clients = s
<1>1. f = [timer |-> e.timer, lender |-> e.lender, profile |-> e.profile, path |-> e.path,
           bandwidth |-> e.bandwidth, service |-> e.service, clients |-> s]
  BY DEF IsEntry, Entered
<1>2. QED BY <1>1 DEF IsEntry

LEMMA LeaveFact ==
  ASSUME NEW pol, PolicyOK(pol), NEW k, NEW a, Holds(pol, k, a), NEW left, left = LeaveOne(pol, k, a)
  PROVE  /\ PolicyOK(left)
         /\ \A q, b : Holds(left, q, b) <=> Holds(pol, q, b) /\ <<q, b>> # <<k, a>>
<1>1. k \in DOMAIN pol /\ a \in pol[k].clients /\ IsEntry(pol[k])
  BY DEF Holds, PolicyOK
<1>2. PICK rest : rest = pol[k].clients \ {a}
  OBVIOUS
<1>3. CASE rest = {}
  <2>1. left = [y \in {x \in DOMAIN pol : x # k} |-> pol[y]]
    BY <1>2, <1>3 DEF LeaveOne, RestrictDomain, Restrict
  <2>2. DOMAIN left = DOMAIN pol \ {k} /\ \A y \in DOMAIN left : left[y] = pol[y]
    BY <2>1
  <2>3. PolicyOK(left)
    BY <2>2 DEF PolicyOK
  <2>4. QED BY <1>1, <1>2, <1>3, <2>2, <2>3 DEF Holds
<1>4. CASE rest # {}
  <2>1. PICK f : f = Entered(pol[k], rest)
    OBVIOUS
  <2>2. IsEntry(f) /\ f.timer = pol[k].timer /\ f.clients = rest
    BY <1>1, <2>1, EntryFact
  <2>3. left = [pol EXCEPT ![k] = f]
    BY <1>2, <1>4, <2>1 DEF LeaveOne, Entered
  <2>4. DOMAIN left = DOMAIN pol /\ left[k] = f /\ \A y \in DOMAIN pol \ {k} : left[y] = pol[y]
    BY <1>1, <2>3
  <2>5. PolicyOK(left)
    <3>1. DOMAIN pol \subseteq Keys /\ pol[k].timer \in {"open", "preview", "due"} /\ pol[k].clients \subseteq Addresses
      BY <1>1 DEF PolicyOK
    <3>2. rest \in (SUBSET Addresses) \ {{}}
      BY <1>2, <1>4, <3>1
    <3>3. ASSUME NEW q \in DOMAIN pol, q # k
          PROVE  /\ IsEntry(left[q]) /\ left[q].timer \in {"open", "preview", "due"}
                 /\ left[q].clients \in (SUBSET Addresses) \ {{}}
      <4>1. left[q] = pol[q]
        BY <2>4, <3>3, Zenon
      <4>2. QED BY <3>3, <4>1, Zenon DEF PolicyOK
    <3>4. QED BY <2>2, <2>4, <3>1, <3>2, <3>3 DEF PolicyOK
  <2>6. QED BY <1>1, <1>2, <2>2, <2>4, <2>5 DEF Holds
<1>5. QED BY <1>3, <1>4

\* What a join matches has no deadline or one that is running.
LEMMA MatchFact ==
  ASSUME NEW c, NEW r, NEW v, NEW k, NEW m, m = MatchOf(c, r, v, k), m.reason # "unauthorized"
  PROVE  m.timer \in {"open", "preview"}
BY DEF MatchOf, NoMatch

\* Join accepts a stream the engine has, or one that a row matches, ...
LEMMA DecisionForm ==
  ASSUME NEW c, NEW r, NEW pol, NEW s, NEW v, NEW k,
         NEW d \in Decisions(c, r, pol, s, v, k), d.accepted,
         NEW m, m = MatchOf(c, r, v, k)
  PROVE  \/ k \in DOMAIN pol /\ d = Accepted(s, pol[k])
         \/ k \notin DOMAIN pol /\ m.reason # "unauthorized" /\ \E x : d = Accepted(x, EntryOf(m))
<1>1. CASE k \in DOMAIN pol
  BY <1>1 DEF Decisions
<1>2. CASE k \notin DOMAIN pol
  <2>2. PICK D : D = Decisions(c, r, pol, s, v, k) /\ d \in D
    OBVIOUS
  <2>3. \A x, y, z : ~Rejected(x, y, z).accepted
    BY DEF Rejected
  <2>4. m.reason # "unauthorized"
    <3>1. SUFFICES ASSUME m.reason = "unauthorized" PROVE \E y, z : d = Rejected(s, y, z)
      BY <2>3
    <3>2. QED BY <1>2, <3>1 DEF Decisions
  <2>5. D = {Rejected(s, FALSE, 0)} \/ D = {Accepted(s, EntryOf(m))} \/ D = Previews(m, s)
    BY <1>2, <2>2, <2>4 DEF Decisions
  <2>6. \E x : d = Accepted(x, EntryOf(m))
    <3>1. CASE D = {Rejected(s, FALSE, 0)} BY <2>2, <2>3, <3>1
    <3>2. CASE D = {Accepted(s, EntryOf(m))} BY <2>2, <3>2
    <3>3. CASE D = Previews(m, s)
      <4>1. \E p : d = Previewed(m, p)
        BY <2>2, <3>3 DEF Previews
      <4>2. QED BY <2>3, <4>1 DEF Previewed
    <3>4. QED BY <2>5, <3>1, <3>2, <3>3
  <2>7. QED BY <1>2, <2>4, <2>6
<1>3. QED BY <1>1, <1>2

\* ... which gets an entry without clients.
LEMMA DecisionFact ==
  ASSUME NEW c, NEW r, NEW pol, NEW s, NEW v, NEW k,
         NEW d \in Decisions(c, r, pol, s, v, k), d.accepted
  PROVE  \/ k \in DOMAIN pol /\ d.entry = pol[k]
         \/ /\ k \notin DOMAIN pol
            /\ IsEntry(d.entry) /\ d.entry.timer \in {"open", "preview"} /\ d.entry.clients = {}
<1>1. PICK m : m = MatchOf(c, r, v, k)
  OBVIOUS
<1>2. CASE k \in DOMAIN pol /\ d = Accepted(s, pol[k])
  BY <1>2 DEF Accepted
<1>3. CASE k \notin DOMAIN pol /\ m.reason # "unauthorized" /\ \E x : d = Accepted(x, EntryOf(m))
  <2>1. d.entry = EntryOf(m)
    BY <1>3 DEF Accepted
  <2>2. m.timer \in {"open", "preview"}
    BY <1>1, <1>3, MatchFact
  <2>3. QED BY <1>3, <2>1, <2>2 DEF EntryOf, IsEntry
<1>4. QED BY <1>1, <1>2, <1>3, DecisionForm

\* A rejected join is forwarded only when some candidate profile says so.
LEMMA RejectionFact ==
  ASSUME NEW c, NEW r, NEW pol, NEW s, NEW v, NEW k,
         NEW d \in Decisions(c, r, pol, s, v, k), ~d.accepted, Forwarders(c, v) = {}
  PROVE  ~d.forward
<1>1. PICK m : m = MatchOf(c, r, v, k)
  OBVIOUS
<1>2. PICK D : D = Decisions(c, r, pol, s, v, k) /\ d \in D
  OBVIOUS
<1>3. \A x, y : Accepted(x, y).accepted
  BY DEF Accepted
<1>4. \A x, y : ~Rejected(x, FALSE, y).forward
  BY DEF Rejected
<1>5. k \notin DOMAIN pol
  BY <1>2, <1>3 DEF Decisions
<1>6. CASE m.reason = "unauthorized"
  <2>1. PICK fs : fs = Forwarders(c, v) /\ fs = {}
    OBVIOUS
  <2>2. d = Rejected(s, fs # {}, IF fs = {} THEN 0 ELSE Packages(c)[Min(fs)].profile)
    BY <1>1, <1>5, <1>6, <2>1 DEF Decisions
  <2>3. (fs # {}) = FALSE
    BY <2>1
  <2>4. QED BY <1>4, <2>2, <2>3
<1>7. CASE m.reason # "unauthorized"
  <2>1. D = {Rejected(s, FALSE, 0)} \/ D = {Accepted(s, EntryOf(m))} \/ D = Previews(m, s)
    BY <1>1, <1>2, <1>5, <1>7 DEF Decisions
  <2>2. CASE D = Previews(m, s)
    <3>1. \E p : d = Previewed(m, p)
      BY <1>2, <2>2 DEF Previews
    <3>2. QED BY <1>3, <1>4, <3>1 DEF Previewed
  <2>3. CASE D = {Rejected(s, FALSE, 0)} BY <1>2, <1>4, <2>3
  <2>4. CASE D = {Accepted(s, EntryOf(m))} BY <1>2, <1>3, <2>4
  <2>5. QED BY <2>1, <2>2, <2>3, <2>4
<1>8. QED BY <1>6, <1>7

\* The entry with which Join answers for stream k.
Answers(pol, k, entry) ==
  \/ k \in DOMAIN pol /\ entry = pol[k]
  \/ k \notin DOMAIN pol /\ IsEntry(entry) /\ entry.timer \in {"open", "preview"} /\ entry.clients = {}

Joined(pol, k, a, entry) == With(pol, k, Entered(entry, entry.clients \cup {a}))

\* Engine.Join of an accepted client.
LEMMA EnterFact ==
  ASSUME NEW pol, PolicyOK(pol), NEW k \in Keys, NEW a \in Addresses, NEW entry, Answers(pol, k, entry),
         NEW g, g = Joined(pol, k, a, entry)
  PROVE  /\ PolicyOK(g)
         /\ \A q, b : Holds(g, q, b) <=> Holds(pol, q, b) \/ <<q, b>> = <<k, a>>
<1>0. PICK e : e = Entered(entry, entry.clients \cup {a}) /\ g = With(pol, k, e)
  BY DEF Joined
<1>1. \/ k \in DOMAIN pol /\ entry = pol[k]
      \/ k \notin DOMAIN pol /\ IsEntry(entry) /\ entry.timer \in {"open", "preview"} /\ entry.clients = {}
  BY DEF Answers
<1>2. IsEntry(entry) /\ entry.timer \in {"open", "preview", "due"} /\ entry.clients \subseteq Addresses
  BY <1>1 DEF PolicyOK
<1>3. IsEntry(e) /\ e.timer = entry.timer /\ e.clients = entry.clients \cup {a}
  BY <1>0, <1>2, EntryFact
<1>4. DOMAIN g = DOMAIN pol \cup {k} /\ g[k] = e /\ \A y \in DOMAIN pol \ {k} : g[y] = pol[y]
  BY <1>0 DEF With
<1>5. PolicyOK(g)
  <2>1. e.clients \in (SUBSET Addresses) \ {{}} /\ e.timer \in {"open", "preview", "due"}
    <3>1. e.clients \subseteq Addresses /\ a \in e.clients
      BY <1>2, <1>3
    <3>2. QED BY <1>2, <1>3, <3>1
  <2>2. QED BY <1>3, <1>4, <2>1 DEF PolicyOK
<1>6. ASSUME NEW q, NEW b PROVE Holds(g, q, b) <=> Holds(pol, q, b) \/ <<q, b>> = <<k, a>>
  <2>1. CASE q = k
    BY <1>1, <1>3, <1>4, <2>1 DEF Holds
  <2>2. CASE q # k
    BY <1>4, <2>2 DEF Holds
  <2>3. QED BY <2>1, <2>2
<1>7. QED BY <1>5, <1>6

-----------------------------------------------------------------------------
(* The runtime's streams.                                                  *)

StreamsOK(sts) == DOMAIN sts \subseteq Keys /\ \A k \in DOMAIN sts : DOMAIN sts[k] \subseteq Clients

StreamOf(sts, k) == IF k \in DOMAIN sts THEN sts[k] ELSE << >>
Subscribed(sts, k, c, v) == With(sts, k, With(StreamOf(sts, k), c, v))

\* A client joins a stream.
LEMMA JoinedFact ==
  ASSUME NEW sts, StreamsOK(sts), NEW k \in Keys, NEW c \in Clients, NEW v,
         NEW new, new = Subscribed(sts, k, c, v)
  PROVE  /\ StreamsOK(new)
         /\ \A q, b : Serves(new, q, b) <=> Serves(sts, q, b) \/ <<q, b>> = <<k, c.addr>>
<1>0. PICK st, j : st = StreamOf(sts, k) /\ j = With(st, c, v) /\ new = With(sts, k, j)
  BY DEF Subscribed
<1>1. DOMAIN j = DOMAIN st \cup {c}
  BY <1>0 DEF With
<1>2. DOMAIN new = DOMAIN sts \cup {k} /\ new[k] = j /\ \A y \in DOMAIN sts \ {k} : new[y] = sts[y]
  BY <1>0 DEF With
<1>3. DOMAIN st = IF k \in DOMAIN sts THEN DOMAIN sts[k] ELSE {}
  BY <1>0 DEF StreamOf
<1>4. StreamsOK(new)
  BY <1>1, <1>2, <1>3 DEF StreamsOK
<1>5. ASSUME NEW q, NEW b PROVE Serves(new, q, b) <=> Serves(sts, q, b) \/ <<q, b>> = <<k, c.addr>>
  <2>1. CASE q = k
    BY <1>1, <1>2, <1>3, <2>1 DEF Serves
  <2>2. CASE q # k
    BY <1>2, <2>2 DEF Serves
  <2>3. QED BY <2>1, <2>2
<1>6. QED BY <1>4, <1>5

\* The clients of a set leave a stream; they have one address.
Departs(sts, k, gone, a, new) ==
  /\ k \in DOMAIN sts => \A c \in DOMAIN sts[k] : c \in gone => c.addr = a
  /\ \/ DOMAIN new = DOMAIN sts
     \/ DOMAIN new = DOMAIN sts \ {k} /\ (k \in DOMAIN sts => DOMAIN sts[k] \subseteq gone)
  /\ k \in DOMAIN new => DOMAIN new[k] = DOMAIN sts[k] \ gone
  /\ \A y \in DOMAIN new \ {k} : new[y] = sts[y]

LEMMA LeftFact ==
  ASSUME NEW sts, StreamsOK(sts), NEW k, NEW gone, NEW new, NEW a, Departs(sts, k, gone, a, new)
  PROVE  /\ StreamsOK(new)
         /\ \A q, b : <<q, b>> # <<k, a>> => (Serves(new, q, b) <=> Serves(sts, q, b))
         /\ Serves(new, k, a) => k \in DOMAIN sts /\ \E d \in DOMAIN sts[k] \ gone : d.addr = a
<1>1. StreamsOK(new)
  BY DEF StreamsOK, Departs
<1>2. ASSUME NEW q, NEW b, <<q, b>> # <<k, a>> PROVE Serves(new, q, b) <=> Serves(sts, q, b)
  <2>1. CASE q # k
    BY <2>1 DEF Serves, Departs
  <2>2. CASE q = k
    BY <1>2, <2>2 DEF Serves, Departs
  <2>3. QED BY <2>1, <2>2
<1>3. Serves(new, k, a) => k \in DOMAIN sts /\ \E d \in DOMAIN sts[k] \ gone : d.addr = a
  BY DEF Serves, Departs
<1>4. QED BY <1>1, <1>2, <1>3

-----------------------------------------------------------------------------
(* The invariant in three parts: what a job leaves alone, the shape of what *)
(* it changes, and engine and runtime in step.                             *)

MembersOK(ms) == DOMAIN ms \subseteq Clients \X Groups /\ \A x \in DOMAIN ms : ms[x] \in Modes

Base ==
  /\ cfg \in Configs /\ ValidConfig(cfg) /\ running \in [TimedRows(cfg) -> BOOLEAN]
  /\ MembersOK(members) /\ faults \in 0 .. MaxFaults

Shape ==
  /\ PolicyOK(policy) /\ StreamsOK(streams)
  /\ DOMAIN rules \subseteq Keys /\ DOMAIN pending \subseteq Keys \X Clients
  /\ missed \subseteq Groups
  /\ diverged.now \subseteq Keys \X Addresses /\ diverged.ever \subseteq Groups
  /\ JobOK(work)

HaltedOK == halted \subseteq Clients \X Groups

LEMMA PartsFact == PolicyInv <=> Base /\ Shape /\ StepInv /\ HaltedOK
BY DEF HaltedOK, PolicyInv, TypeOK, FormInv, Base, Shape, MembersOK, PolicyOK, StreamsOK

LEMMA PartsFactNext == PolicyInv' <=> Base' /\ Shape' /\ StepInv' /\ HaltedOK'
BY DEF HaltedOK, PolicyInv, TypeOK, FormInv, Base, Shape, MembersOK, PolicyOK, StreamsOK

LEMMA KeyFact ==
  /\ \A k \in Keys : k.group \in Groups /\ k.source \in AllSources
  /\ \A s \in AllSources, g \in Groups : Key(s, g) \in Keys /\ Key(s, g).source = s /\ Key(s, g).group = g
  /\ \A c \in Clients : c.addr \in Addresses
<1>1. \A k \in Keys : k.group \in Groups /\ k.source \in AllSources
  BY DEF Keys, Key, AllSources
<1>2. \A s \in AllSources, g \in Groups : Key(s, g) \in Keys /\ Key(s, g).source = s /\ Key(s, g).group = g
  BY DEF Keys, Key, AllSources
<1>3. \A c \in Clients : c.addr \in Addresses
  BY Zenon DEF Addresses
<1>4. QED BY <1>1, <1>2, <1>3

\* A client that stays in a stream under the address of one that goes.
LEMMA SharedFact ==
  ASSUME StreamsOK(streams), NEW k, NEW c \in Clients
  PROVE  /\ \A x \in Shared(k, c) : x = <<k, c.addr>>
         /\ k \in Keys => Shared(k, c) \in SUBSET (Keys \X Addresses)
         /\ \A d : k \in DOMAIN streams /\ d \in DOMAIN streams[k] \ {c} /\ d.addr = c.addr
                  => <<k, c.addr>> \in Shared(k, c)
<1>1. \A x \in Shared(k, c) : x = <<k, c.addr>>
  BY DEF Shared
<1>2. k \in Keys => Shared(k, c) \in SUBSET (Keys \X Addresses)
  BY <1>1, KeyFact
<1>3. ASSUME NEW d, k \in DOMAIN streams, d \in DOMAIN streams[k] \ {c}, d.addr = c.addr
      PROVE  <<k, c.addr>> \in Shared(k, c)
  <2>1. d \in Clients \ {c}
    BY <1>3 DEF StreamsOK
  <2>2. <<k, d.addr>> \in Shared(k, c)
    BY <1>3, <2>1 DEF Shared
  <2>3. QED BY <1>3, <2>2
<1>4. QED BY <1>1, <1>2, <1>3

\* Only pairs that may differ for a known reason are recorded, and all of them that do.
LEMMA PartedFact ==
  ASSUME Shape, NEW more \in SUBSET (Keys \X Addresses), NEW again \in SUBSET (Keys \X Addresses),
         Parted(more, again)
  PROVE  /\ diverged'.now \subseteq Keys \X Addresses /\ diverged'.ever \subseteq Groups
         /\ \A k \in Keys, a \in Addresses :
              \/ <<k, a>> \notin diverged.now \cup more
              \/ Holds(policy', k, a) <=> Serves(streams', k, a)
              \/ <<k, a>> \in diverged'.now
<1>1. PICK now : now = {x \in diverged.now \cup more : Holds(policy', x[1], x[2]) # Serves(streams', x[1], x[2])}
  OBVIOUS
<1>2. diverged' = [now |-> now, ever |-> diverged.ever \cup {x[1].group : x \in now \cup again}]
  BY <1>1 DEF Parted
<1>3. diverged'.now = now /\ diverged'.ever = diverged.ever \cup {x[1].group : x \in now \cup again}
  BY <1>2
<1>4. now \subseteq Keys \X Addresses
  BY <1>1 DEF Shape
<1>5. \A x \in now \cup again : x[1].group \in Groups
  BY <1>4, KeyFact
<1>6. diverged'.ever \subseteq Groups
  BY <1>3, <1>5 DEF Shape
<1>7. ASSUME NEW k \in Keys, NEW a \in Addresses, <<k, a>> \in diverged.now \cup more,
             ~(Holds(policy', k, a) <=> Serves(streams', k, a))
      PROVE  <<k, a>> \in now
  BY <1>1, <1>7 DEF Holds, Serves
<1>8. QED BY <1>3, <1>4, <1>6, <1>7

\* Engine and runtime stay in step when they change alike, except for pairs on record and
\* for those that Expire has still to withdraw.
LEMMA InStepFact ==
  ASSUME Shape, StepInv, NEW more \in SUBSET (Keys \X Addresses),
         NEW again \in SUBSET (Keys \X Addresses), Parted(more, again),
         \A k \in Keys, a \in Addresses :
           /\ \/ Holds(policy', k, a) <=> Serves(streams', k, a)
              \/ <<k, a>> \in more \cup Todo(work')
              \/ /\ Holds(policy', k, a) <=> Holds(policy, k, a)
                 /\ Serves(streams', k, a) <=> Serves(streams, k, a)
                 /\ <<k, a>> \notin Todo(work)
           /\ <<k, a>> \in Todo(work') => ~Holds(policy', k, a)
  PROVE  /\ StepInv'
         /\ diverged'.now \subseteq Keys \X Addresses /\ diverged'.ever \subseteq Groups
<1>1. /\ diverged'.now \subseteq Keys \X Addresses /\ diverged'.ever \subseteq Groups
      /\ \A k \in Keys, a \in Addresses :
           \/ <<k, a>> \notin diverged.now \cup more
           \/ Holds(policy', k, a) <=> Serves(streams', k, a)
           \/ <<k, a>> \in diverged'.now
  BY PartedFact
<1>2. ASSUME NEW k \in Keys, NEW a \in Addresses
      PROVE  /\ \/ Holds(policy', k, a) <=> Serves(streams', k, a)
                \/ <<k, a>> \in diverged'.now \cup Todo(work')
             /\ <<k, a>> \in Todo(work') => ~Holds(policy', k, a)
  BY <1>1 DEF StepInv
<1>3. QED BY <1>1, <1>2 DEF StepInv

\* Nothing changes between the two.
LEMMA UntouchedFact ==
  ASSUME StepInv, policy' = policy, streams' = streams, diverged' = diverged,
         Todo(work') = Todo(work)
  PROVE  StepInv'
BY DEF StepInv

-----------------------------------------------------------------------------
(* Reports and failing calls.                                              *)

LEMMA StrikeFact ==
  ASSUME Base, NEW fault, Strike(fault)
  PROVE  faults' \in 0 .. MaxFaults
BY AddressAssumption DEF Base, Strike

LEMMA ReportFact ==
  ASSUME Shape, NEW p, NEW g \in Groups, NEW aggregate, NEW fault,
         NoReport \/ \E join : SendReport(p, g, join, aggregate, fault)
  PROVE  missed' \subseteq Groups
BY DEF Shape, SendReport, NoReport

\* The next job or none.
LEMMA IdleFact ==
  /\ JobOK(Idle) /\ Todo(Idle) = {} /\ Idle.op # "expire"
  /\ \A w : w.op # "expire" => Todo(w) = {}
BY DEF JobOK, Todo, Idle

-----------------------------------------------------------------------------
(* finalizeClientLocked: engine and runtime lose the client together.      *)

LEMMA FinalizeFact ==
  ASSUME Shape, StepInv, Todo(work) = {}, NEW k \in Keys, NEW c \in Clients, NEW report, NEW fault,
         NEW next, JobOK(next), Todo(next) = {}, Finalize(k, c, report, fault, next)
  PROVE  Shape' /\ StepInv'
<1>1. DOMAIN rules \subseteq Keys /\ DOMAIN pending \subseteq Keys \X Clients
  BY DEF Shape
<1>2. k.group \in Groups /\ c.addr \in Addresses
  BY KeyFact
<1>3. JobOK(work') /\ Todo(work') = {}
  BY IdleFact DEF Finalize
<1>4. \A f : DOMAIN Without(f, k) = DOMAIN f \ {k}
  BY DEF Without, RestrictDomain, Restrict
<1>5. CASE UNCHANGED <<policy, streams, pending, diverged>> /\ NoReport
           /\ (rules' = rules \/ rules' = Without(rules, k))
  <2>1. StepInv'
    BY <1>3, <1>5, UntouchedFact
  <2>2. DOMAIN rules' \subseteq Keys /\ missed' \subseteq Groups
    BY <1>1, <1>4, <1>5 DEF Shape, NoReport
  <2>3. Shape'
    BY <1>3, <1>5, <2>2 DEF Shape
  <2>4. QED BY <2>1, <2>3
<1>6. CASE /\ Holds(policy, k, c.addr)
           /\ Forget(k, c)
           /\ pending' = Without(pending, <<k, c>>)
           /\ Parted(Shared(k, c), {})
           /\ rules' = rules \/ rules' = Without(rules, k) \/ \E r : rules' = With(rules, k, r)
           /\ streams' = IF DOMAIN streams[k] = {c} THEN Without(streams, k)
                         ELSE [streams EXCEPT ![k] = Without(streams[k], c)]
           /\ NoReport \/ \E p, j, m : SendReport(p, k.group, j, m, fault)
  <2>1. policy' = LeaveOne(policy, k, c.addr)
    BY <1>6 DEF Forget
  <2>2. PICK left : left = LeaveOne(policy, k, c.addr)
    OBVIOUS
  <2>3. /\ PolicyOK(left)
        /\ \A q, b : Holds(left, q, b) <=> Holds(policy, q, b) /\ <<q, b>> # <<k, c.addr>>
    BY <1>6, <2>2, LeaveFact DEF Shape
  <2>4. PICK new : new = IF DOMAIN streams[k] = {c} THEN Without(streams, k)
                         ELSE [streams EXCEPT ![k] = Without(streams[k], c)]
    OBVIOUS
  <2>5. /\ StreamsOK(new)
        /\ \A q, b : <<q, b>> # <<k, c.addr>> => (Serves(new, q, b) <=> Serves(streams, q, b))
        /\ Serves(new, k, c.addr) => <<k, c.addr>> \in Shared(k, c)
    <3>1. StreamsOK(streams)
      BY DEF Shape
    <3>2. PICK rest : rest = Without(streams[k], c)
      OBVIOUS
    <3>3. DOMAIN rest = DOMAIN streams[k] \ {c}
      BY <3>2 DEF Without, RestrictDomain, Restrict
    <3>4. PICK gone : gone = {c}
      OBVIOUS
    <3>5. k \in DOMAIN streams => \A d \in DOMAIN streams[k] : d \in gone => d.addr = c.addr
      BY <3>4
    <3>7. CASE DOMAIN streams[k] = {c}
      <4>1. new = Without(streams, k)
        BY <2>4, <3>7
      <4>2. DOMAIN new = DOMAIN streams \ {k} /\ \A y \in DOMAIN new \ {k} : new[y] = streams[y]
        BY <4>1 DEF Without, RestrictDomain, Restrict
      <4>3. Departs(streams, k, gone, c.addr, new)
        BY <3>4, <3>5, <3>7, <4>2 DEF Departs
      <4>4. QED BY <3>1, <3>4, <4>3, LeftFact, SharedFact
    <3>8. CASE DOMAIN streams[k] # {c}
      <4>1. new = [streams EXCEPT ![k] = rest]
        BY <2>4, <3>2, <3>8
      <4>2. /\ DOMAIN new = DOMAIN streams /\ \A y \in DOMAIN new \ {k} : new[y] = streams[y]
            /\ k \in DOMAIN new => DOMAIN new[k] = DOMAIN streams[k] \ gone
        BY <3>3, <3>4, <4>1
      <4>3. Departs(streams, k, gone, c.addr, new)
        BY <3>5, <4>2 DEF Departs
      <4>4. QED BY <3>1, <3>4, <4>3, LeftFact, SharedFact
    <3>9. QED BY <3>7, <3>8
  <2>6. policy' = left /\ streams' = new
    BY <1>6, <2>1, <2>2, <2>4
  <2>7. StepInv' /\ diverged'.now \subseteq Keys \X Addresses /\ diverged'.ever \subseteq Groups
    <3>1. /\ {} \in SUBSET (Keys \X Addresses) /\ Shared(k, c) \in SUBSET (Keys \X Addresses)
          /\ Parted(Shared(k, c), {})
      BY <1>6, SharedFact DEF Shape
    <3>2. ASSUME NEW q \in Keys, NEW b \in Addresses
          PROVE  /\ \/ Holds(policy', q, b) <=> Serves(streams', q, b)
                    \/ <<q, b>> \in Shared(k, c) \cup Todo(work')
                    \/ /\ Holds(policy', q, b) <=> Holds(policy, q, b)
                       /\ Serves(streams', q, b) <=> Serves(streams, q, b)
                       /\ <<q, b>> \notin Todo(work)
                 /\ <<q, b>> \in Todo(work') => ~Holds(policy', q, b)
      BY <1>3, <2>3, <2>5, <2>6
    <3>3. QED BY <3>1, <3>2, InStepFact
  <2>8. DOMAIN rules' \subseteq Keys
    BY <1>1, <1>4, <1>6 DEF With
  <2>9. DOMAIN pending' \subseteq Keys \X Clients
    BY <1>1, <1>6 DEF Without, RestrictDomain, Restrict
  <2>10. missed' \subseteq Groups
    BY <1>2, <1>6, ReportFact
  <2>11. QED BY <1>3, <2>3, <2>5, <2>6, <2>7, <2>8, <2>9, <2>10 DEF Shape
<1>7. QED
  <2>1. SUFFICES ASSUME Holds(policy, k, c.addr), Forget(k, c), fault # "query"
                 PROVE  Shape' /\ StepInv'
    BY <1>5 DEF Finalize
  <2>2. PICK st, p, after, said :
          /\ st = streams[k] /\ after = IF DOMAIN st = {c} THEN Without(streams, k)
                                        ELSE [streams EXCEPT ![k] = Without(st, c)]
          /\ \/ UNCHANGED <<policy, streams, pending, diverged>> /\ NoReport /\ rules' = rules
             \/ /\ streams' = after /\ pending' = Without(pending, <<k, c>>) /\ Parted(Shared(k, c), {})
                /\ rules' = rules \/ rules' = Without(rules, k) \/ \E r : rules' = With(rules, k, r)
                /\ NoReport \/ \E j : SendReport(p, k.group, j, Aggregate(k.group, after), fault)
    BY <2>1 DEF Finalize, Replicate, SendLeave
  <2>3. QED BY <1>5, <1>6, <2>1, <2>2

-----------------------------------------------------------------------------
(* The jobs of a report.                                                   *)

RecordJobs ==
  [op : {"record"}, client : Clients, group : Groups, wanted : Modes, after : SUBSET AllSources,
   drop : SUBSET AllSources, add : SUBSET AllSources, keep : SUBSET AllSources]

LEMMA RecordFact ==
  /\ JobOK(work) /\ work.op = "record" => work \in RecordJobs
  /\ \A w \in RecordJobs : JobOK(w) /\ Todo(w) = {}
<1>1. ASSUME NEW w \in RecordJobs PROVE w.op = "record"
  BY DEF RecordJobs
<1>2. \A w \in RecordJobs : JobOK(w)
  BY DEF RecordJobs, JobOK
<1>3. ASSUME JobOK(work), work.op = "record" PROVE work \in RecordJobs
  BY <1>3 DEF RecordJobs, JobOK, Idle
<1>4. QED BY <1>1, <1>2, <1>3, IdleFact

\* The sources of a record are worked off one at a time, the least first.
LEMMA SourceFact ==
  ASSUME NEW T \in SUBSET AllSources, T # {}
  PROVE  Min(T) \in AllSources
<1>1. AllSources \subseteq Nat
  BY AddressAssumption DEF AllSources, Wild
<1>2. QED BY <1>1, LeastElement

\* Job steps that touch neither engine nor streams.
LEMMA QuietFact ==
  ASSUME Shape, StepInv, UNCHANGED <<policy, streams, rules, diverged>>, JobOK(work'), Todo(work') = Todo(work),
         DOMAIN pending' \subseteq Keys \X Clients, missed' \subseteq Groups
  PROVE  Shape' /\ StepInv'
<1>1. StepInv'
  BY UntouchedFact
<1>2. QED BY <1>1 DEF Shape

LEMMA BaseFact ==
  ASSUME Base, UNCHANGED <<cfg, running, members>>, faults' \in 0 .. MaxFaults
  PROVE  Base'
BY DEF Base

LEMMA ReportStep ==
  ASSUME Base, Shape, StepInv, NEW c \in Clients, NEW g \in Groups, NEW rec \in Records, Report(c, g, rec)
  PROVE  Base' /\ Shape' /\ StepInv'
<1>1. PICK before : before = Membership(c, g)
  OBVIOUS
<1>2. before \in Modes
  BY <1>1 DEF Base, MembersOK, Membership, Modes
<1>3. PICK wanted : wanted = Transition(before, rec)
  OBVIOUS
<1>4. wanted \in Modes
  <2>1. rec.type \in {"include", "exclude", "allow", "block"} /\ rec.sources \subseteq AllSources
    BY DEF Records, AllSources
  <2>2. CASE rec.type \in {"include", "exclude"}
    <3>1. wanted = [mode |-> rec.type, sources |-> rec.sources]
      BY <1>3, <2>2 DEF Transition
    <3>2. QED BY <2>1, <2>2, <3>1 DEF Modes
  <2>3. CASE rec.type \in {"allow", "block"}
    <3>1. PICK s : s \in SUBSET AllSources /\ wanted = [before EXCEPT !.sources = s]
      <4>1. before.sources \subseteq AllSources
        BY <1>2 DEF Modes
      <4>2. CASE rec.type = "allow"
        BY <1>3, <2>1, <4>1, <4>2 DEF Transition
      <4>3. CASE rec.type = "block"
        BY <1>3, <2>1, <4>1, <4>3 DEF Transition
      <4>4. QED BY <2>3, <4>2, <4>3
    <3>2. QED BY <1>2, <3>1 DEF Modes
  <2>4. QED BY <2>1, <2>2, <2>3
<1>5. \A m \in Modes : Forwarding(m) \subseteq AllSources
  BY DEF Modes, Forwarding, AllSources
<1>6. PICK old, new : old = Forwarding(before) /\ new = Forwarding(wanted)
  OBVIOUS
<1>7. old \subseteq AllSources /\ new \subseteq AllSources
  BY <1>2, <1>4, <1>5, <1>6
<1>8. work' = [op |-> "record", client |-> c, group |-> g, wanted |-> wanted, after |-> old,
               drop |-> old \ new, add |-> new \ old, keep |-> old \cap new]
  BY <1>1, <1>3, <1>6 DEF Report
<1>9. work' \in RecordJobs
  BY <1>4, <1>7, <1>8 DEF RecordJobs
<1>10. JobOK(work') /\ Todo(work') = {} /\ Todo(work) = {}
  BY <1>9, RecordFact, IdleFact DEF Report
<1>11. DOMAIN pending' \subseteq Keys \X Clients /\ missed' \subseteq Groups
  BY DEF Report, Shape
<1>12. Shape' /\ StepInv'
  BY <1>10, <1>11, QuietFact DEF Report
<1>13. QED BY <1>12, BaseFact DEF Report, Base

LEMMA DropStep ==
  ASSUME Base, Shape, StepInv, NEW fault, DropSource(fault)
  PROVE  Base' /\ Shape' /\ StepInv'
<1>1. work \in RecordJobs /\ Todo(work) = {}
  BY RecordFact DEF DropSource, Shape
<1>2. PICK s, k, c, next :
        /\ s = Min(work.drop) /\ k = Key(s, work.group) /\ c = work.client
        /\ next = [work EXCEPT !.drop = @ \ {s}, !.after = @ \ {s}]
  OBVIOUS
<1>3. k \in Keys /\ c \in Clients
  <2>1. work.drop \in SUBSET AllSources /\ work.drop # {} /\ work.group \in Groups /\ work.client \in Clients
    BY <1>1 DEF RecordJobs, DropSource
  <2>2. s \in AllSources
    BY <1>2, <2>1, SourceFact
  <2>3. QED BY <1>2, <2>1, <2>2, KeyFact
<1>4. next \in RecordJobs
  BY <1>1, <1>2 DEF RecordJobs
<1>5. JobOK(next) /\ Todo(next) = {}
  BY <1>4, RecordFact
<1>6. Base'
  BY StrikeFact, BaseFact DEF DropSource
<1>7. CASE /\ UNCHANGED <<policy, streams, pending, rules, diverged>> /\ NoReport /\ work' = next
  BY <1>1, <1>5, <1>6, <1>7, QuietFact DEF Shape, NoReport
<1>8. CASE Finalize(k, c, TRUE, fault, next)
  BY <1>1, <1>3, <1>5, <1>6, <1>8, FinalizeFact
<1>9. CASE AskLastMember(k, c, fault, next)
  <2>1. JobOK(work') /\ Todo(work') = {}
    BY <1>5, <1>9, IdleFact DEF AskLastMember
  <2>2. k.group \in Groups
    BY <1>3, KeyFact
  <2>3. missed' \subseteq Groups
    BY <1>9, <2>2, ReportFact DEF AskLastMember
  <2>4. DOMAIN pending' \subseteq Keys \X Clients
    <3>1. pending' = pending \/ \E n : pending' = With(pending, <<k, c>>, n)
      BY <1>9 DEF AskLastMember
    <3>2. QED BY <1>3, <3>1 DEF With, Shape
  <2>5. QED BY <1>1, <1>6, <1>9, <2>1, <2>3, <2>4, QuietFact DEF AskLastMember
<1>10. QED BY <1>2, <1>7, <1>8, <1>9 DEF DropSource

LEMMA CommitStep ==
  ASSUME Base, Shape, StepInv, CommitRecord
  PROVE  Base' /\ Shape' /\ StepInv'
<1>1. work \in RecordJobs /\ Todo(work) = {}
  BY RecordFact DEF CommitRecord, Shape
<1>2. PICK x, kept :
        /\ x = <<work.client, work.group>>
        /\ kept = IF work.wanted.mode = "include" THEN [work.wanted EXCEPT !.sources = work.after] ELSE work.wanted
        /\ members' = IF work.after = {} THEN Without(members, x) ELSE With(members, x, kept)
  BY DEF CommitRecord
<1>3. x \in Clients \X Groups
  BY <1>1, <1>2 DEF RecordJobs
<1>4. kept \in Modes
  <2>1. work.wanted \in Modes /\ work.after \in SUBSET AllSources
    BY <1>1 DEF RecordJobs
  <2>2. QED BY <1>2, <2>1 DEF Modes
<1>5. MembersOK(members')
  <2>1. MembersOK(members)
    BY DEF Base
  <2>2. CASE members' = Without(members, x)
    BY <2>1, <2>2 DEF Without, RestrictDomain, Restrict, MembersOK
  <2>3. CASE members' = With(members, x, kept)
    BY <1>3, <1>4, <2>1, <2>3 DEF With, MembersOK
  <2>4. QED BY <1>2, <2>2, <2>3
<1>6. Base'
  BY <1>5 DEF Base, CommitRecord
<1>7. work' = Idle /\ JobOK(work') /\ Todo(work') = {}
  BY IdleFact DEF CommitRecord
<1>8. Shape' /\ StepInv'
  BY <1>1, <1>7, QuietFact DEF CommitRecord, Shape
<1>9. QED BY <1>6, <1>8

\* The engine without the groups that are due: it has lost just the discarded pairs.
LEMMA LiveFact ==
  ASSUME PolicyOK(policy), NEW live, live = Unexpired(policy)
  PROVE  /\ PolicyOK(live) /\ Discarded \in SUBSET (Keys \X Addresses)
         /\ \A k, a : Holds(live, k, a) <=> Holds(policy, k, a) /\ <<k, a>> \notin Discarded
<1>1. /\ PolicyOK(live)
      /\ \A k, a : Holds(live, k, a) <=> Holds(policy, k, a) /\ policy[k].timer # "due"
  BY UnexpiredFact
<1>2. \A k, a : <<k, a>> \in Pairs(policy) <=> Holds(policy, k, a)
  BY DEF Pairs, Holds
<1>3. \A x \in Pairs(policy) : x \in Keys \X Addresses
  BY DEF Pairs, PolicyOK
<1>4. \A k, a : <<k, a>> \in Discarded <=> Holds(policy, k, a) /\ policy[k].timer = "due"
  BY <1>2 DEF Discarded
<1>5. Discarded \in SUBSET (Keys \X Addresses)
  BY <1>3 DEF Discarded
<1>6. QED BY <1>1, <1>4, <1>5

\* Engine.Join as a job performs it.
LEMMA JoinFact ==
  ASSUME PolicyOK(policy), NEW k \in Keys, NEW c \in Clients, NEW d \in JoinDecisions(k), Enter(k, c, d)
  PROVE  /\ PolicyOK(policy')
         /\ \A q, b : Holds(policy', q, b) <=> \/ Holds(policy, q, b) /\ <<q, b>> \notin Discarded
                                               \/ d.accepted /\ <<q, b>> = <<k, c.addr>>
<1>1. PICK live, a : live = Unexpired(policy) /\ a = c.addr
  OBVIOUS
<1>2. /\ PolicyOK(live)
      /\ \A q, b : Holds(live, q, b) <=> Holds(policy, q, b) /\ <<q, b>> \notin Discarded
  BY <1>1, LiveFact
<1>3. a \in Addresses
  BY <1>1, KeyFact
<1>4. CASE d.accepted
  <2>1. PICK g : g = Joined(live, k, a, d.entry)
    OBVIOUS
  <2>2. Answers(live, k, d.entry)
    <3>1. d \in Decisions(cfg, running, live, previews[k], UniVLAN, k)
      BY <1>1 DEF JoinDecisions
    <3>2. QED BY <1>4, <3>1, DecisionFact DEF Answers
  <2>3. /\ PolicyOK(g)
        /\ \A q, b : Holds(g, q, b) <=> Holds(live, q, b) \/ <<q, b>> = <<k, a>>
    BY <1>2, <1>3, <2>1, <2>2, EnterFact
  <2>4. policy' = g
    BY <1>1, <1>4, <2>1 DEF Enter, Entered, Joined
  <2>5. QED BY <1>1, <1>2, <1>4, <2>3, <2>4
<1>5. CASE ~d.accepted
  <2>1. policy' = live
    BY <1>1, <1>5 DEF Enter
  <2>2. QED BY <1>2, <1>5, <2>1
<1>6. QED BY <1>4, <1>5

\* Engine and runtime change alike outside the recorded pairs, while Expire has nothing left.
LEMMA TogetherFact ==
  ASSUME Shape, StepInv, Todo(work) = {}, JobOK(work'), Todo(work') = {},
         NEW more \in SUBSET (Keys \X Addresses), NEW again \in SUBSET (Keys \X Addresses),
         Parted(more, again), PolicyOK(policy'), StreamsOK(streams'), DOMAIN rules' \subseteq Keys,
         DOMAIN pending' \subseteq Keys \X Clients, missed' \subseteq Groups,
         \A q \in Keys, b \in Addresses :
           \/ Holds(policy', q, b) <=> Serves(streams', q, b)
           \/ <<q, b>> \in more
           \/ /\ Holds(policy', q, b) <=> Holds(policy, q, b)
              /\ Serves(streams', q, b) <=> Serves(streams, q, b)
  PROVE  Shape' /\ StepInv'
<1>1. \A q \in Keys, b \in Addresses :
        /\ \/ Holds(policy', q, b) <=> Serves(streams', q, b)
           \/ <<q, b>> \in more \cup Todo(work')
           \/ /\ Holds(policy', q, b) <=> Holds(policy, q, b)
              /\ Serves(streams', q, b) <=> Serves(streams, q, b)
              /\ <<q, b>> \notin Todo(work)
        /\ <<q, b>> \in Todo(work') => ~Holds(policy', q, b)
  OBVIOUS
<1>2. StepInv' /\ diverged'.now \subseteq Keys \X Addresses /\ diverged'.ever \subseteq Groups
  BY <1>1, InStepFact
<1>3. QED BY <1>2 DEF Shape

LEMMA AddStep ==
  ASSUME Base, Shape, StepInv, NEW fault, AddSource(fault)
  PROVE  Base' /\ Shape' /\ StepInv'
<1>1. work \in RecordJobs /\ Todo(work) = {}
  BY RecordFact DEF AddSource, Shape
<1>2. PICK k, c : k = Key(Min(work.add), work.group) /\ c = work.client
  OBVIOUS
<1>3. PICK d \in JoinDecisions(k) :
        /\ IF d.accepted THEN AdmitSource(k, c, d, fault) ELSE RejectSource(k, c, d, fault)
        /\ Parted(Discarded \cup Shared(k, c), Discarded \cap Shared(k, c))
  BY <1>2 DEF AddSource
<1>4. k \in Keys /\ c \in Clients
  <2>1. work.add \in SUBSET AllSources /\ work.add # {} /\ work.group \in Groups /\ work.client \in Clients
    BY <1>1 DEF RecordJobs, AddSource
  <2>2. Min(work.add) \in AllSources
    BY <2>1, SourceFact
  <2>3. QED BY <1>2, <2>1, <2>2, KeyFact
<1>5. k.group \in Groups /\ k.source \in AllSources /\ c.addr \in Addresses
  BY <1>4, KeyFact
<1>6. JobOK(work') /\ Todo(work') = {}
  <2>1. \/ work' = Idle \/ work' = [work EXCEPT !.add = @ \ {k.source}]
        \/ work' = [work EXCEPT !.add = @ \ {k.source}, !.after = @ \cup {k.source}]
    BY <1>3 DEF AdmitSource, RejectSource
  <2>2. PICK s \in AllSources : s = k.source
    BY <1>5
  <2>3. CASE work' = [work EXCEPT !.add = @ \ {s}]
    BY <1>1, <2>3, RecordFact DEF RecordJobs
  <2>4. CASE work' = [work EXCEPT !.add = @ \ {s}, !.after = @ \cup {s}]
    <3>1. PICK less, more : less = work.add \ {s} /\ more = work.after \cup {s}
      OBVIOUS
    <3>2. less \in SUBSET AllSources /\ more \in SUBSET AllSources
      BY <1>1, <3>1 DEF RecordJobs
    <3>3. work' = [work EXCEPT !.add = less, !.after = more]
      BY <2>4, <3>1
    <3>4. work' \in RecordJobs
      BY <1>1, <3>2, <3>3 DEF RecordJobs
    <3>5. QED BY <3>4, RecordFact
  <2>5. QED BY <2>1, <2>2, <2>3, <2>4, IdleFact
<1>7. Base'
  BY StrikeFact, BaseFact DEF AddSource
<1>8. PICK live : live = Unexpired(policy)
  OBVIOUS
<1>9. /\ PolicyOK(policy) /\ StreamsOK(streams)
      /\ DOMAIN rules \subseteq Keys /\ DOMAIN pending \subseteq Keys \X Clients
  BY DEF Shape
<1>10. /\ PolicyOK(live) /\ Discarded \in SUBSET (Keys \X Addresses)
       /\ \A q, b : Holds(live, q, b) <=> Holds(policy, q, b) /\ <<q, b>> \notin Discarded
  BY <1>8, <1>9, LiveFact
<1> DEFINE more == Discarded \cup Shared(k, c)
           again == Discarded \cap Shared(k, c)
<1>14. /\ more \in SUBSET (Keys \X Addresses) /\ again \in SUBSET (Keys \X Addresses)
       /\ Parted(more, again) /\ Discarded \subseteq more /\ Shared(k, c) \subseteq more
  BY <1>3, <1>4, <1>9, <1>10, SharedFact
<1> HIDE DEF more, again
<1>11. CASE RejectSource(k, c, d, fault) /\ ~d.accepted
  <2>1. /\ PolicyOK(policy')
        /\ \A q, b : Holds(policy', q, b) <=> \/ Holds(policy, q, b) /\ <<q, b>> \notin Discarded
                                              \/ d.accepted /\ <<q, b>> = <<k, c.addr>>
    BY <1>4, <1>9, <1>11, JoinFact DEF RejectSource
  <2>2. missed' \subseteq Groups
    BY <1>5, <1>11, ReportFact DEF RejectSource
  <2>3. UNCHANGED <<streams, pending, rules>>
    BY <1>11 DEF RejectSource
  <2>4. \A q \in Keys, b \in Addresses :
          <<q, b>> \in more \/ (Holds(policy', q, b) <=> Holds(policy, q, b))
    BY <1>11, <1>14, <2>1
  <2>5. QED BY <1>1, <1>6, <1>7, <1>9, <1>14, <2>1, <2>2, <2>3, <2>4, TogetherFact
<1>12. CASE AdmitSource(k, c, d, fault) /\ d.accepted
  <2>1. PICK st : st = StreamOf(streams, k)
    OBVIOUS
  <2>2. PICK client : client = ClientOf(d, k.source)
    OBVIOUS
  <2>3. PICK after : after = Subscribed(streams, k, c, client)
    OBVIOUS
  <2>4. DOMAIN pending' \subseteq Keys \X Clients
    <3>1. pending' = Without(pending, <<k, c>>)
      BY <1>12 DEF AdmitSource, CancelLeave
    <3>2. QED BY <1>9, <3>1 DEF Without, RestrictDomain, Restrict
  <2>5. CASE fault # "tc"
    <3>1. /\ Enter(k, c, d) /\ streams' = after
          /\ rules' = rules \/ \E r : rules' = With(rules, k, r)
          /\ NoReport \/ SendReport(d.profile, k.group, TRUE, Aggregate(k.group, after), fault)
      BY <1>12, <2>2, <2>3, <2>5 DEF AdmitSource, Replicate, Subscribed, StreamOf
    <3>2. /\ PolicyOK(policy')
          /\ \A q, b : Holds(policy', q, b) <=> \/ Holds(policy, q, b) /\ <<q, b>> \notin Discarded
                                                \/ d.accepted /\ <<q, b>> = <<k, c.addr>>
      BY <1>4, <1>9, <3>1, JoinFact
    <3>3. /\ StreamsOK(after)
          /\ \A q, b : Serves(after, q, b) <=> Serves(streams, q, b) \/ <<q, b>> = <<k, c.addr>>
      BY <1>4, <1>9, <2>3, JoinedFact
    <3>4. missed' \subseteq Groups
      BY <1>5, <3>1, ReportFact
    <3>5. DOMAIN rules' \subseteq Keys
      BY <1>4, <1>9, <3>1 DEF With
    <3>6. \A q \in Keys, b \in Addresses :
            \/ Holds(policy', q, b) <=> Serves(streams', q, b)
            \/ <<q, b>> \in more
            \/ /\ Holds(policy', q, b) <=> Holds(policy, q, b)
               /\ Serves(streams', q, b) <=> Serves(streams, q, b)
      BY <1>12, <1>14, <3>1, <3>2, <3>3
    <3>7. QED BY <1>1, <1>6, <1>7, <1>14, <1>10, <2>4, <3>1, <3>2, <3>3, <3>4, <3>5, <3>6, TogetherFact
  <2>6. CASE fault = "tc"
    <3>1. PICK a : a = c.addr
      OBVIOUS
    <3>2. /\ policy' = IF Holds(live, k, a) THEN LeaveOne(live, k, a) ELSE live
          /\ streams' = IF k \in DOMAIN streams THEN [streams EXCEPT ![k] = Without(st, c)] ELSE streams
          /\ rules' = rules /\ NoReport
      BY <1>8, <1>12, <2>1, <2>6, <3>1 DEF AdmitSource, StreamOf
    <3>3. /\ PolicyOK(policy')
          /\ \A q, b : Holds(policy', q, b) <=> Holds(live, q, b) /\ <<q, b>> # <<k, a>>
      <4>1. CASE Holds(live, k, a)
        <5>1. PICK left : left = LeaveOne(live, k, a)
          OBVIOUS
        <5>2. /\ PolicyOK(left)
              /\ \A q, b : Holds(left, q, b) <=> Holds(live, q, b) /\ <<q, b>> # <<k, a>>
          BY <1>10, <4>1, <5>1, LeaveFact
        <5>3. QED BY <3>2, <4>1, <5>1, <5>2
      <4>2. CASE ~Holds(live, k, a)
        BY <1>10, <3>2, <4>2
      <4>3. QED BY <4>1, <4>2
    <3>4. /\ StreamsOK(streams')
          /\ \A q, b : <<q, b>> # <<k, a>> => (Serves(streams', q, b) <=> Serves(streams, q, b))
          /\ Serves(streams', k, a) => <<k, a>> \in Shared(k, c)
      <4>1. PICK gone : gone = {c}
        OBVIOUS
      <4>2. k \in DOMAIN streams => \A e \in DOMAIN streams[k] : e \in gone => e.addr = a
        BY <3>1, <4>1
      <4>3. PICK rest : rest = Without(st, c)
        OBVIOUS
      <4>4. DOMAIN rest = DOMAIN st \ gone
        BY <4>1, <4>3 DEF Without, RestrictDomain, Restrict
      <4>5. PICK new : new = IF k \in DOMAIN streams THEN [streams EXCEPT ![k] = rest] ELSE streams
        OBVIOUS
      <4>6. Departs(streams, k, gone, a, new)
        BY <2>1, <4>2, <4>4, <4>5 DEF Departs, StreamOf
      <4>7. streams' = new
        BY <3>2, <4>3, <4>5
      <4>8. QED BY <1>4, <1>9, <3>1, <4>1, <4>6, <4>7, LeftFact, SharedFact
    <3>5. missed' \subseteq Groups
      BY <3>2 DEF NoReport, Shape
    <3>6. \A q \in Keys, b \in Addresses :
            \/ Holds(policy', q, b) <=> Serves(streams', q, b)
            \/ <<q, b>> \in more
            \/ /\ Holds(policy', q, b) <=> Holds(policy, q, b)
               /\ Serves(streams', q, b) <=> Serves(streams, q, b)
      BY <1>10, <1>14, <3>1, <3>3, <3>4
    <3>7. QED BY <1>1, <1>6, <1>7, <1>14, <1>9, <1>10, <2>4, <3>2, <3>3, <3>4, <3>5, <3>6, TogetherFact
  <2>7. QED BY <2>5, <2>6
<1>13. QED BY <1>3, <1>11, <1>12

\* The streams after a refresh.
Renewed(k, c, d) == [streams EXCEPT ![k] = With(streams[k], c, ClientOf(d, k.source))]

LEMMA KeepStep ==
  ASSUME Base, Shape, StepInv, NEW fault, KeepSource(fault)
  PROVE  Base' /\ Shape' /\ StepInv'
<1>1. work \in RecordJobs /\ Todo(work) = {}
  BY RecordFact DEF KeepSource, Shape
<1>2. PICK k, c, next : /\ k = Key(Min(work.keep), work.group) /\ c = work.client
                        /\ next = [work EXCEPT !.keep = @ \ {k.source}]
  OBVIOUS
<1>3. k \in Keys /\ c \in Clients
  <2>1. work.keep \in SUBSET AllSources /\ work.keep # {} /\ work.group \in Groups /\ work.client \in Clients
    BY <1>1 DEF RecordJobs, KeepSource
  <2>2. Min(work.keep) \in AllSources
    BY <2>1, SourceFact
  <2>3. QED BY <1>2, <2>1, <2>2, KeyFact
<1>4. k.group \in Groups /\ c.addr \in Addresses
  BY <1>3, KeyFact
<1>5. JobOK(next) /\ Todo(next) = {}
  <2>1. next \in RecordJobs
    BY <1>1, <1>2 DEF RecordJobs
  <2>2. QED BY <2>1, RecordFact
<1>6. Base'
  BY StrikeFact, BaseFact DEF KeepSource
<1>7. /\ PolicyOK(policy) /\ StreamsOK(streams)
      /\ DOMAIN rules \subseteq Keys /\ DOMAIN pending \subseteq Keys \X Clients
  BY DEF Shape
<1>8. Discarded \in SUBSET (Keys \X Addresses)
  BY <1>7, LiveFact
<1>9. PICK d \in JoinDecisions(k) :
        /\ Enter(k, c, d)
        /\ \/ /\ ~d.accepted \/ k \notin DOMAIN streams
              /\ work' = Idle /\ UNCHANGED <<streams, pending, rules>> /\ NoReport
              /\ Parted(Discarded \cup {<<k, c.addr>>}, {})
           \/ /\ d.accepted /\ k \in DOMAIN streams
              /\ fault = "tc" => c \in DOMAIN streams[k]
              /\ CancelLeave(k, c)
              /\ streams' = IF fault = "tc" THEN streams ELSE Renewed(k, c, d)
              /\ rules' = rules \/ \E r : rules' = With(rules, k, r)
              /\ NoReport \/ SendReport(d.profile, k.group, TRUE, Aggregate(k.group, Renewed(k, c, d)), fault)
              /\ work' = next \/ work' = Idle
              /\ Parted(Discarded, Discarded \cap Shared(k, c))
  <2>1. PICK d \in JoinDecisions(k) : RefreshSource(k, c, d, fault)
    BY <1>2 DEF KeepSource
  <2>2. CASE ~d.accepted \/ k \notin DOMAIN streams
    BY <2>1, <2>2 DEF RefreshSource
  <2>3. CASE d.accepted /\ k \in DOMAIN streams
    <3> DEFINE joined == With(streams[k], c, ClientOf(d, k.source))
               after == [streams EXCEPT ![k] = joined]
    <3>2. PICK was \in Effective(streams[k]), now \in Effective(joined) :
             LET said == Profile(d.profile).function = 0 \/ was # now
             IN /\ fault # "query" /\ (fault = "tc" => was # now /\ c \in DOMAIN streams[k])
                /\ fault = "send" => said
                /\ CancelLeave(k, c)
                /\ streams' = IF fault = "tc" THEN streams ELSE after
                /\ IF was # now THEN Replicate(k, now, fault) ELSE UNCHANGED rules
                /\ IF said /\ fault # "tc"
                   THEN SendReport(d.profile, k.group, TRUE, Aggregate(k.group, after), fault) ELSE NoReport
                /\ work' = IF fault = "none" THEN [work EXCEPT !.keep = @ \ {k.source}] ELSE Idle
                /\ Parted(Discarded, Discarded \cap Shared(k, c))
      BY <2>1, <2>3 DEF RefreshSource
    <3>3. after = Renewed(k, c, d)
      BY DEF Renewed
    <3> HIDE DEF joined, after
    <3>4. rules' = rules \/ \E r : rules' = With(rules, k, r)
      BY <3>2 DEF Replicate
    <3>5. Enter(k, c, d)
      BY <2>1 DEF RefreshSource
    <3>6. work' = next \/ work' = Idle
      BY <1>2, <3>2
    <3>7. QED BY <2>1, <2>3, <3>2, <3>3, <3>4, <3>5, <3>6
  <2>4. QED BY <2>1, <2>2, <2>3
<1>10. /\ PolicyOK(policy')
       /\ \A q, b : Holds(policy', q, b) <=> \/ Holds(policy, q, b) /\ <<q, b>> \notin Discarded
                                             \/ d.accepted /\ <<q, b>> = <<k, c.addr>>
  BY <1>3, <1>7, <1>9, JoinFact
<1>11. JobOK(work') /\ Todo(work') = {}
  BY <1>5, <1>9, IdleFact
<1>12. missed' \subseteq Groups
  BY <1>4, <1>9, ReportFact
<1>13. CASE UNCHANGED <<streams, pending, rules>> /\ Parted(Discarded \cup {<<k, c.addr>>}, {})
  <2>1. PICK more : more = Discarded \cup {<<k, c.addr>>}
    OBVIOUS
  <2>2. more \in SUBSET (Keys \X Addresses) /\ Parted(more, {}) /\ {} \in SUBSET (Keys \X Addresses)
    BY <1>3, <1>4, <1>8, <1>13, <2>1
  <2>3. \A q \in Keys, b \in Addresses :
          <<q, b>> \in more \/ (Holds(policy', q, b) <=> Holds(policy, q, b))
    BY <1>10, <2>1
  <2>4. QED BY <1>1, <1>6, <1>7, <1>10, <1>11, <1>12, <1>13, <2>2, <2>3, TogetherFact
<1>14. CASE /\ d.accepted /\ k \in DOMAIN streams
            /\ fault = "tc" => c \in DOMAIN streams[k]
            /\ CancelLeave(k, c)
            /\ streams' = IF fault = "tc" THEN streams ELSE Renewed(k, c, d)
            /\ rules' = rules \/ \E r : rules' = With(rules, k, r)
            /\ Parted(Discarded, Discarded \cap Shared(k, c))
  <2>1. /\ StreamsOK(streams')
        /\ \A q, b : Serves(streams', q, b) <=> Serves(streams, q, b) \/ <<q, b>> = <<k, c.addr>>
    <3>1. CASE fault = "tc"
      BY <1>7, <1>14, <3>1 DEF Serves
    <3>2. CASE fault # "tc"
      <4>1. PICK client, new : client = ClientOf(d, k.source) /\ new = Subscribed(streams, k, c, client)
        OBVIOUS
      <4>2. /\ StreamsOK(new)
            /\ \A q, b : Serves(new, q, b) <=> Serves(streams, q, b) \/ <<q, b>> = <<k, c.addr>>
        BY <1>3, <1>7, <4>1, JoinedFact
      <4>3. streams' = new
        BY <1>9, <1>14, <3>2, <4>1 DEF Subscribed, StreamOf, With, Renewed
      <4>4. QED BY <4>2, <4>3
    <3>3. QED BY <3>1, <3>2
  <2>2. DOMAIN pending' \subseteq Keys \X Clients
    BY <1>7, <1>14 DEF CancelLeave, Without, RestrictDomain, Restrict
  <2>3. DOMAIN rules' \subseteq Keys
    BY <1>3, <1>7, <1>14 DEF With
  <2>4. \A q \in Keys, b \in Addresses :
          \/ Holds(policy', q, b) <=> Serves(streams', q, b)
          \/ <<q, b>> \in Discarded
          \/ /\ Holds(policy', q, b) <=> Holds(policy, q, b)
             /\ Serves(streams', q, b) <=> Serves(streams, q, b)
    BY <1>10, <1>14, <2>1
  <2>6. Discarded \cap Shared(k, c) \in SUBSET (Keys \X Addresses)
    BY <1>8
  <2>5. QED BY <1>1, <1>6, <1>8, <2>6, <1>10, <1>11, <1>12, <1>14, <2>1, <2>2, <2>3, <2>4, TogetherFact
<1>15. QED BY <1>9, <1>13, <1>14

-----------------------------------------------------------------------------
(* The jobs of the timer.                                                  *)

ExpireJob(todo) == [op |-> "expire", todo |-> todo]
TodoPairs(todo) == {<<x.key, x.addr>> : x \in todo}

LEMMA ExpireJobFact ==
  ASSUME NEW todo, \A x \in todo : x.key \in Keys /\ x.addr \in Addresses,
         NEW w, w = ExpireJob(todo)
  PROVE  JobOK(w) /\ Todo(w) = TodoPairs(todo)
BY DEF ExpireJob, TodoPairs, JobOK, Todo

LEMMA ExpiringFact ==
  ASSUME Shape, work.op = "expire"
  PROVE  /\ work = ExpireJob(work.todo) /\ Todo(work) = TodoPairs(work.todo)
         /\ \A x \in work.todo : x.key \in Keys /\ x.addr \in Addresses
BY DEF Shape, JobOK, Idle, Todo, ExpireJob, TodoPairs

LEMMA StartExpireStep ==
  ASSUME Base, Shape, StepInv, StartExpire
  PROVE  Base' /\ Shape' /\ StepInv'
<1>1. Base'
  BY BaseFact DEF StartExpire, Base
<1>2. PICK live : live = Unexpired(policy)
  OBVIOUS
<1>3. /\ PolicyOK(live) /\ Discarded \in SUBSET (Keys \X Addresses)
      /\ \A k, a : Holds(live, k, a) <=> Holds(policy, k, a) /\ <<k, a>> \notin Discarded
  BY <1>2, LiveFact DEF Shape
<1>4. PICK todo : todo = {[key |-> x[1], addr |-> x[2], profile |-> policy[x[1]].profile] : x \in Discarded}
  OBVIOUS
<1>5. work' = ExpireJob(todo) /\ policy' = live /\ streams' = streams /\ Parted({}, {}) /\ work = Idle
  BY <1>2, <1>4 DEF StartExpire, ExpireJob
<1>6. \A x \in todo : x.key \in Keys /\ x.addr \in Addresses
  BY <1>3, <1>4
<1>7. TodoPairs(todo) = Discarded
  <2>1. ASSUME NEW x \in Discarded PROVE x \in TodoPairs(todo)
    <3>1. PICK t \in todo : t = [key |-> x[1], addr |-> x[2], profile |-> policy[x[1]].profile]
      BY <1>4
    <3>2. t.key = x[1] /\ t.addr = x[2] /\ x = <<x[1], x[2]>>
      BY <1>3, <3>1
    <3>3. QED BY <3>2 DEF TodoPairs
  <2>2. ASSUME NEW y \in TodoPairs(todo) PROVE y \in Discarded
    <3>1. PICK t \in todo : y = <<t.key, t.addr>>
      BY DEF TodoPairs
    <3>2. PICK x \in Discarded : t.key = x[1] /\ t.addr = x[2]
      BY <1>4
    <3>3. y = x
      BY <1>3, <3>1, <3>2
    <3>4. QED BY <3>3
  <2>3. QED BY <2>1, <2>2
<1>8. JobOK(work') /\ Todo(work') = Discarded /\ Todo(work) = {}
  BY <1>5, <1>6, <1>7, ExpireJobFact, IdleFact
<1>9. StepInv' /\ diverged'.now \subseteq Keys \X Addresses /\ diverged'.ever \subseteq Groups
  <2>1. {} \in SUBSET (Keys \X Addresses)
    OBVIOUS
  <2>2. \A q \in Keys, b \in Addresses :
          /\ \/ Holds(policy', q, b) <=> Serves(streams', q, b)
             \/ <<q, b>> \in {} \cup Todo(work')
             \/ /\ Holds(policy', q, b) <=> Holds(policy, q, b)
                /\ Serves(streams', q, b) <=> Serves(streams, q, b)
                /\ <<q, b>> \notin Todo(work)
          /\ <<q, b>> \in Todo(work') => ~Holds(policy', q, b)
    BY <1>3, <1>5, <1>8
  <2>3. QED BY <1>5, <2>1, <2>2, InStepFact
<1>10. Shape'
  BY <1>3, <1>5, <1>8, <1>9 DEF Shape, StartExpire
<1>11. QED BY <1>1, <1>9, <1>10

\* The memberships of an address lose a source and stay memberships.
LEMMA UnsubscribeFact ==
  ASSUME MembersOK(members), NEW k, NEW a, Unsubscribe(k, a)
  PROVE  MembersOK(members')
<1> DEFINE gone == {x \in DOMAIN members : x[1].addr = a /\ x[2] = k.group}
           left(m) == IF m.mode = "exclude" /\ k.source = Wild THEN {} ELSE m.sources \ {k.source}
           kept == {y \in DOMAIN members : y \notin gone \/ left(members[y]) # {}}
<1>1. members' = [x \in kept |-> IF x \in gone THEN [members[x] EXCEPT !.sources = left(members[x])] ELSE members[x]]
  BY DEF Unsubscribe
<1>2. kept \subseteq DOMAIN members
  OBVIOUS
<1>3. \A m \in Modes : left(m) \in SUBSET AllSources
  BY DEF Modes
<1>4. \A m \in Modes, s \in SUBSET AllSources : [m EXCEPT !.sources = s] \in Modes
  BY DEF Modes
<1> HIDE DEF gone, left, kept
<1>5. ASSUME NEW x \in kept PROVE members'[x] \in Modes
  <2>1. members[x] \in Modes
    BY <1>2 DEF MembersOK
  <2>2. PICK m \in Modes, s \in SUBSET AllSources : m = members[x] /\ s = left(members[x])
    BY <1>3, <2>1
  <2>3. members'[x] = [m EXCEPT !.sources = s] \/ members'[x] = m
    BY <1>1, <2>2
  <2>4. QED BY <1>4, <2>3
<1>6. DOMAIN members' = kept
  BY <1>1
<1>7. QED BY <1>2, <1>5, <1>6 DEF MembersOK

LEMMA ExpireStep ==
  ASSUME Base, Shape, StepInv, NEW fault, ExpireGroup(fault)
  PROVE  Base' /\ Shape' /\ StepInv'
<1>1. /\ work = ExpireJob(work.todo) /\ Todo(work) = TodoPairs(work.todo)
      /\ \A x \in work.todo : x.key \in Keys /\ x.addr \in Addresses
  BY ExpiringFact DEF ExpireGroup
<1>2. PICK x \in work.todo :
        IF x.key \notin DOMAIN streams
        THEN /\ work' = [work EXCEPT !.todo = @ \ {x}]
             /\ UNCHANGED <<streams, pending, rules, members, diverged>> /\ NoReport
        ELSE LET who == {c \in DOMAIN streams[x.key] : c.addr = x.addr}
             IN \E gone \in IF who = {} THEN {{}} ELSE {{c} : c \in who} : Withdraw(x, gone, fault)
  BY DEF ExpireGroup
<1> DEFINE k == x.key
           a == x.addr
           rest == work.todo \ {x}
           lost == TodoPairs(rest)
<1>3. k \in Keys /\ a \in Addresses /\ policy' = policy
  BY <1>1, <1>2 DEF ExpireGroup
<1>4. k.group \in Groups
  BY <1>3, KeyFact
<1>5. /\ \A q, b : <<q, b>> \in Todo(work) <=> <<q, b>> \in lost \/ <<q, b>> = <<k, a>>
      /\ lost \in SUBSET (Keys \X Addresses)
  <2>1. Todo(work) = lost \cup {<<k, a>>}
    BY <1>1, <1>2 DEF TodoPairs
  <2>2. lost \in SUBSET (Keys \X Addresses)
    BY <1>1, <1>2 DEF TodoPairs
  <2>3. QED BY <2>1, <2>2
<1> DEFINE job == ExpireJob(rest)
<1>7. JobOK(job) /\ Todo(job) = lost
  <2>1. PICK t, w : t = rest /\ w = ExpireJob(t)
    OBVIOUS
  <2>2. \A y \in t : y.key \in Keys /\ y.addr \in Addresses
    BY <1>1, <2>1
  <2>3. JobOK(w) /\ Todo(w) = TodoPairs(t)
    BY <2>1, <2>2, ExpireJobFact
  <2>4. QED BY <2>1, <2>3
<1>8. [work EXCEPT !.todo = rest] = job
  <2>1. \A t : [work EXCEPT !.todo = t] = ExpireJob(t)
    BY <1>1 DEF ExpireJob
  <2>2. QED BY <2>1
<1>9. /\ StreamsOK(streams) /\ DOMAIN rules \subseteq Keys /\ DOMAIN pending \subseteq Keys \X Clients
      /\ MembersOK(members)
  BY DEF Shape, Base
<1>10. CASE /\ k \notin DOMAIN streams /\ work' = [work EXCEPT !.todo = rest]
            /\ UNCHANGED <<streams, pending, rules, members, diverged>> /\ NoReport
  <2>1. work' = job /\ Todo(work') = lost
    BY <1>7, <1>8, <1>10
  <2> HIDE DEF job, lost
  <2>2. ASSUME NEW q \in Keys, NEW b \in Addresses
        PROVE  /\ \/ Holds(policy', q, b) <=> Serves(streams', q, b)
                  \/ <<q, b>> \in diverged'.now \cup Todo(work')
               /\ <<q, b>> \in Todo(work') => ~Holds(policy', q, b)
    <3>1. /\ \/ Holds(policy, q, b) <=> Serves(streams, q, b)
             \/ <<q, b>> \in diverged.now \cup Todo(work)
          /\ <<q, b>> \in Todo(work) => ~Holds(policy, q, b)
      BY DEF StepInv
    <3>2. ~Serves(streams, k, b)
      BY <1>10 DEF Serves
    <3>3. <<q, b>> \in lost \/ ~(<<q, b>> \in Todo(work)) \/ q = k
      BY <1>5
    <3>4. <<q, b>> \in lost => <<q, b>> \in Todo(work)
      BY <1>5
    <3>5. QED BY <1>3, <1>10, <2>1, <3>1, <3>2, <3>3, <3>4
  <2>3. StepInv'
    BY <2>2 DEF StepInv
  <2>4. missed' = missed /\ JobOK(work')
    BY <1>7, <1>10, <2>1 DEF NoReport
  <2>5. Shape'
    BY <1>3, <1>10, <2>4 DEF Shape
  <2>6. Base'
    BY <1>10, StrikeFact, BaseFact DEF ExpireGroup
  <2>7. QED BY <2>3, <2>5, <2>6
<1>11. ASSUME k \in DOMAIN streams,
              NEW gone \in IF {c \in DOMAIN streams[k] : c.addr = a} = {} THEN {{}}
                           ELSE {{c} : c \in {e \in DOMAIN streams[k] : e.addr = a}},
              Withdraw(x, gone, fault)
       PROVE  Base' /\ Shape' /\ StepInv'
  <2> DEFINE left == Restrict(streams[k], DOMAIN streams[k] \ gone)
             twins == UNION {Shared(k, c) : c \in gone}
             after == IF DOMAIN left = {} THEN Without(streams, k) ELSE [streams EXCEPT ![k] = left]
  <2>0. /\ pending' = Restrict(pending, DOMAIN pending \ ({k} \X gone))
        /\ streams' = [streams EXCEPT ![k] = left] \/ streams' = after
        /\ rules' = rules \/ rules' = Without(rules, k) \/ \E r : rules' = With(rules, k, r)
        /\ members' = members \/ Unsubscribe(k, a)
        /\ NoReport \/ \E j : SendReport(x.profile, k.group, j, Aggregate(k.group, after), fault)
        /\ \/ fault = "none" /\ Parted(twins \cup {}, {}) /\ work' = [work EXCEPT !.todo = rest]
           \/ fault # "none" /\ Parted(twins \cup lost, {}) /\ work' = Idle
    <3> DEFINE said == \/ Profile(x.profile).function = 0
                       \/ (Aggregate(k.group, streams) # None /\ Aggregate(k.group, after) # Aggregate(k.group, streams))
    <3>1. PICK was \in Effective(streams[k]), now \in Effective(left) :
            /\ fault # "query" /\ (fault = "tc" => DOMAIN left = {} \/ was # now) /\ (fault = "send" => said)
            /\ pending' = Restrict(pending, DOMAIN pending \ ({k} \X gone))
            /\ IF fault = "tc"
               THEN /\ streams' = [streams EXCEPT ![k] = left]
                    /\ UNCHANGED <<rules, members>> /\ NoReport
               ELSE /\ streams' = after
                    /\ rules' = CASE DOMAIN left = {} -> Without(rules, k)
                                  [] ~DOMAIN left = {} /\ was # now -> With(rules, k, now)
                                  [] OTHER -> rules
                    /\ Unsubscribe(k, a)
                    /\ IF said THEN SendLeave(x.profile, k.group, Aggregate(k.group, after), fault) ELSE NoReport
            /\ Parted(twins \cup IF fault = "none" THEN {} ELSE {<<y.key, y.addr>> : y \in rest}, {})
            /\ work' = IF fault = "none" THEN [work EXCEPT !.todo = rest] ELSE Idle
      <4>1. Withdraw(x, gone, fault)
        BY <1>11
      <4>2. QED BY <4>1 DEF Withdraw
    <3> HIDE DEF said, left, twins, after
    <3>2. rules' = rules \/ rules' = Without(rules, k) \/ \E r : rules' = With(rules, k, r)
      BY <3>1
    <3>3. NoReport \/ \E j : SendReport(x.profile, k.group, j, Aggregate(k.group, after), fault)
      BY <3>1, Zenon DEF SendLeave
    <3>4. members' = members \/ Unsubscribe(k, a)
      BY <3>1, Zenon
    <3>5. streams' = [streams EXCEPT ![k] = left] \/ streams' = after
      BY <3>1, Zenon
    <3>6. \/ fault = "none" /\ Parted(twins \cup {}, {}) /\ work' = [work EXCEPT !.todo = rest]
          \/ fault # "none" /\ Parted(twins \cup lost, {}) /\ work' = Idle
      BY <3>1, Zenon DEF TodoPairs
    <3>7. QED BY <3>1, <3>2, <3>3, <3>4, <3>5, <3>6, Zenon
  <2>1. \A c \in DOMAIN streams[k] : c \in gone => c.addr = a
    BY <1>11
  <2>2. DOMAIN left = DOMAIN streams[k] \ gone
    BY DEF Restrict
  <2>16. gone \subseteq Clients /\ \A c \in gone : c.addr = a
    BY <1>9, <1>11 DEF StreamsOK
  <2>17. /\ \A y \in twins : y = <<k, a>>
         /\ twins \in SUBSET (Keys \X Addresses)
    <3>1. \A c \in gone : \A y \in Shared(k, c) : y = <<k, a>>
      BY <1>9, <2>16, SharedFact
    <3>2. \A y \in twins : y = <<k, a>>
      BY <3>1
    <3>3. QED BY <1>3, <3>2
  <2>18. ASSUME NEW d \in DOMAIN streams[k] \ gone, d.addr = a PROVE <<k, a>> \in twins
    <3>1. PICK c \in DOMAIN streams[k] : c.addr = a /\ gone = {c}
      BY <1>11, <2>18
    <3>2. c \in Clients
      BY <2>16, <3>1
    <3>3. <<k, c.addr>> \in Shared(k, c)
      BY <1>9, <1>11, <2>18, <3>1, <3>2, SharedFact
    <3>4. QED BY <3>1, <3>3
  <2> HIDE DEF left, after, twins
  <2>3. PICK new : new = streams' /\ (new = [streams EXCEPT ![k] = left] \/ (DOMAIN left = {} /\ new = Without(streams, k)))
    BY <2>0 DEF after
  <2>4. Departs(streams, k, gone, a, new)
    <3>1. CASE new = [streams EXCEPT ![k] = left]
      BY <1>11, <2>1, <2>2, <3>1 DEF Departs
    <3>2. CASE DOMAIN left = {} /\ new = Without(streams, k)
      <4>1. DOMAIN new = DOMAIN streams \ {k} /\ \A y \in DOMAIN new \ {k} : new[y] = streams[y]
        BY <3>2 DEF Without, RestrictDomain, Restrict
      <4>2. QED BY <2>1, <2>2, <3>2, <4>1 DEF Departs
    <3>3. QED BY <2>3, <3>1, <3>2
  <2>5. /\ StreamsOK(streams')
        /\ \A q, b : <<q, b>> # <<k, a>> => (Serves(streams', q, b) <=> Serves(streams, q, b))
        /\ Serves(streams', k, a) => <<k, a>> \in twins
    BY <1>9, <2>3, <2>4, <2>18, LeftFact
  <2>6. PICK more : more = twins \cup (IF fault = "none" THEN {} ELSE lost)
    OBVIOUS
  <2>7. /\ more \in SUBSET (Keys \X Addresses) /\ Parted(more, {}) /\ JobOK(work')
        /\ more \cup Todo(work') = twins \cup lost /\ Todo(work') \subseteq lost
    <3>1. CASE fault = "none"
      BY <1>5, <1>7, <1>8, <2>0, <2>6, <2>17, <3>1
    <3>2. CASE fault # "none"
      BY <1>5, <2>0, <2>6, <2>17, <3>2, IdleFact
    <3>3. QED BY <3>1, <3>2
  <2>8. ASSUME NEW q \in Keys, NEW b \in Addresses
        PROVE  /\ \/ Holds(policy', q, b) <=> Serves(streams', q, b)
                  \/ <<q, b>> \in more \cup Todo(work')
                  \/ /\ Holds(policy', q, b) <=> Holds(policy, q, b)
                     /\ Serves(streams', q, b) <=> Serves(streams, q, b)
                     /\ <<q, b>> \notin Todo(work)
               /\ <<q, b>> \in Todo(work') => ~Holds(policy', q, b)
    <3>1. <<q, b>> \in Todo(work) => ~Holds(policy, q, b)
      BY DEF StepInv
    <3>2. <<q, b>> \in Todo(work') => <<q, b>> \in Todo(work)
      BY <1>5, <2>7
    <3>3. QED BY <1>3, <1>5, <2>5, <2>7, <3>1, <3>2
  <2>9. StepInv' /\ diverged'.now \subseteq Keys \X Addresses /\ diverged'.ever \subseteq Groups
    <3>1. {} \in SUBSET (Keys \X Addresses)
      OBVIOUS
    <3>2. QED BY <2>7, <2>8, <3>1, InStepFact
  <2>10. DOMAIN rules' \subseteq Keys /\ DOMAIN pending' \subseteq Keys \X Clients
    BY <1>3, <1>9, <2>0 DEF With, Without, RestrictDomain, Restrict
  <2>11. missed' \subseteq Groups
    BY <1>4, <2>0, ReportFact
  <2>12. Shape'
    BY <1>3, <2>5, <2>7, <2>9, <2>10, <2>11 DEF Shape
  <2>13. MembersOK(members')
    BY <1>9, <2>0, UnsubscribeFact
  <2>14. Base'
    BY <2>13, StrikeFact DEF Base, ExpireGroup
  <2>15. QED BY <2>9, <2>12, <2>14
<1>12. QED BY <1>2, <1>10, <1>11

TimerJob(op, todo) == [op |-> op, todo |-> todo]

LEMMA TimerJobFact ==
  ASSUME NEW op \in {"leaves", "age"}, NEW todo \in SUBSET (Keys \X Clients), NEW w, w = TimerJob(op, todo)
  PROVE  JobOK(w) /\ Todo(w) = {}
BY DEF TimerJob, JobOK, Todo

LEMMA WorkingFact ==
  ASSUME Shape, work.op \in {"leaves", "age"}
  PROVE  /\ work = TimerJob(work.op, work.todo) /\ work.todo \in SUBSET (Keys \X Clients) /\ Todo(work) = {}
         /\ \A t : [work EXCEPT !.todo = t] = TimerJob(work.op, t)
<1>1. work = TimerJob(work.op, work.todo) /\ work.todo \in SUBSET (Keys \X Clients) /\ Todo(work) = {}
  BY DEF Shape, JobOK, Idle, Todo, TimerJob
<1>2. QED BY <1>1 DEF TimerJob

LEMMA QueriesStep ==
  ASSUME Base, Shape, StepInv, NEW fault, NEW due \in SUBSET DOMAIN pending, GeneralQueries(due, fault)
  PROVE  Base' /\ Shape' /\ StepInv'
<1>1. Base'
  BY StrikeFact, BaseFact DEF GeneralQueries
<1>2. Todo(work) = {}
  BY DEF GeneralQueries, Todo
<1>3. due \in SUBSET (Keys \X Clients)
  BY DEF Shape
<1>4. work' = Idle \/ work' = TimerJob("leaves", due)
  BY DEF GeneralQueries, TimerJob
<1>5. JobOK(work') /\ Todo(work') = {}
  BY <1>3, <1>4, TimerJobFact, IdleFact
<1>6. Shape' /\ StepInv'
  BY <1>2, <1>5, QuietFact DEF GeneralQueries, Shape
<1>7. QED BY <1>1, <1>6

LEMMA LeaveStep ==
  ASSUME Base, Shape, StepInv, NEW fault, RunLeave(fault)
  PROVE  Base' /\ Shape' /\ StepInv'
<1>1. /\ work = TimerJob(work.op, work.todo) /\ work.todo \in SUBSET (Keys \X Clients) /\ Todo(work) = {}
      /\ work.op = "leaves" /\ \A t : [work EXCEPT !.todo = t] = TimerJob(work.op, t)
  BY WorkingFact DEF RunLeave
<1>2. Base'
  BY StrikeFact, BaseFact DEF RunLeave
<1>3. PICK x \in work.todo : \E next, report :
        /\ next = [work EXCEPT !.todo = @ \ {x}]
        /\ \/ /\ pending' = Without(pending, x) /\ work' = next
              /\ UNCHANGED <<policy, streams, rules, diverged>> /\ NoReport
           \/ /\ pending' = pending \/ pending' = [pending EXCEPT ![x] = @ - 1]
              /\ work' = Idle \/ work' = next
              /\ UNCHANGED <<policy, streams, rules, diverged>> /\ NoReport
           \/ Finalize(x[1], x[2], report, fault, next)
  BY DEF RunLeave
<1>4. PICK next, report :
        /\ next = [work EXCEPT !.todo = @ \ {x}]
        /\ \/ /\ pending' = Without(pending, x) /\ work' = next
              /\ UNCHANGED <<policy, streams, rules, diverged>> /\ NoReport
           \/ /\ pending' = pending \/ pending' = [pending EXCEPT ![x] = @ - 1]
              /\ work' = Idle \/ work' = next
              /\ UNCHANGED <<policy, streams, rules, diverged>> /\ NoReport
           \/ Finalize(x[1], x[2], report, fault, next)
  BY <1>3
<1>5. x[1] \in Keys /\ x[2] \in Clients
  BY <1>1
<1>6. JobOK(next) /\ Todo(next) = {}
  <2>1. PICK t \in SUBSET (Keys \X Clients) : t = work.todo \ {x}
    BY <1>1
  <2>2. next = TimerJob("leaves", t)
    BY <1>1, <1>4, <2>1
  <2>3. QED BY <2>2, TimerJobFact
<1>7. CASE /\ pending' = Without(pending, x) \/ pending' = pending \/ pending' = [pending EXCEPT ![x] = @ - 1]
           /\ work' = Idle \/ work' = next
           /\ UNCHANGED <<policy, streams, rules, diverged>> /\ NoReport
  <2>1. JobOK(work') /\ Todo(work') = {}
    BY <1>6, <1>7, IdleFact
  <2>2. DOMAIN pending' \subseteq Keys \X Clients
    BY <1>7 DEF Shape, Without, RestrictDomain, Restrict
  <2>3. missed' \subseteq Groups
    BY <1>7 DEF Shape, NoReport
  <2>4. QED BY <1>1, <1>2, <1>7, <2>1, <2>2, <2>3, QuietFact
<1>8. CASE Finalize(x[1], x[2], report, fault, next)
  BY <1>1, <1>2, <1>5, <1>6, <1>8, FinalizeFact
<1>9. QED BY <1>4, <1>7, <1>8

LEMMA AgeingStep ==
  ASSUME Base, Shape, StepInv, NEW silent \in SUBSET Ageable, StartAgeing(silent)
  PROVE  Base' /\ Shape' /\ StepInv'
<1>1. Base'
  BY BaseFact DEF StartAgeing, Base
<1>2. Todo(work) = {}
  BY DEF StartAgeing, Todo
<1>3. silent \in SUBSET (Keys \X Clients)
  <2>1. ASSUME NEW x \in Ageable PROVE x \in Keys \X Clients
    BY DEF Ageable, Shape, StreamsOK
  <2>2. QED BY <2>1
<1>4. work' = Idle \/ work' = TimerJob("age", silent)
  BY DEF StartAgeing, TimerJob
<1>5. JobOK(work') /\ Todo(work') = {}
  BY <1>3, <1>4, TimerJobFact, IdleFact
<1>6. Shape' /\ StepInv'
  BY <1>2, <1>5, QuietFact DEF StartAgeing, Shape
<1>7. QED BY <1>1, <1>6

LEMMA AgeStep ==
  ASSUME Base, Shape, StepInv, NEW fault, AgeClient(fault)
  PROVE  Base' /\ Shape' /\ StepInv'
<1>1. /\ work.todo \in SUBSET (Keys \X Clients) /\ Todo(work) = {}
      /\ work.op = "age" /\ \A t : [work EXCEPT !.todo = t] = TimerJob(work.op, t)
  BY WorkingFact DEF AgeClient
<1>2. Base'
  BY StrikeFact, BaseFact DEF AgeClient
<1>3. PICK x \in work.todo : \E next :
        /\ next = IF work.todo \ {x} = {} THEN Idle ELSE [work EXCEPT !.todo = work.todo \ {x}]
        /\ Finalize(x[1], x[2], TRUE, fault, next)
  BY DEF AgeClient
<1>4. PICK next :
        /\ next = IF work.todo \ {x} = {} THEN Idle ELSE [work EXCEPT !.todo = work.todo \ {x}]
        /\ Finalize(x[1], x[2], TRUE, fault, next)
  BY <1>3
<1>5. x[1] \in Keys /\ x[2] \in Clients
  BY <1>1
<1>6. JobOK(next) /\ Todo(next) = {}
  <2>1. PICK t \in SUBSET (Keys \X Clients) : t = work.todo \ {x}
    BY <1>1
  <2>2. next = Idle \/ next = TimerJob("age", t)
    BY <1>1, <1>4, <2>1
  <2>3. QED BY <2>2, TimerJobFact, IdleFact
<1>7. QED BY <1>1, <1>2, <1>4, <1>5, <1>6, FinalizeFact

-----------------------------------------------------------------------------
(* The rest of the daemon.                                                 *)

LEMMA PublishStep ==
  ASSUME Base, Shape, StepInv, Publish
  PROVE  Base' /\ Shape' /\ StepInv'
<1>1. Base'
  BY BaseFact DEF Publish, Base
<1>2. PICK live : live = Unexpired(policy)
  OBVIOUS
<1>3. /\ PolicyOK(live) /\ Discarded \in SUBSET (Keys \X Addresses)
      /\ \A k, a : Holds(live, k, a) <=> Holds(policy, k, a) /\ <<k, a>> \notin Discarded
  BY <1>2, LiveFact DEF Shape
<1>4. /\ policy' = live /\ Parted(Discarded, {}) /\ UNCHANGED <<streams, rules, pending, missed, work>>
      /\ work = Idle
  BY <1>2 DEF Publish
<1>5. JobOK(work') /\ Todo(work') = {} /\ Todo(work) = {}
  BY <1>4, IdleFact
<1>6. \A q \in Keys, b \in Addresses :
        <<q, b>> \in Discarded \/ (Holds(policy', q, b) <=> Holds(policy, q, b))
  BY <1>3, <1>4
<1>7. StreamsOK(streams') /\ DOMAIN rules' \subseteq Keys /\ DOMAIN pending' \subseteq Keys \X Clients /\ missed' \subseteq Groups
  BY <1>4 DEF Shape
<1>8. Shape' /\ StepInv'
  BY <1>3, <1>4, <1>5, <1>6, <1>7, TogetherFact
<1>9. QED BY <1>1, <1>8

\* The state of a policy just installed.
LEMMA FreshFact ==
  ASSUME policy = << >>, members = << >>, streams = << >>, pending = << >>, rules = << >>,
         missed = {}, diverged = Agreed, work = Idle
  PROVE  Shape /\ StepInv /\ MembersOK(members)
<1>1. \A k, a : ~Holds(policy, k, a) /\ ~Serves(streams, k, a)
  BY DEF Holds, Serves
<1>2. StepInv
  BY <1>1, IdleFact DEF StepInv
<1>3. Shape
  BY IdleFact DEF Shape, PolicyOK, StreamsOK, Agreed
<1>4. QED BY <1>2, <1>3 DEF MembersOK

LEMMA FreshFactNext ==
  ASSUME policy' = << >>, members' = << >>, streams' = << >>, pending' = << >>, rules' = << >>,
         missed' = {}, diverged' = Agreed, work' = Idle
  PROVE  Shape' /\ StepInv' /\ MembersOK(members')
<1>1. \A k, a : ~Holds(policy', k, a) /\ ~Serves(streams', k, a)
  BY DEF Holds, Serves
<1>2. StepInv'
  BY <1>1, IdleFact DEF StepInv
<1>3. Shape'
  BY IdleFact DEF Shape, PolicyOK, StreamsOK, Agreed
<1>4. QED BY <1>2, <1>3 DEF MembersOK

LEMMA DeadlinesFact ==
  ASSUME NEW new, NEW old, NEW was
  PROVE  AllowedDeadlines(new, old, was) \in [TimedRows(new) -> BOOLEAN]
<1> DEFINE R == TimedRows(new)
<1> HIDE DEF R
<1>1. ASSUME NEW a \in R PROVE (a \in TimedRows(old) => was[a]) \in BOOLEAN
  BY Zenon
<1>2. [a \in R |-> a \in TimedRows(old) => was[a]] \in [R -> BOOLEAN]
  BY <1>1, Zenon
<1>3. QED BY <1>2, Zenon DEF AllowedDeadlines, R

LEMMA ReloadStep ==
  ASSUME Base, Shape, StepInv, NEW new \in Configs, NEW fault, Reload(new, fault)
  PROVE  Base' /\ Shape' /\ StepInv'
<1>1. work = Idle /\ work' = work /\ faults' \in 0 .. MaxFaults
  BY StrikeFact DEF Reload
<1>2. CASE ValidConfig(new) /\ fault = "none"
  <2>1. Shape' /\ StepInv' /\ MembersOK(members')
    BY <1>1, <1>2, FreshFactNext DEF Reload
  <2>2. cfg' = new /\ running' = AllowedDeadlines(new, cfg, running)
    BY <1>2 DEF Reload
  <2>3. running' \in [TimedRows(cfg') -> BOOLEAN]
    BY <2>2, DeadlinesFact
  <2>4. QED BY <1>1, <1>2, <2>1, <2>2, <2>3 DEF Base
<1>3. CASE ~(ValidConfig(new) /\ fault = "none")
  <2>1. Shape' /\ StepInv'
    BY <1>1, <1>3, QuietFact DEF Reload, Shape
  <2>2. QED BY <1>1, <1>3, <2>1, BaseFact DEF Reload
<1>4. QED BY <1>2, <1>3

LEMMA LearnStep ==
  ASSUME Base, Shape, StepInv, NEW qrv, NEW mld, LearnQuery(qrv, mld)
  PROVE  Base' /\ Shape' /\ StepInv'
<1>1. Base'
  BY BaseFact DEF LearnQuery, Base
<1>2. Shape' /\ StepInv'
  BY QuietFact DEF LearnQuery, Shape
<1>3. QED BY <1>1, <1>2

Due(e) == [e EXCEPT !.timer = "due"]

LEMMA DueFact ==
  ASSUME NEW e, IsEntry(e), NEW f, f = Due(e)
  PROVE  IsEntry(f) /\ f.timer = "due" /\ f.clients = e.clients
<1>1. f = [timer |-> "due", lender |-> e.lender, profile |-> e.profile, path |-> e.path,
           bandwidth |-> e.bandwidth, service |-> e.service, clients |-> e.clients]
  BY DEF IsEntry, Due
<1>2. QED BY <1>1 DEF IsEntry

\* A deadline that passes leaves the clients of the stream alone.
LEMMA DeadlineStep ==
  ASSUME Base, Shape, StepInv, DeadlinePasses
  PROVE  Base' /\ Shape' /\ StepInv'
<1>1. PolicyOK(policy) /\ running \in [TimedRows(cfg) -> BOOLEAN]
  BY DEF Shape, Base
<1>2. /\ DOMAIN policy' = DOMAIN policy
      /\ \A k \in DOMAIN policy : policy'[k] = policy[k] \/ policy'[k] = Due(policy[k])
      /\ running' \in [TimedRows(cfg) -> BOOLEAN]
  <2>1. ASSUME NEW k \in Keys, PreviewEnds(k)
        PROVE  /\ DOMAIN policy' = DOMAIN policy /\ running' = running
               /\ \A q \in DOMAIN policy : policy'[q] = policy[q] \/ policy'[q] = Due(policy[q])
    BY <2>1 DEF PreviewEnds, Due
  <2>2. ASSUME NEW a \in DOMAIN running, AllowedEnds(a)
        PROVE  /\ DOMAIN policy' = DOMAIN policy /\ running' \in [TimedRows(cfg) -> BOOLEAN]
               /\ \A q \in DOMAIN policy : policy'[q] = policy[q] \/ policy'[q] = Due(policy[q])
    <3>1. running' \in [TimedRows(cfg) -> BOOLEAN]
      BY <1>1, <2>2 DEF AllowedEnds
    <3>2. QED BY <2>2, <3>1 DEF AllowedEnds, Due
  <2>3. QED BY <1>1, <2>1, <2>2 DEF DeadlinePasses
<1>3. \A k \in DOMAIN policy : /\ IsEntry(policy'[k]) /\ policy'[k].timer \in {"open", "preview", "due"}
                               /\ policy'[k].clients = policy[k].clients
  BY <1>1, <1>2, DueFact DEF PolicyOK
<1>4. PolicyOK(policy') /\ \A k, a : Holds(policy', k, a) <=> Holds(policy, k, a)
  BY <1>1, <1>2, <1>3 DEF PolicyOK, Holds
<1>5. UNCHANGED <<streams, diverged, work>>
  BY DEF DeadlinePasses
<1>6. StepInv'
  BY <1>4, <1>5 DEF StepInv
<1>7. Shape'
  BY <1>4, <1>5 DEF Shape, DeadlinePasses
<1>8. Base'
  BY <1>2 DEF Base, DeadlinePasses
<1>9. QED BY <1>6, <1>7, <1>8

-----------------------------------------------------------------------------
\* Engine and runtime begin in step.
LEMMA InitPolicyInv == Init => PolicyInv
<1>1. SUFFICES ASSUME Init PROVE Base /\ Shape /\ StepInv /\ HaltedOK
  BY PartsFact
<1>2. Shape /\ StepInv /\ MembersOK(members)
  BY <1>1, FreshFact DEF Init
<1>3. cfg \in Configs /\ ValidConfig(cfg) /\ faults = 0 /\ running = [a \in TimedRows(cfg) |-> TRUE]
  BY <1>1 DEF Init
<1>4. running \in [TimedRows(cfg) -> BOOLEAN] /\ faults \in 0 .. MaxFaults
  BY <1>3, AddressAssumption
<1>5. HaltedOK
  BY <1>1 DEF Init, HaltedOK
<1>6. QED BY <1>2, <1>3, <1>4, <1>5 DEF Base

\* Only the client and the group of a report are recorded.
LEMMA HaltedFact ==
  ASSUME Shape, HaltedOK, [Next]_vars
  PROVE  HaltedOK'
<1>1. ASSUME work.op = "record" PROVE <<work.client, work.group>> \in Clients \X Groups
  <2>1. work \in RecordJobs
    BY <1>1, RecordFact DEF Shape
  <2>2. QED BY <2>1 DEF RecordJobs
<1>2. CASE JobStep
  <2>1. ASSUME NEW fault, DropSource(fault) \/ AddSource(fault) \/ KeepSource(fault) PROVE HaltedOK'
    BY <1>1, <2>1 DEF DropSource, AddSource, KeepSource, Halting, HaltedOK
  <2>2. ASSUME NEW fault, ExpireGroup(fault) \/ RunLeave(fault) \/ AgeClient(fault) PROVE HaltedOK'
    BY <2>2 DEF ExpireGroup, RunLeave, AgeClient, HaltedOK
  <2>3. ASSUME NEW fault, NEW due, GeneralQueries(due, fault) PROVE HaltedOK'
    BY <2>3 DEF GeneralQueries, HaltedOK
  <2>4. ASSUME NEW silent, StartAgeing(silent) PROVE HaltedOK'
    BY <2>4 DEF StartAgeing, HaltedOK
  <2>5. CASE CommitRecord
    BY <2>5 DEF CommitRecord, HaltedOK
  <2>6. QED BY <1>2, <2>1, <2>2, <2>3, <2>4, <2>5 DEF JobStep
<1>3. ASSUME NEW new, NEW fault, Reload(new, fault) PROVE HaltedOK'
  BY <1>3 DEF Reload, HaltedOK
<1>4. CASE ~JobStep /\ ~\E new \in Configs, fault \in Faults : Reload(new, fault)
  BY <1>4 DEF Next, Report, StartExpire, Publish, LearnQuery, DeadlinePasses, vars, HaltedOK
<1>5. QED BY <1>2, <1>3, <1>4

\* Every step keeps engine and runtime in step, up to the pairs on record.
LEMMA NextPolicyInv == PolicyInv /\ [Next]_vars => PolicyInv'
<1>0. PolicyInv /\ [Next]_vars => HaltedOK'
  BY PartsFact, HaltedFact
<1>1. SUFFICES ASSUME Base, Shape, StepInv, [Next]_vars PROVE Base' /\ Shape' /\ StepInv'
  BY <1>0, PartsFact, PartsFactNext
<1>2. CASE \E c \in Clients, g \in Groups, rec \in Records : Report(c, g, rec)
  BY <1>1, <1>2, ReportStep
<1>3. CASE JobStep
  BY <1>1, <1>3, DropStep, AddStep, KeepStep, ExpireStep, LeaveStep, AgeStep, QueriesStep,
     CommitStep, AgeingStep DEF JobStep
<1>4. CASE StartExpire
  BY <1>1, <1>4, StartExpireStep
<1>5. CASE Publish
  BY <1>1, <1>5, PublishStep
<1>6. CASE \E new \in Configs, fault \in Faults : Reload(new, fault)
  BY <1>1, <1>6, ReloadStep
<1>7. CASE \E qrv \in Learnable, mld \in BOOLEAN : LearnQuery(qrv, mld)
  BY <1>1, <1>7, LearnStep
<1>8. CASE DeadlinePasses
  BY <1>1, <1>8, DeadlineStep
<1>9. CASE UNCHANGED vars
  BY <1>1, <1>9 DEF vars, Base, Shape, StepInv
<1>10. QED BY <1>1, <1>2, <1>3, <1>4, <1>5, <1>6, <1>7, <1>8, <1>9 DEF Next

\* The inductive invariant: the state is well-formed, and engine and runtime differ only over
\* pairs on record and over groups that Expire has taken from the engine and not yet withdrawn.
THEOREM Policies == Spec => []PolicyInv
BY InitPolicyInv, NextPolicyInv, PTL DEF Spec

\* Every map of runtime, engine and backend stays about known streams, clients and groups, no
\* stream of the engine is without clients, whatever calls fail and policies are installed.
THEOREM TypeCorrect == Spec => []TypeOK
<1>1. PolicyInv => TypeOK
  BY DEF PolicyInv
<1>2. QED BY <1>1, Policies, PTL

\* Engine and runtime hold the same clients of the same streams whenever Runtime.mu is free,
\* after failed tc and send calls, rollbacks, expired previews, leaves and ageing, but for the
\* pairs whose deadline Join or Monitor noticed first, that were refreshed after ageing out, or
\* that lost their entry to another client with the same address.
THEOREM InStep == Spec => []PolicyInStep
<1>1. ASSUME PolicyInv PROVE PolicyInStep
  <2>1. Base /\ Shape /\ StepInv
    BY <1>1, PartsFact
  <2>2. ASSUME work = Idle, NEW x \in Pairs(policy) \cup StreamPairs
        PROVE  x \in Pairs(policy) \cap StreamPairs \/ x \in diverged.now
    <3>1. x \in Keys \X Addresses
      <4>1. \A y \in Pairs(policy) : y \in Keys \X Addresses
        BY <2>1 DEF Shape, PolicyOK, Pairs
      <4>2. \A y \in StreamPairs : y \in Keys \X Addresses
        BY <2>1, KeyFact DEF Shape, StreamsOK, StreamPairs
      <4>3. QED BY <4>1, <4>2
    <3>2. PICK k \in Keys, a \in Addresses : x = <<k, a>>
      BY <3>1
    <3>3. (x \in Pairs(policy) <=> Holds(policy, k, a)) /\ (x \in StreamPairs <=> Serves(streams, k, a))
      BY <3>2 DEF Pairs, StreamPairs, Holds, Serves
    <3>4. (Holds(policy, k, a) <=> Serves(streams, k, a)) \/ x \in diverged.now
      BY <2>1, <2>2, <3>2, IdleFact DEF StepInv
    <3>5. QED BY <2>2, <3>3, <3>4
  <2>3. QED BY <2>2 DEF PolicyInStep
<1>2. QED BY <1>1, Policies, PTL

-----------------------------------------------------------------------------
(* Pending leaves.                                                         *)

\* A job works towards its membership without losing sight of the timers of its client.
Cancels(w, pend) ==
  /\ \A s \in w.after : <<Key(s, w.group), w.client>> \in DOMAIN pend => s \in w.drop \cup w.keep
  /\ w.wanted.mode = "exclude" => w.after \subseteq w.drop \cup {Wild} /\ w.add \subseteq {Wild}

Parting(x) ==
  <<x[2], x[1].group>> \in halted \/ x[1].source \notin Forwarding(Membership(x[2], x[1].group))

LEMMA LeaveParts ==
  LeaveInv <=> /\ \A x \in DOMAIN pending :
                    (work.op = "record" /\ x[2] = work.client /\ x[1].group = work.group) \/ Parting(x)
               /\ work.op = "record" => Cancels(work, pending)
BY DEF LeaveInv, Cancels, Parting

LEMMA LeavePartsNext ==
  LeaveInv' <=> /\ \A x \in DOMAIN pending' :
                     (work'.op = "record" /\ x[2] = work'.client /\ x[1].group = work'.group) \/ Parting(x)'
                /\ work'.op = "record" => Cancels(work', pending')
BY DEF LeaveInv, Cancels, Parting

LEMMA IdleOp == Idle.op = "idle"
BY DEF Idle

\* Outside a report timers only end and memberships only shrink.
LEMMA ShrinkFact ==
  ASSUME LeaveInv, work.op # "record", work'.op # "record", DOMAIN pending' \subseteq DOMAIN pending,
         halted' = halted,
         \A c, g : Forwarding(Membership(c, g))' \subseteq Forwarding(Membership(c, g))
  PROVE  LeaveInv'
<1>1. ASSUME NEW x \in DOMAIN pending' PROVE Parting(x)'
  <2>1. Parting(x)
    BY <1>1, LeaveParts
  <2>2. QED BY <2>1 DEF Parting
<1>2. QED BY <1>1, LeavePartsNext

LEMMA SameFact ==
  ASSUME LeaveInv, work.op # "record", work'.op # "record", DOMAIN pending' \subseteq DOMAIN pending,
         halted' = halted, members' = members
  PROVE  LeaveInv'
<1>1. \A c, g : Forwarding(Membership(c, g))' = Forwarding(Membership(c, g))
  BY DEF Forwarding, Membership
<1>2. QED BY <1>1, ShrinkFact

\* A report starts timers only for its own client and group; ending half way is recorded.
LEMMA ReportingFact ==
  ASSUME LeaveInv, work.op = "record", members' = members, Halting,
         \A x \in DOMAIN pending' : x \in DOMAIN pending \/ (x[2] = work.client /\ x[1].group = work.group),
         work' = Idle \/ (/\ work'.op = "record" /\ work'.client = work.client /\ work'.group = work.group
                          /\ Cancels(work', pending'))
  PROVE  LeaveInv'
<1>1. ASSUME NEW x \in DOMAIN pending, Parting(x) PROVE Parting(x)'
  BY <1>1 DEF Parting, Halting, Forwarding, Membership
<1>2. CASE work' = Idle
  <2>1. <<work.client, work.group>> \in halted'
    BY <1>2 DEF Halting
  <2>2. ASSUME NEW x \in DOMAIN pending' PROVE Parting(x)'
    <3>1. CASE x[2] = work.client /\ x[1].group = work.group
      BY <2>1, <3>1 DEF Parting
    <3>2. CASE ~(x[2] = work.client /\ x[1].group = work.group)
      BY <1>1, <2>2, <3>2, LeaveParts
    <3>3. QED BY <3>1, <3>2
  <2>3. QED BY <1>2, <2>2, IdleOp, LeavePartsNext
<1>3. CASE /\ work'.op = "record" /\ work'.client = work.client /\ work'.group = work.group
           /\ Cancels(work', pending')
  <2>1. ASSUME NEW x \in DOMAIN pending', ~(x[2] = work.client /\ x[1].group = work.group)
        PROVE  Parting(x)'
    BY <1>1, <2>1, LeaveParts
  <2>2. QED BY <1>3, <2>1, LeavePartsNext
<1>4. QED BY <1>2, <1>3

LEMMA FinalizePending ==
  ASSUME NEW k, NEW c, NEW report, NEW fault, NEW next, Finalize(k, c, report, fault, next)
  PROVE  /\ DOMAIN pending' \subseteq DOMAIN pending
         /\ work' = Idle \/ work' = next
<1>1. pending' = pending \/ pending' = Without(pending, <<k, c>>)
  BY DEF Finalize
<1>2. DOMAIN pending' \subseteq DOMAIN pending
  BY <1>1 DEF Without, RestrictDomain, Restrict
<1>3. work' = Idle \/ work' = next
  BY DEF Finalize
<1>4. QED BY <1>2, <1>3

LEMMA LeaveDrop ==
  ASSUME Shape, LeaveInv, NEW fault, DropSource(fault)
  PROVE  LeaveInv'
<1>1. work \in RecordJobs /\ work.op = "record" /\ Cancels(work, pending) /\ work.drop # {}
  BY RecordFact, LeaveParts DEF DropSource, Shape
<1>2. PICK s, k, c, next :
        /\ s = Min(work.drop) /\ k = Key(s, work.group) /\ c = work.client
        /\ next = [work EXCEPT !.drop = @ \ {s}, !.after = @ \ {s}]
  OBVIOUS
<1>3. /\ next.op = "record" /\ next.client = c /\ next.group = work.group /\ next.wanted = work.wanted
      /\ next.drop = work.drop \ {s} /\ next.after = work.after \ {s}
      /\ next.add = work.add /\ next.keep = work.keep
  BY <1>1, <1>2 DEF RecordJobs
<1>4. \A x \in DOMAIN pending' : x \in DOMAIN pending \/ x = <<k, c>>
  <2>1. CASE \E n : pending' = With(pending, <<k, c>>, n)
    BY <2>1 DEF With
  <2>2. CASE DOMAIN pending' \subseteq DOMAIN pending
    BY <2>2
  <2>3. QED BY <1>2, <2>1, <2>2, FinalizePending DEF DropSource, AskLastMember
<1>5. work' = Idle \/ work' = next
  BY <1>2, FinalizePending DEF DropSource, AskLastMember
<1>6. k.source = s /\ k.group = work.group
  BY <1>2 DEF Key
<1>7. Cancels(next, pending')
  <2>1. ASSUME NEW q \in next.after, <<Key(q, next.group), next.client>> \in DOMAIN pending'
        PROVE  q \in next.drop \cup next.keep
    <3>1. Key(q, work.group).source = q
      BY DEF Key
    <3>2. <<Key(q, work.group), work.client>> \in DOMAIN pending
      BY <1>2, <1>3, <1>4, <1>6, <2>1, <3>1
    <3>3. QED BY <1>1, <1>3, <2>1, <3>2 DEF Cancels
  <2>2. QED BY <1>1, <1>3, <2>1 DEF Cancels
<1>8. members' = members /\ Halting
  BY DEF DropSource
<1>9. \A x \in DOMAIN pending' : x \in DOMAIN pending \/ (x[2] = work.client /\ x[1].group = work.group)
  BY <1>2, <1>4, <1>6
<1>10. work' = Idle \/ (/\ work'.op = "record" /\ work'.client = work.client /\ work'.group = work.group
                        /\ Cancels(work', pending'))
  BY <1>2, <1>3, <1>5, <1>7
<1>11. QED BY <1>1, <1>8, <1>9, <1>10, ReportingFact

LEMMA LeaveAdd ==
  ASSUME Shape, LeaveInv, NEW fault, AddSource(fault)
  PROVE  LeaveInv'
<1>1. work \in RecordJobs /\ work.op = "record" /\ Cancels(work, pending) /\ work.drop = {} /\ work.add # {}
  BY RecordFact, LeaveParts DEF AddSource, Shape
<1>2. PICK k, c, s : s = Min(work.add) /\ k = Key(s, work.group) /\ c = work.client
  OBVIOUS
<1>3. k.source = s /\ k.group = work.group
  BY <1>2 DEF Key
<1>4. s \in work.add
  <2>1. AllSources \subseteq Nat
    BY AddressAssumption DEF AllSources, Wild
  <2>2. QED BY <1>1, <1>2, <2>1, LeastElement DEF RecordJobs
<1>5. PICK d \in JoinDecisions(k) : IF d.accepted THEN AdmitSource(k, c, d, fault) ELSE RejectSource(k, c, d, fault)
  BY <1>2 DEF AddSource
<1>6. members' = members /\ Halting
  BY DEF AddSource
<1>7. CASE RejectSource(k, c, d, fault)
  <2>1. PICK next : next = [work EXCEPT !.add = @ \ {s}]
    OBVIOUS
  <2>2. (work' = Idle \/ work' = next) /\ pending' = pending
    BY <1>3, <1>7, <2>1 DEF RejectSource
  <2>3. /\ next.op = "record" /\ next.client = c /\ next.group = work.group /\ next.wanted = work.wanted
        /\ next.drop = work.drop /\ next.after = work.after
        /\ next.add = work.add \ {s} /\ next.keep = work.keep
    BY <1>1, <1>2, <2>1 DEF RecordJobs
  <2>4. Cancels(next, pending')
    BY <1>1, <1>2, <2>2, <2>3 DEF Cancels
  <2>5. QED BY <1>1, <1>2, <1>6, <2>2, <2>3, <2>4, ReportingFact
<1>8. CASE AdmitSource(k, c, d, fault)
  <2>1. PICK next : next = [work EXCEPT !.add = @ \ {s}, !.after = @ \cup {s}]
    OBVIOUS
  <2>2. (work' = Idle \/ work' = next) /\ pending' = Without(pending, <<k, c>>)
    BY <1>3, <1>8, <2>1 DEF AdmitSource, CancelLeave
  <2>3. DOMAIN pending' = DOMAIN pending \ {<<k, c>>}
    BY <2>2 DEF Without, RestrictDomain, Restrict
  <2>4. /\ next.op = "record" /\ next.client = c /\ next.group = work.group /\ next.wanted = work.wanted
        /\ next.drop = work.drop /\ next.after = work.after \cup {s}
        /\ next.add = work.add \ {s} /\ next.keep = work.keep
    <3>1. PICK less, more : less = work.add \ {s} /\ more = work.after \cup {s}
      OBVIOUS
    <3>2. next = [work EXCEPT !.add = less, !.after = more]
      BY <2>1, <3>1
    <3>3. QED BY <1>1, <1>2, <3>1, <3>2 DEF RecordJobs
  <2>5. Cancels(next, pending')
    BY <1>1, <1>2, <1>4, <2>3, <2>4 DEF Cancels
  <2>6. QED BY <1>1, <1>2, <1>6, <2>2, <2>3, <2>4, <2>5, ReportingFact
<1>9. QED BY <1>5, <1>7, <1>8

LEMMA LeaveKeep ==
  ASSUME Shape, LeaveInv, NEW fault, KeepSource(fault)
  PROVE  LeaveInv'
<1>1. work \in RecordJobs /\ work.op = "record" /\ Cancels(work, pending) /\ work.drop = {} /\ work.keep # {}
  BY RecordFact, LeaveParts DEF KeepSource, Shape
<1>2. PICK k, c, s, next :
        /\ s = Min(work.keep) /\ k = Key(s, work.group) /\ c = work.client
        /\ next = [work EXCEPT !.keep = @ \ {s}]
  OBVIOUS
<1>3. k.source = s /\ k.group = work.group
  BY <1>2 DEF Key
<1>4. /\ next.op = "record" /\ next.client = c /\ next.group = work.group /\ next.wanted = work.wanted
      /\ next.drop = work.drop /\ next.after = work.after
      /\ next.add = work.add /\ next.keep = work.keep \ {s}
  BY <1>1, <1>2 DEF RecordJobs
<1>5. \/ work' = Idle /\ pending' = pending
      \/ (work' = Idle \/ work' = next) /\ pending' = Without(pending, <<k, c>>)
  BY <1>2, <1>3 DEF KeepSource, RefreshSource, CancelLeave
<1>6. members' = members /\ Halting
  BY DEF KeepSource
<1>7. \/ work' = Idle /\ pending' = pending
      \/ (work' = Idle \/ work' = next) /\ DOMAIN pending' = DOMAIN pending \ {<<k, c>>}
  BY <1>5 DEF Without, RestrictDomain, Restrict
<1>8. ASSUME DOMAIN pending' = DOMAIN pending \ {<<k, c>>} PROVE Cancels(next, pending')
  BY <1>1, <1>2, <1>4, <1>8 DEF Cancels
<1>9. CASE work' = Idle
  BY <1>1, <1>6, <1>7, <1>9, ReportingFact
<1>10. CASE work' = next /\ DOMAIN pending' = DOMAIN pending \ {<<k, c>>}
  BY <1>1, <1>2, <1>4, <1>6, <1>8, <1>10, ReportingFact
<1>11. QED BY <1>7, <1>9, <1>10

\* The membership that is remembered names no source with a timer.
LEMMA LeaveCommit ==
  ASSUME Shape, LeaveInv, CommitRecord
  PROVE  LeaveInv'
<1>1. /\ work \in RecordJobs /\ work.op = "record" /\ Cancels(work, pending)
      /\ work.drop = {} /\ work.add = {} /\ work.keep = {}
  BY RecordFact, LeaveParts DEF CommitRecord, Shape
<1>2. PICK y, kept :
        /\ y = <<work.client, work.group>>
        /\ kept = IF work.wanted.mode = "include" THEN [work.wanted EXCEPT !.sources = work.after] ELSE work.wanted
        /\ members' = IF work.after = {} THEN Without(members, y) ELSE With(members, y, kept)
  BY DEF CommitRecord
<1>3. work.wanted \in Modes
  BY <1>1 DEF RecordJobs
<1>4. work' = Idle /\ pending' = pending /\ halted' = halted \ {y}
  BY <1>2 DEF CommitRecord
<1>5. ASSUME NEW x \in DOMAIN pending PROVE Parting(x)'
  <2>1. x[1] \in Keys /\ x = <<x[1], x[2]>>
    BY DEF Shape
  <2>2. x[1] = Key(x[1].source, x[1].group)
    BY <2>1 DEF Keys, Key
  <2>3. CASE <<x[2], x[1].group>> = y
    <3>1. x[1].source \notin work.after
      <4>1. x = <<Key(x[1].source, work.group), work.client>>
        BY <1>2, <2>1, <2>2, <2>3
      <4>2. QED BY <1>1, <1>5, <4>1 DEF Cancels
    <3>2. CASE work.after = {}
      <4>1. y \notin DOMAIN members'
        BY <1>2, <3>2 DEF Without, RestrictDomain, Restrict
      <4>2. QED BY <2>3, <4>1 DEF Parting, Membership, Forwarding
    <3>3. CASE work.after # {}
      <4>1. y \in DOMAIN members' /\ members'[y] = kept
        BY <1>2, <3>3 DEF With
      <4>2. x[1].source \notin Forwarding(kept)
        <5>1. CASE work.wanted.mode = "include"
          <6>1. kept.mode = "include" /\ kept.sources = work.after
            BY <1>2, <1>3, <5>1 DEF Modes
          <6>2. QED BY <3>1, <6>1 DEF Forwarding
        <5>2. CASE work.wanted.mode = "exclude"
          <6>1. work.after = {Wild} /\ kept.mode = "exclude"
            BY <1>1, <1>2, <3>3, <5>2 DEF Cancels
          <6>2. QED BY <3>1, <6>1 DEF Forwarding
        <5>3. QED BY <1>3, <5>1, <5>2 DEF Modes
      <4>3. QED BY <2>3, <4>1, <4>2 DEF Parting, Membership
    <3>4. QED BY <3>2, <3>3
  <2>4. CASE <<x[2], x[1].group>> # y
    <3>1. Parting(x)
      BY <1>2, <1>5, <2>4, LeaveParts
    <3>2. PICK z : z = <<x[2], x[1].group>>
      OBVIOUS
    <3>3. /\ z \in DOMAIN members' <=> z \in DOMAIN members
          /\ z \in DOMAIN members => members'[z] = members[z]
      <4>1. CASE members' = Without(members, y)
        BY <2>4, <3>2, <4>1 DEF Without, RestrictDomain, Restrict
      <4>2. CASE members' = With(members, y, kept)
        BY <2>4, <3>2, <4>2 DEF With
      <4>3. QED BY <1>2, <4>1, <4>2
    <3>4. Membership(x[2], x[1].group)' = Membership(x[2], x[1].group)
      BY <3>2, <3>3 DEF Membership
    <3>5. QED BY <1>4, <2>4, <3>1, <3>4 DEF Parting
  <2>5. QED BY <2>3, <2>4
<1>6. QED BY <1>4, <1>5, IdleOp, LeavePartsNext

LEMMA LeaveReport ==
  ASSUME LeaveInv, NEW c, NEW g, NEW rec, Report(c, g, rec)
  PROVE  LeaveInv'
<1>1. PICK wanted, old, new :
        /\ old = Forwarding(Membership(c, g)) /\ new = Forwarding(wanted)
        /\ work' = [op |-> "record", client |-> c, group |-> g, wanted |-> wanted, after |-> old,
                    drop |-> old \ new, add |-> new \ old, keep |-> old \cap new]
  BY DEF Report
<1>2. work = Idle /\ pending' = pending /\ members' = members /\ halted' = halted
  BY DEF Report
<1>3. wanted.mode = "exclude" => new = {Wild}
  BY <1>1 DEF Forwarding
<1>4. Cancels(work', pending')
  <2>1. \A q \in old : q \in (old \ new) \cup (old \cap new)
    OBVIOUS
  <2>2. new = {Wild} => old \subseteq (old \ new) \cup {Wild} /\ new \ old \subseteq {Wild}
    OBVIOUS
  <2>3. QED BY <1>1, <1>3, <2>1, <2>2 DEF Cancels
<1>5. ASSUME NEW x \in DOMAIN pending' PROVE Parting(x)'
  <2>1. Parting(x)
    BY <1>2, <1>5, IdleOp, LeaveParts
  <2>2. QED BY <1>2, <2>1 DEF Parting, Membership, Forwarding
<1>6. QED BY <1>4, <1>5, LeavePartsNext

\* Expire takes sources from memberships and adds none.
LEMMA UnsubscribeShrinks ==
  ASSUME NEW k, NEW a, Unsubscribe(k, a), MembersOK(members)
  PROVE  \A c, g : Forwarding(Membership(c, g))' \subseteq Forwarding(Membership(c, g))
<1> DEFINE gone == {x \in DOMAIN members : x[1].addr = a /\ x[2] = k.group}
           left(m) == IF m.mode = "exclude" /\ k.source = Wild THEN {} ELSE m.sources \ {k.source}
           kept == {y \in DOMAIN members : y \notin gone \/ left(members[y]) # {}}
<1>1. members' = [x \in kept |-> IF x \in gone THEN [members[x] EXCEPT !.sources = left(members[x])] ELSE members[x]]
  BY DEF Unsubscribe
<1>2. kept \subseteq DOMAIN members
  OBVIOUS
<1>3. \A m \in Modes : left(m) \subseteq m.sources
  OBVIOUS
<1> HIDE DEF gone, left, kept
<1>5. ASSUME NEW x \in kept PROVE Forwarding(members'[x]) \subseteq Forwarding(members[x])
  <2>1. members[x] \in Modes
    BY <1>2 DEF MembersOK
  <2>2. PICK m, s : m \in Modes /\ m = members[x] /\ s = left(members[x]) /\ s \subseteq m.sources
    BY <1>3, <2>1
  <2>3. members'[x] = [m EXCEPT !.sources = s] \/ members'[x] = m
    BY <1>1, <2>2
  <2>4. PICK n : n = members'[x] /\ (n = [m EXCEPT !.sources = s] \/ n = m)
    BY <2>3
  <2>5. n.mode = m.mode /\ n.sources \subseteq m.sources
    <3>1. CASE n = [m EXCEPT !.sources = s]
      BY <2>2, <3>1 DEF Modes
    <3>2. QED BY <2>4, <3>1
  <2>6. Forwarding(n) \subseteq Forwarding(m)
    BY <2>5 DEF Forwarding
  <2>7. QED BY <2>2, <2>4, <2>6
<1>6. DOMAIN members' = kept
  BY <1>1
<1>7. QED BY <1>2, <1>5, <1>6 DEF Membership, Forwarding

LEMMA LeaveExpire ==
  ASSUME Base, Shape, LeaveInv, NEW fault, ExpireGroup(fault)
  PROVE  LeaveInv'
<1>1. work.op = "expire" /\ halted' = halted
  BY DEF ExpireGroup
<1>2. work = ExpireJob(work.todo)
  BY <1>1, ExpiringFact
<1>3. \A t : [work EXCEPT !.todo = t].op = "expire"
  BY <1>2 DEF ExpireJob
<1>4. PICK x \in work.todo :
               /\ work' = Idle \/ \E t : work' = [work EXCEPT !.todo = t]
               /\ pending' = pending \/ \E gone : pending' = Restrict(pending, DOMAIN pending \ gone)
               /\ members' = members \/ Unsubscribe(x.key, x.addr)
  <2>1. PICK x \in work.todo :
          \/ /\ work' = [work EXCEPT !.todo = @ \ {x}] /\ pending' = pending /\ members' = members
          \/ \E gone : Withdraw(x, gone, fault)
    BY DEF ExpireGroup
  <2>2. CASE work' = [work EXCEPT !.todo = @ \ {x}] /\ pending' = pending /\ members' = members
    BY <2>2
  <2>3. ASSUME NEW gone, Withdraw(x, gone, fault)
        PROVE  /\ work' = Idle \/ \E t : work' = [work EXCEPT !.todo = t]
               /\ \E out : pending' = Restrict(pending, DOMAIN pending \ out)
               /\ members' = members \/ Unsubscribe(x.key, x.addr)
    BY <2>3 DEF Withdraw
  <2>4. QED BY <2>1, <2>2, <2>3
<1>5. work'.op # "record"
  BY <1>3, <1>4, IdleOp
<1>6. DOMAIN pending' \subseteq DOMAIN pending
  BY <1>4 DEF Restrict
<1>7. CASE members' = members
  BY <1>1, <1>5, <1>6, <1>7, SameFact
<1>8. CASE Unsubscribe(x.key, x.addr)
  BY <1>1, <1>5, <1>6, <1>8, UnsubscribeShrinks, ShrinkFact DEF Base
<1>9. QED BY <1>4, <1>7, <1>8

LEMMA LeaveTimers ==
  ASSUME Shape, LeaveInv, NEW fault, RunLeave(fault) \/ AgeClient(fault)
  PROVE  LeaveInv'
<1>1. /\ work.op # "record" /\ members' = members /\ halted' = halted
      /\ \A t : [work EXCEPT !.todo = t] = TimerJob(work.op, t)
  BY WorkingFact DEF RunLeave, AgeClient
<1>2. \A t : TimerJob(work.op, t).op # "record"
  BY <1>1 DEF TimerJob
<1>3. DOMAIN pending' \subseteq DOMAIN pending /\ (work' = Idle \/ \E t : work' = [work EXCEPT !.todo = t])
  <2>1. CASE RunLeave(fault)
    <3>1. PICK x : \/ /\ pending' = Without(pending, x) \/ pending' = pending \/ pending' = [pending EXCEPT ![x] = @ - 1]
                      /\ work' = Idle \/ \E t : work' = [work EXCEPT !.todo = t]
                   \/ \E report : Finalize(x[1], x[2], report, fault, [work EXCEPT !.todo = @ \ {x}])
      BY <2>1 DEF RunLeave
    <3>2. CASE \E report : Finalize(x[1], x[2], report, fault, [work EXCEPT !.todo = @ \ {x}])
      BY <3>2, FinalizePending
    <3>3. CASE /\ pending' = Without(pending, x) \/ pending' = pending \/ pending' = [pending EXCEPT ![x] = @ - 1]
               /\ work' = Idle \/ \E t : work' = [work EXCEPT !.todo = t]
      BY <3>3 DEF Without, RestrictDomain, Restrict
    <3>4. QED BY <3>1, <3>2, <3>3
  <2>2. CASE AgeClient(fault)
    <3>1. PICK x, next : /\ Finalize(x[1], x[2], TRUE, fault, next)
                         /\ next = Idle \/ \E t : next = [work EXCEPT !.todo = t]
      BY <2>2 DEF AgeClient
    <3>2. QED BY <3>1, FinalizePending
  <2>3. QED BY <2>1, <2>2
<1>4. work'.op # "record"
  BY <1>1, <1>2, <1>3, IdleOp
<1>5. QED BY <1>1, <1>3, <1>4, SameFact

\* Every step keeps the last-member timers to those who have left.
LEMMA NextLeaveInv == PolicyInv /\ LeaveInv /\ [Next]_vars => LeaveInv'
<1>1. SUFFICES ASSUME Base, Shape, LeaveInv, [Next]_vars PROVE LeaveInv'
  BY PartsFact
<1>2. CASE \E c \in Clients, g \in Groups, rec \in Records : Report(c, g, rec)
  BY <1>1, <1>2, LeaveReport
<1>3. CASE JobStep
  <2>1. ASSUME NEW fault, NEW due, GeneralQueries(due, fault) PROVE LeaveInv'
    <3>1. work'.op # "record"
      BY <2>1, IdleOp DEF GeneralQueries
    <3>2. QED BY <1>1, <2>1, <3>1, SameFact DEF GeneralQueries
  <2>2. ASSUME NEW silent, StartAgeing(silent) PROVE LeaveInv'
    <3>1. work'.op # "record"
      BY <2>2, IdleOp DEF StartAgeing
    <3>2. QED BY <1>1, <2>2, <3>1, SameFact DEF StartAgeing
  <2>3. QED BY <1>1, <1>3, <2>1, <2>2, LeaveDrop, LeaveAdd, LeaveKeep, LeaveExpire, LeaveTimers,
               LeaveCommit DEF JobStep
<1>4. CASE StartExpire
  <2>1. work'.op # "record" /\ work.op # "record"
    BY <1>4, IdleOp DEF StartExpire
  <2>2. QED BY <1>1, <1>4, <2>1, SameFact DEF StartExpire
<1>5. CASE Publish \/ DeadlinePasses \/ \E qrv \in Learnable, mld \in BOOLEAN : LearnQuery(qrv, mld)
  <2>1. work' = Idle /\ work = Idle /\ UNCHANGED <<pending, members, halted>>
    BY <1>5 DEF Publish, DeadlinePasses, LearnQuery
  <2>2. QED BY <1>1, <2>1, IdleOp, SameFact
<1>6. CASE \E new \in Configs, fault \in Faults : Reload(new, fault)
  <2>1. /\ work = Idle /\ work' = work
        /\ pending' = << >> \/ UNCHANGED <<pending, members, halted>>
    BY <1>6 DEF Reload
  <2>2. CASE pending' = << >>
    BY <2>1, <2>2, IdleOp, LeavePartsNext
  <2>3. CASE UNCHANGED <<pending, members, halted>>
    BY <1>1, <2>1, <2>3, IdleOp, SameFact
  <2>4. QED BY <2>1, <2>2, <2>3
<1>7. CASE UNCHANGED vars
  BY <1>1, <1>7 DEF vars, LeaveInv, Membership
<1>8. QED BY <1>1, <1>2, <1>3, <1>4, <1>5, <1>6, <1>7 DEF Next

\* The invariant behind PendingHasLeft: a job never finishes with a timer for a source that
\* its membership names.
THEOREM Leaves == Spec => []LeaveInv
<1>1. Init => LeaveInv
  BY IdleOp DEF Init, LeaveInv
<1>2. QED BY <1>1, NextLeaveInv, Policies, PTL DEF Spec

\* A last-member timer runs only for a client that no longer asks for the stream, whatever
\* calls fail and deadlines pass: a report that names the source again cancels the leave, and
\* the only timers for sources still on record are those of a report that ended half way.
THEOREM LeavingHasLeft == Spec => []PendingHasLeft
<1>1. LeaveInv => PendingHasLeft
  BY IdleOp DEF LeaveInv, PendingHasLeft
<1>2. QED BY <1>1, Leaves, PTL

-----------------------------------------------------------------------------
(* Profiles: the engine decides with profiles of the configuration only.   *)

\* The first match is a match.
LEMMA FirstFact ==
  ASSUME NEW S \in SUBSET (Nat \X Nat), S # {}
  PROVE  FirstOf(S) \in S
<1>1. PICK T : T = {p[1] : p \in S}
  OBVIOUS
<1>2. T \in SUBSET Nat /\ T # {}
  BY <1>1
<1>3. PICK a \in T : \A y \in T : a <= y
  BY <1>2, LeastBound
<1>4. PICK U : U = {p[2] : p \in {q \in S : q[1] = a}}
  OBVIOUS
<1>5. U \in SUBSET Nat /\ U # {}
  BY <1>1, <1>3, <1>4
<1>6. PICK b \in U : \A y \in U : b <= y
  BY <1>5, LeastBound
<1>7. PICK p \in S : p[1] = a /\ p[2] = b
  BY <1>4, <1>6
<1>8. ASSUME NEW q \in S PROVE p[1] < q[1] \/ (p[1] = q[1] /\ p[2] <= q[2])
  <2>1. q[1] \in T /\ q[1] \in Nat /\ a \in Nat
    BY <1>1, <1>2, <1>8
  <2>2. a < q[1] \/ q[1] = a
    BY <1>3, <2>1
  <2>3. CASE q[1] = a
    BY <1>4, <1>6, <1>7, <2>3
  <2>4. QED BY <1>7, <2>2, <2>3
<1>9. QED BY <1>8, Zenon DEF FirstOf

\* Every candidate package names a profile that exists.
LEMMA PackageFact ==
  ASSUME NEW c, ValidConfig(c), NEW v
  PROVE  /\ \A i \in DOMAIN Packages(c) : Packages(c)[i].profile \in DOMAIN c.profiles
         /\ Candidates(c, v) \subseteq DOMAIN Packages(c)
         /\ DOMAIN c.services \subseteq Nat => DOMAIN Packages(c) \subseteq Nat
<1>0. /\ c.services = << >> => c.profile \in DOMAIN c.profiles
      /\ \A i \in DOMAIN c.services : c.services[i].profile \in DOMAIN c.profiles
  BY Zenon DEF ValidConfig
<1>1. CASE c.services = << >>
  <2>1. c.profile \in DOMAIN c.profiles
    BY <1>0, <1>1
  <2>2. PICK only : only = [row |-> 0, vlan |-> AnyVLAN, limit |-> 0, bandwidth |-> 0, profile |-> c.profile]
    OBVIOUS
  <2>3. Packages(c) = << only >> /\ only.profile = c.profile
    BY <1>1, <2>2 DEF Packages
  <2>4. DOMAIN Packages(c) = {1} /\ Packages(c)[1] = only
    BY <2>3
  <2>5. QED BY <2>1, <2>3, <2>4 DEF Candidates
<1>2. CASE c.services # << >>
  <2>1. Packages(c) = c.services
    BY <1>2 DEF Packages
  <2>2. Candidates(c, v) \subseteq DOMAIN Packages(c)
    BY Zenon DEF Candidates
  <2>3. QED BY <1>0, <2>1, <2>2, Zenon
<1>3. QED BY <1>1, <1>2

LEMMA MatchProfile ==
  ASSUME NEW c \in Configs, ValidConfig(c), NEW r, NEW v, NEW k, NEW m, m = MatchOf(c, r, v, k),
         m.reason # "unauthorized"
  PROVE  m.profile \in DOMAIN c.profiles
<1> DEFINE cs == Packages(c)
           ACL(i) == c.profiles[cs[i].profile].acl
           Row(p) == ACL(p[1])[p[2]]
           rows == {p \in UNION {{i} \X DOMAIN ACL(i) : i \in Candidates(c, v)} : AclMatches(ACL(p[1])[p[2]], k)}
           Lenders(p) == {j \in DOMAIN c.allowed : AllowedMatches(c.allowed[j], r, k, v, Row(p).vlan)}
           authorized == {p \in rows : Row(p).preview = 0}
           lent == {p \in rows : Lenders(p) # {}}
           Match(p, reason, timer, lender) ==
             [reason |-> reason, timer |-> timer, lender |-> lender,
              service |-> cs[p[1]], profile |-> cs[p[1]].profile, acl |-> Row(p)]
<1>1. \A p \in rows : p[1] \in Candidates(c, v) /\ p \in Nat \X Nat /\ cs[p[1]].profile \in DOMAIN c.profiles
  <2>1. SUFFICES ASSUME NEW p \in rows
                 PROVE  p[1] \in Candidates(c, v) /\ p \in Nat \X Nat /\ cs[p[1]].profile \in DOMAIN c.profiles
    BY Zenon
  <2>2. PICK i \in Candidates(c, v) : p \in {i} \X DOMAIN ACL(i)
    BY Zenon
  <2>3. i \in DOMAIN cs /\ cs[i].profile \in DOMAIN c.profiles /\ i \in Nat
    BY PackageFact, TableAssumption, Zenon
  <2>4. DOMAIN ACL(i) \subseteq Nat
    BY <2>3, TableAssumption, Zenon
  <2>5. p[1] = i /\ p \in Nat \X Nat
    <3>1. PICK D : D = DOMAIN ACL(i)
      BY Zenon
    <3>2. p \in {i} \X D /\ D \subseteq Nat
      BY <2>2, <2>4, <3>1, Zenon
    <3> HIDE DEF cs, ACL, Row, rows
    <3>3. QED BY <2>3, <3>2
  <2>6. QED BY <2>3, <2>5, Zenon
<1>2. authorized \in SUBSET rows /\ lent \in SUBSET rows
  OBVIOUS
<1>3. PICK p : /\ \E reason, timer, lender : m = Match(p, reason, timer, lender)
               /\ \/ authorized # {} /\ p = FirstOf(authorized)
                  \/ lent # {} /\ p = FirstOf(lent)
                  \/ rows # {} /\ p = FirstOf(rows)
  <2>1. CASE authorized # {}
    <3>1. m = Match(FirstOf(authorized), "authorized", "open", 0)
      BY <2>1 DEF MatchOf
    <3>2. QED BY <2>1, <3>1
  <2>2. CASE authorized = {} /\ lent # {}
    <3>1. PICK a : m = Match(FirstOf(lent), "allowed", IF a.duration = 0 THEN "open" ELSE "preview", a.row)
      BY <2>2 DEF MatchOf
    <3>2. QED BY <2>2, <3>1
  <2>3. CASE authorized = {} /\ lent = {} /\ rows # {}
    <3>1. m = Match(FirstOf(rows), "preview", "preview", 0)
      BY <2>3 DEF MatchOf
    <3>2. QED BY <2>3, <3>1
  <2>4. CASE authorized = {} /\ lent = {} /\ rows = {}
    <3>1. m = NoMatch
      BY <2>4 DEF MatchOf
    <3>2. NoMatch.reason = "unauthorized"
      BY DEF NoMatch
    <3>3. QED BY <3>1, <3>2, Zenon
  <2>5. QED BY <2>1, <2>2, <2>3, <2>4
<1>4. m.profile = cs[p[1]].profile
  <2>1. PICK reason, timer, lender, service, profile, acl :
          /\ m = [reason |-> reason, timer |-> timer, lender |-> lender, service |-> service,
                  profile |-> profile, acl |-> acl]
          /\ profile = cs[p[1]].profile
    BY <1>3, Zenon
  <2>2. m.profile = profile
    BY <2>1
  <2>3. QED BY <2>1, <2>2
<1> HIDE DEF cs, rows, authorized, lent
<1>5. \A S \in SUBSET rows : S # {} => FirstOf(S) \in rows
  <2>1. ASSUME NEW S \in SUBSET rows, S # {} PROVE FirstOf(S) \in rows
    <3>1. S \in SUBSET (Nat \X Nat)
      BY <1>1
    <3>2. FirstOf(S) \in S
      BY <2>1, <3>1, FirstFact
    <3>3. QED BY <3>2
  <2>2. QED BY <2>1
<1>6. p \in rows
  BY <1>2, <1>3, <1>5
<1>7. QED BY <1>1, <1>4, <1>6

KnownPolicy(pol, c) == \A k \in DOMAIN pol : pol[k].profile \in DOMAIN c.profiles

\* An accepted join has the profile of its entry, a known one.
LEMMA DecisionProfile ==
  ASSUME NEW c \in Configs, ValidConfig(c), NEW r, NEW pol, KnownPolicy(pol, c), NEW s, NEW v, NEW k,
         NEW d \in Decisions(c, r, pol, s, v, k), d.accepted
  PROVE  d.profile = d.entry.profile /\ d.profile \in DOMAIN c.profiles
<1>1. PICK m : m = MatchOf(c, r, v, k)
  OBVIOUS
<1>2. \A x, e : Accepted(x, e).profile = e.profile /\ Accepted(x, e).entry = e
  BY DEF Accepted
<1>3. CASE k \in DOMAIN pol /\ d = Accepted(s, pol[k])
  BY <1>2, <1>3 DEF KnownPolicy
<1>4. CASE k \notin DOMAIN pol /\ m.reason # "unauthorized" /\ \E x : d = Accepted(x, EntryOf(m))
  <2>1. m.profile \in DOMAIN c.profiles
    BY <1>1, <1>4, MatchProfile
  <2>2. EntryOf(m).profile = m.profile
    BY DEF EntryOf
  <2>3. QED BY <1>2, <1>4, <2>1, <2>2
<1>5. QED BY <1>1, <1>3, <1>4, DecisionForm

-----------------------------------------------------------------------------
(* What a job does to engine, streams and rules, told without the EXCEPTs. *)

\* A report, as a join or as a leave.
Sends(p, g, aggregate, fault) == \E join : SendReport(p, g, join, aggregate, fault)

LEMMA SendsFact ==
  ASSUME NEW p, NEW g, NEW aggregate, NEW fault
  PROVE  /\ SendLeave(p, g, aggregate, fault) => Sends(p, g, aggregate, fault)
         /\ SendReport(p, g, TRUE, aggregate, fault) => Sends(p, g, aggregate, fault)
BY DEF SendLeave, Sends

\* An engine that has lost streams and clients, and nothing else but time.
Trimmed(new, old) ==
  \A q \in DOMAIN new : q \in DOMAIN old /\ new[q].profile = old[q].profile /\ new[q].path = old[q].path

LEMMA TrimmedTwice ==
  ASSUME NEW a, NEW b, NEW c, Trimmed(a, b), Trimmed(b, c)
  PROVE  Trimmed(a, c)
BY DEF Trimmed

LEMMA UnexpiredTrims ==
  ASSUME NEW pol, NEW live, live = Unexpired(pol)
  PROVE  /\ Trimmed(live, pol) /\ \A q \in DOMAIN live : q \in DOMAIN pol /\ live[q] = pol[q]
         /\ \A q \in DOMAIN pol : q \in DOMAIN live \/ pol[q].timer = "due"
BY DEF Unexpired, RestrictValues, Restrict, Trimmed

LEMMA EnteredKeeps ==
  ASSUME NEW e, IsEntry(e), NEW s, NEW f, f = Entered(e, s)
  PROVE  f.profile = e.profile /\ f.path = e.path /\ f.clients = s
<1>1. f = [timer |-> e.timer, lender |-> e.lender, profile |-> e.profile, path |-> e.path,
           bandwidth |-> e.bandwidth, service |-> e.service, clients |-> s]
  BY DEF IsEntry, Entered
<1>2. QED BY <1>1

LEMMA LeaveTrims ==
  ASSUME NEW pol, PolicyOK(pol), NEW k, NEW a, Holds(pol, k, a), NEW left, left = LeaveOne(pol, k, a)
  PROVE  Trimmed(left, pol)
<1>1. k \in DOMAIN pol /\ IsEntry(pol[k])
  BY DEF Holds, PolicyOK
<1>2. PICK rest : rest = pol[k].clients \ {a}
  OBVIOUS
<1>3. CASE rest = {}
  BY <1>2, <1>3 DEF LeaveOne, RestrictDomain, Restrict, Trimmed
<1>4. CASE rest # {}
  <2>1. PICK f : f = Entered(pol[k], rest)
    OBVIOUS
  <2>2. f.profile = pol[k].profile /\ f.path = pol[k].path
    BY <1>1, <2>1, EnteredKeeps
  <2>3. left = [pol EXCEPT ![k] = f]
    BY <1>2, <1>4, <2>1 DEF LeaveOne, Entered
  <2>4. DOMAIN left = DOMAIN pol /\ left[k] = f /\ \A y \in DOMAIN pol \ {k} : left[y] = pol[y]
    BY <1>1, <2>3
  <2>5. QED BY <1>1, <2>2, <2>4 DEF Trimmed
<1>5. QED BY <1>3, <1>4

\* Join accepts for a stream the engine has, on its path, or enters the client alone.
Admitted(k, c, d) ==
  /\ k \in DOMAIN policy' /\ policy'[k].profile = d.profile /\ policy'[k].path = d.entry.path
  /\ \A q \in DOMAIN policy' \ {k} : q \in DOMAIN policy /\ policy'[q] = policy[q]
  /\ \/ k \in DOMAIN policy /\ d.entry.path = policy[k].path
     \/ policy'[k].clients = {c.addr} /\ (k \in DOMAIN policy => policy[k].timer = "due")

LEMMA EnterEffect ==
  ASSUME cfg \in Configs, ValidConfig(cfg), PolicyOK(policy), KnownPolicy(policy, cfg),
         NEW k, NEW c, NEW d \in JoinDecisions(k), Enter(k, c, d)
  PROVE  /\ ~d.accepted => Trimmed(policy', policy)
         /\ d.accepted => d.profile \in DOMAIN cfg.profiles /\ Admitted(k, c, d)
<1>1. PICK live, a : live = Unexpired(policy) /\ a = c.addr
  OBVIOUS
<1>2. /\ PolicyOK(live) /\ Trimmed(live, policy)
      /\ \A q \in DOMAIN live : q \in DOMAIN policy /\ live[q] = policy[q]
      /\ \A q \in DOMAIN policy : q \in DOMAIN live \/ policy[q].timer = "due"
  BY <1>1, UnexpiredFact, UnexpiredTrims
<1>3. ASSUME ~d.accepted PROVE Trimmed(policy', policy)
  <2>1. policy' = live
    BY <1>1, <1>3 DEF Enter
  <2>2. QED BY <1>2, <2>1
<1>4. ASSUME d.accepted PROVE d.profile \in DOMAIN cfg.profiles /\ Admitted(k, c, d)
  <2>1. d \in Decisions(cfg, running, live, previews[k], UniVLAN, k)
    BY <1>1 DEF JoinDecisions
  <2>2. KnownPolicy(live, cfg)
    BY <1>2 DEF KnownPolicy
  <2>3. PICK r, s : r = running /\ s = previews[k]
    OBVIOUS
  <2>4. PICK cf \in Configs : cf = cfg
    OBVIOUS
  <2>5. d \in Decisions(cf, r, live, s, UniVLAN, k) /\ ValidConfig(cf) /\ KnownPolicy(live, cf)
    BY <2>1, <2>2, <2>3, <2>4
  <2>6. d.profile = d.entry.profile /\ d.profile \in DOMAIN cf.profiles
    BY <1>4, <2>5, DecisionProfile
  <2>7. \/ k \in DOMAIN live /\ d.entry = live[k]
        \/ k \notin DOMAIN live /\ IsEntry(d.entry) /\ d.entry.clients = {}
    BY <1>4, <2>5, DecisionFact
  <2>8. IsEntry(d.entry)
    BY <1>2, <2>7 DEF PolicyOK
  <2>9. PICK e : e = Entered(d.entry, d.entry.clients \cup {a})
    OBVIOUS
  <2>10. e.profile = d.entry.profile /\ e.path = d.entry.path /\ e.clients = d.entry.clients \cup {a}
    BY <2>8, <2>9, EnteredKeeps
  <2>11. policy' = With(live, k, e)
    BY <1>1, <1>4, <2>9 DEF Enter, Entered
  <2>12. DOMAIN policy' = DOMAIN live \cup {k} /\ policy'[k] = e /\ \A y \in DOMAIN live \ {k} : policy'[y] = live[y]
    BY <2>11 DEF With
  <2>13. \/ k \in DOMAIN policy /\ d.entry.path = policy[k].path
         \/ policy'[k].clients = {c.addr} /\ (k \in DOMAIN policy => policy[k].timer = "due")
    BY <1>1, <1>2, <2>7, <2>10, <2>12
  <2>14. QED BY <1>2, <2>4, <2>6, <2>10, <2>12, <2>13 DEF Admitted
<1>5. QED BY <1>3, <1>4

\* Streams that have lost clients.
Fewer(new, old) ==
  \A q \in DOMAIN new : /\ q \in DOMAIN old /\ DOMAIN new[q] \subseteq DOMAIN old[q]
                        /\ \A e \in DOMAIN new[q] : new[q][e] = old[q][e]

\* Stream k has lost the clients gone, and is gone itself when they were its last.
Thinned(new, old, k, gone) ==
  /\ DOMAIN new = (IF DOMAIN old[k] \subseteq gone THEN DOMAIN old \ {k} ELSE DOMAIN old)
  /\ \A q \in DOMAIN new \ {k} : new[q] = old[q]
  /\ k \in DOMAIN new => DOMAIN new[k] = DOMAIN old[k] \ gone /\ \A e \in DOMAIN new[k] : new[k][e] = old[k][e]

\* Stream k has client c with record v.
Grown(new, old, k, c, v) ==
  /\ DOMAIN new = DOMAIN old \cup {k}
  /\ \A q \in DOMAIN old \ {k} : new[q] = old[q]
  /\ DOMAIN new[k] = {c} \cup (IF k \in DOMAIN old THEN DOMAIN old[k] ELSE {})
  /\ new[k][c] = v
  /\ \A e \in DOMAIN new[k] \ {c} : new[k][e] = old[k][e]

LEMMA SubscribedGrows ==
  ASSUME NEW sts, NEW k, NEW c, NEW v, NEW new, new = Subscribed(sts, k, c, v)
  PROVE  Grown(new, sts, k, c, v)
<1>1. PICK st, j : st = StreamOf(sts, k) /\ j = With(st, c, v) /\ new = With(sts, k, j)
  BY DEF Subscribed
<1>2. DOMAIN j = DOMAIN st \cup {c} /\ j[c] = v /\ \A e \in DOMAIN st \ {c} : j[e] = st[e]
  BY <1>1 DEF With
<1>3. DOMAIN new = DOMAIN sts \cup {k} /\ new[k] = j /\ \A y \in DOMAIN sts \ {k} : new[y] = sts[y]
  BY <1>1 DEF With
<1>4. CASE k \in DOMAIN sts
  BY <1>1, <1>2, <1>3, <1>4 DEF StreamOf, Grown
<1>5. CASE k \notin DOMAIN sts
  <2>1. DOMAIN st = {}
    BY <1>1, <1>5 DEF StreamOf
  <2>2. QED BY <1>2, <1>3, <1>5, <2>1 DEF Grown
<1>6. QED BY <1>4, <1>5

Lessened(sts, k, left) == IF DOMAIN left = {} THEN Without(sts, k) ELSE [sts EXCEPT ![k] = left]

LEMMA LessenedThins ==
  ASSUME NEW sts, NEW k \in DOMAIN sts, NEW gone, NEW left, left = Restrict(sts[k], DOMAIN sts[k] \ gone),
         NEW new, new = Lessened(sts, k, left)
  PROVE  Thinned(new, sts, k, gone)
<1>1. DOMAIN left = DOMAIN sts[k] \ gone /\ \A e \in DOMAIN left : left[e] = sts[k][e]
  BY DEF Restrict
<1>2. CASE DOMAIN left = {}
  <2>1. DOMAIN new = DOMAIN sts \ {k} /\ \A q \in DOMAIN new : new[q] = sts[q]
    BY <1>2 DEF Lessened, Without, RestrictDomain, Restrict
  <2>2. QED BY <1>1, <1>2, <2>1 DEF Thinned
<1>3. CASE DOMAIN left # {}
  <2>1. DOMAIN new = DOMAIN sts /\ new[k] = left /\ \A q \in DOMAIN new \ {k} : new[q] = sts[q]
    BY <1>3 DEF Lessened
  <2>2. QED BY <1>1, <1>3, <2>1 DEF Thinned
<1>4. QED BY <1>2, <1>3

LEMMA ThinnedFewer ==
  ASSUME NEW sts, NEW k \in DOMAIN sts, NEW gone, NEW new, Thinned(new, sts, k, gone)
  PROVE  Fewer(new, sts)
BY DEF Thinned, Fewer

\* A withdrawal that went through: the rule follows the clients that are left, and upstream
\* hears of a changed aggregate.
Thins(k, gone, p) ==
  /\ Thinned(streams', streams, k, gone)
  /\ IF k \notin DOMAIN streams' THEN rules' = Without(rules, k)
     ELSE \E was \in Effective(streams[k]), now \in Effective(streams'[k]) :
            rules' = IF was # now THEN With(rules, k, now) ELSE rules
  /\ Profile(p).function # 0 =>
       IF Aggregate(k.group, streams') # Aggregate(k.group, streams)
       THEN Sends(p, k.group, Aggregate(k.group, streams'), "none") ELSE NoReport

\* An admission that went through.
Grows(k, c, v, p) ==
  /\ Grown(streams', streams, k, c, v)
  /\ \E was \in Effective(StreamOf(streams, k)), now \in Effective(streams'[k]) :
       LET changed == k \notin DOMAIN streams \/ was # now
       IN /\ rules' = IF changed THEN With(rules, k, now) ELSE rules
          /\ Profile(p).function # 0 =>
               IF changed THEN Sends(p, k.group, Aggregate(k.group, streams'), "none") ELSE NoReport

\* The engine does not know the client: only its rule may be gone.
Unknown(k, c) ==
  /\ ~Holds(policy, k, c.addr) /\ UNCHANGED <<policy, streams, diverged>> /\ NoReport
  /\ rules' = rules \/ rules' = Without(rules, k)

LEMMA FinalizeEffect ==
  ASSUME PolicyOK(policy), NEW k \in DOMAIN streams, NEW c \in DOMAIN streams[k], NEW report, NEW fault, NEW next,
         Finalize(k, c, report, fault, next)
  PROVE  /\ Trimmed(policy', policy) /\ Fewer(streams', streams)
         /\ UNCHANGED diverged \/ Parted(Shared(k, c), {})
         /\ fault # "none" => work' = Idle
         /\ fault = "none" =>
              \/ Unknown(k, c) /\ work' = Idle
              \/ /\ work' = next
                 /\ (Profile(streams[k][c].profile).function # 0 => report = TRUE)
                    => Thins(k, {c}, streams[k][c].profile)
<1>1. PICK st, p : st = streams[k] /\ p = streams[k][c].profile
  OBVIOUS
<1>2. PICK rest : rest = Without(st, c)
  OBVIOUS
<1>3. rest = Restrict(st, DOMAIN st \ {c}) /\ DOMAIN rest = DOMAIN st \ {c}
  <2>1. {y \in DOMAIN st : y # c} = DOMAIN st \ {c}
    OBVIOUS
  <2>2. QED BY <1>2, <2>1 DEF Without, RestrictDomain, Restrict
<1>4. PICK after : after = Lessened(streams, k, rest)
  OBVIOUS
<1>5. after = IF DOMAIN st = {c} THEN Without(streams, k) ELSE [streams EXCEPT ![k] = rest]
  BY <1>1, <1>3, <1>4 DEF Lessened
<1>6. Thinned(after, streams, k, {c}) /\ Fewer(after, streams)
  BY <1>1, <1>3, <1>4, LessenedThins, ThinnedFewer
<1>7. PICK said : said = (report /\ (Profile(p).function = 0 \/ Aggregate(k.group, after) # Aggregate(k.group, streams)))
  OBVIOUS
<1>8. CASE UNCHANGED <<policy, streams, diverged>> /\ NoReport /\ work' = Idle
           /\ \/ DOMAIN st = {c} /\ fault = "tc"
              \/ /\ ~Holds(policy, k, c.addr) /\ fault = "none"
                 /\ rules' = IF DOMAIN st = {c} THEN Without(rules, k) ELSE rules
  BY <1>8 DEF Trimmed, Fewer, Unknown
<1>9. CASE /\ Holds(policy, k, c.addr) /\ Forget(k, c) /\ streams' = after /\ Parted(Shared(k, c), {})
           /\ \/ /\ DOMAIN st = {c} /\ fault # "tc" /\ rules' = Without(rules, k)
              \/ /\ DOMAIN st # {c}
                 /\ \E was \in Effective(st), now \in Effective(rest) :
                      IF was # now THEN Replicate(k, now, fault) ELSE UNCHANGED rules
           /\ IF said /\ fault # "tc" THEN SendLeave(p, k.group, Aggregate(k.group, after), fault) ELSE NoReport
           /\ work' = IF fault = "none" THEN next ELSE Idle
  <2>1. Trimmed(policy', policy)
    <3>1. PICK left : left = LeaveOne(policy, k, c.addr)
      OBVIOUS
    <3>2. Trimmed(left, policy)
      BY <1>9, <3>1, LeaveTrims
    <3>3. policy' = left
      BY <1>9, <3>1 DEF Forget
    <3>4. QED BY <3>2, <3>3
  <2>2. ASSUME fault = "none", Profile(p).function # 0 => report = TRUE PROVE Thins(k, {c}, p)
    <3>1. k \notin DOMAIN streams' <=> DOMAIN st = {c}
      BY <1>1, <1>6, <1>9 DEF Thinned
    <3>2. k \in DOMAIN streams' => streams'[k] = rest
      BY <1>5, <1>9, <3>1
    <3>3. IF k \notin DOMAIN streams' THEN rules' = Without(rules, k)
          ELSE \E was \in Effective(streams[k]), now \in Effective(streams'[k]) :
                 rules' = IF was # now THEN With(rules, k, now) ELSE rules
      <4>1. CASE DOMAIN st = {c}
        BY <1>9, <3>1, <4>1
      <4>2. CASE DOMAIN st # {c}
        BY <1>1, <1>9, <2>2, <3>1, <3>2, <4>2 DEF Replicate
      <4>3. QED BY <4>1, <4>2
    <3>4. Profile(p).function # 0 =>
            IF Aggregate(k.group, streams') # Aggregate(k.group, streams)
            THEN Sends(p, k.group, Aggregate(k.group, streams'), "none") ELSE NoReport
      BY <1>7, <1>9, <2>2, SendsFact
    <3>5. QED BY <1>6, <1>9, <3>3, <3>4 DEF Thins
  <2>3. QED BY <1>1, <1>6, <1>9, <2>1, <2>2
<1>10. QED
  <2>1. \/ /\ DOMAIN st = {c} /\ fault = "tc" /\ work' = Idle
           /\ UNCHANGED <<policy, streams, diverged>> /\ NoReport
        \/ /\ ~Holds(policy, k, c.addr) /\ fault = "none"
           /\ rules' = IF DOMAIN st = {c} THEN Without(rules, k) ELSE rules
           /\ work' = Idle
           /\ UNCHANGED <<policy, streams, diverged>> /\ NoReport
        \/ /\ Holds(policy, k, c.addr) /\ Forget(k, c) /\ streams' = after /\ Parted(Shared(k, c), {})
           /\ \/ /\ DOMAIN st = {c} /\ fault # "tc" /\ rules' = Without(rules, k)
              \/ /\ DOMAIN st # {c}
                 /\ \E was \in Effective(st), now \in Effective(rest) :
                      IF was # now THEN Replicate(k, now, fault) ELSE UNCHANGED rules
           /\ IF said /\ fault # "tc" THEN SendLeave(p, k.group, Aggregate(k.group, after), fault) ELSE NoReport
           /\ work' = IF fault = "none" THEN next ELSE Idle
    BY <1>1, <1>2, <1>5, <1>7, Zenon DEF Finalize
  <2>2. QED BY <1>8, <1>9, <2>1

LEMMA WithdrawEffect ==
  ASSUME NEW x, x.key \in DOMAIN streams, NEW gone, NEW fault, Withdraw(x, gone, fault)
  PROVE  /\ Fewer(streams', streams)
         /\ fault # "none" => work' = Idle
         /\ fault = "none" => /\ work' = [work EXCEPT !.todo = work.todo \ {x}]
                              /\ Aggregate(x.key.group, streams) # None => Thins(x.key, gone, x.profile)
<1>1. PICK k, st, p : k = x.key /\ st = streams[k] /\ p = x.profile
  OBVIOUS
<1>2. PICK left : left = Restrict(st, DOMAIN st \ gone)
  OBVIOUS
<1>3. PICK after : after = Lessened(streams, k, left)
  OBVIOUS
<1>4. Thinned(after, streams, k, gone) /\ Fewer(after, streams)
  BY <1>1, <1>2, <1>3, LessenedThins, ThinnedFewer
<1>5. PICK said : said = (\/ Profile(p).function = 0
                          \/ (Aggregate(k.group, streams) # None /\ Aggregate(k.group, after) # Aggregate(k.group, streams)))
  OBVIOUS
<1>6. PICK was \in Effective(st), now \in Effective(left) :
        /\ IF fault = "tc"
           THEN streams' = [streams EXCEPT ![k] = left]
           ELSE /\ streams' = after
                /\ rules' = CASE DOMAIN left = {} -> Without(rules, k)
                              [] ~(DOMAIN left = {}) /\ was # now -> With(rules, k, now)
                              [] OTHER -> rules
                /\ IF said THEN SendLeave(p, k.group, Aggregate(k.group, after), fault) ELSE NoReport
        /\ work' = IF fault = "none" THEN [work EXCEPT !.todo = work.todo \ {x}] ELSE Idle
  BY <1>1, <1>2, <1>3, <1>5, ZenonT(60) DEF Withdraw, Lessened
<1>7. DOMAIN left = DOMAIN st \ gone /\ \A e \in DOMAIN left : left[e] = st[e]
  BY <1>2 DEF Restrict
<1>8. CASE fault = "tc"
  <2>1. Fewer(streams', streams)
    BY <1>1, <1>6, <1>7, <1>8 DEF Fewer
  <2>2. QED BY <1>6, <1>8, <2>1
<1>9. CASE fault # "tc"
  <2>1. streams' = after
    BY <1>6, <1>9
  <2>2. k \notin DOMAIN streams' <=> DOMAIN left = {}
    BY <1>1, <1>4, <1>7, <2>1 DEF Thinned
  <2>3. k \in DOMAIN streams' => streams'[k] = left
    BY <1>1, <1>3, <2>1, <2>2 DEF Lessened
  <2>4. ASSUME fault = "none", Aggregate(k.group, streams) # None PROVE Thins(k, gone, p)
    <3>1. IF k \notin DOMAIN streams' THEN rules' = Without(rules, k)
          ELSE \E w \in Effective(streams[k]), n \in Effective(streams'[k]) :
                 rules' = IF w # n THEN With(rules, k, n) ELSE rules
      <4>1. CASE DOMAIN left = {}
        BY <1>6, <1>9, <2>2, <4>1
      <4>2. CASE DOMAIN left # {}
        <5>1. rules' = IF was # now THEN With(rules, k, now) ELSE rules
          BY <1>6, <1>9, <4>2
        <5>2. QED BY <1>1, <2>2, <2>3, <4>2, <5>1
      <4>3. QED BY <4>1, <4>2
    <3>2. Profile(p).function # 0 =>
            IF Aggregate(k.group, streams') # Aggregate(k.group, streams)
            THEN Sends(p, k.group, Aggregate(k.group, streams'), "none") ELSE NoReport
      BY <1>5, <1>6, <1>9, <2>1, <2>4, SendsFact
    <3>3. QED BY <1>4, <2>1, <3>1, <3>2 DEF Thins
  <2>5. QED BY <1>1, <1>4, <1>6, <2>1, <2>4
<1>10. QED BY <1>8, <1>9

LEMMA AdmitEffect ==
  ASSUME PolicyOK(policy), NEW k, NEW c, NEW d, NEW fault, AdmitSource(k, c, d, fault)
  PROVE  /\ fault = "tc" => Trimmed(policy', policy) /\ Fewer(streams', streams)
         /\ fault # "tc" => Enter(k, c, d) /\ Grown(streams', streams, k, c, ClientOf(d, k.source))
         /\ fault = "none" => Grows(k, c, ClientOf(d, k.source), d.profile)
<1>1. PICK st, v, joined, after :
        /\ st = StreamOf(streams, k) /\ v = ClientOf(d, k.source) /\ joined = With(st, c, v)
        /\ after = Subscribed(streams, k, c, v)
  OBVIOUS
<1>2. after = With(streams, k, joined) /\ Grown(after, streams, k, c, v) /\ after[k] = joined
  <2>1. after = With(streams, k, joined)
    BY <1>1 DEF Subscribed
  <2>2. after[k] = joined
    BY <2>1 DEF With
  <2>3. QED BY <1>1, <2>1, <2>2, SubscribedGrows
<1>3. PICK was \in Effective(st), now \in Effective(joined) :
        LET changed == ~(k \in DOMAIN streams) \/ was # now
            said == Profile(d.profile).function = 0 \/ changed
        IN IF fault = "tc"
           THEN /\ policy' = LET live == Unexpired(policy)
                             IN IF Holds(live, k, c.addr) THEN LeaveOne(live, k, c.addr) ELSE live
                /\ streams' = IF k \in DOMAIN streams THEN [streams EXCEPT ![k] = Without(st, c)] ELSE streams
           ELSE /\ Enter(k, c, d)
                /\ streams' = after
                /\ IF changed THEN Replicate(k, now, fault) ELSE UNCHANGED rules
                /\ IF said THEN SendReport(d.profile, k.group, TRUE, Aggregate(k.group, after), fault) ELSE NoReport
  BY <1>1, <1>2 DEF AdmitSource, StreamOf
<1>4. CASE fault = "tc"
  <2>1. PICK live : live = Unexpired(policy)
    OBVIOUS
  <2>2. PolicyOK(live) /\ Trimmed(live, policy)
    BY <2>1, UnexpiredFact, UnexpiredTrims
  <2>3. PICK left : left = LeaveOne(live, k, c.addr)
    OBVIOUS
  <2>4. Holds(live, k, c.addr) => Trimmed(left, live)
    BY <2>2, <2>3, LeaveTrims
  <2>5. policy' = live \/ (Holds(live, k, c.addr) /\ policy' = left)
    BY <1>3, <1>4, <2>1, <2>3
  <2>6. Trimmed(policy', policy)
    BY <2>2, <2>4, <2>5, TrimmedTwice DEF Trimmed
  <2>7. PICK rest : rest = Without(st, c)
    OBVIOUS
  <2>8. DOMAIN rest = DOMAIN st \ {c} /\ \A e \in DOMAIN rest : rest[e] = st[e]
    BY <2>7 DEF Without, RestrictDomain, Restrict
  <2>9. streams' = IF k \in DOMAIN streams THEN [streams EXCEPT ![k] = rest] ELSE streams
    BY <1>3, <1>4, <2>7
  <2>10. Fewer(streams', streams)
    BY <1>1, <2>8, <2>9 DEF Fewer, StreamOf
  <2>11. QED BY <1>4, <2>6, <2>10
<1>5. CASE fault # "tc"
  <2>1. Enter(k, c, d) /\ streams' = after /\ Grown(streams', streams, k, c, v) /\ streams'[k] = joined
    BY <1>2, <1>3, <1>5
  <2>2. ASSUME fault = "none" PROVE Grows(k, c, v, d.profile)
    <3>1. PICK changed : changed = (k \notin DOMAIN streams \/ was # now)
      OBVIOUS
    <3>2. /\ rules' = IF changed THEN With(rules, k, now) ELSE rules
          /\ Profile(d.profile).function # 0 =>
               IF changed THEN Sends(d.profile, k.group, Aggregate(k.group, streams'), "none") ELSE NoReport
      BY <1>3, <1>5, <2>1, <2>2, <3>1, SendsFact DEF Replicate
    <3>3. QED BY <1>1, <2>1, <3>1, <3>2 DEF Grows
  <2>3. QED BY <1>1, <1>5, <2>1, <2>2
<1>6. QED BY <1>4, <1>5

\* A refresh either ends the report or renews the client of its stream.
Refreshes(k, c, d, fault) ==
  /\ Enter(k, c, d)
  /\ \/ /\ ~d.accepted \/ k \notin DOMAIN streams
        /\ work' = Idle /\ UNCHANGED <<streams, rules>> /\ NoReport
        /\ Parted(Discarded \cup {<<k, c.addr>>}, {})
     \/ /\ d.accepted /\ k \in DOMAIN streams /\ Parted(Discarded, Discarded \cap Shared(k, c))
        /\ work' = Idle \/ work' = [work EXCEPT !.keep = @ \ {k.source}]
        /\ streams' = streams \/ Grown(streams', streams, k, c, ClientOf(d, k.source))
        /\ fault = "none" => Grows(k, c, ClientOf(d, k.source), d.profile)

LEMMA KeepEffect ==
  ASSUME NEW k, NEW c, NEW d, NEW fault, RefreshSource(k, c, d, fault)
  PROVE  Refreshes(k, c, d, fault)
<1>1. PICK next : next = [work EXCEPT !.keep = @ \ {k.source}]
  OBVIOUS
<1>2. /\ Enter(k, c, d)
      /\ \/ /\ ~d.accepted \/ k \notin DOMAIN streams
            /\ work' = Idle /\ UNCHANGED <<streams, rules>> /\ NoReport
            /\ Parted(Discarded \cup {<<k, c.addr>>}, {})
         \/ /\ d.accepted /\ k \in DOMAIN streams /\ Parted(Discarded, Discarded \cap Shared(k, c))
            /\ work' = IF fault = "none" THEN next ELSE Idle
            /\ streams' = IF fault = "tc" THEN streams ELSE Renewed(k, c, d)
            /\ \E was \in Effective(streams[k]), now \in Effective(With(streams[k], c, ClientOf(d, k.source))) :
                 /\ IF was # now THEN Replicate(k, now, fault) ELSE UNCHANGED rules
                 /\ IF (Profile(d.profile).function = 0 \/ was # now) /\ fault # "tc"
                    THEN SendReport(d.profile, k.group, TRUE, Aggregate(k.group, Renewed(k, c, d)), fault) ELSE NoReport
  BY <1>1 DEF RefreshSource, Renewed
<1>3. CASE ~d.accepted \/ k \notin DOMAIN streams
  BY <1>1, <1>2, <1>3 DEF Refreshes
<1>4. CASE d.accepted /\ k \in DOMAIN streams
  <2>1. PICK v, joined, after : /\ v = ClientOf(d, k.source) /\ joined = With(streams[k], c, v)
                                /\ after = [streams EXCEPT ![k] = joined]
    OBVIOUS
  <2>2. /\ work' = IF fault = "none" THEN next ELSE Idle
        /\ streams' = IF fault = "tc" THEN streams ELSE after
        /\ Parted(Discarded, Discarded \cap Shared(k, c))
        /\ \E was \in Effective(streams[k]), now \in Effective(joined) :
             /\ IF was # now THEN Replicate(k, now, fault) ELSE UNCHANGED rules
             /\ IF (Profile(d.profile).function = 0 \/ was # now) /\ fault # "tc"
                THEN SendReport(d.profile, k.group, TRUE, Aggregate(k.group, after), fault) ELSE NoReport
    BY <1>2, <1>4, <2>1 DEF Renewed
  <2>3. after[k] = joined /\ Grown(after, streams, k, c, v)
    <3>1. DOMAIN joined = DOMAIN streams[k] \cup {c} /\ joined[c] = v
          /\ \A e \in DOMAIN streams[k] \ {c} : joined[e] = streams[k][e]
      BY <2>1 DEF With
    <3>2. DOMAIN after = DOMAIN streams /\ after[k] = joined /\ \A q \in DOMAIN streams \ {k} : after[q] = streams[q]
      BY <1>4, <2>1
    <3>3. QED BY <1>4, <3>1, <3>2 DEF Grown
  <2>4. ASSUME fault = "none" PROVE Grows(k, c, v, d.profile)
    <3>0. PICK was \in Effective(streams[k]), now \in Effective(joined) :
             /\ IF was # now THEN Replicate(k, now, fault) ELSE UNCHANGED rules
             /\ IF (Profile(d.profile).function = 0 \/ was # now) /\ fault # "tc"
                THEN SendReport(d.profile, k.group, TRUE, Aggregate(k.group, after), fault) ELSE NoReport
      BY <2>2
    <3>1. PICK changed : changed = (k \notin DOMAIN streams \/ was # now)
      OBVIOUS
    <3>2. streams' = after /\ StreamOf(streams, k) = streams[k]
      BY <1>4, <2>2, <2>4 DEF StreamOf
    <3>3. /\ rules' = IF changed THEN With(rules, k, now) ELSE rules
          /\ Profile(d.profile).function # 0 =>
               IF changed THEN Sends(d.profile, k.group, Aggregate(k.group, streams'), "none") ELSE NoReport
      BY <1>4, <2>4, <3>0, <3>1, <3>2, SendsFact DEF Replicate
    <3>4. QED BY <2>3, <3>1, <3>2, <3>3 DEF Grows
  <2>5. QED BY <1>1, <1>2, <1>4, <2>1, <2>2, <2>3, <2>4 DEF Refreshes
<1>5. QED BY <1>3, <1>4

-----------------------------------------------------------------------------
(* Known profiles.                                                         *)

KnownClient(v, c) == v.profile \in DOMAIN c.profiles /\ v.excluded \subseteq AllSources
KnownStreams(sts, c) == \A k \in DOMAIN sts : \A e \in DOMAIN sts[k] : KnownClient(sts[k][e], c)
KnownJob(w, sts, c) ==
  /\ w.op = "expire" => \A x \in w.todo : x.profile \in DOMAIN c.profiles
  /\ w.op = "age" => \A x \in w.todo : x[1] \in DOMAIN sts /\ x[2] \in DOMAIN sts[x[1]]

LEMMA KnownParts ==
  KnownInv <=> KnownPolicy(policy, cfg) /\ KnownStreams(streams, cfg) /\ KnownJob(work, streams, cfg)
BY DEF KnownInv, KnownPolicy, KnownStreams, KnownClient, KnownJob

LEMMA KnownPartsNext ==
  KnownInv' <=> KnownPolicy(policy', cfg') /\ KnownStreams(streams', cfg') /\ KnownJob(work', streams', cfg')
BY DEF KnownInv, KnownPolicy, KnownStreams, KnownClient, KnownJob

LEMMA KnownFact ==
  /\ \A a, b, c : Trimmed(a, b) /\ KnownPolicy(b, c) => KnownPolicy(a, c)
  /\ \A a, b, c : Fewer(a, b) /\ KnownStreams(b, c) => KnownStreams(a, c)
  /\ \A w, s, c : w.op \notin {"expire", "age"} => KnownJob(w, s, c)
  /\ \A a, b, k, e, v, c : Grown(a, b, k, e, v) /\ KnownStreams(b, c) /\ KnownClient(v, c) => KnownStreams(a, c)
<1>1. ASSUME NEW a, NEW b, NEW c, Trimmed(a, b), KnownPolicy(b, c) PROVE KnownPolicy(a, c)
  BY <1>1 DEF Trimmed, KnownPolicy
<1>2. ASSUME NEW a, NEW b, NEW c, Fewer(a, b), KnownStreams(b, c) PROVE KnownStreams(a, c)
  BY <1>2 DEF Fewer, KnownStreams
<1>3. ASSUME NEW w, NEW s, NEW c, w.op \notin {"expire", "age"} PROVE KnownJob(w, s, c)
  BY <1>3 DEF KnownJob
<1>4. ASSUME NEW a, NEW b, NEW k, NEW e, NEW v, NEW c, Grown(a, b, k, e, v), KnownStreams(b, c), KnownClient(v, c)
      PROVE  KnownStreams(a, c)
  <2>1. ASSUME NEW q \in DOMAIN a, NEW f \in DOMAIN a[q] PROVE KnownClient(a[q][f], c)
    <3>1. CASE q # k
      BY <1>4, <2>1, <3>1 DEF Grown, KnownStreams
    <3>2. CASE q = k /\ f = e
      BY <1>4, <3>2 DEF Grown
    <3>3. CASE q = k /\ f # e
      BY <1>4, <2>1, <3>3 DEF Grown, KnownStreams
    <3>4. QED BY <3>1, <3>2, <3>3
  <2>2. QED BY <2>1 DEF KnownStreams
<1>5. QED BY <1>1, <1>2, <1>3, <1>4

\* Steps that only lose streams, clients and entries.
LEMMA KnownLess ==
  ASSUME KnownInv, cfg' = cfg, Trimmed(policy', policy), Fewer(streams', streams), KnownJob(work', streams', cfg)
  PROVE  KnownInv'
BY KnownParts, KnownPartsNext, KnownFact

LEMMA SameTrims == ASSUME policy' = policy PROVE Trimmed(policy', policy)
BY DEF Trimmed
LEMMA SameFewer == ASSUME streams' = streams PROVE Fewer(streams', streams)
BY DEF Fewer

LEMMA KnownOps ==
  /\ \A s, c : KnownJob(Idle, s, c)
  /\ work \in RecordJobs => work.op = "record"
BY KnownFact, IdleOp DEF RecordJobs

\* A step of a report ends it or leaves a report.
LEMMA KnownRecord ==
  ASSUME Shape, work.op = "record", NEW fault, DropSource(fault) \/ AddSource(fault) \/ KeepSource(fault)
  PROVE  work' = Idle \/ work'.op = "record"
<1>1. work \in RecordJobs
  BY RecordFact DEF Shape
<1>2. \A x : [work EXCEPT !.add = x].op = "record" /\ [work EXCEPT !.keep = x].op = "record"
  BY <1>1 DEF RecordJobs
<1>3. CASE DropSource(fault)
  <2>1. PICK next : next = [work EXCEPT !.drop = @ \ {Min(work.drop)}, !.after = @ \ {Min(work.drop)}]
    OBVIOUS
  <2>2. work' = Idle \/ work' = next
    BY <1>3, <2>1, FinalizePending DEF DropSource, AskLastMember
  <2>3. next.op = "record"
    BY <1>1, <2>1 DEF RecordJobs
  <2>4. QED BY <2>2, <2>3
<1>4. CASE AddSource(fault)
  <2>1. PICK k, c, d : IF d.accepted THEN AdmitSource(k, c, d, fault) ELSE RejectSource(k, c, d, fault)
    BY <1>4 DEF AddSource
  <2>2. PICK next : next = [work EXCEPT !.add = @ \ {k.source}, !.after = @ \cup {k.source}]
    OBVIOUS
  <2>3. next.op = "record"
    BY <1>1, <2>2 DEF RecordJobs
  <2>4. work' = Idle \/ work' = next \/ \E x : work' = [work EXCEPT !.add = x]
    BY <2>1, <2>2 DEF AdmitSource, RejectSource
  <2>5. QED BY <1>2, <2>3, <2>4
<1>5. CASE KeepSource(fault)
  BY <1>2, <1>5 DEF KeepSource, RefreshSource
<1>6. QED BY <1>3, <1>4, <1>5

LEMMA KnownDrop ==
  ASSUME Shape, KnownInv, NEW fault, DropSource(fault)
  PROVE  KnownInv'
<1>1. work.op = "record" /\ cfg' = cfg
  BY DEF DropSource
<1>2. KnownJob(work', streams', cfg)
  BY <1>1, KnownRecord, KnownFact, KnownOps
<1>3. \/ UNCHANGED <<policy, streams>>
      \/ \E k, c, next : k \in DOMAIN streams /\ c \in DOMAIN streams[k] /\ Finalize(k, c, TRUE, fault, next)
  BY DEF DropSource, AskLastMember
<1>4. Trimmed(policy', policy) /\ Fewer(streams', streams)
  BY <1>3, SameTrims, SameFewer, FinalizeEffect DEF Shape
<1>5. QED BY <1>1, <1>2, <1>4, KnownLess

\* The record of an admitted client.
LEMMA ClientFact ==
  ASSUME work \in RecordJobs, NEW d, d.profile \in DOMAIN cfg.profiles, NEW s, NEW v, v = ClientOf(d, s)
  PROVE  KnownClient(v, cfg) /\ v.path = d.entry.path /\ v.profile = d.profile
<1>1. PICK ex : ex = IF s = Wild THEN work.wanted.sources ELSE {}
  OBVIOUS
<1>2. ex \subseteq AllSources
  BY <1>1 DEF RecordJobs, Modes
<1>3. v = [profile |-> d.profile, path |-> d.entry.path, excluded |-> ex]
  BY <1>1 DEF ClientOf
<1>4. v.profile = d.profile /\ v.path = d.entry.path /\ v.excluded = ex
  BY <1>3
<1>5. QED BY <1>2, <1>4 DEF KnownClient

LEMMA AdmittedKnown ==
  ASSUME NEW k, NEW c, NEW d, d.profile \in DOMAIN cfg.profiles, Admitted(k, c, d), KnownPolicy(policy, cfg)
  PROVE  KnownPolicy(policy', cfg)
BY DEF Admitted, KnownPolicy

LEMMA KnownAdd ==
  ASSUME Base, Shape, KnownInv, NEW fault, AddSource(fault)
  PROVE  KnownInv'
<1>1. work.op = "record" /\ cfg' = cfg /\ work \in RecordJobs
  BY RecordFact DEF AddSource, Shape
<1>2. KnownJob(work', streams', cfg)
  BY <1>1, KnownRecord, KnownFact, KnownOps
<1>3. PICK k, c : k = Key(Min(work.add), work.group) /\ c = work.client
  OBVIOUS
<1>4. PICK d \in JoinDecisions(k) : IF d.accepted THEN AdmitSource(k, c, d, fault) ELSE RejectSource(k, c, d, fault)
  BY <1>3 DEF AddSource
<1>5. /\ cfg \in Configs /\ ValidConfig(cfg) /\ PolicyOK(policy) /\ KnownPolicy(policy, cfg)
      /\ KnownStreams(streams, cfg)
  BY KnownParts DEF Base, Shape
<1>6. CASE ~d.accepted
  <2>1. Enter(k, c, d) /\ streams' = streams
    BY <1>4, <1>6 DEF RejectSource
  <2>2. Trimmed(policy', policy)
    BY <1>5, <1>6, <2>1, EnterEffect
  <2>3. QED BY <1>1, <1>2, <2>1, <2>2, SameFewer, KnownLess
<1>7. CASE d.accepted /\ fault = "tc"
  <2>1. Trimmed(policy', policy) /\ Fewer(streams', streams)
    BY <1>4, <1>5, <1>7, AdmitEffect
  <2>2. QED BY <1>1, <1>2, <2>1, KnownLess
<1>8. CASE d.accepted /\ fault # "tc"
  <2>1. PICK v : v = ClientOf(d, k.source)
    OBVIOUS
  <2>2. Enter(k, c, d) /\ Grown(streams', streams, k, c, v)
    BY <1>4, <1>5, <1>8, <2>1, AdmitEffect
  <2>3. d.profile \in DOMAIN cfg.profiles /\ Admitted(k, c, d)
    BY <1>5, <1>8, <2>2, EnterEffect
  <2>4. KnownClient(v, cfg) /\ KnownPolicy(policy', cfg)
    BY <1>1, <1>5, <2>1, <2>3, ClientFact, AdmittedKnown
  <2>5. KnownStreams(streams', cfg)
    BY <1>5, <2>2, <2>4, KnownFact
  <2>6. QED BY <1>1, <1>2, <2>4, <2>5, KnownPartsNext
<1>9. QED BY <1>6, <1>7, <1>8

LEMMA KnownKeep ==
  ASSUME Base, Shape, KnownInv, NEW fault, KeepSource(fault)
  PROVE  KnownInv'
<1>1. work.op = "record" /\ cfg' = cfg /\ work \in RecordJobs
  BY RecordFact DEF KeepSource, Shape
<1>2. KnownJob(work', streams', cfg)
  BY <1>1, KnownRecord, KnownFact, KnownOps
<1>3. PICK k, c : k = Key(Min(work.keep), work.group) /\ c = work.client
  OBVIOUS
<1>4. PICK d \in JoinDecisions(k) : Refreshes(k, c, d, fault)
  BY <1>3, KeepEffect DEF KeepSource
<1>5. /\ cfg \in Configs /\ ValidConfig(cfg) /\ PolicyOK(policy) /\ KnownPolicy(policy, cfg)
      /\ KnownStreams(streams, cfg)
  BY KnownParts DEF Base, Shape
<1>6. Enter(k, c, d)
  BY <1>4 DEF Refreshes
<1>7. KnownPolicy(policy', cfg) /\ (d.accepted => d.profile \in DOMAIN cfg.profiles)
  BY <1>5, <1>6, EnterEffect, AdmittedKnown, KnownFact
<1>8. KnownStreams(streams', cfg)
  <2>1. PICK v : v = ClientOf(d, k.source)
    OBVIOUS
  <2>2. streams' = streams \/ (d.accepted /\ Grown(streams', streams, k, c, v))
    BY <1>4, <2>1 DEF Refreshes
  <2>3. d.accepted => KnownClient(v, cfg)
    BY <1>1, <1>7, <2>1, ClientFact
  <2>4. QED BY <1>5, <2>2, <2>3, KnownFact
<1>9. QED BY <1>1, <1>2, <1>7, <1>8, KnownPartsNext

\* The job of the timer finalizes clients of streams only.
Finalizes(k, c, report, fault, next) ==
  k \in DOMAIN streams /\ c \in DOMAIN streams[k] /\ Finalize(k, c, report, fault, next)

LEMMA RunLeaveEffect ==
  ASSUME Shape, NEW fault, RunLeave(fault)
  PROVE  /\ cfg' = cfg /\ work.op = "leaves" /\ (work' = Idle \/ work'.op = "leaves")
         /\ \/ UNCHANGED <<policy, streams, rules, diverged>> /\ NoReport
            \/ \E next : \E k \in Keys, c \in Clients :
                 Finalizes(k, c, Profile(streams[k][c].profile).function # 0, fault, next)
<1>1. /\ work.todo \in SUBSET (Keys \X Clients) /\ work.op = "leaves" /\ cfg' = cfg
      /\ \A t : [work EXCEPT !.todo = t] = TimerJob(work.op, t)
  BY WorkingFact DEF RunLeave
<1>2. PICK x \in work.todo :
        \/ /\ UNCHANGED <<policy, streams, rules, diverged>> /\ NoReport
           /\ work' = Idle \/ work' = [work EXCEPT !.todo = @ \ {x}]
        \/ Finalizes(x[1], x[2], Profile(streams[x[1]][x[2]].profile).function # 0, fault, [work EXCEPT !.todo = @ \ {x}])
  BY DEF RunLeave, Finalizes
<1>3. x[1] \in Keys /\ x[2] \in Clients
  BY <1>1
<1>4. work' = Idle \/ \E t : work' = [work EXCEPT !.todo = t]
  BY <1>2, FinalizePending DEF Finalizes
<1>5. \A t : TimerJob("leaves", t).op = "leaves"
  BY DEF TimerJob
<1>6. work' = Idle \/ work'.op = "leaves"
  <2>1. \A t : [work EXCEPT !.todo = t] = TimerJob("leaves", t)
    BY <1>1
  <2>2. work' = Idle \/ \E t : work' = TimerJob("leaves", t)
    BY <1>4, <2>1
  <2>3. QED BY <1>5, <2>2
<1>7. \/ UNCHANGED <<policy, streams, rules, diverged>> /\ NoReport
      \/ \E next : \E k \in Keys, c \in Clients :
           Finalizes(k, c, Profile(streams[k][c].profile).function # 0, fault, next)
  <2>1. PICK k \in Keys, c \in Clients : k = x[1] /\ c = x[2]
    BY <1>3
  <2>2. PICK next : next = [work EXCEPT !.todo = @ \ {x}]
    OBVIOUS
  <2>3. \/ UNCHANGED <<policy, streams, rules, diverged>> /\ NoReport
        \/ Finalizes(k, c, Profile(streams[k][c].profile).function # 0, fault, next)
    BY <1>2, <2>1, <2>2, Zenon
  <2>4. QED BY <2>3, Zenon
<1>8. QED BY <1>1, <1>6, <1>7

LEMMA AgeEffect ==
  ASSUME Shape, KnownInv, NEW fault, AgeClient(fault)
  PROVE  \E x \in work.todo : \E next :
           /\ x \in Keys \X Clients /\ Finalizes(x[1], x[2], TRUE, fault, next)
           /\ next = Idle \/ next = TimerJob("age", work.todo \ {x})
<1>1. /\ work.todo \in SUBSET (Keys \X Clients) /\ work.op = "age"
      /\ \A t : [work EXCEPT !.todo = t] = TimerJob(work.op, t)
  BY WorkingFact DEF AgeClient
<1>2. PICK x \in work.todo : \E next : /\ next = Idle \/ next = [work EXCEPT !.todo = work.todo \ {x}]
                                       /\ Finalize(x[1], x[2], TRUE, fault, next)
  BY DEF AgeClient
<1>3. x[1] \in DOMAIN streams /\ x[2] \in DOMAIN streams[x[1]]
  BY <1>1, KnownParts DEF KnownJob
<1>4. QED BY <1>1, <1>2, <1>3 DEF Finalizes

LEMMA KnownTimers ==
  ASSUME Shape, KnownInv, NEW fault, RunLeave(fault) \/ AgeClient(fault)
  PROVE  KnownInv'
<1>1. CASE RunLeave(fault)
  <2>1. cfg' = cfg /\ KnownJob(work', streams', cfg)
    BY <1>1, RunLeaveEffect, KnownOps, KnownFact
  <2>2. Trimmed(policy', policy) /\ Fewer(streams', streams)
    BY <1>1, RunLeaveEffect, FinalizeEffect, SameTrims, SameFewer DEF Finalizes, Shape
  <2>3. QED BY <2>1, <2>2, KnownLess
<1>2. CASE AgeClient(fault)
  <2>1. PICK x \in work.todo : \E next :
           /\ x \in Keys \X Clients /\ Finalizes(x[1], x[2], TRUE, fault, next)
           /\ next = Idle \/ next = TimerJob("age", work.todo \ {x})
    BY <1>2, AgeEffect
  <2>2. PICK next : /\ x \in Keys \X Clients /\ Finalizes(x[1], x[2], TRUE, fault, next)
                    /\ next = Idle \/ next = TimerJob("age", work.todo \ {x})
    BY <2>1
  <2>3. PICK k \in DOMAIN streams : k = x[1]
    BY <2>2 DEF Finalizes
  <2>4. PICK c \in DOMAIN streams[k] : c = x[2]
    BY <2>2, <2>3 DEF Finalizes
  <2>5. Finalize(k, c, TRUE, fault, next) /\ x = <<k, c>>
    <3>1. Finalize(k, c, TRUE, fault, next)
      BY <2>2, <2>3, <2>4, Zenon DEF Finalizes
    <3>2. x \in Keys \X Clients
      BY <2>2
    <3>3. x = <<k, c>>
      BY <2>3, <2>4, <3>2
    <3>4. QED BY <3>1, <3>3
  <2>6. /\ Trimmed(policy', policy) /\ Fewer(streams', streams)
        /\ work' = Idle \/ (work' = next /\ Thinned(streams', streams, k, {c}))
    BY <2>5, FinalizeEffect DEF Shape, Thins
  <2>7. ASSUME work' = next, next # Idle, Thinned(streams', streams, k, {c}) PROVE KnownJob(work', streams', cfg)
    <3>1. work'.op = "age" /\ work'.todo = work.todo \ {x}
      BY <2>2, <2>7 DEF TimerJob
    <3>2. work.todo \in SUBSET (Keys \X Clients) /\ work.op = "age"
      BY <1>2, WorkingFact DEF AgeClient
    <3>3. ASSUME NEW y \in work.todo, y # x PROVE y[1] \in DOMAIN streams' /\ y[2] \in DOMAIN streams'[y[1]]
      <4>1. y[1] \in DOMAIN streams /\ y[2] \in DOMAIN streams[y[1]] /\ y = <<y[1], y[2]>>
        BY <3>2, <3>3, KnownParts DEF KnownJob
      <4>2. CASE y[1] # k
        BY <2>7, <4>1, <4>2 DEF Thinned
      <4>3. CASE y[1] = k
        <5>1. y[2] # c
          BY <2>5, <3>3, <4>1, <4>3
        <5>2. QED BY <2>7, <4>1, <4>3, <5>1 DEF Thinned
      <4>4. QED BY <4>2, <4>3
    <3>4. QED BY <3>1, <3>3 DEF KnownJob
  <2>8. KnownJob(work', streams', cfg) /\ cfg' = cfg
    BY <1>2, <2>6, <2>7, KnownOps DEF AgeClient
  <2>9. QED BY <2>6, <2>8, KnownLess
<1>3. QED BY <1>1, <1>2

LEMMA KnownExpire ==
  ASSUME Shape, KnownInv, NEW fault, ExpireGroup(fault)
  PROVE  KnownInv'
<1>1. /\ cfg' = cfg /\ policy' = policy /\ work = ExpireJob(work.todo) /\ work.op = "expire"
      /\ \A x \in work.todo : x.profile \in DOMAIN cfg.profiles
  BY ExpiringFact, KnownParts DEF ExpireGroup, KnownJob
<1>2. Trimmed(policy', policy)
  BY <1>1, SameTrims
<1>3. PICK x \in work.todo :
          \/ /\ work' = [work EXCEPT !.todo = @ \ {x}] /\ streams' = streams
          \/ x.key \in DOMAIN streams /\ \E gone : Withdraw(x, gone, fault)
  BY DEF ExpireGroup
<1>4. Fewer(streams', streams) /\ (work' = Idle \/ work' = [work EXCEPT !.todo = work.todo \ {x}])
  BY <1>3, SameFewer, WithdrawEffect
<1>5. KnownJob(work', streams', cfg)
  <2>1. \A t : [work EXCEPT !.todo = t] = ExpireJob(t)
    BY <1>1 DEF ExpireJob
  <2>2. work' = Idle \/ work' = ExpireJob(work.todo \ {x})
    BY <1>4, <2>1
  <2>3. work' = Idle \/ (work'.op = "expire" /\ work'.todo = work.todo \ {x})
    BY <2>2 DEF ExpireJob
  <2>4. QED BY <1>1, <2>3, KnownOps DEF KnownJob
<1>6. QED BY <1>1, <1>2, <1>4, <1>5, KnownLess

LEMMA DeadlineTrims ==
  ASSUME PolicyOK(policy), DeadlinePasses
  PROVE  Trimmed(policy', policy)
<1>1. /\ DOMAIN policy' = DOMAIN policy
      /\ \A k \in DOMAIN policy : policy'[k] = policy[k] \/ policy'[k] = Due(policy[k])
  <2>1. ASSUME NEW k, PreviewEnds(k)
        PROVE  /\ DOMAIN policy' = DOMAIN policy
               /\ \A q \in DOMAIN policy : policy'[q] = policy[q] \/ policy'[q] = Due(policy[q])
    BY <2>1 DEF PreviewEnds, Due
  <2>2. ASSUME NEW a, AllowedEnds(a)
        PROVE  /\ DOMAIN policy' = DOMAIN policy
               /\ \A q \in DOMAIN policy : policy'[q] = policy[q] \/ policy'[q] = Due(policy[q])
    BY <2>2 DEF AllowedEnds, Due
  <2>3. QED BY <2>1, <2>2 DEF DeadlinePasses
<1>2. ASSUME NEW e, IsEntry(e), NEW f, f = Due(e) PROVE f.profile = e.profile /\ f.path = e.path
  <2>1. f = [timer |-> "due", lender |-> e.lender, profile |-> e.profile, path |-> e.path,
             bandwidth |-> e.bandwidth, service |-> e.service, clients |-> e.clients]
    BY <1>2 DEF IsEntry, Due
  <2>2. QED BY <2>1
<1>3. QED BY <1>1, <1>2 DEF Trimmed, PolicyOK

\* Steps that leave cfg alone and start or end a job without touching the streams.
LEMMA NextKnownInv == PolicyInv /\ KnownInv /\ [Next]_vars => KnownInv'
<1>1. SUFFICES ASSUME Base, Shape, KnownInv, [Next]_vars PROVE KnownInv'
  BY PartsFact
<1>2. CASE \E c \in Clients, g \in Groups, rec \in Records : Report(c, g, rec)
  <2>1. UNCHANGED <<cfg, policy, streams>> /\ work'.op = "record"
    BY <1>2 DEF Report
  <2>2. QED BY <1>1, <2>1, KnownLess, KnownFact, SameTrims, SameFewer
<1>3. CASE JobStep
  <2>1. ASSUME NEW fault, NEW due, GeneralQueries(due, fault) PROVE KnownInv'
    <3>1. UNCHANGED <<cfg, policy, streams>> /\ work'.op \notin {"expire", "age"}
      BY <2>1, IdleOp DEF GeneralQueries
    <3>2. QED BY <1>1, <3>1, KnownLess, KnownFact, SameTrims, SameFewer
  <2>2. ASSUME NEW silent \in SUBSET Ageable, StartAgeing(silent) PROVE KnownInv'
    <3>1. UNCHANGED <<cfg, policy, streams>> /\ (work' = Idle \/ work' = TimerJob("age", silent))
      BY <2>2 DEF StartAgeing, TimerJob
    <3>2. \A x \in silent : x[1] \in DOMAIN streams /\ x[2] \in DOMAIN streams[x[1]]
      BY <2>2 DEF Ageable
    <3>3. KnownJob(work', streams', cfg)
      <4>1. CASE work' = Idle
        BY <4>1, KnownOps
      <4>2. CASE work' = TimerJob("age", silent)
        <5>1. work'.op = "age" /\ work'.todo = silent
          BY <4>2 DEF TimerJob
        <5>2. QED BY <3>1, <3>2, <5>1 DEF KnownJob
      <4>3. QED BY <3>1, <4>1, <4>2
    <3>4. QED BY <1>1, <3>1, <3>3, KnownLess, SameTrims, SameFewer
  <2>3. CASE CommitRecord
    <3>1. UNCHANGED <<cfg, policy, streams>> /\ work' = Idle
      BY <2>3 DEF CommitRecord
    <3>2. QED BY <1>1, <3>1, KnownLess, KnownOps, SameTrims, SameFewer
  <2>4. QED BY <1>1, <1>3, <2>1, <2>2, <2>3, KnownDrop, KnownAdd, KnownKeep, KnownExpire, KnownTimers DEF JobStep
<1>4. CASE StartExpire
  <2>1. PICK todo : todo = {[key |-> x[1], addr |-> x[2], profile |-> policy[x[1]].profile] : x \in Discarded}
    OBVIOUS
  <2>2. UNCHANGED <<cfg, streams>> /\ policy' = Unexpired(policy) /\ work' = ExpireJob(todo)
    BY <1>4, <2>1 DEF StartExpire, ExpireJob
  <2>3. \A x \in Discarded : x[1] \in DOMAIN policy
    BY DEF Discarded, Pairs
  <2>4. \A x \in todo : x.profile \in DOMAIN cfg.profiles
    BY <1>1, <2>1, <2>3, KnownParts DEF KnownPolicy
  <2>5. work'.op = "expire" /\ work'.todo = todo
    BY <2>2 DEF ExpireJob
  <2>6. KnownJob(work', streams', cfg)
    BY <2>4, <2>5 DEF KnownJob
  <2>7. Trimmed(policy', policy)
    BY <2>2, UnexpiredTrims
  <2>8. QED BY <1>1, <2>2, <2>6, <2>7, KnownLess, SameFewer
<1>5. CASE Publish
  <2>1. UNCHANGED <<cfg, streams>> /\ policy' = Unexpired(policy) /\ work' = Idle
    BY <1>5 DEF Publish
  <2>2. QED BY <1>1, <2>1, KnownLess, KnownOps, UnexpiredTrims, SameFewer
<1>6. CASE DeadlinePasses
  <2>1. UNCHANGED <<cfg, streams>> /\ work' = Idle
    BY <1>6 DEF DeadlinePasses
  <2>2. Trimmed(policy', policy)
    BY <1>1, <1>6, DeadlineTrims DEF Shape
  <2>3. QED BY <1>1, <2>1, <2>2, KnownLess, KnownOps, SameFewer
<1>7. CASE \E qrv \in Learnable, mld \in BOOLEAN : LearnQuery(qrv, mld)
  <2>1. UNCHANGED <<cfg, policy, streams>> /\ work' = Idle
    BY <1>7 DEF LearnQuery
  <2>2. QED BY <1>1, <2>1, KnownLess, KnownOps, SameTrims, SameFewer
<1>8. CASE \E new \in Configs, fault \in Faults : Reload(new, fault)
  <2>1. /\ work' = Idle
        /\ (policy' = << >> /\ streams' = << >>) \/ UNCHANGED <<cfg, policy, streams>>
    BY <1>8 DEF Reload
  <2>2. CASE policy' = << >> /\ streams' = << >>
    BY <2>1, <2>2, KnownOps, KnownPartsNext DEF KnownPolicy, KnownStreams
  <2>3. CASE UNCHANGED <<cfg, policy, streams>>
    BY <1>1, <2>1, <2>3, KnownLess, KnownOps, SameTrims, SameFewer
  <2>4. QED BY <2>1, <2>2, <2>3
<1>9. CASE UNCHANGED vars
  BY <1>1, <1>9 DEF vars, KnownInv
<1>10. QED BY <1>1, <1>2, <1>3, <1>4, <1>5, <1>6, <1>7, <1>8, <1>9 DEF Next

\* The engine and the runtime name only profiles and sources that exist, and the clients
\* that ageing has collected are still there when it gets to them.
THEOREM Knowns == Spec => []KnownInv
<1>1. Init => KnownInv
  BY IdleOp DEF Init, KnownInv
<1>2. QED BY <1>1, NextKnownInv, Policies, PTL DEF Spec

-----------------------------------------------------------------------------
(* Delivery: rules and streams.                                            *)

EverIn(dv) == \A x \in dv.now : x[1].group \in dv.ever

\* Stream k has a rule, which says what its clients add up to, on their path and the engine's.
ReplicatedIn(k, sts, rls, pol) ==
  /\ k \in DOMAIN rls <=> k \in DOMAIN sts
  /\ k \in DOMAIN sts =>
       /\ rls[k] \in Effective(sts[k])
       /\ \A c, d \in DOMAIN sts[k] : sts[k][c].path = sts[k][d].path
       /\ k \in DOMAIN pol => \A c \in DOMAIN sts[k] : sts[k][c].path = pol[k].path

NoneEmpty(sts) == \A k \in DOMAIN sts : DOMAIN sts[k] # {}
Delivered(sts, rls, pol, ever) ==
  NoneEmpty(sts) /\ \A k \in Keys : k.group \in ever \/ ReplicatedIn(k, sts, rls, pol)

LEMMA DeliveryParts ==
  DeliveryInv <=> EverIn(diverged) /\ (faults = 0 => Delivered(streams, rules, policy, diverged.ever))
BY DEF DeliveryInv, EverIn, Delivered, NoneEmpty, Replicated, ReplicatedIn

LEMMA DeliveryPartsNext ==
  DeliveryInv' <=> EverIn(diverged') /\ (faults' = 0 => Delivered(streams', rules', policy', diverged'.ever))
BY DEF DeliveryInv, EverIn, Delivered, NoneEmpty, Replicated, ReplicatedIn

LEMMA PartedEver ==
  ASSUME NEW more, NEW again, Parted(more, again)
  PROVE  /\ EverIn(diverged') /\ diverged.ever \subseteq diverged'.ever
         /\ \A x \in again : x[1].group \in diverged'.ever
<1>1. PICK now : diverged' = [now |-> now, ever |-> diverged.ever \cup {x[1].group : x \in now \cup again}]
  BY DEF Parted
<1>2. diverged'.now = now /\ diverged'.ever = diverged.ever \cup {x[1].group : x \in now \cup again}
  BY <1>1
<1>3. QED BY <1>2 DEF EverIn

\* Clients on one path add up to one rule.
LEMMA EffectiveFact ==
  ASSUME NEW st, \A c, d \in DOMAIN st : st[c].path = st[d].path, NEW e \in Effective(st), NEW f \in Effective(st)
  PROVE  e = f
<1>1. CASE DOMAIN st = {}
  BY <1>1 DEF Effective
<1>2. CASE DOMAIN st # {}
  <2>1. PICK c \in DOMAIN st : e = [mode |-> "rule", path |-> st[c].path, excluded |-> ExcludedByAll(st)]
    BY <1>2 DEF Effective
  <2>2. PICK d \in DOMAIN st : f = [mode |-> "rule", path |-> st[d].path, excluded |-> ExcludedByAll(st)]
    BY <1>2 DEF Effective
  <2>3. st[c].path = st[d].path
    OBVIOUS
  <2>4. QED BY <2>1, <2>2, <2>3
<1>3. QED BY <1>1, <1>2

\* What stays as it was stays replicated.
LEMMA SameReplicated ==
  ASSUME NEW q, ReplicatedIn(q, streams, rules, policy),
         q \in DOMAIN rules' <=> q \in DOMAIN rules, q \in DOMAIN rules => rules'[q] = rules[q],
         q \in DOMAIN streams' <=> q \in DOMAIN streams, q \in DOMAIN streams => streams'[q] = streams[q],
         q \in DOMAIN policy' /\ q \in DOMAIN streams => q \in DOMAIN policy /\ policy'[q].path = policy[q].path
  PROVE  ReplicatedIn(q, streams', rules', policy')
BY DEF ReplicatedIn

LEMMA OtherRules ==
  ASSUME NEW k, NEW q, q # k, rules' = rules \/ rules' = Without(rules, k) \/ \E r : rules' = With(rules, k, r)
  PROVE  (q \in DOMAIN rules' <=> q \in DOMAIN rules) /\ (q \in DOMAIN rules => rules'[q] = rules[q])
<1>1. CASE rules' = Without(rules, k)
  BY <1>1 DEF Without, RestrictDomain, Restrict
<1>2. ASSUME NEW r, rules' = With(rules, k, r) PROVE (q \in DOMAIN rules' <=> q \in DOMAIN rules) /\ (q \in DOMAIN rules => rules'[q] = rules[q])
  BY <1>2 DEF With
<1>3. QED BY <1>1, <1>2

LEMMA DeliverSame ==
  ASSUME Delivered(streams, rules, policy, diverged.ever), UNCHANGED <<streams, rules>>,
         \A q \in DOMAIN policy' : \/ q \notin DOMAIN streams
                                   \/ q \in DOMAIN policy /\ policy'[q].path = policy[q].path,
         diverged.ever \subseteq diverged'.ever
  PROVE  Delivered(streams', rules', policy', diverged'.ever)
<1>1. ASSUME NEW q \in Keys, q.group \notin diverged'.ever PROVE ReplicatedIn(q, streams', rules', policy')
  <2>1. ReplicatedIn(q, streams, rules, policy)
    BY <1>1 DEF Delivered
  <2>2. QED BY <2>1, SameReplicated
<1>2. QED BY <1>1 DEF Delivered

LEMMA DeliverThins ==
  ASSUME Delivered(streams, rules, policy, diverged.ever), NEW k \in DOMAIN streams, NEW gone, NEW p, Thins(k, gone, p),
         Trimmed(policy', policy), diverged.ever \subseteq diverged'.ever
  PROVE  Delivered(streams', rules', policy', diverged'.ever)
<1>1. Thinned(streams', streams, k, gone)
  BY DEF Thins
<1>2. NoneEmpty(streams')
  BY <1>1 DEF Delivered, NoneEmpty, Thinned
<1>3. ASSUME NEW q \in Keys, q.group \notin diverged'.ever PROVE ReplicatedIn(q, streams', rules', policy')
  <2>1. ReplicatedIn(q, streams, rules, policy)
    BY <1>3 DEF Delivered
  <2>2. CASE q # k
    <3>1. (q \in DOMAIN rules' <=> q \in DOMAIN rules) /\ (q \in DOMAIN rules => rules'[q] = rules[q])
      BY <2>2, OtherRules DEF Thins
    <3>2. (q \in DOMAIN streams' <=> q \in DOMAIN streams) /\ (q \in DOMAIN streams => streams'[q] = streams[q])
      BY <1>1, <2>2 DEF Thinned
    <3>3. QED BY <2>1, <3>1, <3>2, SameReplicated DEF Trimmed
  <2>3. CASE q = k /\ k \notin DOMAIN streams'
    <3>1. rules' = Without(rules, k)
      BY <2>3 DEF Thins
    <3>2. k \notin DOMAIN rules'
      BY <3>1 DEF Without, RestrictDomain, Restrict
    <3>3. QED BY <2>3, <3>2 DEF ReplicatedIn
  <2>4. CASE q = k /\ k \in DOMAIN streams'
    <3>1. PICK was \in Effective(streams[k]), now \in Effective(streams'[k]) :
            rules' = IF was # now THEN With(rules, k, now) ELSE rules
      BY <2>4 DEF Thins
    <3>2. /\ k \in DOMAIN rules /\ rules[k] \in Effective(streams[k])
          /\ \A c, d \in DOMAIN streams[k] : streams[k][c].path = streams[k][d].path
          /\ k \in DOMAIN policy => \A c \in DOMAIN streams[k] : streams[k][c].path = policy[k].path
      BY <2>1, <2>4 DEF ReplicatedIn
    <3>3. rules[k] = was
      BY <3>2, EffectiveFact
    <3>4. k \in DOMAIN rules' /\ rules'[k] = now
      BY <3>1, <3>2, <3>3 DEF With
    <3>5. DOMAIN streams'[k] \subseteq DOMAIN streams[k] /\ \A e \in DOMAIN streams'[k] : streams'[k][e] = streams[k][e]
      BY <1>1, <2>4 DEF Thinned
    <3>6. k \in DOMAIN policy' => k \in DOMAIN policy /\ policy'[k].path = policy[k].path
      BY DEF Trimmed
    <3>7. QED BY <2>4, <3>1, <3>2, <3>4, <3>5, <3>6 DEF ReplicatedIn
  <2>5. QED BY <2>2, <2>3, <2>4
<1>4. QED BY <1>2, <1>3 DEF Delivered

\* The entry of another client with the same address is replaced.
Replaced(k, c) == \A x \in Discarded \cap Shared(k, c) : x[1].group \in diverged'.ever

\* A client that joins brings the path of the stream: a client the engine has not, and that may
\* be on another one, is a divergence on record.
LEMMA DeliverGrows ==
  ASSUME Delivered(streams, rules, policy, diverged.ever), NEW k \in Keys, NEW c \in Clients, NEW d, NEW v, NEW p,
         Grows(k, c, v, p), Admitted(k, c, d), v.path = d.entry.path, PolicyOK(policy), StreamsOK(streams),
         StepInv, Todo(work) = {}, EverIn(diverged), Replaced(k, c),
         StreamsOK(streams'), StepInv', Todo(work') = {}, EverIn(diverged'), diverged.ever \subseteq diverged'.ever
  PROVE  Delivered(streams', rules', policy', diverged'.ever)
<1>1. Grown(streams', streams, k, c, v)
  BY DEF Grows
<1>2. NoneEmpty(streams')
  BY <1>1 DEF Delivered, NoneEmpty, Grown
<1>3. PICK was \in Effective(StreamOf(streams, k)), now \in Effective(streams'[k]) :
        rules' = IF k \notin DOMAIN streams \/ was # now THEN With(rules, k, now) ELSE rules
  BY DEF Grows
<1>4. ASSUME NEW q \in Keys, q.group \notin diverged'.ever PROVE ReplicatedIn(q, streams', rules', policy')
  <2>1. ReplicatedIn(q, streams, rules, policy)
    BY <1>4 DEF Delivered
  <2>2. CASE q # k
    <3>1. (q \in DOMAIN rules' <=> q \in DOMAIN rules) /\ (q \in DOMAIN rules => rules'[q] = rules[q])
      BY <1>3, <2>2, OtherRules
    <3>2. (q \in DOMAIN streams' <=> q \in DOMAIN streams) /\ (q \in DOMAIN streams => streams'[q] = streams[q])
      BY <1>1, <2>2 DEF Grown
    <3>3. q \in DOMAIN policy' => q \in DOMAIN policy /\ policy'[q].path = policy[q].path
      BY <2>2 DEF Admitted
    <3>4. QED BY <2>1, <3>1, <3>2, <3>3, SameReplicated
  <2>3. CASE q = k
    <3>1. k \in DOMAIN streams' /\ c \in DOMAIN streams'[k] /\ streams'[k][c] = v
      BY <1>1 DEF Grown
    <3>2. ASSUME NEW e \in DOMAIN streams'[k] PROVE streams'[k][e].path = v.path
      <4>1. CASE e = c
        BY <3>1, <4>1
      <4>2. CASE e # c /\ k \in DOMAIN policy /\ d.entry.path = policy[k].path
        <5>1. k \in DOMAIN streams /\ e \in DOMAIN streams[k] /\ streams'[k][e] = streams[k][e]
          BY <1>1, <3>2, <4>2 DEF Grown
        <5>2. streams[k][e].path = policy[k].path
          BY <2>1, <2>3, <4>2, <5>1 DEF ReplicatedIn
        <5>3. QED BY <4>2, <5>1, <5>2
      <4>5. CASE /\ e # c /\ policy'[k].clients = {c.addr} /\ (k \in DOMAIN policy => policy[k].timer = "due")
                 /\ e.addr = c.addr
        <5>1. k \in DOMAIN streams /\ e \in DOMAIN streams[k] /\ c.addr \in Addresses
          BY <1>1, <3>2, <4>5, KeyFact DEF Grown
        <5>2. CASE Holds(policy, k, c.addr)
          <6>1. <<k, c.addr>> \in Discarded
            BY <4>5, <5>2 DEF Discarded, Pairs, Holds
          <6>2. <<k, c.addr>> \in Shared(k, c)
            BY <4>5, <5>1, SharedFact
          <6>3. QED BY <1>4, <2>3, <6>1, <6>2 DEF Replaced
        <5>3. CASE ~Holds(policy, k, c.addr)
          <6>1. Serves(streams, k, c.addr)
            BY <4>5, <5>1 DEF Serves
          <6>2. <<k, c.addr>> \in diverged.now
            BY <5>1, <5>3, <6>1 DEF StepInv
          <6>3. QED BY <1>4, <2>3, <6>2 DEF EverIn
        <5>4. QED BY <5>2, <5>3
      <4>3. CASE e # c /\ policy'[k].clients = {c.addr} /\ e.addr # c.addr
        <5>1. e \in Clients /\ e.addr # c.addr /\ e.addr \in Addresses
          BY <3>1, <3>2, <4>3, KeyFact DEF StreamsOK
        <5>2. ~Holds(policy', k, e.addr) /\ Serves(streams', k, e.addr)
          BY <3>1, <3>2, <4>3, <5>1 DEF Holds, Serves
        <5>3. <<k, e.addr>> \in diverged'.now
          BY <5>1, <5>2 DEF StepInv
        <5>4. k.group \in diverged'.ever
          BY <5>3 DEF EverIn
        <5>5. QED BY <1>4, <2>3, <5>4
      <4>4. QED BY <4>1, <4>2, <4>3, <4>5 DEF Admitted
    <3>3. k \in DOMAIN rules' /\ rules'[k] \in Effective(streams'[k])
      <4>1. CASE k \notin DOMAIN streams \/ was # now
        BY <1>3, <4>1 DEF With
      <4>2. CASE k \in DOMAIN streams /\ was = now
        <5>1. /\ k \in DOMAIN rules /\ rules[k] \in Effective(streams[k])
              /\ \A a, b \in DOMAIN streams[k] : streams[k][a].path = streams[k][b].path
          BY <2>1, <2>3, <4>2 DEF ReplicatedIn
        <5>2. was \in Effective(streams[k])
          BY <4>2 DEF StreamOf
        <5>3. rules[k] = was
          BY <5>1, <5>2, EffectiveFact
        <5>4. QED BY <1>3, <4>2, <5>1, <5>3
      <4>3. QED BY <4>1, <4>2
    <3>4. policy'[k].path = v.path
      BY DEF Admitted
    <3>5. QED BY <2>3, <3>1, <3>2, <3>3, <3>4 DEF ReplicatedIn
  <2>4. QED BY <2>2, <2>3
<1>5. QED BY <1>2, <1>4 DEF Delivered

\* A rule removed for a client that the engine does not know: a divergence on record.
LEMMA DeliverUnknown ==
  ASSUME Delivered(streams, rules, policy, diverged.ever), NEW k \in Keys, NEW c \in Clients, k \in DOMAIN streams,
         c \in DOMAIN streams[k], Unknown(k, c), StepInv, Todo(work) = {}, EverIn(diverged)
  PROVE  Delivered(streams', rules', policy', diverged'.ever)
<1>1. <<k, c.addr>> \in diverged.now
  <2>1. Serves(streams, k, c.addr) /\ ~Holds(policy, k, c.addr) /\ c.addr \in Addresses
    BY KeyFact DEF Serves, Unknown
  <2>2. QED BY <2>1 DEF StepInv
<1>2. k.group \in diverged'.ever /\ UNCHANGED <<policy, streams, diverged>>
  BY <1>1 DEF EverIn, Unknown
<1>3. ASSUME NEW q \in Keys, q.group \notin diverged'.ever PROVE ReplicatedIn(q, streams', rules', policy')
  <2>1. ReplicatedIn(q, streams, rules, policy) /\ q # k
    BY <1>2, <1>3 DEF Delivered
  <2>2. (q \in DOMAIN rules' <=> q \in DOMAIN rules) /\ (q \in DOMAIN rules => rules'[q] = rules[q])
    BY <2>1, OtherRules DEF Unknown
  <2>3. QED BY <1>2, <2>1, <2>2, SameReplicated
<1>4. QED BY <1>2, <1>3 DEF Delivered

\* No fault in the history of a state is none in its last step.
LEMMA FaultlessFact ==
  ASSUME Base, NEW fault, Strike(fault), faults' = 0
  PROVE  fault = "none" /\ faults = 0
BY DEF Base, Strike

\* What a step without a fault does to streams, rules and reports: nothing, a withdrawal, the
\* loss of a rule for a client the engine does not know, or an admission.
Calm ==
  /\ UNCHANGED <<streams, rules>> /\ (Aggregating => NoReport)
  /\ \A q \in DOMAIN policy' : q \notin DOMAIN streams \/ (q \in DOMAIN policy /\ policy'[q].path = policy[q].path)

Withdraws ==
  \E gone : \E k \in DOMAIN streams, p \in DOMAIN cfg.profiles : Thins(k, gone, p) /\ Trimmed(policy', policy)

Loses ==
  \E k \in Keys, c \in Clients : /\ k \in DOMAIN streams /\ c \in DOMAIN streams[k]
                                 /\ Unknown(k, c) /\ Todo(work) = {}

Joins ==
  \E d, v : \E k \in Keys, c \in Clients :
    /\ d.profile \in DOMAIN cfg.profiles /\ v.path = d.entry.path
    /\ Grows(k, c, v, d.profile) /\ Admitted(k, c, d) /\ Todo(work') = {}
    /\ Todo(work) = {} /\ Replaced(k, c)

Effects == cfg' = cfg /\ (Calm \/ Withdraws \/ Loses \/ Joins)

LEMMA CalmFact ==
  ASSUME cfg' = cfg, UNCHANGED <<streams, rules>>, Aggregating => NoReport, Trimmed(policy', policy)
  PROVE  Effects
BY DEF Effects, Calm, Trimmed

\* The effect of finalizing a client: a withdrawal, or a loss if the engine does not know it.
LEMMA FinalizeKinds ==
  ASSUME Shape, KnownInv, cfg' = cfg, Todo(work) = {}, NEW k \in Keys, NEW c \in Clients, NEW report, NEW next,
         Finalizes(k, c, report, "none", next), Profile(streams[k][c].profile).function # 0 => report = TRUE
  PROVE  Effects
<1>1. k \in DOMAIN streams /\ c \in DOMAIN streams[k] /\ Finalize(k, c, report, "none", next) /\ PolicyOK(policy)
  BY DEF Finalizes, Shape
<1>2. /\ Trimmed(policy', policy)
      /\ Unknown(k, c) \/ Thins(k, {c}, streams[k][c].profile)
  BY <1>1, FinalizeEffect
<1>3. streams[k][c].profile \in DOMAIN cfg.profiles
  BY <1>1 DEF KnownInv
<1>4. QED BY <1>1, <1>2, <1>3 DEF Effects, Withdraws, Loses

\* The effect of giving up one source of a record.
LEMMA DropKinds ==
  ASSUME Shape, KnownInv, DropSource("none")
  PROVE  Effects
<1>1. work \in RecordJobs /\ Todo(work) = {} /\ cfg' = cfg
  BY RecordFact DEF DropSource, Shape
<1>2. PICK s, k, c, next :
        /\ s = Min(work.drop) /\ k = Key(s, work.group) /\ c = work.client
        /\ next = [work EXCEPT !.drop = @ \ {s}, !.after = @ \ {s}]
  BY Zenon
<1>3. k \in Keys /\ c \in Clients
  <2>1. work.drop \in SUBSET AllSources /\ work.drop # {} /\ work.group \in Groups /\ work.client \in Clients
    BY <1>1 DEF RecordJobs, DropSource
  <2>2. s \in AllSources
    BY <1>2, <2>1, SourceFact
  <2>3. QED BY <1>2, <2>1, <2>2, KeyFact
<1>4. CASE UNCHANGED <<policy, streams, rules>> /\ NoReport
  BY <1>1, <1>4, SameTrims, CalmFact
<1>5. CASE Finalizes(k, c, TRUE, "none", next)
  BY <1>1, <1>3, <1>5, FinalizeKinds
<1>6. CASE k \in DOMAIN streams /\ c \in DOMAIN streams[k] /\ AskLastMember(k, c, "none", next)
  <2>1. UNCHANGED <<policy, streams, rules>>
    BY <1>6 DEF AskLastMember
  <2>2. streams[k][c].profile \in DOMAIN cfg.profiles
    BY <1>6 DEF KnownInv
  <2>3. Aggregating => Profile(streams[k][c].profile).function # 0
    BY <2>2 DEF Aggregating, Profile
  <2>4. Aggregating => NoReport
    BY <1>6, <2>3 DEF AskLastMember
  <2>5. QED BY <1>1, <2>1, <2>4, SameTrims, CalmFact
<1>7. QED BY <1>2, <1>4, <1>5, <1>6 DEF DropSource, Finalizes

\* Profiles that forward no unauthorized joins.
LEMMA SilentFact ==
  ASSUME Base, NEW k, NEW d \in JoinDecisions(k), ~d.accepted, Aggregating
  PROVE  ~d.forward
<1>1. Forwarders(cfg, UniVLAN) = {}
  <2>1. ASSUME NEW i \in Candidates(cfg, UniVLAN) PROVE ~cfg.profiles[Packages(cfg)[i].profile].forward
    <3>1. Packages(cfg)[i].profile \in DOMAIN cfg.profiles
      BY PackageFact DEF Base
    <3>2. QED BY <3>1, Zenon DEF Aggregating
  <2>2. QED BY <2>1, Zenon DEF Forwarders
<1>2. QED BY <1>1, RejectionFact DEF JoinDecisions

\* The effect of admitting one source of a record.
LEMMA AddKinds ==
  ASSUME Base, Shape, KnownInv, AddSource("none"), Todo(work') = {}
  PROVE  Effects
<1>1. work.op = "record" /\ cfg' = cfg /\ work \in RecordJobs /\ Todo(work) = {}
  BY RecordFact DEF AddSource, Shape
<1>2. PICK s, k, c : s = Min(work.add) /\ k = Key(s, work.group) /\ c = work.client
  OBVIOUS
<1>3. k \in Keys /\ c \in Clients
  <2>1. work.add \in SUBSET AllSources /\ work.add # {} /\ work.group \in Groups /\ work.client \in Clients
    BY <1>1 DEF RecordJobs, AddSource
  <2>2. s \in AllSources
    BY <1>2, <2>1, SourceFact
  <2>3. QED BY <1>2, <2>1, <2>2, KeyFact
<1>4. PICK d \in JoinDecisions(k) :
        /\ IF d.accepted THEN AdmitSource(k, c, d, "none") ELSE RejectSource(k, c, d, "none")
        /\ Parted(Discarded \cup Shared(k, c), Discarded \cap Shared(k, c))
  BY <1>2 DEF AddSource
<1>5. cfg \in Configs /\ ValidConfig(cfg) /\ PolicyOK(policy) /\ KnownPolicy(policy, cfg)
  BY KnownParts DEF Base, Shape
<1>6. CASE ~d.accepted
  <2>1. /\ Enter(k, c, d) /\ UNCHANGED <<streams, rules>>
        /\ d.forward \/ NoReport
    BY <1>4, <1>6 DEF RejectSource
  <2>2. Trimmed(policy', policy)
    BY <1>5, <1>6, <2>1, EnterEffect
  <2>3. Aggregating => NoReport
    BY <1>6, <2>1, SilentFact
  <2>4. QED BY <1>1, <2>1, <2>2, <2>3, CalmFact
<1>7. CASE d.accepted
  <2>1. PICK v : v = ClientOf(d, k.source)
    OBVIOUS
  <2>2. Enter(k, c, d) /\ Grows(k, c, v, d.profile)
    BY <1>4, <1>5, <1>7, <2>1, AdmitEffect
  <2>3. d.profile \in DOMAIN cfg.profiles /\ Admitted(k, c, d)
    BY <1>5, <1>7, <2>2, EnterEffect
  <2>4. v.path = d.entry.path
    BY <1>1, <2>1, <2>3, ClientFact
  <2>5. Replaced(k, c)
    BY <1>4, PartedEver DEF Replaced
  <2>6. QED BY <1>1, <1>3, <2>2, <2>3, <2>4, <2>5 DEF Effects, Joins
<1>8. QED BY <1>6, <1>7

\* The effect of refreshing one source of a record.
LEMMA KeepKinds ==
  ASSUME Base, Shape, KnownInv, KeepSource("none"), Todo(work') = {}
  PROVE  Effects
<1>1. work.op = "record" /\ cfg' = cfg /\ work \in RecordJobs /\ Todo(work) = {}
  BY RecordFact DEF KeepSource, Shape
<1>2. PICK s, k, c : s = Min(work.keep) /\ k = Key(s, work.group) /\ c = work.client
  OBVIOUS
<1>3. k \in Keys /\ c \in Clients
  <2>1. work.keep \in SUBSET AllSources /\ work.keep # {} /\ work.group \in Groups /\ work.client \in Clients
    BY <1>1 DEF RecordJobs, KeepSource
  <2>2. s \in AllSources
    BY <1>2, <2>1, SourceFact
  <2>3. QED BY <1>2, <2>1, <2>2, KeyFact
<1>4. PICK d \in JoinDecisions(k) : Refreshes(k, c, d, "none")
  BY <1>2, KeepEffect DEF KeepSource
<1>5. cfg \in Configs /\ ValidConfig(cfg) /\ PolicyOK(policy) /\ KnownPolicy(policy, cfg) /\ Enter(k, c, d)
  BY <1>4, KnownParts DEF Base, Shape, Refreshes
<1>6. CASE ~d.accepted
  <2>1. UNCHANGED <<streams, rules>> /\ NoReport
    BY <1>4, <1>6 DEF Refreshes
  <2>2. Trimmed(policy', policy)
    BY <1>5, <1>6, EnterEffect
  <2>3. QED BY <1>1, <2>1, <2>2, CalmFact
<1>7. ASSUME d.accepted PROVE d.profile \in DOMAIN cfg.profiles /\ Admitted(k, c, d)
  BY <1>5, <1>7, EnterEffect
<1>8. CASE d.accepted /\ k \notin DOMAIN streams
  <2>1. UNCHANGED <<streams, rules>> /\ NoReport
    BY <1>4, <1>8 DEF Refreshes
  <2>2. QED BY <1>1, <1>7, <1>8, <2>1 DEF Admitted, Effects, Calm
<1>9. CASE d.accepted /\ k \in DOMAIN streams
  <2>1. PICK v : v = ClientOf(d, k.source)
    OBVIOUS
  <2>2. Grows(k, c, v, d.profile)
    BY <1>4, <1>9, <2>1 DEF Refreshes
  <2>3. v.path = d.entry.path
    BY <1>1, <1>7, <1>9, <2>1, ClientFact
  <2>4. Replaced(k, c)
    BY <1>4, <1>9, PartedEver DEF Refreshes, Replaced
  <2>5. QED BY <1>1, <1>3, <1>7, <1>9, <2>2, <2>3, <2>4 DEF Effects, Joins
<1>10. QED BY <1>6, <1>8, <1>9

\* A group with clients has an aggregate.
LEMMA SomeAggregate ==
  ASSUME NEW sts, NEW k \in DOMAIN sts, DOMAIN sts[k] # {}
  PROVE  Aggregate(k.group, sts) # None
<1>1. PICK g : g = k.group
  OBVIOUS
<1>2. PICK live : live = {q \in DOMAIN sts : q.group = g /\ DOMAIN sts[q] # {}}
  OBVIOUS
<1>3. live # {}
  BY <1>1, <1>2
<1>4. Aggregate(g, sts).mode \in {"include", "exclude"}
  BY <1>2, <1>3 DEF Aggregate
<1>5. QED BY <1>1, <1>4 DEF None

\* The effect of expiring one group.
LEMMA ExpireKinds ==
  ASSUME Shape, KnownInv, NoneEmpty(streams), ExpireGroup("none")
  PROVE  Effects
<1>1. /\ cfg' = cfg /\ policy' = policy /\ Trimmed(policy', policy)
      /\ \A x \in work.todo : x.profile \in DOMAIN cfg.profiles
  BY SameTrims, KnownParts DEF ExpireGroup, KnownJob
<1>2. PICK x \in work.todo :
          \/ UNCHANGED <<streams, rules>> /\ NoReport
          \/ x.key \in DOMAIN streams /\ \E gone : Withdraw(x, gone, "none")
  BY DEF ExpireGroup
<1>3. CASE UNCHANGED <<streams, rules>> /\ NoReport
  BY <1>1, <1>3, CalmFact
<1>4. ASSUME NEW gone, x.key \in DOMAIN streams, Withdraw(x, gone, "none") PROVE Effects
  <2>1. Aggregate(x.key.group, streams) # None
    BY <1>4, SomeAggregate DEF NoneEmpty
  <2>2. Thins(x.key, gone, x.profile)
    BY <1>4, <2>1, WithdrawEffect
  <2>3. PICK k \in DOMAIN streams, p \in DOMAIN cfg.profiles : k = x.key /\ p = x.profile
    BY <1>1, <1>4
  <2>4. Thins(k, gone, p)
    BY <2>2, <2>3
  <2>5. QED BY <1>1, <2>4 DEF Effects, Withdraws
<1>5. QED BY <1>2, <1>3, <1>4

\* The effects of a last-member timer that ends and of a client that ages out.
LEMMA TimerKinds ==
  ASSUME Shape, KnownInv, RunLeave("none") \/ AgeClient("none")
  PROVE  Effects
<1>1. CASE RunLeave("none")
  <2>1. cfg' = cfg /\ Todo(work) = {}
    BY <1>1, RunLeaveEffect, IdleFact
  <2>2. \/ UNCHANGED <<policy, streams, rules, diverged>> /\ NoReport
        \/ \E next : \E k \in Keys, c \in Clients :
             Finalizes(k, c, Profile(streams[k][c].profile).function # 0, "none", next)
    BY <1>1, RunLeaveEffect
  <2>3. ASSUME NEW next, NEW k \in Keys, NEW c \in Clients,
               Finalizes(k, c, Profile(streams[k][c].profile).function # 0, "none", next)
        PROVE  Effects
    <3>1. PICK report : report = (Profile(streams[k][c].profile).function # 0)
      OBVIOUS
    <3>2. Finalizes(k, c, report, "none", next) /\ (Profile(streams[k][c].profile).function # 0 => report = TRUE)
      BY <2>3, <3>1
    <3>3. QED BY <2>1, <3>2, FinalizeKinds
  <2>4. QED BY <2>1, <2>2, <2>3, SameTrims, CalmFact
<1>2. CASE AgeClient("none")
  <2>1. cfg' = cfg /\ Todo(work) = {}
    BY <1>2, IdleFact DEF AgeClient
  <2>2. PICK x, next : x \in Keys \X Clients /\ Finalizes(x[1], x[2], TRUE, "none", next)
    BY <1>2, AgeEffect
  <2>3. PICK k \in Keys, c \in Clients : k = x[1] /\ c = x[2]
    BY <2>2
  <2>4. Finalizes(k, c, TRUE, "none", next)
    BY <2>2, <2>3, Zenon
  <2>5. QED BY <2>1, <2>4, FinalizeKinds
<1>3. QED BY <1>1, <1>2

\* A new policy starts from nothing.
Fresh ==
  /\ policy' = << >> /\ streams' = << >> /\ rules' = << >> /\ diverged' = Agreed
  /\ missed' = {} /\ heard' = [g \in Groups |-> None]

\* Divergences stay on record, until a new policy.
LEMMA RecordedFact ==
  ASSUME [Next]_vars
  PROVE  UNCHANGED diverged \/ (\E more, again : Parted(more, again)) \/ Fresh
<1>1. ASSUME NEW k, NEW c, NEW report, NEW fault, NEW next, Finalize(k, c, report, fault, next)
      PROVE  UNCHANGED diverged \/ (\E more, again : Parted(more, again))
  BY <1>1 DEF Finalize
<1>2. ASSUME NEW fault, DropSource(fault) \/ RunLeave(fault) \/ AgeClient(fault)
      PROVE  UNCHANGED diverged \/ (\E more, again : Parted(more, again))
  <2>1. CASE DropSource(fault)
    BY <1>1, <2>1 DEF DropSource, AskLastMember
  <2>2. CASE RunLeave(fault)
    BY <1>1, <2>2 DEF RunLeave, AskLastMember
  <2>3. CASE AgeClient(fault)
    BY <1>1, <2>3 DEF AgeClient
  <2>4. QED BY <1>2, <2>1, <2>2, <2>3
<1>3. ASSUME NEW fault, AddSource(fault) \/ KeepSource(fault) PROVE \E more, again : Parted(more, again)
  <2>1. CASE AddSource(fault)
    BY <2>1 DEF AddSource
  <2>2. CASE KeepSource(fault)
    BY <2>2, KeepEffect DEF KeepSource, Refreshes
  <2>3. QED BY <1>3, <2>1, <2>2
<1>4. ASSUME NEW fault, ExpireGroup(fault) PROVE UNCHANGED diverged \/ (\E more, again : Parted(more, again))
  <2>1. ASSUME NEW x, NEW gone, Withdraw(x, gone, fault) PROVE \E more, again : Parted(more, again)
    BY <2>1, Zenon DEF Withdraw
  <2>2. QED BY <1>4, <2>1 DEF ExpireGroup
<1>5. CASE JobStep
  BY <1>2, <1>3, <1>4, <1>5 DEF JobStep, GeneralQueries, CommitRecord, StartAgeing
<1>6. CASE StartExpire \/ Publish
  BY <1>6 DEF StartExpire, Publish
<1>7. CASE \E new \in Configs, fault \in Faults : Reload(new, fault)
  BY <1>7 DEF Reload, Fresh
<1>8. CASE \/ DeadlinePasses \/ \E qrv \in Learnable, mld \in BOOLEAN : LearnQuery(qrv, mld)
           \/ \E c \in Clients, g \in Groups, rec \in Records : Report(c, g, rec)
  BY <1>8 DEF DeadlinePasses, LearnQuery, Report
<1>9. CASE UNCHANGED vars
  BY <1>9 DEF vars
<1>10. QED BY <1>5, <1>6, <1>7, <1>8, <1>9 DEF Next

\* The effect of every step of a job.
LEMMA JobKinds ==
  ASSUME Base, Shape, KnownInv, DeliveryInv, JobStep, faults' = 0
  PROVE  faults = 0 /\ Effects
<1>1. ASSUME NEW fault, DropSource(fault) PROVE faults = 0 /\ Effects
  <2>1. fault = "none" /\ faults = 0
    BY <1>1, FaultlessFact DEF DropSource
  <2>2. QED BY <1>1, <2>1, DropKinds
<1>2. ASSUME NEW fault, AddSource(fault) \/ KeepSource(fault) PROVE faults = 0 /\ Effects
  <2>1. fault = "none" /\ faults = 0
    BY <1>2, FaultlessFact DEF AddSource, KeepSource
  <2>2. work.op = "record"
    BY <1>2 DEF AddSource, KeepSource
  <2>3. work' = Idle \/ work'.op = "record"
    BY <1>2, <2>2, KnownRecord
  <2>4. Todo(work') = {}
    BY <2>3, IdleFact
  <2>5. QED BY <1>2, <2>1, <2>4, AddKinds, KeepKinds
<1>3. ASSUME NEW fault, ExpireGroup(fault) PROVE faults = 0 /\ Effects
  <2>1. fault = "none" /\ faults = 0
    BY <1>3, FaultlessFact DEF ExpireGroup
  <2>2. NoneEmpty(streams)
    BY <2>1, DeliveryParts DEF Delivered
  <2>3. QED BY <1>3, <2>1, <2>2, ExpireKinds
<1>4. ASSUME NEW fault, RunLeave(fault) \/ AgeClient(fault) PROVE faults = 0 /\ Effects
  <2>1. fault = "none" /\ faults = 0
    BY <1>4, FaultlessFact DEF RunLeave, AgeClient
  <2>2. QED BY <1>4, <2>1, TimerKinds
<1>5. ASSUME NEW fault, NEW due, GeneralQueries(due, fault) PROVE faults = 0 /\ Effects
  <2>1. fault = "none" /\ faults = 0
    BY <1>5, FaultlessFact DEF GeneralQueries
  <2>2. UNCHANGED <<cfg, policy, streams, rules>> /\ NoReport
    BY <1>5 DEF GeneralQueries, NoReport
  <2>3. QED BY <2>1, <2>2, CalmFact, SameTrims
<1>6. ASSUME NEW silent, StartAgeing(silent) \/ CommitRecord PROVE faults = 0 /\ Effects
  <2>1. faults' = faults /\ UNCHANGED <<cfg, policy, streams, rules>> /\ NoReport
    BY <1>6 DEF StartAgeing, CommitRecord, NoReport
  <2>2. QED BY <2>1, CalmFact, SameTrims
<1>7. QED BY <1>1, <1>2, <1>3, <1>4, <1>5, <1>6 DEF JobStep

\* Every step of Next without a fault has one of the four effects, or loads a policy that starts afresh.
LEMMA NextKinds ==
  ASSUME Base, Shape, KnownInv, DeliveryInv, [Next]_vars, faults' = 0
  PROVE  faults = 0 /\ (Effects \/ Fresh)
<1>1. CASE JobStep
  BY <1>1, JobKinds
<1>2. CASE StartExpire \/ Publish
  <2>1. /\ faults' = faults /\ UNCHANGED <<cfg, streams, rules>> /\ NoReport
        /\ policy' = Unexpired(policy)
    BY <1>2 DEF StartExpire, Publish, NoReport
  <2>2. QED BY <2>1, CalmFact, UnexpiredTrims
<1>3. CASE DeadlinePasses
  <2>1. /\ faults' = faults /\ UNCHANGED <<cfg, streams, rules>> /\ NoReport
    BY <1>3 DEF DeadlinePasses, NoReport
  <2>2. QED BY <1>3, <2>1, CalmFact, DeadlineTrims DEF Shape
<1>4. CASE \/ UNCHANGED vars \/ \E qrv \in Learnable, mld \in BOOLEAN : LearnQuery(qrv, mld)
           \/ \E c \in Clients, g \in Groups, rec \in Records : Report(c, g, rec)
  <2>1. faults' = faults /\ UNCHANGED <<cfg, policy, streams, rules>> /\ NoReport
    BY <1>4 DEF vars, LearnQuery, Report, NoReport
  <2>2. QED BY <2>1, CalmFact, SameTrims
<1>5. ASSUME NEW new \in Configs, NEW fault \in Faults, Reload(new, fault) PROVE faults = 0 /\ (Effects \/ Fresh)
  <2>1. fault = "none" /\ faults = 0
    BY <1>5, FaultlessFact DEF Reload
  <2>2. CASE ValidConfig(new)
    BY <1>5, <2>1, <2>2 DEF Reload, Fresh
  <2>3. CASE ~ValidConfig(new)
    <3>1. UNCHANGED <<cfg, policy, streams, rules>> /\ NoReport
      BY <1>5, <2>3 DEF Reload, NoReport
    <3>2. QED BY <2>1, <3>1, CalmFact, SameTrims
  <2>4. QED BY <2>2, <2>3
<1>6. QED BY <1>1, <1>2, <1>3, <1>4, <1>5 DEF Next

\* Every step keeps streams, rules and engine entries in line.
LEMMA NextDeliveryInv == PolicyInv /\ PolicyInv' /\ KnownInv /\ DeliveryInv /\ [Next]_vars => DeliveryInv'
<1>1. SUFFICES ASSUME Base, Shape, StepInv, Shape', StepInv', KnownInv, DeliveryInv, [Next]_vars PROVE DeliveryInv'
  BY PartsFact, PartsFactNext
<1>2. EverIn(diverged) /\ (faults = 0 => Delivered(streams, rules, policy, diverged.ever))
  BY <1>1, DeliveryParts
<1>3. EverIn(diverged') /\ (diverged.ever \subseteq diverged'.ever \/ Fresh)
  <2>1. Agreed.now = {}
    BY DEF Agreed
  <2>2. QED BY <1>1, <1>2, <2>1, RecordedFact, PartedEver DEF EverIn, Fresh
<1>4. ASSUME faults' = 0 PROVE Delivered(streams', rules', policy', diverged'.ever)
  <2>1. faults = 0 /\ (Effects \/ Fresh) /\ Delivered(streams, rules, policy, diverged.ever)
    BY <1>1, <1>2, <1>4, NextKinds
  <2>2. CASE Fresh
    BY <2>2 DEF Fresh, Delivered, NoneEmpty, ReplicatedIn
  <2>3. CASE Effects /\ diverged.ever \subseteq diverged'.ever
    <3>1. CASE Calm
      BY <2>1, <2>3, <3>1, DeliverSame DEF Calm
    <3>2. CASE Withdraws
      BY <2>1, <2>3, <3>2, DeliverThins DEF Withdraws
    <3>3. CASE Loses
      BY <1>1, <1>2, <2>1, <3>3, DeliverUnknown DEF Loses
    <3>4. CASE Joins
      <4>1. PICK d, v : \E k \in Keys, c \in Clients :
              /\ d.profile \in DOMAIN cfg.profiles /\ v.path = d.entry.path
              /\ Grows(k, c, v, d.profile) /\ Admitted(k, c, d) /\ Todo(work') = {}
              /\ Todo(work) = {} /\ Replaced(k, c)
        BY <3>4 DEF Joins
      <4>2. StreamsOK(streams') /\ PolicyOK(policy) /\ StreamsOK(streams)
        BY <1>1 DEF Shape
      <4>3. QED BY <1>1, <1>2, <1>3, <2>1, <2>3, <4>1, <4>2, DeliverGrows
    <3>5. QED BY <2>3, <3>1, <3>2, <3>3, <3>4 DEF Effects
  <2>4. QED BY <1>3, <2>1, <2>2, <2>3
<1>5. QED BY <1>3, <1>4, DeliveryPartsNext

\* Without a fault every stream has clients, all on one path, and the rule that they add up to,
\* in every group that engine and runtime never parted over; also while a job is half done.
THEOREM Deliveries == Spec => []DeliveryInv
<1>1. Init => DeliveryInv
  BY DEF Init, DeliveryInv, Replicated, Agreed
<1>2. QED BY <1>1, NextDeliveryInv, Policies, Knowns, PTL DEF Spec

\* The filter with the lowest preference decides.
LEMMA VerdictFact ==
  ASSUME NEW rls, NEW static, NEW s, NEW g, NEW gem, NEW tag, NEW specific, NEW wild,
         specific = Key(s, g), wild = Key(Wild, g), NEW A, NEW B, NEW C, NEW D,
         A <=> specific \in DOMAIN rls /\ rls[specific].path.gem = gem /\ Carries(rls[specific].path.vlan, tag),
         C <=> wild \in DOMAIN rls /\ rls[wild].path.gem = gem /\ Carries(rls[wild].path.vlan, tag),
         B <=> C /\ Excludes(rls, wild, s),
         D <=> \E r \in static : r.gem = gem /\ Carries(r.vlan, tag) /\ AclMatches(r, specific)
  PROVE  Verdict(rls, static, s, g, gem, tag) = "pass" <=> A \/ (C /\ ~B) \/ (~C /\ D)
<1>1. PICK hits : hits = Filters(rls, static, s, g, gem, tag)
  OBVIOUS
<1>2. hits = {<<1, "pass">> : x \in {k \in {specific} : k \in DOMAIN rls /\ rls[k].path.gem = gem
                                                     /\ Carries(rls[k].path.vlan, tag)}}
        \cup {<<2, "drop">> : x \in {k \in {wild} : (k \in DOMAIN rls /\ rls[k].path.gem = gem
                                                 /\ Carries(rls[k].path.vlan, tag)) /\ Excludes(rls, k, s)}}
        \cup {<<3, "pass">> : x \in {k \in {wild} : k \in DOMAIN rls /\ rls[k].path.gem = gem
                                                 /\ Carries(rls[k].path.vlan, tag)}}
        \cup {<<4, "pass">> : x \in {r \in static : r.gem = gem /\ Carries(r.vlan, tag) /\ AclMatches(r, specific)}}
        \cup {<<5, "drop">>}
  BY <1>1, Zenon DEF Filters
<1>3. /\ \A h \in hits : \/ A /\ h = <<1, "pass">>
                         \/ B /\ h = <<2, "drop">>
                         \/ C /\ h = <<3, "pass">>
                         \/ D /\ h = <<4, "pass">>
                         \/ h = <<5, "drop">>
  BY <1>2, Zenon
<1>4. /\ A => <<1, "pass">> \in hits
      /\ B => <<2, "drop">> \in hits
      /\ C => <<3, "pass">> \in hits
      /\ D => <<4, "pass">> \in hits
      /\ <<5, "drop">> \in hits
  BY <1>2, Zenon
<1>5. \E h \in hits : \A x \in hits : h[1] <= x[1]
  <2>1. CASE A
    BY <1>3, <1>4, <2>1
  <2>2. CASE ~A /\ B
    BY <1>3, <1>4, <2>2
  <2>3. CASE ~A /\ ~B /\ C
    BY <1>3, <1>4, <2>3
  <2>4. CASE ~A /\ ~B /\ ~C /\ D
    BY <1>3, <1>4, <2>4
  <2>5. CASE ~A /\ ~B /\ ~C /\ ~D
    BY <1>3, <1>4, <2>5
  <2>6. QED BY <2>1, <2>2, <2>3, <2>4, <2>5
<1>6. PICK h : h = CHOOSE y \in hits : \A x \in hits : y[1] <= x[1]
  OBVIOUS
<1>7. h \in hits /\ \A x \in hits : h[1] <= x[1]
  BY <1>5, <1>6, Zenon
<1>8. Verdict(rls, static, s, g, gem, tag) = h[2]
  BY <1>1, <1>6, Zenon DEF Verdict
<1>9. h[2] = "pass" <=> A \/ (C /\ ~B) \/ (~C /\ D)
  BY <1>3, <1>4, <1>7
<1>10. QED BY <1>8, <1>9

\* A source that no report names.
LEMMA UnnamedFact == Max(Sources) + 1 \notin AllSources
<1>1. PICK m \in Sources : \A x \in Sources : x <= m
  BY TableAssumption
<1>2. Sources \subseteq Nat \ {0}
  BY AddressAssumption DEF Wild
<1>3. \E x \in Sources : \A y \in Sources : x >= y
  BY <1>1, <1>2
<1>4. Max(Sources) \in Sources /\ \A y \in Sources : Max(Sources) >= y
  BY <1>3 DEF Max
<1>5. PICK n \in Nat : n = Max(Sources) /\ \A y \in Sources : y <= n
  BY <1>2, <1>4
<1>6. n + 1 \notin Sources /\ n + 1 # 0
  BY <1>2, <1>5
<1>7. QED BY <1>5, <1>6 DEF Wild, AllSources

LEMMA StrangerFact ==
  ASSUME NEW s \in AnySource
  PROVE  s # Wild /\ (s \in Sources \/ s \notin AllSources)
<1>1. CASE s \in Sources
  BY <1>1, AddressAssumption
<1>2. CASE s = Max(Sources) + 1
  BY <1>2, UnnamedFact DEF AllSources
<1>3. QED BY <1>1, <1>2 DEF AnySource

\* The rule of a stream: its path is that of every client, and it leaves out what they all do.
LEMMA RuleFact ==
  ASSUME NEW k \in Keys, ReplicatedIn(k, streams, rules, policy), NoneEmpty(streams)
  PROVE  /\ k \in DOMAIN rules <=> k \in DOMAIN streams
         /\ k \in DOMAIN streams => /\ DOMAIN streams[k] # {}
                                    /\ \A c \in DOMAIN streams[k] : streams[k][c].path = rules[k].path
                                    /\ rules[k].excluded = ExcludedByAll(streams[k])
<1>1. ASSUME k \in DOMAIN streams
      PROVE  /\ DOMAIN streams[k] # {}
             /\ \A c \in DOMAIN streams[k] : streams[k][c].path = rules[k].path
             /\ rules[k].excluded = ExcludedByAll(streams[k])
  <2>1. /\ DOMAIN streams[k] # {} /\ rules[k] \in Effective(streams[k])
        /\ \A c, d \in DOMAIN streams[k] : streams[k][c].path = streams[k][d].path
    BY <1>1 DEF ReplicatedIn, NoneEmpty
  <2>2. PICK c \in DOMAIN streams[k] :
          rules[k] = [mode |-> "rule", path |-> streams[k][c].path, excluded |-> ExcludedByAll(streams[k])]
    BY <2>1 DEF Effective
  <2>3. rules[k].path = streams[k][c].path /\ rules[k].excluded = ExcludedByAll(streams[k])
    BY <2>2
  <2>4. QED BY <2>1, <2>3
<1>2. QED BY <1>1 DEF ReplicatedIn

\* Who asks for the packets of source s: clients of its own stream and of the wildcard stream.
LEMMA AskersFact ==
  ASSUME StreamsOK(streams), NEW s \in AnySource, NEW g \in Groups, NEW specific, NEW wild,
         specific = Key(s, g), wild = Key(Wild, g)
  PROVE  \A x : x \in Askers(s, g) <=>
           \/ /\ specific \in DOMAIN streams
              /\ \E c \in DOMAIN streams[specific] : x = <<specific, c>>
           \/ /\ wild \in DOMAIN streams
              /\ \E c \in DOMAIN streams[wild] : x = <<wild, c>> /\ s \notin streams[wild][c].excluded
<1>1. ASSUME NEW k \in DOMAIN streams PROVE k = Key(k.source, k.group)
  BY <1>1 DEF StreamsOK, Keys, Key
<1>2. specific.source = s /\ specific.group = g /\ wild.source = Wild /\ wild.group = g /\ s # Wild
  BY StrangerFact DEF Key
<1>3. ASSUME NEW x, x \in Askers(s, g)
      PROVE  \/ /\ specific \in DOMAIN streams
                /\ \E c \in DOMAIN streams[specific] : x = <<specific, c>>
             \/ /\ wild \in DOMAIN streams
                /\ \E c \in DOMAIN streams[wild] : x = <<wild, c>> /\ s \notin streams[wild][c].excluded
  <2>1. PICK k, c : k \in DOMAIN streams /\ c \in DOMAIN streams[k] /\ x = <<k, c>>
    BY <1>3 DEF Askers
  <2>2. k.group = g /\ (k.source = s \/ (k.source = Wild /\ s \notin streams[k][c].excluded))
    BY <1>3, <2>1 DEF Askers
  <2>3. k = specific \/ (k = wild /\ s \notin streams[k][c].excluded)
    <3>1. k = Key(k.source, k.group)
      BY <1>1, <2>1
    <3>2. QED BY <2>2, <3>1
  <2>4. QED BY <2>1, <2>3
<1>4. ASSUME specific \in DOMAIN streams, NEW c \in DOMAIN streams[specific] PROVE <<specific, c>> \in Askers(s, g)
  <2>1. <<specific, c>> \in UNION {{k} \X DOMAIN streams[k] : k \in DOMAIN streams}
    BY <1>4
  <2>2. QED BY <1>2, <2>1 DEF Askers
<1>5. ASSUME wild \in DOMAIN streams, NEW c \in DOMAIN streams[wild], s \notin streams[wild][c].excluded
      PROVE  <<wild, c>> \in Askers(s, g)
  <2>1. <<wild, c>> \in UNION {{k} \X DOMAIN streams[k] : k \in DOMAIN streams}
    BY <1>5
  <2>2. QED BY <1>2, <1>5, <2>1 DEF Askers
<1>6. QED BY <1>3, <1>4, <1>5

\* What the clients of a stream all leave out.
LEMMA ExclusionFact ==
  ASSUME KnownInv, NEW s \in AnySource, NEW k \in DOMAIN streams, DOMAIN streams[k] # {}
  PROVE  s \in ExcludedByAll(streams[k]) <=> \A c \in DOMAIN streams[k] : s \in streams[k][c].excluded
<1>1. CASE s \in Sources
  BY <1>1 DEF ExcludedByAll
<1>2. CASE s \notin AllSources
  <2>1. s \notin Sources
    BY <1>2 DEF AllSources
  <2>2. PICK c \in DOMAIN streams[k] : TRUE
    OBVIOUS
  <2>3. s \notin streams[k][c].excluded
    BY <1>2 DEF KnownInv
  <2>4. QED BY <2>1, <2>3 DEF ExcludedByAll
<1>3. QED BY <1>1, <1>2, StrangerFact

\* A client asks for a packet on a path of a kind exactly when a specific rule, or a wildcard
\* rule that does not leave its source out, is on such a path.
LEMMA AskedFact ==
  ASSUME Shape, KnownInv, Delivered(streams, rules, policy, diverged.ever),
         NEW g \in Groups \ diverged.ever, NEW s \in AnySource, NEW on, NEW specific, NEW wild,
         specific = Key(s, g), wild = Key(Wild, g)
  PROVE  (\E x \in Askers(s, g) : streams[x[1]][x[2]].path \in on) <=>
           \/ specific \in DOMAIN rules /\ rules[specific].path \in on
           \/ wild \in DOMAIN rules /\ rules[wild].path \in on /\ s \notin rules[wild].excluded
<1>1. wild \in Keys /\ wild.group = g /\ specific.group = g /\ specific.source = s
  BY KeyFact DEF Key, AllSources
<1>2. specific \in Keys \/ (specific \notin DOMAIN rules /\ specific \notin DOMAIN streams)
  BY DEF Shape, StreamsOK
<1>3. NoneEmpty(streams) /\ StreamsOK(streams) /\ \A k \in Keys : k.group = g => ReplicatedIn(k, streams, rules, policy)
  BY DEF Delivered, Shape
<1>4. /\ specific \in DOMAIN rules <=> specific \in DOMAIN streams
      /\ specific \in DOMAIN streams => /\ DOMAIN streams[specific] # {}
                                        /\ \A c \in DOMAIN streams[specific] : streams[specific][c].path = rules[specific].path
  BY <1>1, <1>2, <1>3, RuleFact
<1>5. /\ wild \in DOMAIN rules <=> wild \in DOMAIN streams
      /\ wild \in DOMAIN streams => /\ DOMAIN streams[wild] # {}
                                    /\ \A c \in DOMAIN streams[wild] : streams[wild][c].path = rules[wild].path
                                    /\ rules[wild].excluded = ExcludedByAll(streams[wild])
  BY <1>1, <1>3, RuleFact
<1>6. wild \in DOMAIN streams =>
        (s \in rules[wild].excluded <=> \A c \in DOMAIN streams[wild] : s \in streams[wild][c].excluded)
  BY <1>5, ExclusionFact
<1>7. \A x : x \in Askers(s, g) <=>
        \/ /\ specific \in DOMAIN streams
           /\ \E c \in DOMAIN streams[specific] : x = <<specific, c>>
        \/ /\ wild \in DOMAIN streams
           /\ \E c \in DOMAIN streams[wild] : x = <<wild, c>> /\ s \notin streams[wild][c].excluded
  BY <1>3, AskersFact
<1>8. ASSUME NEW x \in Askers(s, g), streams[x[1]][x[2]].path \in on
      PROVE  \/ specific \in DOMAIN rules /\ rules[specific].path \in on
             \/ wild \in DOMAIN rules /\ rules[wild].path \in on /\ s \notin rules[wild].excluded
  <2>1. CASE specific \in DOMAIN streams /\ \E c \in DOMAIN streams[specific] : x = <<specific, c>>
    BY <1>4, <1>8, <2>1
  <2>2. CASE /\ wild \in DOMAIN streams
             /\ \E c \in DOMAIN streams[wild] : x = <<wild, c>> /\ s \notin streams[wild][c].excluded
    BY <1>5, <1>6, <1>8, <2>2
  <2>3. QED BY <1>7, <2>1, <2>2
<1>9. ASSUME specific \in DOMAIN rules, rules[specific].path \in on
      PROVE  \E x \in Askers(s, g) : streams[x[1]][x[2]].path \in on
  <2>1. PICK c \in DOMAIN streams[specific] : streams[specific][c].path \in on
    BY <1>4, <1>9
  <2>2. <<specific, c>> \in Askers(s, g)
    BY <1>4, <1>7, <1>9, <2>1
  <2>3. QED BY <2>1, <2>2
<1>10. ASSUME wild \in DOMAIN rules, rules[wild].path \in on, s \notin rules[wild].excluded
       PROVE  \E x \in Askers(s, g) : streams[x[1]][x[2]].path \in on
  <2>1. PICK c \in DOMAIN streams[wild] : streams[wild][c].path \in on /\ s \notin streams[wild][c].excluded
    BY <1>5, <1>6, <1>10
  <2>2. <<wild, c>> \in Askers(s, g)
    BY <1>5, <1>7, <1>10, <2>1
  <2>3. QED BY <2>1, <2>2
<1>11. QED BY <1>8, <1>9, <1>10

\* What the invariants say of the chain is what the clients asked for.
LEMMA DeliveredMatches == PolicyInv /\ KnownInv /\ DeliveryInv => DeliveryMatches
<1>1. SUFFICES ASSUME Shape, KnownInv, Delivered(streams, rules, policy, diverged.ever),
                      NEW g \in Groups \ diverged.ever, NEW s \in AnySource, NEW gem \in GEMs, NEW tag \in Tags
               PROVE  Delivers(s, g, gem, tag)
  <2>1. ASSUME PolicyInv, KnownInv, DeliveryInv, work = Idle, faults = 0
        PROVE  Shape /\ Delivered(streams, rules, policy, diverged.ever)
    BY <2>1, PartsFact, DeliveryParts, Zenon
  <2>2. QED BY <2>1, Zenon DEF DeliveryMatches
<1>2. PICK specific, wild, static : specific = Key(s, g) /\ wild = Key(Wild, g) /\ static = StaticACL
  BY Zenon
<1>0. PICK asked : asked = \E x \in Askers(s, g) : /\ streams[x[1]][x[2]].path.gem = gem
                                                    /\ Carries(streams[x[1]][x[2]].path.vlan, tag)
  BY Zenon
<1>3. PICK on : \A p \in Paths : p \in on <=> p.gem = gem /\ Carries(p.vlan, tag)
  <2>1. \A p \in Paths : p \in {q \in Paths : q.gem = gem /\ Carries(q.vlan, tag)}
                           <=> p.gem = gem /\ Carries(p.vlan, tag)
    BY Zenon
  <2>2. QED BY <2>1, Zenon
<1>4. /\ \A k \in DOMAIN rules : rules[k].path \in Paths
      /\ \A k \in DOMAIN streams : \A c \in DOMAIN streams[k] : streams[k][c].path \in Paths
  BY DEF Paths
<1>5. asked <=> \E x \in Askers(s, g) : streams[x[1]][x[2]].path \in on
  <2>1. ASSUME NEW x \in Askers(s, g) PROVE streams[x[1]][x[2]].path \in Paths
    <3>1. PICK k, c : k \in DOMAIN streams /\ c \in DOMAIN streams[k] /\ x = <<k, c>>
      BY DEF Askers
    <3>2. QED BY <1>4, <3>1
  <2>2. QED BY <1>0, <1>3, <2>1, Zenon
<1>6. asked <=> \/ specific \in DOMAIN rules /\ rules[specific].path \in on
                \/ wild \in DOMAIN rules /\ rules[wild].path \in on /\ s \notin rules[wild].excluded
  BY <1>1, <1>2, <1>5, AskedFact
<1>7. wild.group = g
  BY <1>2 DEF Key
<1>8. Excludes(rules, wild, s) <=> /\ wild \in DOMAIN rules /\ s \in rules[wild].excluded
                                   /\ specific \in DOMAIN rules => rules[specific].path.gem # rules[wild].path.gem
  BY <1>2, <1>7 DEF Excludes
<1>9. PICK A, B, C, D :
        /\ A = (specific \in DOMAIN rules /\ rules[specific].path.gem = gem /\ Carries(rules[specific].path.vlan, tag))
        /\ C = (wild \in DOMAIN rules /\ rules[wild].path.gem = gem /\ Carries(rules[wild].path.vlan, tag))
        /\ B = (C /\ Excludes(rules, wild, s))
        /\ D = (\E r \in static : r.gem = gem /\ Carries(r.vlan, tag) /\ AclMatches(r, specific))
  BY Zenon
<1>10. Verdict(rules, static, s, g, gem, tag) = "pass" <=> A \/ (C /\ ~B) \/ (~C /\ D)
  <2>1. /\ A <=> specific \in DOMAIN rules /\ rules[specific].path.gem = gem /\ Carries(rules[specific].path.vlan, tag)
        /\ C <=> wild \in DOMAIN rules /\ rules[wild].path.gem = gem /\ Carries(rules[wild].path.vlan, tag)
        /\ B <=> C /\ Excludes(rules, wild, s)
        /\ D <=> \E r \in static : r.gem = gem /\ Carries(r.vlan, tag) /\ AclMatches(r, specific)
    BY <1>9, Zenon
  <2>2. PICK r, g1, s1, gem1, tag1 : r = rules /\ g1 = g /\ s1 = s /\ gem1 = gem /\ tag1 = tag
    BY Zenon
  <2>3. Verdict(r, static, s1, g1, gem1, tag1) = "pass" <=> A \/ (C /\ ~B) \/ (~C /\ D)
    BY <1>2, <2>1, <2>2, VerdictFact, SMTT(30)
  <2>4. QED BY <2>2, <2>3
<1>11. /\ A <=> specific \in DOMAIN rules /\ rules[specific].path \in on
       /\ C <=> wild \in DOMAIN rules /\ rules[wild].path \in on
  BY <1>3, <1>4, <1>9, Zenon
<1>12. asked => A \/ (C /\ ~B)
  BY <1>6, <1>8, <1>9, <1>11, Zenon
<1>13. ASSUME C, ~B, ~asked PROVE VlanIgnored(s, g, gem)
  <2>1. /\ wild \in DOMAIN rules /\ specific \in DOMAIN rules
        /\ rules[wild].path.gem = gem /\ rules[specific].path.gem = gem
        /\ rules[specific].path \notin on /\ rules[wild].path \in on
    BY <1>6, <1>8, <1>9, <1>11, <1>13, Zenon
  <2>2. rules[specific].path # rules[wild].path
    BY <2>1
  <2>3. QED BY <1>2, <2>1, <2>2, Zenon DEF VlanIgnored
<1>14. A => asked
  BY <1>6, <1>11, Zenon
<1>15. D => \E r \in StaticACL : r.gem = gem /\ Carries(r.vlan, tag) /\ AclMatches(r, Key(s, g))
  BY <1>2, <1>9, Zenon
<1>16. /\ (\E x \in Askers(s, g) : /\ streams[x[1]][x[2]].path.gem = gem
                                   /\ Carries(streams[x[1]][x[2]].path.vlan, tag))
          => Verdict(rules, StaticACL, s, g, gem, tag) = "pass"
       /\ Verdict(rules, StaticACL, s, g, gem, tag) = "pass"
          => \/ \E x \in Askers(s, g) : /\ streams[x[1]][x[2]].path.gem = gem
                                        /\ Carries(streams[x[1]][x[2]].path.vlan, tag)
             \/ VlanIgnored(s, g, gem)
             \/ \E r \in StaticACL : r.gem = gem /\ Carries(r.vlan, tag) /\ AclMatches(r, Key(s, g))
  BY <1>0, <1>2, <1>10, <1>12, <1>13, <1>14, <1>15, Zenon
<1>17. QED BY <1>16, Zenon DEF Delivers

\* As long as no backend call failed and engine and runtime never parted over the group, the tc
\* chain passes what some client asks for and nothing else but the static ranges and the case
\* that VlanIgnored names, for any number of clients, groups, sources and rules and for every
\* policy.
THEOREM DeliveryCorrect == Spec => []DeliveryMatches
BY Policies, Knowns, Deliveries, DeliveredMatches, PTL

-----------------------------------------------------------------------------
(* Upstream: what the last report said of each group.                      *)

Live(g, sts) == {k \in DOMAIN sts : k.group = g /\ DOMAIN sts[k] # {}}

Named(live) == {k.source : k \in live} \ {Wild}

\* What the live streams of a group add up to.
LEMMA AggregateForm ==
  ASSUME NEW g, NEW sts
  PROVE  /\ Live(g, sts) = {} => Aggregate(g, sts) = None
         /\ Key(Wild, g) \in Live(g, sts) =>
              Aggregate(g, sts) = [mode |-> "exclude",
                                   sources |-> ExcludedByAll(sts[Key(Wild, g)]) \ Named(Live(g, sts))]
         /\ Live(g, sts) # {} /\ Key(Wild, g) \notin Live(g, sts) =>
              Aggregate(g, sts) = [mode |-> "include", sources |-> Named(Live(g, sts))]
<1>1. PICK live, included : live = Live(g, sts) /\ included = Named(live)
  BY Zenon
<1>2. live = {k \in DOMAIN sts : k.group = g /\ DOMAIN sts[k] # {}} /\ included = {k.source : k \in live} \ {Wild}
  BY <1>1, Zenon DEF Live, Named
<1>3. Aggregate(g, sts) =
        CASE live = {} -> None
          [] live # {} /\ Key(Wild, g) \in live ->
               [mode |-> "exclude", sources |-> ExcludedByAll(sts[Key(Wild, g)]) \ included]
          [] OTHER -> [mode |-> "include", sources |-> included]
  BY <1>2, Zenon DEF Aggregate
<1>4. live = {} => Aggregate(g, sts) = None
  BY <1>3
<1>5. Key(Wild, g) \in live =>
        Aggregate(g, sts) = [mode |-> "exclude", sources |-> ExcludedByAll(sts[Key(Wild, g)]) \ included]
  BY <1>3
<1>6. live # {} /\ Key(Wild, g) \notin live => Aggregate(g, sts) = [mode |-> "include", sources |-> included]
  BY <1>3
<1>7. QED BY <1>1, <1>4, <1>5, <1>6, Zenon

\* The same live streams, and the same exclusions of the wildcard one, add up to the same.
LEMMA AggregateSame ==
  ASSUME NEW g, NEW sts, NEW new, Live(g, new) = Live(g, sts),
         Key(Wild, g) \in Live(g, sts) => ExcludedByAll(new[Key(Wild, g)]) = ExcludedByAll(sts[Key(Wild, g)])
  PROVE  Aggregate(g, new) = Aggregate(g, sts)
<1>1. CASE Live(g, sts) = {}
  BY <1>1, AggregateForm
<1>2. CASE Key(Wild, g) \in Live(g, sts)
  BY <1>2, AggregateForm
<1>3. CASE Live(g, sts) # {} /\ Key(Wild, g) \notin Live(g, sts)
  BY <1>3, AggregateForm
<1>4. QED BY <1>1, <1>2, <1>3

\* A change of one stream is none of another group.
LEMMA AggregateOther ==
  ASSUME NEW g, NEW sts, NEW new, NEW k, k.group # g,
         \A q : q # k => /\ q \in DOMAIN new <=> q \in DOMAIN sts
                         /\ q \in DOMAIN sts => new[q] = sts[q]
  PROVE  Aggregate(g, new) = Aggregate(g, sts)
<1>1. \A q : q \in Live(g, new) <=> q \in Live(g, sts)
  BY DEF Live
<1>2. Live(g, new) = Live(g, sts)
  BY <1>1
<1>3. Key(Wild, g) # k
  BY DEF Key
<1>4. Key(Wild, g) \in Live(g, sts) => new[Key(Wild, g)] = sts[Key(Wild, g)]
  BY <1>3 DEF Live
<1>5. QED BY <1>2, <1>4, AggregateSame

\* A client that changes nothing in the rule of its stream changes nothing in the aggregate.
LEMMA AggregateKept ==
  ASSUME NEW k \in DOMAIN streams, DOMAIN streams[k] # {}, NEW c, NEW v, Grown(streams', streams, k, c, v),
         NEW e \in Effective(streams[k]), e \in Effective(streams'[k])
  PROVE  Aggregate(k.group, streams') = Aggregate(k.group, streams)
<1>1. /\ DOMAIN streams' = DOMAIN streams /\ DOMAIN streams'[k] # {}
      /\ \A q \in DOMAIN streams \ {k} : streams'[q] = streams[q]
  BY DEF Grown
<1>2. \A q : q \in Live(k.group, streams') <=> q \in Live(k.group, streams)
  BY <1>1 DEF Live
<1>3. ExcludedByAll(streams'[k]) = ExcludedByAll(streams[k])
  <2>1. ASSUME NEW st, DOMAIN st # {}, e \in Effective(st) PROVE e.excluded = ExcludedByAll(st)
    <3>1. PICK f \in DOMAIN st : e = [mode |-> "rule", path |-> st[f].path, excluded |-> ExcludedByAll(st)]
      BY <2>1 DEF Effective
    <3>2. QED BY <3>1
  <2>2. QED BY <1>1, <2>1
<1>4. PICK g, w : g = k.group /\ w = Key(Wild, g)
  BY Zenon
<1>5. w \in Live(g, streams) => ExcludedByAll(streams'[w]) = ExcludedByAll(streams[w])
  BY <1>1, <1>3 DEF Live
<1>6. Live(g, streams') = Live(g, streams)
  <2>1. PICK a, b : a = Live(g, streams') /\ b = Live(g, streams)
    BY Zenon
  <2>2. \A q : q \in a <=> q \in b
    BY <1>2, <1>4, <2>1
  <2>3. a = b
    BY <2>2, Zenon
  <2>4. QED BY <2>1, <2>3
<1>7. QED BY <1>4, <1>5, <1>6, AggregateSame

\* A report of an aggregating profile is heard, or the rate limit drops it.
LEMMA SentFact ==
  ASSUME NEW p, Profile(p).function # 0, NEW g, g \in DOMAIN heard, NEW aggregate, Sends(p, g, aggregate, "none")
  PROVE  /\ g \in missed' \/ heard'[g] = Conveyed(Profile(p).version, aggregate, heard[g])
         /\ \A h \in DOMAIN heard \ {g} : heard'[h] = heard[h] /\ (h \in missed' <=> h \in missed)
<1>1. PICK join : SendReport(p, g, join, aggregate, "none")
  BY DEF Sends
<1>2. QED BY <1>1 DEF SendReport

\* The versions of the profiles.
LEMMA VersionsFact ==
  ASSUME ValidConfig(cfg), NEW p \in DOMAIN cfg.profiles
  PROVE  Profile(p).version \in Versions /\ Profile(p).version \in {1, 2, 3, 16, 17}
<1>1. ValidProfile(p, cfg.profiles[p])
  BY DEF ValidConfig
<1>2. PICK f : f = cfg.profiles[p]
  BY Zenon
<1>3. f.version \in {1, 2, 3, 16, 17}
  <2>1. ValidProfile(p, f)
    BY <1>1, <1>2, Zenon
  <2>2. QED BY <2>1 DEF ValidProfile
<1>4. f.version \in Versions
  BY <1>2, Zenon DEF Versions
<1>5. QED BY <1>2, <1>3, <1>4, Zenon DEF Profile

\* A report says of a membership what its version can.
LEMMA ConveyedFact ==
  ASSUME NEW versions, NEW v \in versions, v \in {1, 2, 3, 16, 17}, NEW m, NEW before
  PROVE  Conveys(versions, Conveyed(v, m, before), m)
<1>1. CASE v \in {3, 17}
  BY <1>1 DEF Conveyed, Conveys
<1>2. CASE v \notin {3, 17} /\ m # None
  BY <1>2 DEF Conveyed, Conveys
<1>3. CASE v \in {2, 16} /\ m = None
  BY <1>3 DEF Conveyed, Conveys
<1>4. CASE v = 1 /\ m = None
  BY <1>4 DEF Conveys
<1>5. QED BY <1>1, <1>2, <1>3, <1>4

\* The groups of upstream's view.
LEMMA HeardFact ==
  ASSUME DOMAIN heard = Groups, [Next]_vars
  PROVE  DOMAIN heard' = Groups
<1>1. ASSUME NEW p, NEW g, NEW aggregate, NEW fault, Sends(p, g, aggregate, fault) PROVE DOMAIN heard' = Groups
  BY <1>1 DEF Sends, SendReport
<1>0. ASSUME NEW p, NEW g, NEW join, NEW aggregate, NEW fault,
             SendReport(p, g, join, aggregate, fault) \/ SendLeave(p, g, aggregate, fault)
      PROVE  DOMAIN heard' = Groups
  BY <1>0, <1>1, Zenon DEF Sends, SendLeave
<1>2. NoReport => DOMAIN heard' = Groups
  BY DEF NoReport
<1>3. ASSUME NEW k, NEW c, NEW report, NEW fault, NEW next, Finalize(k, c, report, fault, next)
      PROVE  DOMAIN heard' = Groups
  BY <1>0, <1>2, <1>3, Zenon DEF Finalize
<1>4. ASSUME NEW fault, DropSource(fault) PROVE DOMAIN heard' = Groups
  <2>1. ASSUME NEW k, NEW c, NEW next, AskLastMember(k, c, fault, next) PROVE DOMAIN heard' = Groups
    BY <1>0, <1>2, <2>1, Zenon DEF AskLastMember
  <2>2. QED BY <1>2, <1>3, <1>4, <2>1 DEF DropSource
<1>5. ASSUME NEW fault, RunLeave(fault) \/ AgeClient(fault) PROVE DOMAIN heard' = Groups
  BY <1>2, <1>3, <1>5 DEF RunLeave, AgeClient
<1>6. ASSUME NEW fault, AddSource(fault) PROVE DOMAIN heard' = Groups
  <2>1. ASSUME NEW k, NEW c, NEW d, AdmitSource(k, c, d, fault) PROVE DOMAIN heard' = Groups
    BY <1>0, <1>2, <2>1, Zenon DEF AdmitSource
  <2>2. ASSUME NEW k, NEW c, NEW d, RejectSource(k, c, d, fault) PROVE DOMAIN heard' = Groups
    BY <1>0, <1>2, <2>2, Zenon DEF RejectSource
  <2>3. QED BY <1>6, <2>1, <2>2 DEF AddSource
<1>7. ASSUME NEW fault, KeepSource(fault) PROVE DOMAIN heard' = Groups
  <2>1. ASSUME NEW k, NEW c, NEW d, RefreshSource(k, c, d, fault) PROVE DOMAIN heard' = Groups
    BY <1>0, <1>2, <2>1, Zenon DEF RefreshSource
  <2>2. QED BY <1>7, <2>1 DEF KeepSource
<1>8. ASSUME NEW fault, ExpireGroup(fault) PROVE DOMAIN heard' = Groups
  <2>1. ASSUME NEW x, NEW gone, Withdraw(x, gone, fault) PROVE DOMAIN heard' = Groups
    BY <1>0, <1>2, <2>1, Zenon DEF Withdraw
  <2>2. QED BY <1>2, <1>8, <2>1 DEF ExpireGroup
<1>9. CASE JobStep
  BY <1>4, <1>5, <1>6, <1>7, <1>8, <1>9 DEF JobStep, GeneralQueries, CommitRecord, StartAgeing
<1>10. CASE \E new \in Configs, fault \in Faults : Reload(new, fault)
  BY <1>10 DEF Reload
<1>11. CASE \/ DeadlinePasses \/ StartExpire \/ Publish \/ \E qrv \in Learnable, mld \in BOOLEAN : LearnQuery(qrv, mld)
            \/ \E c \in Clients, g \in Groups, rec \in Records : Report(c, g, rec)
  BY <1>11 DEF DeadlinePasses, StartExpire, Publish, LearnQuery, Report
<1>12. CASE UNCHANGED vars
  BY <1>12 DEF vars
<1>13. QED BY <1>9, <1>10, <1>11, <1>12 DEF Next

\* After every step upstream has heard the aggregate of the streams.
LEMMA NextUpstreamInv ==
  PolicyInv /\ KnownInv /\ DeliveryInv /\ UpstreamInv /\ [Next]_vars => UpstreamInv'
<1>1. SUFFICES ASSUME Base, Shape, KnownInv, DeliveryInv, UpstreamInv, [Next]_vars PROVE UpstreamInv'
  BY PartsFact
<1>2. DOMAIN heard = Groups /\ DOMAIN heard' = Groups
  BY <1>1, HeardFact DEF UpstreamInv
<1>3. ASSUME faults' = 0, Aggregating', NEW g \in Groups, g \notin missed'
      PROVE  Conveys(Versions', heard'[g], Aggregate(g, streams'))
  <2>1. faults = 0 /\ (Effects \/ Fresh) /\ NoneEmpty(streams)
    BY <1>1, <1>3, NextKinds, DeliveryParts DEF Delivered
  <2>2. CASE Fresh
    <3>1. Live(g, streams') = {}
      BY <2>2 DEF Fresh, Live
    <3>2. Aggregate(g, streams') = None
      BY <3>1, AggregateForm
    <3>3. QED BY <2>2, <3>2 DEF Fresh, Conveys
  <2>3. CASE Effects
    <3>0. cfg' = cfg /\ Versions' = Versions
      BY <2>3 DEF Effects, Versions
    <3>1. Aggregating /\ \A h \in Groups : h \in missed \/ Conveys(Versions, heard[h], Aggregate(h, streams))
      BY <1>1, <1>3, <2>1, <3>0 DEF Aggregating, UpstreamInv
    <3>2. \A p \in DOMAIN cfg.profiles : Profile(p).function # 0
      BY <3>1 DEF Aggregating, Profile
    <3>3. ASSUME NoReport, Aggregate(g, streams') = Aggregate(g, streams)
          PROVE  Conveys(Versions', heard'[g], Aggregate(g, streams'))
      BY <1>3, <3>0, <3>1, <3>3 DEF NoReport
    <3>4. ASSUME NEW p \in DOMAIN cfg.profiles, NEW k \in Keys,
                 Sends(p, k.group, Aggregate(k.group, streams'), "none"),
                 k.group # g => Aggregate(g, streams') = Aggregate(g, streams)
          PROVE  Conveys(Versions', heard'[g], Aggregate(g, streams'))
      <4>1. k.group \in DOMAIN heard
        BY <1>2, KeyFact
      <4>2. /\ k.group \in missed' \/ heard'[k.group] = Conveyed(Profile(p).version, Aggregate(k.group, streams'),
                                                                 heard[k.group])
            /\ \A h \in DOMAIN heard \ {k.group} : heard'[h] = heard[h] /\ (h \in missed' <=> h \in missed)
        BY <3>2, <3>4, <4>1, SentFact
      <4>3. CASE k.group = g
        <5>1. Conveys(Versions, Conveyed(Profile(p).version, Aggregate(g, streams'), heard[g]), Aggregate(g, streams'))
          BY <1>1, VersionsFact, ConveyedFact DEF Base
        <5>2. QED BY <1>3, <3>0, <4>2, <4>3, <5>1
      <4>4. CASE k.group # g
        BY <1>2, <1>3, <3>0, <3>1, <3>4, <4>2, <4>4
      <4>5. QED BY <4>3, <4>4
    <3>5. CASE Calm
      BY <3>1, <3>3, <3>5 DEF Calm
    <3>6. CASE Loses
      BY <3>3, <3>6 DEF Loses, Unknown
    <3>7. CASE Withdraws
      <4>1. PICK gone : \E k \in DOMAIN streams, p \in DOMAIN cfg.profiles : Thins(k, gone, p)
        BY <3>7 DEF Withdraws
      <4>2. PICK k \in DOMAIN streams, p \in DOMAIN cfg.profiles : Thins(k, gone, p)
        BY <4>1
      <4>3. k \in Keys /\ Thinned(streams', streams, k, gone)
        BY <1>1, <4>2 DEF Shape, StreamsOK, Thins
      <4>4. k.group # g => Aggregate(g, streams') = Aggregate(g, streams)
        <5>1. \A q : q # k => /\ q \in DOMAIN streams' <=> q \in DOMAIN streams
                              /\ q \in DOMAIN streams => streams'[q] = streams[q]
          BY <4>3 DEF Thinned
        <5>2. QED BY <5>1, AggregateOther
      <4>5. IF Aggregate(k.group, streams') # Aggregate(k.group, streams)
            THEN Sends(p, k.group, Aggregate(k.group, streams'), "none") ELSE NoReport
        BY <3>2, <4>2 DEF Thins
      <4>6. QED BY <3>3, <3>4, <4>3, <4>4, <4>5
    <3>8. CASE Joins
      <4>1. PICK d, v : \E k \in Keys, c \in Clients : d.profile \in DOMAIN cfg.profiles /\ Grows(k, c, v, d.profile)
        BY <3>8 DEF Joins
      <4>2. PICK k \in Keys, c \in Clients : d.profile \in DOMAIN cfg.profiles /\ Grows(k, c, v, d.profile)
        BY <4>1
      <4>3. Grown(streams', streams, k, c, v)
        BY <4>2 DEF Grows
      <4>4. k.group # g => Aggregate(g, streams') = Aggregate(g, streams)
        <5>1. \A q : q # k => /\ q \in DOMAIN streams' <=> q \in DOMAIN streams
                              /\ q \in DOMAIN streams => streams'[q] = streams[q]
          BY <4>3 DEF Grown
        <5>2. QED BY <5>1, AggregateOther
      <4>5. \/ Sends(d.profile, k.group, Aggregate(k.group, streams'), "none")
            \/ /\ NoReport /\ k \in DOMAIN streams
               /\ \E e \in Effective(streams[k]) : e \in Effective(streams'[k])
        BY <3>2, <4>2 DEF Grows, StreamOf
      <4>6. CASE NoReport /\ k \in DOMAIN streams /\ \E e \in Effective(streams[k]) : e \in Effective(streams'[k])
        <5>1. Aggregate(k.group, streams') = Aggregate(k.group, streams)
          BY <2>1, <4>3, <4>6, AggregateKept DEF NoneEmpty
        <5>2. QED BY <3>3, <4>4, <4>6, <5>1
      <4>7. QED BY <3>4, <4>2, <4>4, <4>5, <4>6
    <3>9. QED BY <2>3, <3>5, <3>6, <3>7, <3>8 DEF Effects
  <2>4. QED BY <2>1, <2>2, <2>3
<1>4. QED BY <1>2, <1>3 DEF UpstreamInv

\* Without a fault, aggregating profiles have told upstream what the streams add up to, or the
\* rate limit dropped the report; also while a job is half done.
THEOREM Upstream == Spec => []UpstreamInv
<1>1. Init => UpstreamInv
  <2>1. SUFFICES ASSUME Init, NEW g \in Groups PROVE DOMAIN heard = Groups /\ heard[g] = Aggregate(g, streams)
    BY DEF Init, UpstreamInv, Conveys
  <2>2. Live(g, streams) = {}
    BY <2>1 DEF Init, Live
  <2>3. Aggregate(g, streams) = None
    BY <2>2, AggregateForm
  <2>4. QED BY <2>1, <2>3 DEF Init
<1>2. QED BY <1>1, NextUpstreamInv, Policies, Knowns, Deliveries, PTL DEF Spec

\* The aggregate lets through what some client asks for.
LEMMA AdmitsFact ==
  ASSUME StreamsOK(streams), KnownInv, NEW g \in Groups, NEW s \in AnySource
  PROVE  Admits(Aggregate(g, streams), s) <=> Askers(s, g) # {}
<1>1. PICK specific, wild, live : specific = Key(s, g) /\ wild = Key(Wild, g) /\ live = Live(g, streams)
  BY Zenon
<1>2. PICK included : included = Named(live)
  BY Zenon
<1>3. specific.source = s /\ specific.group = g /\ wild.source = Wild /\ wild.group = g /\ s # Wild
  BY <1>1, StrangerFact DEF Key
<1>4. \A q : q \in live <=> q \in DOMAIN streams /\ q.group = g /\ DOMAIN streams[q] # {}
  BY <1>1 DEF Live
<1>5. s \in included <=> specific \in live
  <2>1. ASSUME NEW q \in live, q.source = s PROVE q = specific
    BY <1>1, <1>4, <2>1 DEF StreamsOK, Keys, Key
  <2>2. QED BY <1>2, <1>3, <2>1 DEF Named
<1>6. Askers(s, g) # {} <=>
        \/ specific \in live
        \/ wild \in live /\ s \notin ExcludedByAll(streams[wild])
  <2>1. \A x : x \in Askers(s, g) <=>
          \/ /\ specific \in DOMAIN streams
             /\ \E c \in DOMAIN streams[specific] : x = <<specific, c>>
          \/ /\ wild \in DOMAIN streams
             /\ \E c \in DOMAIN streams[wild] : x = <<wild, c>> /\ s \notin streams[wild][c].excluded
    BY <1>1, AskersFact
  <2>2. Askers(s, g) # {} <=>
          \/ specific \in DOMAIN streams /\ DOMAIN streams[specific] # {}
          \/ wild \in DOMAIN streams /\ \E c \in DOMAIN streams[wild] : s \notin streams[wild][c].excluded
    <3>1. PICK A : A = Askers(s, g)
      BY Zenon
    <3>2. \A x : x \in A <=>
            \/ /\ specific \in DOMAIN streams
               /\ \E c \in DOMAIN streams[specific] : x = <<specific, c>>
            \/ /\ wild \in DOMAIN streams
               /\ \E c \in DOMAIN streams[wild] : x = <<wild, c>> /\ s \notin streams[wild][c].excluded
      BY <2>1, <3>1
    <3>3. A # {} <=>
          \/ specific \in DOMAIN streams /\ DOMAIN streams[specific] # {}
          \/ wild \in DOMAIN streams /\ \E c \in DOMAIN streams[wild] : s \notin streams[wild][c].excluded
      BY <3>2
    <3>4. QED BY <3>1, <3>3
  <2>3. wild \in live =>
          (s \in ExcludedByAll(streams[wild]) <=> \A c \in DOMAIN streams[wild] : s \in streams[wild][c].excluded)
    BY <1>4, ExclusionFact
  <2>4. QED BY <1>3, <1>4, <2>2, <2>3
<1>7. CASE live = {}
  <2>1. Aggregate(g, streams) = None
    BY <1>1, <1>7, AggregateForm
  <2>2. ~Admits(Aggregate(g, streams), s)
    BY <2>1 DEF Admits, None
  <2>3. QED BY <1>6, <1>7, <2>2
<1>8. CASE wild \in live
  <2>1. PICK ex : ex = ExcludedByAll(streams[wild]) \ included
    BY Zenon
  <2>2. Aggregate(g, streams) = [mode |-> "exclude", sources |-> ex]
    BY <1>1, <1>2, <1>8, <2>1, AggregateForm
  <2>3. Admits(Aggregate(g, streams), s) <=> s \notin ex
    <3>1. PICK m : m = Aggregate(g, streams)
      BY Zenon
    <3>2. m.mode = "exclude" /\ m.sources = ex
      BY <2>2, <3>1
    <3>3. Admits(m, s) <=> s \notin ex
      BY <3>2 DEF Admits
    <3>4. QED BY <3>1, <3>3
  <2>4. QED BY <1>5, <1>6, <1>8, <2>1, <2>3
<1>9. CASE live # {} /\ wild \notin live
  <2>1. Aggregate(g, streams) = [mode |-> "include", sources |-> included]
    BY <1>1, <1>2, <1>9, AggregateForm
  <2>2. Admits(Aggregate(g, streams), s) <=> s \in included
    BY <2>1 DEF Admits
  <2>3. QED BY <1>5, <1>6, <1>9, <2>2
<1>10. QED BY <1>7, <1>8, <1>9

\* In a group that adds up to a membership some packet is asked for.
LEMMA LiveAsked ==
  ASSUME StreamsOK(streams), KnownInv, NEW g \in Groups, Aggregate(g, streams) # None
  PROVE  \E t \in AnySource : Askers(t, g) # {}
<1>1. PICK k \in DOMAIN streams : k.group = g /\ DOMAIN streams[k] # {}
  BY AggregateForm DEF Live
<1>2. PICK c \in DOMAIN streams[k] : TRUE
  BY <1>1
<1>3. PICK src \in AllSources : k = Key(src, g)
  BY <1>1 DEF StreamsOK, Keys, Key, AllSources
<1>4. k.source = src
  BY <1>3 DEF Key
<1>5. <<k, c>> \in UNION {{q} \X DOMAIN streams[q] : q \in DOMAIN streams}
  BY <1>2
<1>6. CASE src \in Sources
  <2>1. <<k, c>> \in Askers(src, g)
    BY <1>1, <1>4, <1>5 DEF Askers
  <2>2. QED BY <1>6, <2>1 DEF AnySource
<1>7. CASE src = Wild
  <2>1. PICK m \in AnySource : m = Max(Sources) + 1
    BY DEF AnySource
  <2>2. m \notin AllSources
    BY <2>1, UnnamedFact
  <2>3. m \notin streams[k][c].excluded
    BY <2>2 DEF KnownInv
  <2>4. <<k, c>> \in Askers(m, g)
    BY <1>1, <1>4, <1>5, <1>7, <2>3 DEF Askers
  <2>5. QED BY <2>4
<1>8. QED BY <1>3, <1>6, <1>7 DEF AllSources

\* Without a fault, and unless the rate limit dropped it, the last report that aggregating
\* profiles sent upstream asks for every source some client asks for; with IGMPv3 and MLDv2 for
\* nothing else, and without IGMPv1 for nothing in a group that nobody listens to.
THEOREM UpstreamCorrect == Spec => []UpstreamInStep
<1>1. PolicyInv /\ KnownInv /\ UpstreamInv => UpstreamInStep
  <2>1. SUFFICES ASSUME Shape, KnownInv, UpstreamInv, faults = 0, Aggregating,
                        NEW g \in Groups \ missed, NEW s \in AnySource
                 PROVE  /\ Askers(s, g) # {} => Admits(heard[g], s)
                        /\ Versions \subseteq {3, 17} /\ Admits(heard[g], s) => Askers(s, g) # {}
                        /\ 1 \notin Versions /\ Admits(heard[g], s) => \E t \in AnySource : Askers(t, g) # {}
    BY PartsFact, Zenon DEF UpstreamInStep
  <2>2. Conveys(Versions, heard[g], Aggregate(g, streams)) /\ StreamsOK(streams)
    BY <2>1 DEF UpstreamInv, Shape
  <2>3. PICK h, m, asked, v : /\ h = heard[g] /\ m = Aggregate(g, streams) /\ v = Versions
                              /\ asked = (Askers(s, g) # {})
    BY Zenon
  <2>4. Admits(m, s) <=> asked
    BY <2>1, <2>2, <2>3, AdmitsFact
  <2>5. m # None => \E t \in AnySource : Askers(t, g) # {}
    BY <2>1, <2>2, <2>3, LiveAsked
  <2>6. \/ h = m
        \/ h = Everything /\ m # None /\ ~(v \subseteq {3, 17})
        \/ m = None /\ 1 \in v
    BY <2>2, <2>3 DEF Conveys
  <2>7. Admits(Everything, s) /\ ~Admits(None, s)
    BY DEF Admits, Everything, None
  <2>8. 1 \in v => ~(v \subseteq {3, 17})
    OBVIOUS
  <2>9. asked => Admits(h, s)
    BY <2>4, <2>6, <2>7
  <2>10. v \subseteq {3, 17} /\ Admits(h, s) => asked
    BY <2>4, <2>6, <2>8
  <2>11. 1 \notin v /\ Admits(h, s) => \E t \in AnySource : Askers(t, g) # {}
    BY <2>5, <2>6, <2>7
  <2>12. QED BY <2>3, <2>9, <2>10, <2>11, Zenon
<1>2. QED BY <1>1, Policies, Knowns, Upstream, PTL
=============================================================================
