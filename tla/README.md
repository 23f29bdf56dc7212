# Verification of airoha-omci

TLA+ models of `airoha-omcid`, the ONU side OMCI daemon of this repository, with
TLC configurations and TLAPS proofs. Paths are relative to the repository root.
`PROJECT.json` lists the components, the runs, the lines every definition
models, the hazards and the theorems.

## 1. The system

`airoha-omcid` answers an OLT over the OMCC. One process, few goroutines:

| Component | State | Operations | Talks to |
|---|---|---|---|
| Receiver goroutine (`cmd/airoha-omcid/main.go`) | a local generation | load generation, `ReadFrame`, `Enqueue` | dispatcher (channel) |
| Dispatcher (`internal/transaction`) | generation, two queues | ingress, output, `Reset`, overflow | receiver, main (unbuffered channels, one atomic) |
| Main loop (`main.go`) | newest kernel session, status | frames, platform events, tickers, errors | dispatcher, engine, transport |
| Engine (`internal/engine`) | replay slots, uploads, tables, alarms, ARC timers, PM baselines, download | `HandleFrame`, notifications, polls | store, helpers |
| MIB store (`internal/mib`) | ME instances, MIB data sync | Create, Set, SetTable, Delete, Reset, commands, autonomous updates, restore | apply helper |
| Platform (`internal/platform`) | none (child processes) | apply, control, software transactions, acceptance of a MIB as a service graph | external helpers, store |
| Multicast (`internal/multicast`, `cmd/airoha-mcastd`) | memberships, replication, timers | join, leave, query, expiry | kernel, MIB store (preview rows) |
| Transports, key derivation, checksums, status files | descriptors | I/O, pure functions | kernel |

What is hard in it: three goroutines meet on channels while sessions are torn
down under them; a mutation spans memory, a helper process and the disk, and
any of them can fail alone; the OLT retransmits over a lossy channel with
identifiers that repeat; a software image is written, validated, activated and
committed by helpers that outlive the daemon; counters wrap with one reserved
value; a membership report spans an engine, tc commands and upstream frames, and
stops at the first that fails; many kinds of reference between MEs are
checked by separate functions after every single change. What makes each part correct:

* **receive path** - no frame crosses a session reset, none is lost silently,
  priority and order per class, a reset returns, exhaustion ends the daemon;
* **store** - the persisted document is in step with memory and always
  restorable; an unchanged MIB data sync means an unchanged configuration, but for
  what the ONU changes itself;
* **transactions** - each request executed once and answered by its own
  response; an upload shows one state;
* **software** - the running slot and the next boot slot are never overwritten,
  only validated images are selected, the MIB agrees with the slots, downloads
  end; the sink receives the image as sent;
* **alarms, ARC, performance** - the alarm table and what the OLT was told
  agree; ARC ends; threshold crossing alerts are cleared with their interval;
* **multicast** - the policy engine, the runtime's streams, the tc rules and the
  membership reported upstream describe the same listeners; a leave that is
  waiting for other members is cancelled by a report;
* **service graph** - an accepted MIB has no dangling pointer along which the
  service is resolved and no one-way data path, and the OLT can always build or dismantle a service one ME at a time.

## 2. The modules

### OmccQueue, OmccDispatch (`internal/transaction/dispatcher.go`, `main.go`)

`OmccDispatch` has a program counter per goroutine (`rxpc`, `dpc`, `mpc`). A
rendezvous on an unbuffered channel is one step of both sides: `Enqueue` is the
receiver's send and the dispatcher's ingress case with `push` and the overflow
return; `TakeFrame` is the dispatcher's output case with `pop` and the main
loop's Frames case with `observeXGSOMCIKernelSession`. The reset case is split
(`ResetTake`, `ResetPublish`) because the receiver may load the atomic in
between. `SessionResetEvent` and the "advance" outcome of `TakeFrame` enter
`Reset`; `MainCancelled` covers every select on `ctx.Done()`. `wire`, `taken`,
`rxBegan` and the `began` field are history. Frames are a class (`prio`), a
record and a generation; the record (`Records`) is the driver instance and kernel
session that `observe` compares. A new instance counts its sessions from 1 again,
so a lower session of a new instance advances, and `KernelSessionOrder` orders the
frames of one instance only (`era` is the history that tells instances apart).

`OmccQueue` is what main relies on: frames wait in a set, a high-priority one
leaves first, then the oldest of its class, at most once; a reset forgets what
waits; overflow closes. `QueueSpec` (`INSTANCE OmccQueue` with
`pending <- Pending`, `open <- dpc # "stopped"`) is the refinement.

### MibStore (`internal/mib`, `internal/platform/exec.go`, `initializeMIB`)

`mem` is `Store.current` with `dataSync`, `cand` the candidate of the mutation in
flight, `disk` the platform's document. A mutation is `propose` (the checks, the
candidate, `setDataSync`), one outcome of the helper (`ApplyOk`, `ApplyFail`,
`ApplyTimeout`: killed after its effect), for a transactional command the commit
and, if that fails, the write-back, and `Assign`. `DaemonCrash` and
`DeviceReboot` may come between any two; `InitializeRestore` and
`InitializeReset` are `initializeMIB`. An ME is abstracted to its provisioned
value (`cfg`), a timed preview row (`row`) and its read-only value (`hw`); data
sync is kept in both places the code keeps it. Autonomous updates are not
persisted: `UpdateAutonomous` changes read-only values, `NotifyAttributeChange`
also attributes that the OLT provisions (`AvcKeys`; the end of ARC is one), in
memory and without a new data sync. `unsaved` and `own` are history: the MEs the
ONU changed since memory and document were last the same, and those it took from
the factory configuration since the last MIB reset. A restart that restores the older value undoes the
change under the same data sync; `Durable` and `ChangeIsDetectable` except these
MEs by name and nothing else.
Assumed of the helper: it replaces the document as a whole, and not after the
daemon that started it has been replaced.

### OmciTransactions (`internal/engine/engine.go`)

Per channel a replay slot (`slot`), an OLT that repeats its request, and two
FIFO directions that lose messages. `Replay` and `Execute` are the two outcomes
of `HandleFrame` (a frame it rejects with an error has no effect and no response,
like a lost one); `afterReplay`, `answerTo` and `afterDispatch` are the effects
on the retrieval snapshots; `Expire` is the passing of the minute;
`ResetCommunicationSession` clears what belongs to a session. The contents of
the MIB and of the alarm table are a version number each, which is all that
`UploadConsistent` compares. All requests that change the MIB are `Set`;
`AutonomousChange` is a change without a request. Sessions are unbounded, the
versions that are told apart are not: at `MaxVersion` changes go unnoticed.

### SoftwareLifecycle, SectionWindow (`internal/engine/software.go`, `internal/platform/software.go`)

`SoftwareLifecycle` keeps the slots (`plat`, external), the Software Image MEs
(`mib`), `Engine.download` (`dl`), the goroutine that waits for the helper
(`finish`, `finished`), the helper itself and the prepared transaction. The
order prepare, persist, platform commit, assign is `Prepare`, then `TxnAborted` /
`TxnCommitted` / `TxnLost`, then `TxnRecorded`. The helper refuses a second
download while one runs (external) - for a helper of an earlier daemon the engine
learns it only at a later write or at the end (`StartDoomed`) - an abort undoes a commit that reported
failure unless `AbortFails`, and the boot guard tries an activated image once.

`SectionWindow` is `downloadSoftwareSection` with the duplicate suppression of
`HandleFrame` (the digest of the last section without response, the replay slot
of the closing one), facing an OLT that opens windows of any size up to the
negotiated one and gives every window a new transaction identifier. Sections
are of equal size; the zero padding of the last baseline section is not
modelled.

### AlarmNotify (`notifications.go`, `arc.go`, `performance*.go`, `runtime_state.go` of `internal/engine`)

The engine's mutex makes each handler one action; a handler threads the fields it
changes through a record (`S0`, then `notifyAlarm`, `pollARCKey`,
`evaluatePerformanceTCA`, `clearPerformanceTCANotifications` in the code's order;
the loops over all performance MEs are `evaluatedUpTo` and `clearedUpTo`) and
`Finish` assigns it. `alarms`, `tca`, `seq`, `age` and `armed` are
`Engine.alarms`, `performanceTCA`, `alarmSequence`, the time since
`arcFreeSince` and whether `performanceNext` is set; `arc` and `interval` are
MIB attributes in memory, `savedArc` those in the persisted document, which
only OLT commands write. `olt` is an observer that follows the table through
notifications and forgets everything at a gap in the sequence. Each frame of a
handler arrives or is lost alone: the record carries the set of states the OLT may
be in (`heard`) and `Finish` picks one; `hushed` is history: the MEs that changed under a lock or ARC since it
last heard of them. `NotifyAlarm` stands for platform alarm events and for the
bitmaps that optical and BER samples evaluate to, `PollPerformance` for a poll
within an interval or at its end, `PollLate` for one after several intervals.
`SetThreshold` and `SetArc` are `afterSetLocked`, re-evaluation of the last sample
and ARC poll included. `Restart` is an orderly restart: the runtime document is written last, and
restored if `RestoreAccepted`.

Abstractions: counters and thresholds are the set of alerts a sample reaches;
the point that owns a performance ME is fixed; a retrieval is atomic (its pages
are in `OmciTransactions`); the attribute value change that announces the end of
ARC carries no alarm sequence number and is left out; notifications sent while
no OLT has retrieved the alarms are unobserved; the error returns of
`notifyAlarmLocked` after its write to the table are left out, because Create,
Delete and Set refuse what would lead there (`engine.go:396`, `443`).

### MulticastPolicy, MulticastFilter, MulticastRuntime (`internal/multicast`, `cmd/airoha-mcastd`)

`MulticastPolicy` is the policy engine as operators over its state: what `compile`
rejects (`ValidConfig`), which service package and access list row a join meets
(`Packages`, `Candidates`), and the set of decisions a join can get (`Decisions`: accepted, rejected,
forwarded, on preview, under a group or bandwidth limit). `MulticastFilter` is
what the tc chain built by `rebuildLocked` does with a packet: the first matching
filter in order of preference, on the GEM and with the ANI VLAN (`path`) of its rule.

`MulticastRuntime` drives both. `Runtime.mu` serialises capture, ticker and
reload, but one handler makes several backend calls and any of them may fail, so
a handler is a job in `work` that takes one step per stream while nothing else
runs: `Report` is the start of `applyRecordLocked`, `DropSource`, `AddSource` and
`KeepSource` are `removeLocked`, `addLocked` and `refreshLocked` (`RefreshSource`)
for one source, `CommitRecord` assigns the membership; `StartExpire`, `ExpireGroup`,
`GeneralQueries`, `RunLeave`, `StartAgeing` and `AgeClient` are `Expire` in the
code's order (`Withdraw` is the body of its loop); `Finalize` is
`finalizeClientLocked`. `Publish`, `Reload` and
`LearnQuery` are the rest of the daemon's loop. `policy` and `previews` are
`Engine.state`, `members`, `streams`, `pending`, `rates` and `learned` the
runtime's maps, `rules` the rules in the chain. `heard` is what upstream was told
last, as far as the profile's version can say it (`Conveyed`); `missed` (the rate limit dropped it), `diverged` (engine and runtime part
over an address for a reason listed below) and `halted` (the hosts whose last
report for a group ended half way) are history. The `fault` of a step
names the tc, report or query call that fails in it.

Abstractions: one subscriber on one interface and one UNI VLAN; deadlines pass at
any moment between two jobs, while the code reads the clock at every join; a message
carries one record; the groups are of one address family, that of the profiles. Two
hosts may have one address: the engine then knows one client and the runtime two. Left out: tc failing while it refreshes a client the stream
does not hold, a rollback of tc that fails too, the preview checks of access list
part 1 and the IP version of a source, bandwidth samples, and the class 311 tables.

### ServiceGraph (`internal/platform/graph.go`, `internal/platform/multicast.go`, `internal/vlan`)

A MIB is a function from `<<class, entity>>` to attribute records. `BuildsGraph`
has one conjunct per check of `buildServiceGraph` and its helpers, `BuildsPolicy`
is the conversion to multicast policies (`PolicyConfig`, `AttachmentOk`) with the
engine's own `ValidConfig` on the result. `Create`, `Set`, `Delete` and `Reset` are
the OLT's operations: the candidate replaces the MIB only if `Accepts` holds,
which is where `ExecApplier.Apply` refuses a mutation before its helper runs;
what happens after that is `MibStore`. The OLT of a plan offers the MEs of one
service together with conflicting and faulty variants of them. The document
that is handed to the helper, attributes that no check reads, and the octets of
table rows are not modelled; an address is its first octet. `Pointers` are the
references the graph is resolved along. Others may dangle in an accepted MIB: a
scheduler's T-CONT (`graph.go:477-491`), the scheduler of a queue whose T-CONT does
not exist, the profile of a subscriber with service packages, the termination point
of a bridged interworking point and the service of a multicast one without an option.

## 3. The runs

| Run | Checks | Bounds | Result |
|---|---|---|---|
| `dispatch` | `TypeOK`, `SessionFresh`, `NoSilentLoss`, `KernelSessionOrder`, `QueueSpec`, `FrameServed`, `ResetReturns` | queue of 2, 3 frames, 1 reset event, 2 sessions of one instance and 1 of another | holds, 334 k states |
| `dispatch_exhaustion` | `ExhaustionTerminates` | queue of 1, 2 frames, 1 reset | violated (finding 1) |
| `mib_store` | `TypeOK`, `ZeroMeansFactory`, `Durable`, `NeverDiscarded`, `ChangeIsDetectable` | 1 OLT ME, 1 ONU ME, 2 values, sync wraps at 3 | holds, 391 k states |
| `transactions` | `TypeOK`, `AtMostOnce`, `AnswerIsOwn`, `UploadConsistent`, `EveryRequestAnswered` | low and high channel, 2 identifiers, 3 requests and 1 per session, MIB upload | holds, 119 k states |
| `software` | `TypeOK`, `DownloadTargetsSpare`, `SelectedIsValid`, `MibIsHonest`, `OneImageSelected`, `FinalizationEnds` | 4 crashes or reboots, failing aborts, 1 MIB reset | holds, 26 k states |
| `software_mib_reset` | `RejectsSelectedTargets` | 1 MIB reset | violated (finding 2) |
| `alarms` | `TypeOK`, `InStep`, `NoFalseGap`, `TimerMeansQuiet`, `AlertIsAudited`, `ArcEnds` | 1 UNI, its PM with 2 alerts, ONU-G; numbers wrap at 2; intervals 0, 1, 255 | holds, 236 k states |
| `alarms_boundary` | `AlertClears` | 1 alert, no restarts | violated (finding 3) |
| `sections` | `TypeOK`, `SinkIsPrefix`, `DownloadCompletes` | 6 sections, windows of up to 3, 3 faults | holds |
| `multicast` | `TypeOK`, `PolicyInStep`, `DeliveryMatches`, `UpstreamInStep`, `PendingHasLeft` | 2 hosts, 1 group from 1 or any source, 4 policies and one that is rejected, 1 fault | holds, 522 k states |
| `multicast_addresses` | `ClientsIndependent` | 2 hosts with one address, 1 policy, no fault | violated (finding 4) |
| `service_graph` | `NoDangling`, `TwoWay`, `NeverStuck` | 3 plans, GPON | holds, 18 k states |

Why the bounds are enough. Two queue places and three frames give a frame in main
while both classes wait, one in the receiver while the queue is full, and overflow. One
reset event and the session changes of the three records give resets in any order. A
data sync of 3 wraps within four mutations; the proofs cover every larger
counter. Two identifiers are the fewest that stop-and-wait allows, so reuse
happens at the third request; one request of the high-priority channel falls
between any two steps of the low one. The extended channel differs from the low one
in its snapshots alone (`device`), and the alarm retrieval from the MIB upload in
what a MIB reset does to it; both are left to the proofs. Four crashes cover one between any two steps of
a download, an activation and a commit. In the image `a a b a a b` a repeated
section can be mistaken for the next one, and three faults allow a lost
section, a repeated one and a lost response in the same window. Alarm numbers
that end at 2 wrap at the third notification, and one lost frame is what such
numbers can tell (255 losses in a row would escape any OLT); the intervals are
the immediate, a timed and the endless one; one point, one performance ME of its
group and one ME outside it are the cases `arcOwner` tells apart, and two alerts
let a second crossing follow a first, reported or not. Two hosts are the last and
the last but one member of a stream, and may ask for the same group by
inclusion, by exclusion or from any source; `AnySource` also asks about a source
that no report names. The four policies are a proxy that ages clients and takes one source
on a VLAN of its own, an aggregating IGMPv2 profile with a limit of one group, one report a second and previews,
snooping with a static range and forwarded joins, and IGMPv1 service packages with an
allowed preview under an enforced bandwidth; one failing call may end any job at
any of its steps. Hosts with one address have a run of their own. The three plans are a bridged service over a P-bit mapper (two
of the eight P-bits, which the checks treat alike), IPTV on a mapper bound to a
UNI, and quality of service on a bridge; TLC reaches the finished service of each.
The port and Alloc-ID limits of XGS-PON are in the module and not in a run.
Deadlock is checked where the system never stops (`mib_store`, `transactions`,
`service_graph`);
the other models end when the daemon ends or a bound is reached.

Some properties are conditional, because the code gives more only without a known
disturbance. The slot properties of `software` hold while the MIB is not known
to be behind (`stale`: a MIB reset, a failed abort or an unrecorded download start; finding 2 is the case
without the condition). `PolicyInStep` holds through every fault, up to the pairs
in `diverged`. `PendingHasLeft` holds through every fault and divergence too, but
not for a host whose last report ended half way (`halted`). `DeliveryMatches` and
`UpstreamInStep` speak of behaviours in which no backend call has failed, since a
job that fails half way is not undone; `DeliveryMatches` of groups over which engine
and runtime never parted, and not of a source that is asked for and excluded on one
GEM with two ANI VLANs (`VlanIgnored`); `UpstreamInStep` of what the versions in use
can say: sources before IGMPv3 and MLDv2 and leaves of IGMPv1 they cannot.
`FrameServed` promises a normal frame service only once no more frames arrive:
priority is strict (`dispatcher.go:49-56`).

Fairness. Goroutines: weak for steps that stay possible, strong for a select
case or a channel rendezvous that is ready again and again (the Go runtime
picks uniformly among ready cases and queues channel waiters). OLT: it repeats
a request, End included, until it is answered (weak); this is the stop-and-wait
rule the engine's replay is written for. OMCC: a message sent again and again
arrives and is served (strong, for each direction). Helpers: they end, because the code gives them a timeout. Tickers: time
passes, `PollARC` runs every second and `PollPerformance` often enough that an
interval ends again and again (`BoundarySpec`, for the finding). `ServeSpec` is the
specification of `dispatch` with the fairness of its goroutines; `multicast` and
`service_graph` state no fairness and check no liveness. Nothing is assumed of kernel sessions, events, signals, crashes or failures.

Each property has a mutant: an operator beside the definition it replaces that
makes a plausible mistake in it, under which TLC finds the property violated.

### Findings

1. *Exhaustion can hang the daemon* (`dispatch_exhaustion`). After
   `ErrQueueFull` the dispatcher goroutine is gone. If main's select takes a
   session reset event before the error, `Dispatcher.Reset` waits for it for
   ever. `docs/implementation.md:70` says exhaustion terminates the daemon.
2. *MIB reset unprotects the running slot* (`software_mib_reset`). The reset
   restores the factory Software Image flags and the slots are imported again
   only at startup, so on an ONU that runs image 1 Start download of image 1
   passes the check (`RejectsSelectedTargets`). `docs/implementation.md:200` says active or committed
   targets are rejected.

3. *A suppressed crossing is never cleared* (`alarms_boundary`). A threshold
   crossing under an administrative lock or under ARC is written to the alarm
   table and not to `performanceTCA`, and the interval end, time
   synchronization, MIB reset and deletion clear only what is there.
   `docs/implementation.md:157-160` says every boundary sends the all-clear
   and that reset and deletion discard the state.

4. *Hosts with one address are not independent* (`multicast_addresses`). The policy
   engine keys clients by address, the runtime by address and MAC, and any IPv4
   source address is accepted, 0.0.0.0 included. When two such hosts have joined and
   left, the second leave removes the tc rule, fails in `Engine.Leave` and keeps the
   stream; a host that joins again is accepted and gets no rule
   (`ClientsIndependent`). `docs/implementation.md:298` says each client is tracked
   independently.

Noted while modelling, without a run:

* Deleting a performance ME whose alert was the only alarm of an ARC group leaves
  ARC on without a timer; `PollARC` looks only at running timers (`arc.go:30`).
  `TimerMeansQuiet` is the direction that holds.
* The end of ARC is not persisted, and Arc is part of the runtime fingerprint: an
  orderly restart after it discards the alarms, alerts and timers, which
  `docs/implementation.md:169-171` says survive. `Restart` models this.
* `docs/platform-abi.md` says the prior MIB snapshot is written back if candidate
  persistence or platform commit fails; `updateByCommand` writes it back only for
  the latter (`store.go:738-742`).
* `Engine.Join` and `Engine.Monitor` discard a preview that is due, so `Expire` no longer
  sees it and its stream and tc rule stay until the host leaves or the policy is
  reloaded; `docs/implementation.md:297-298` says the runtime expires preview
  delivery. These pairs are in `diverged`.
* A proxy client that aged out keeps its membership record. Its next report is
  taken as a refresh, `refreshLocked` finds no stream and fails, and the client
  that `Engine.Join` has just entered stays in the engine alone.
* A failing `SetReplication` in `addLocked` removes the client from stream and
  engine even if it was there before; `Expire` that fails half way has already
  taken the remaining groups out of the engine.
* `applyRecordLocked` that returns an error half way keeps the old membership and
  the last-member timers it has already started. A report that gives up one
  source and is then refused for another (the refresh of a source that aged out,
  for instance) leaves a pending leave for a source the membership still names.
* The end of ARC, written to memory only, is undone by a restart under the same MIB
  data sync, as is any change of an attribute that the ONU and the OLT both set.
* `effectiveExcludedSources` (`linux_backend.go:635-649`) compares GEM ports and not
  ANI VLANs: a source somebody asks for on one VLAN passes the wildcard rule of
  another VLAN on which every host excludes it.
* `graph.go:300` says dangling references are rejected; those no resolution follows
  (section 2) are not.
* Two GEM interworking points may share one GEM CTP (the comment at
  `graph.go:300` speaks of rejecting ambiguous references).
* In XGS-PON mode the graph admits port identifiers up to 65534, while
  `validateACL` (`multicast/policy.go:400`) and `validateUpstreamMapper`
  (`linux_backend.go:248`) refuse those above 4095.

## 4. The proofs

Eight modules of proofs, one per component; together they state the refinement
`QueueSpec`, the action property `ChangeIsDetectable` and, with the exception of
`NeverStuck`, every invariant that a passing run checks, for every value of the constants that the
named assumptions admit. Each rests on an inductive invariant, defined next to
the properties in the component's module, so that TLC can check it too
(`GraphInv` is in its proof module), and proved with one lemma or step per
action.

| Module | Assumption | Inductive invariant | Theorems |
|---|---|---|---|
| `OmccDispatchProofs` | `DispatchAssumption` | `SessionInv`, `LossInv`, `KernelInv`, `QueueInv` | `TypeOK`, `SessionFresh`, `NoSilentLoss`, `KernelSessionOrder`, `QueueSpec` |
| `MibStoreProofs` | `StoreAssumption` | `StoreInv` | `TypeOK`, `ZeroMeansFactory`, `Durable`, `NeverDiscarded`, `ChangeIsDetectable` |
| `OmciTransactionsProofs` | `TransactionsAssumption`, `HighAssumption` | `TransactionInv` | `TypeOK`, `AtMostOnce`, `AnswerIsOwn`, `UploadConsistent` |
| `SoftwareLifecycleProofs` | `LifecycleAssumption` | `LifecycleInv` | `TypeOK`, `DownloadTargetsSpare`, `SelectedIsValid`, `MibIsHonest`, `OneImageSelected` |
| `SectionWindowProofs` | `WindowAssumption` | `SectionInv` | `TypeOK`, `SinkIsPrefix` |
| `AlarmNotifyProofs` | `AlarmAssumption` | `AlarmInv` | `TypeOK`, `InStep`, `NoFalseGap`, `TimerMeansQuiet`, `AlertIsAudited` |
| `MulticastRuntimeProofs` | `AddressAssumption`, `TableAssumption` | `PolicyInv`, `KnownInv`, `LeaveInv`, `DeliveryInv`, `UpstreamInv` | `TypeOK`, `PolicyInStep`, `PendingHasLeft`, `DeliveryMatches`, `UpstreamInStep` |
| `ServiceGraphProofs` | `PlanAssumption` | `GraphInv` | `NoDangling`, `TwoWay` |

The assumptions say that counters and bounds are naturals, that sets which stand
for different things are disjoint, and: a queue has a place, data sync wraps no
sooner than at 2, at least two transaction identifiers (with one, stop-and-wait
cannot tell a repeat from a new request), a factory MIB that the platform
accepts, tables that are sequences of rows and sources with a greatest one
(`TableAssumption`: addresses have a fixed width). Hosts may share an address.

*Receive path.* `SessionFresh` speaks only of the frame main holds; `SessionInv`
adds how the three copies of the generation relate (the local one is one behind
the Reset calls exactly while main offers a reset, the atomic trails it until
the acknowledgement) and that every frame on its way which carries the current
generation began after the last call. `LossInv` adds that the receiver offers
the frame it read last and that no frame has an unpublished generation;
`KernelInv` that instance and session observed last are those of the frame in main's
hands, so that no older one of that instance follows.
For the refinement `QueueInv` says that both queues are in receive order and
that everything behind the receiver is older than what it offers: the head of a
queue is then the oldest waiting frame of its class, `Enqueue`, `TakeFrame`,
`ResetTake` and an overflow are the operations of `OmccQueue`, all other steps
stutter.

*Store.* `StoreInv` says that memory, the candidate in flight and the document
are each a `Successor` of memory (accepted by the restore checks, factory if
its sync is 0, another sync if another configuration, each up to what the ONU has
changed itself), and that the document
agrees with memory until the helper replaces it. Without the candidate and the
document in it nothing could be said of a crash or of a late rollback.

*Transactions.* `AtMostOnce` is not inductive because it says nothing of what is
under way. `TransactionInv` has, per channel, which requests and responses may
still be in the two directions, when the replay slot answers the outstanding
request, and that a snapshot has the version the OLT is collecting or is about
to learn.

*Software.* `LifecycleInv` relates the MIB to the slots through a transaction that
has been committed and not yet recorded (`RecordInv`), keeps a running helper on a
slot that is not valid, and keeps the result of a finished helper valid until it is used.

*Sections.* `SectionInv` describes the three phases of a window (between two
windows, collecting, closed with its response under way): in each, what the
engine has received is the image up to the base of the window, and the window
what follows it. The one case in which the engine is ahead of the OLT, a section
that will be sent again, is a disjunct of `Collecting`.

*Alarms.* `NoFalseGap` needs to know the number after a loss: `Numbered` says that
the ONU's number is the OLT's, advanced by the frames lost. Since each frame of a
handler may be lost alone, the handler's record carries a set of observers, and the
lemmas say of every one of them what the invariant says of the OLT. The polls over all
performance MEs are recursive functions over `PMOrder`; what one evaluation
preserves is a lemma about the handler's record, and the proof goes through the
poll by induction over the positions of `PMOrder`, as a set of naturals without
a least counterexample, since the induction theorems with an operator parameter
cannot be used.

*Multicast.* `PolicyInStep` holds between two jobs. `PolicyInv` extends it into them:
while `Expire` works through its list, the groups on the list are gone from the
engine and may still be in the runtime, and nothing else may differ (`StepInv`);
`FormInv` gives the shape of entries, memberships and jobs. The lemmas say of
each primitive what it does to the pairs of stream and address (`LeaveFact`,
`EnterFact`, `UnexpiredFact` for the engine, `JoinedFact`, `LeftFact` for the
streams); every action then changes both alike or puts the pair on record.

`LeaveInv` extends `PendingHasLeft` into a report: a timer may run for a source that
is to stay only while the job has not come to that source, and the last step of
the job, `CommitRecord`, assigns the membership under which that is all right.
`DeliveryMatches` compares the verdict of the whole filter chain with what the hosts
asked for. Its state part is `DeliveryInv`: in groups where engine and runtime never
parted, every stream has clients, all on the path of the engine's entry, and its
rule is what they add up to, in the middle of a job as well. A step without a fault
has one of four effects on streams and rules (`Effects`: none, a withdrawal, the loss
of a client the engine does not know, an admission), shown action by action up to
`NextKinds`; the invariant is proved per effect. The rest is about values: the filter
with the lowest preference decides (`VerdictFact`), and the chain of one rule drops
what all clients exclude and replicates what one of them asks for (`ExclusionFact`,
`AskedFact`). `UpstreamInv` uses the same effects: what upstream heard is the aggregate
of the streams after every step, as far as the versions convey it (`Conveys`), and `AdmitsFact` says what an aggregate lets through.
`KnownInv` is shared: clients and jobs name profiles of the policy in force.

*Service graph.* `GraphInv` says that the MIB passes all checks. That the checks
together imply `NoDangling` and `TwoWay`, which are stated over the references
themselves and not as the code checks them, is the content of the theorems.

Model-checked only:

* liveness (`FrameServed`, `ResetReturns`, `EveryRequestAnswered`,
  `FinalizationEnds`, `ArcEnds`, `DownloadCompletes`): fairness and ENABLED are
  outside the prover;
* `NeverStuck`: it says of the plans in the run that each can be built and taken
  down in accepted steps, and is false for a plan that does not offer them; there
  is no statement for every value of the constants.

## 5. Plan

1. Runtime state persistence (`runtime_state.go`) over `MibStore` and `AlarmNotify`:
   what a crash between the two documents can restore.
2. The ONU3-G ring, Get/Get next table snapshots and table rows (`mib/table.go`).
3. A composition of `OmccDispatch` and `OmciTransactions`: a request dropped by a
   reset is recovered by retransmission and executed once per session.

## 6. Not modelled

Byte layouts, message and packet building and parsing, JSON, key derivation and
checksums (pure functions of octets with test vectors), sockets, device and
process I/O, status files, the constant tables of the device model, and the
numerics of performance counters and optical samples. They appear as inputs,
failures or abstract values of the models above. Of the multicast runtime, what
section 2 lists as left out. The three parts of the plan are not modelled yet.

## 7. Running

    tlc -config MCDispatch.cfg MCDispatch
    tlapm MibStoreProofs.tla

and likewise for the other configurations and proof modules.
