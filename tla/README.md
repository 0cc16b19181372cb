# A verification project for meshcore-tcp-mux

`meshcore-tcp-mux` shares one MeshCore companion radio, which accepts a single
TCP client, between many downstream clients. It keeps one connection to the
companion, forwards one command at a time, virtualizes what clients would
otherwise steal from each other (the inbox, the flood scope), and reserves
what they cannot share (acknowledgement slots, the remote request, the
signing operation).

This directory holds TLA+ modules that model the multiplexer and the scripts
that check it against real radios, TLC configurations that check them on small
instances, and proofs checked by TLAPS. Source paths below are relative to
`src/src/meshcore_tcp_mux/`, those that end in `.py` to `src/scripts/`.

## 1. The system

| Part | State | Operations | Talks to |
|---|---|---|---|
| **Broker** (`broker.cr`, `session.cr`) | sessions (command FIFO, inbox, unwritten frames, scope, pending sync), round-robin order, active transaction, response debt, drain flags, pop sequence, notification generation, orphan | `admit`, `client_frame`, `client_closed`, `written`, `write_failed`, `upstream_frame`, `drain_uncertain_frame`, `tick`, `fail_epoch`; `schedule` at the end of each | returns actions (send, close, end epoch) to Runtime |
| **Dedicated slots** (`dedicated_client_slot.cr`) | offline queue, attached session | `enqueue_offline`, `record_delivery`, `clear` | owned by Runtime, mutated by Broker |
| **Deduplicator** (`received_message_deduplicator.cr`) | bounded history of text identities | `duplicate?` | part of the radio state |
| **Leases** (`leases.cr`) | DM acknowledgement ring, remote lease, signing lease, quarantine | reserve, accept, reject, match, expire, quarantine | called by Broker |
| **Protocol** (`protocol.cr`) | none | command table, validation of commands and replies, dialect conversions | pure functions |
| **Runtime** (`runtime.cr`) | connection, broker of the epoch, clients, slots and radio state with the identity they belong to | connect, synchronize, run an epoch, drain response debt, reconnect, shut down | one coordinator fiber; everything else reaches it as an event |
| **Transport** (`transport.cr`) | per endpoint a reader and a writer fiber, a bounded write queue | `enqueue`, `stop` | publishes Frame, Closed, Written, WriteFailed |
| **Startup** (`startup.cr`) | run of SELF_INFO replies, stage | `receive`, `check_deadline` | run by Runtime before each epoch |
| **Frame codec** (`frame_codec.cr`) | partial header and payload, assembly start | `feed`, `check_deadline`, `finish`, `encode` | used by Transport |
| **Configuration, probe, watchdog, logs, command line** | settings | parsing, formatting | - |
| **Frame relay** (`ExclusiveFrameRelay` in `check_live_reconnect.py`) | a handler task per connection, the lock of the companion, generation, fault points, queues of what happened, counts and history of frames | `_handle`, `_pump`, `_withhold`, `hold_next_response`, `pause_after_response`, `drop`, `close` | sits between a multiplexer and the physical companion; owned by a script |
| **Reconnect check** (`check_live_reconnect.py`) | multiplexer process, relay, two pairs of clients | one of three faults, then recovery; cleanup | relay, multiplexer, client library |
| **Scope check** (`check_scope.py`) | the same, and the relay's history | one request with a temporary flood scope | the same |
| **Dedicated-listener check** (`check_live_dedicated.py`) | clients, budget of transmissions, acknowledgements, markers, resolved contacts and channels | preflight, sends, fan-out, backfill, takeover, reconnection | two radios, a running multiplexer |
| **Remote request check** (`check_remote_requests.py`) | process, two clients, waiters | five requests per repeater, each with its result or a timeout | multiplexer, repeaters |
| **Other scripts** (`check_clients.py`, `check_fake_clients.py`, `check_live_pair.py`, `check_signing.py`, `check_sends.py`, `watch_inbox.py`, `check_docker.py`, `check_profile.py`) | clients | straight lines of requests and comparisons | - |

Only the coordinator fiber calls the broker, so a handler is atomic; what is
concurrent is everything around it: two fibers per socket, clients that come
and go, the companion, and time. The hard behaviours are therefore

* **ordering**: replies carry no tag. The companion's reply, the writer's
  completion event, pushes, client events and ticks reach the coordinator in
  any order;
* **destructive pops**: `SYNC_NEXT_MESSAGE` removes a message for good, but
  several clients, present and absent, are entitled to it;
* **uncertain execution**: an epoch may end between a command and its reply.
  The command may have been executed, may be executed later, and its reply may
  come late. Nothing is replayed;
* **reservations** on the companion's state that must outlive a client or an
  epoch, and must still be released;
* **bounds**: output budget, inbox, command FIFO, offline queue, ring, limit
  of a signature.

What makes each part correct:

* *Scheduler*: every command is answered once, in order; no client is missing
  from the rotation; virtual commands stay local.
* *Transactions*: at most one command is upstream, each reply goes to its
  owner, clocks measure what they claim, the flood scope of a send is its
  client's, a well-behaved companion never costs the epoch.
* *Inbox*: no wakeup is lost, "no more messages" is honest, items come in
  order and once, a popped item is never lost to a slot and becomes the orphan
  when its clients have left.
* *Leases*: one remote request and one signing operation at a time, results to
  their owner only, no reservation that nothing can release, signature limits.
* *Maintenance*: alone and with an idle radio, from dispatch to result.
* *Startup*: the identity of an epoch was reported to its own connection; no
  stale reply crosses the fence; the fence is crossed in the end.
* *Transport*: `stop` always joins, nothing of a stopped endpoint is handled,
  writes leave in order and are accounted for.
* *Codec* (planned): decoding does not depend on chunking.
* *Relay*: one physical connection at a time, none after `close`; a withheld
  response stays withheld.
* *Check scripts*: their "ok" is evidence, that is, implied by what the
  multiplexer did even if it misbehaves; a multiplexer that behaves gets it;
  however a run ends it leaves no process and no connection, and it never
  transmits more, or to others, than it was allowed to.

The scripts are `asyncio` programs. Between two awaits nothing interleaves, but
relay tasks, client callbacks, timers and the process under test do in every
await, and each await may raise.

## 2. Modules

| Module | Models | Notes |
|---|---|---|
| `Protocol` | `protocol.cr` | command table, flags, reply grammar. A command is `[op, arg]`, a frame `[code, arg]`, `arg` being the one field the broker reads |
| `Leases` | `leases.cr` | records and operators; a method is an operator from the record to the record it leaves |
| `DedicatedClientSlot`, `ReceivedMessageDeduplicator` | the files of those names | pure operators on sequences |
| `Broker` | `broker.cr`, `session.cr` | the state machine; environment unconstrained. `Spec` is what the theorems are about |
| `Companion` | external firmware | from how the broker uses it |
| `Mux` | `runtime.cr`, `transport.cr` around `Broker` and `Companion` | the composed system, `MuxSpec` |
| `Startup` | `startup.cr`, `Runtime#synchronize` | the handshake before an epoch, with the companion's loop and what it retains |
| `Transport` | `transport.cr`, `Runtime#request_stop` | endpoints with their two fibers, and a coordinator that receives, enqueues and stops |
| `Relay` | `ExclusiveFrameRelay` | handler tasks, pumps, fault points, shutdown; environment unconstrained |
| `ExclusiveLink` | - | abstract specification: one open generation at a time, numbered in order, none once shut. `Relay` refines it |
| `LiveReconnect` | `check_live_reconnect.py` | `run()` and its cleanup, composed with `Relay`, a multiplexer and a companion |
| `LiveScope` | `check_scope.py` | a second script in the same surroundings; extends `LiveReconnect` |
| `LiveDedicated` | `check_live_dedicated.py` | a table of steps per phase and one action per kind of step, with two radios |
| `RemoteRequests` | `check_remote_requests.py` | operations, waiters and limits in discrete time |
| `MC*` | - | instances for TLC |
| `BrokerProofs`, `TransactionProofs` | - | theorems and proofs about `Broker!Spec`, the second module extending the first |
| `MuxProofs` | - | `MuxSpec` implements `Broker!Spec`; theorems about the link |
| `MessageProofs` | - | theorems about the messages, extending `MuxProofs` |
| `StartupProofs`, `TransportProofs` | - | theorems and proofs about `Startup!StartupSpec` and `Transport!TransportSpec` |
| `RelayProofs` | - | proof that `Relay!RelaySpec` implements `ExclusiveLink`; theorems about the reconnect check and the scope check (`LiveScope!CheckSpec`) |
| `DedicatedProofs` | - | theorems and proofs about `LiveDedicated!DedicatedSpec` |

### How `Broker` corresponds to the code

Variables carry the names of the instance variables (`@active` is `active`,
and so on; the declaration lists them). The differences:

* *Handlers and `schedule`.* Each handler is an action. It computes the record
  `e` of new values (a change of `Now`); `Commit` removes the sessions the
  handler closed or whose output budget was exceeded (`remove` with all it
  clears) or ends the epoch (`fail_epoch`). All handlers end in
  `schedule(now)`: it is a loop, and each of its iterations is an action
  (`ScheduleLocal`, `ScheduleAged` for the first loop, `TurnPop`,
  `TurnDispatch`, `TurnReject`, `TurnNone` for the second). While the loop
  runs, `phase` is not `"idle"` and no handler is enabled, so the atomicity of
  the code is kept.
* *Time.* A deadline that is running may be found elapsed by the handler that
  looks at it. `Deadlines` selects which of them can be in an instance. Ring
  entries and the quarantine have deadlines that are read in several places;
  they have a state `"live"`/`"elapsed"` and an action each.
* *Writes.* A client's unwritten frames are a sequence of kinds. Upstream
  writes keep their ids, because a stale completion event is a hazard; ids are
  numbered per epoch.
* *History variables*, which no guard reads: `owed` (unanswered commands of a
  session), `last` (last item delivered), `covers` (the waits a pop was
  dispatched for).
* *Left out*: counters, diagnostics, rate limiting of log lines, contents of
  frames. The device-info rewriting and the layout of inbox items before
  protocol version 3 appear only as the kind of the frame written.

### How `Mux` corresponds to the code

`Clients`, `ClientRequest`, `FrameArrives`, `LinkFails`, `WriterReports` and
`Clock` are the branches of the coordinator's `select`; `WriterWrites` and
`WriterReports` are the two halves of the upstream writer fiber's loop.
`DrainDebt` is `drain_response_debt`, `Reconnect` what follows it, including
the quarantine and the startup fence, whose result (default scope, nothing
stale) is what `Startup!ReadyIsClean` says; the two modules are not composed. `usable` is `@upstream_connection_usable`.
`Faults` selects which faults of the outside world can happen. `SentFrames` is
every frame the companion may send; the broker's `Frames` includes them
(`MuxAssumption`), and the configurations give it exactly these.

### How `Startup` corresponds to the code

`stage` stands for `@awaiting_scope` and `@ready`, `"error"` for a raised
`Startup::Error`. The branches of `receive` are one action each, and share
`NextFrame`, the event loop's receipt of a frame. `Abort` is any of the
deadline, a closed connection, a failed write and a stop. `Connect` begins the
next connection, after a failed startup or after a whole epoch. The companion
is external: as `startup.cr:8` and the fake firmware of
`spec/support/native_startup.cr` have it, it sends a queued frame if it has
one, else executes a command, else continues a contacts stream, and keeps both
its queue of four frames and the stream when its TCP client is replaced;
APP_START ends the stream. Frames on the wire are lost with the connection.
`pipe` is the wire followed by that queue, and `stale` marks, for the
properties only, what an earlier connection caused.

### How `Transport` corresponds to the code

A fiber is a state: where it is blocked or what it does next. `"frame"`,
`"closed"`, `"written"` and `"failed"` are the calls of `publish`; the channel
has no buffer, so an event passes when the coordinator, in its `select`,
receives it, or the call returns because `@cancel` is closed. The program runs
on one thread: `stop` is atomic up to the joins (`Stop`), and `Joined` is its
return. A writer that is blocked in its `select` takes a write directly; else
the write takes one of `OutputCapacity` places. What a closed channel still
holds can be received: after `stop` the writer may take another write, which
then fails on the closed socket. The coordinator may stop an endpoint at any
time between two events, since what makes it do so is the broker's decision.

### How the modules of the scripts correspond to the code

`Relay`: a connection's handler task is a state (`"lock"` is the wait for
`_physical_lock`, `"connect"` the call of `open_connection`, `"pump"` the wait
for the first pump to end, `"closing"` the `finally` clause); a step lasts from
one await that blocks to the next. Opcodes are names, payloads are left out,
`WireCapacity` bounds what a socket buffers. Bytes that are not a frame are
`Malformed` and end the pump. `close` is `CloseServer`, `CancelTasks` and
`Joined`; `WaitsForClients` is what `Server.wait_closed` does since Python
3.12, where it waits for the connections. The refinement maps the link to the
generation whose physical connection is open.

`LiveReconnect`: `pc` is where `run()` is, one action per await. Queues are
sequences. What the script cannot see of the multiplexer is external and comes
in two *conducts*. In `"any"` it dispatches, closes, reconnects and exits as it
likes, the companion may close and every wait of the script may time out: there
the verdict has to be right. In `"good"` it serves one command after the other
and gives up the epoch when a reply stays out: there the verdict has to be
"ok". A good multiplexer does not reconnect before the script has seen the old
epoch end and has lifted the fault; its backoff begins at 500 ms, less jitter
(`runtime.cr:78` and 702), and the script needs a few scheduling rounds. That
assumption is needed: the pause of the relay is not bound to a generation, and
a handshake that begins under it is swallowed.

`LiveScope` adds the relay's history and a third conduct, `"unruly"`: the
multiplexer sends scope, status and clock commands and answers its clients as
it likes, one exchange after the other. The history is that of the three
opcodes the script looks at, from the index it remembered on; the relay's limit
of 4096 frames is not reached by one request. The same cleanup ends both
scripts, so they share it in the model.

`LiveDedicated`: `run()` depends on its arguments only, so `Program(args)` is
its sequence of steps, put together per phase. A marker is a number, an
endpoint is the shared listener, a dedicated port or the peer radio, a client
is an endpoint with a count. In the conduct `"any"` every answer is chosen
freely: contacts with two entries or a stranger of the right name, messages of
another type, with the marker inside another text, twice, out of order, late;
in `"good"` radio and multiplexer deliver. `late` excludes from `NothingElse`
the reply that comes after its request timed out, which the client library
drops.

`RemoteRequests`: a timer is the time at which it fires, `Tick` is disabled
while one is due. The multiplexer is its remote lease.

## 3. What TLC checks

| Run | States | Properties | What it shows |
|---|---|---|---|
| `MCBroker` | 396 000 | `TypeOK`, `SyncWaitsOnEmptyInbox`, `NoLostWakeup`, `SlotAttachment`, `OrphanIsFree`, `EmptyIsHonest`, `DirectsSurvive` | the broker against any frame, failure and reconnection at any moment |
| `MCRecovery` | 505 000 | `InboxInOrder`, `SlotsMissNothing`, `PopIsKept` | virtual inboxes and one slot with two arriving messages; deadlines that end the epoch with a pop unanswered |
| `MCTransactions` | 588 000 | `RepliesInOrder`, `ReplyOwnership`, `ClockStartsAfterWrite`, `ScopeIsolated`, `HealthyEpochSurvives`, `SigningUninterrupted` | streams, scoped sends, self telemetry, refusals; two clients and one signing operation |
| `MCLeases` | 466 000 | `VirtualNeverForwarded`, `ReservationInFlight`, `OneRemoteOutstanding`, `MaintenanceExclusive`, `ResultToRequester` | remote requests, direct messages and maintenance across departures, failed writers, timeouts, lost connections, new identities; a result is given to its requester and to nobody else; a disabled command |
| `MCLiveness` | 71 000 | `EveryCommandAnswered` | liveness under the fairness below |
| `MCStartup` | 620 000 | `FreshIdentity`, `ReadyIsClean`, `StartupCompletes` | the fence: every mixture of leftovers, losses, refusals, interruptions, two connections |
| `MCTransport` | 106 000 | `WritesInOrder`, `NoEventAfterStop`, `StopReturns`, `WritesSettle`, `ShutdownJoins` | the upstream endpoint and a client, writes and chunks of frames, sockets closed from outside |
| `MCReconnect` | 439 000 | `CompanionIsExclusive`, `FaultShown`, `ScopeOrderShown`, `CleanupCompletes`, `GoodMuxPasses` | both scripts behind the relay, in all scenarios and modes, for any multiplexer and for a good one |
| `MCDedicated` | 512 000 | `EvidenceInOrder`, `NothingElse`, `SendsAreFenced`, `LeavesNothing`, `GoodRunPasses` | the dedicated-listener check, eight settings with up to three ports |
| `MCLateFrame` | violation | `SlotsMissNothing` | finding 1 |
| `MCRemote` | violation | `NoEarlyCompetitor` | finding 2 |

Each property has a comment beside its definition. For each property of a
passing run there is a *mutant*: an operator defined just before the one it
distorts (for instance `EveryWait` before `CoveredWaits`) that makes a
plausible mistake; with it in place TLC finds the property violated.
`PROJECT.json` lists them.

### Bounds

* *Two sessions.* Every property relates a client to at most one other client,
  or to the companion. Two connections give all pairs: both present, one
  replaced by the other in a slot, one leaving with work in flight before the
  other comes.
* *Two or three commands* (`MaxRequests`): a command in flight, one queued
  behind it, one of the other client. Signing takes three, a start and then two
  of data, or data and finish.
* *Two messages* (`MaxArrivals`): order and duplication can be told apart.
* `CommandLimit`, `OutputFrames`, `InboxEntries`, `OfflineQueueSize`,
  `DmCapacity` and `HistoryCapacity` are 1 to 3, so that each is reached.
  Their code values change nothing but the number of steps to get there.
* `MCBroker` bounds pops, notifications and writes per epoch (`MaxPops`,
  `MaxGeneration`, `MaxWrites`); past the bound only the end of the epoch and
  the reconnection remain, so every behaviour has a continuation.
* `Deadlines` and `Faults` are subsets per run: those that interact with the
  question. `OneRemoteOutstanding` is checked without the lease's deadline,
  whose purpose is to give up on a result (that deadline is in `MCBroker`);
  `HealthyEpochSurvives` without response deadlines, `EveryCommandAnswered`
  with polls only.
* `MCLeases` has one kind of remote request, the one whose result carries a
  tag; the other kind is in `MCBroker`.
* `MCBroker` has a slot with room for one item, one item of a channel and one
  direct message, so each may find the other in the way.
* The startup run has four APP_STARTs and three retained frames instead of five
  and four: the leftovers still fill all but one place of the run, and
  `FreshIdentity` is proved for all sizes. Two contacts left of a stream and one
  push per connection are enough for either to come between any two replies.
  `disturbed` marks the connections that `StartupCompletes` promises nothing
  about. The run does not check for deadlock: a
  finished handshake, or one whose replies were lost and that waits for its
  deadline, has no step left when the bound on connections is reached.
* The transport run has two endpoints, so that the coordinator can be inside
  the `stop` of one while the other offers events; more writes for one of them
  than the queue holds; and a chunk of two frames from the other. It does not
  check for deadlock: a stopped process stops.
* The relay has two connections, the one that is disturbed and the one that
  recovers; with `CompanionIsExclusive` proved for any number, a third would
  only repeat the second. `WireCapacity` 1 lets a frame wait in each of the
  four directions at once. In `LiveScope` an unruly multiplexer stops sending
  once the opcodes are out of order, since nothing it sends can make them right
  again, and a wait of the script ends when nothing is under way. The runs of
  the scripts do not check for deadlock: a script ends.
* `MCDedicated` runs eight settings: two and three ports with a channel where
  everything is good, with the budget exactly enough and one short; no
  transmission at all; one port, strict and lenient, with a budget that is and
  is not enough, and two ports without a channel, where anything may happen. A
  third port adds clients of the kind the second one has, which is why it is
  left to the good conduct; the theorems are about any number of ports.
* `MCRemote` has limits below, at and above the timeout.

No instance uses symmetry: session ids are ordered.

### Fairness

`FairMuxSpec` assumes weak fairness of the schedule loop (it is sequential
code) and strong fairness of the writer's steps, of the arrival of frames and
of the companion. The coordinator's `select` takes ready events in the end,
TCP delivers while the connection is up, and the companion answers what it
executes. It is strong because every event is followed by a schedule loop
during which none of these steps is enabled: a client that keeps causing events
interrupts their being enabled again and again. No fairness is assumed of
clients, of faults or of the clock.

`FairStartupSpec` assumes weak fairness of the writer fiber, of the coordinator
receiving frames and of the companion's loop; nothing interrupts these steps
once they are enabled. After a loss or an interruption a startup is meant to
fail and to be tried again, so nothing is promised of it.

`FairTransportSpec` assumes weak fairness of each fiber that can go on, of the
coordinator receiving an offered event and returning from a join, and, after
`request_stop`, of its stopping the endpoints. A read is not assumed to end
unless the socket is closed here or the endpoint is stopped (a peer may be
silent for ever); a write is, because of the write timeout.

`FairCheckSpec` assumes weak fairness of each relay handler and of the relay's
shutdown (the event loop runs what can run) and of the script, whose waits all
have a timeout. For a good multiplexer also of the multiplexer and the
companion; of one that may do anything, nothing is assumed, and
`CleanupCompletes` holds all the same because the script kills the process.

`DedicatedSpec` assumes weak fairness of the script, of its deadlines and of
the radios' deliveries. In the conduct `"good"` no deadline elapses.

### Findings

1. **A late reply is discarded if it comes before the tick** (`MCLateFrame`).
   After a response timeout the old connection is drained so that a popped item
   is preserved (`broker.cr:253-255`). That holds when a tick notices the
   timeout (`MCRecovery`). If the reply itself is the first event after the
   deadline, `upstream_frame` fails the epoch without reading it
   (`broker.cr:196`), `runtime.cr:515` marks the connection unusable, and the
   item is lost to slots and orphan.
2. **A wait that ends before the lease does** (`MCRemote`). The comment at
   `check_remote_requests.py:74` says "Never start a competing operation before
   that interval can have elapsed when a result is missing." The waiters of an
   operation get `--timeout` from before the command is sent
   (`check_remote_requests.py:119`); the interval is counted from its
   acceptance and is only required not to exceed `--timeout` (line 78). With a
   limit near the timeout and an acceptance that takes a while the waiters
   expire first, `wait_for_terminal` returns, and the next operation is sent
   while the lease is held.

Seen while modelling, and without a run of their own:

* `broker.cr:832-835`: a client that has a pop in flight syncs again and leaves,
  which clears both drain flags; when the pop finds nothing, the departed
  client's later sync counts as newer work and another drain is authorized on
  account of a client that is gone, if anybody else is connected. Nothing is
  lost by it: what that drain pops goes to the clients present and to the slots.
* `watch_inbox.py:44`: each reader stops as soon as the two counters are equal,
  although the other may be about to read one more; the comparison behind it
  then fails for messages that were delivered.
* `check_fake_clients.py:414`: the replacement client is connected when the
  physical pop is seen, which is before the item is fanned out; it may get a
  copy that the check says it must not get.
* `asyncio.gather(connect(...), connect(...))`, as in `check_scope.py:78`: if
  one of the two fails, the other is never put in `clients` and is not
  disconnected by the cleanup.
* `check_scope.py` in the mode `unscoped`: setup and restoration are frames of
  one length, so the order of the two cannot be told from the history
  (`ScopeOrderShown` says what is shown).
* The response debt of the four-byte telemetry request can never be paid by
  its reply, since that is a push and `drain_uncertain_frame`
  (`broker.cr:219-222`) handles pushes before it looks at the debt; the bounded quarantine is what ends it.

## 4. What is proved

The theorems in `BrokerProofs` and `TransactionProofs` are about
`Spec` of `Broker`, hence for any number of clients, slots and items, any
limits, any commands and any frames a companion might send, in any order. Those
in `MuxProofs` and `MessageProofs` are about `MuxSpec`, the broker with its
writer fiber, its link and the companion. Those in `RelayProofs` and
`DedicatedProofs` say that the verdicts of three check scripts are evidence: for
any number of connections, any arguments that `parse_args` accepts and every
conduct of the multiplexer that the model has, "ok" implies what it claims.

The only assumptions are the named ASSUMEs of the modules. `BrokerAssumption`:
sizes are positive, items and slot ids are nonzero numbers, a `"message"` frame
carries an item, and a sync has no argument (`sync_next_message` is one byte,
validated before it is queued). `MuxAssumption`: the companion's frames are
among those the broker is specified for, and no client asks for the telemetry
of a peer with the companion's own key. `StartupAssumption`: the companion
retains fewer frames than APP_STARTs are sent (4 < 5); what it may retain is
part of the model and rests on the comment in `startup.cr`. `RelayAssumption`,
`LiveReconnectAssumption` and `LiveScopeAssumption` name the opcodes the scripts
use and the conducts, and say that commands and responses differ and that
`"none"`, which stands for no frame, is no opcode; `PortAssumption` says that the endpoints of the dedicated
ports are distinct, and `SettingsAssumption` that the settings of the
dedicated-listener check are among those `parse_args` accepts, with any positive
number of dedicated ports.

| Theorem | Statement | Inductive invariant |
|---|---|---|
| `BrokerProofs!TypeCorrect` | `Spec => []TypeOK` | `TypeInv` |
| `BrokerProofs!AttachmentAlways` | `Spec => []SlotAttachment` | `InboxInv` |
| `BrokerProofs!WaitsOnEmptyInbox` | `Spec => []SyncWaitsOnEmptyInbox` | `InboxInv` |
| `BrokerProofs!WakeupNeverLost` | `Spec => []NoLostWakeup` | `InboxInv`, `Ended` |
| `TransactionProofs!ReservationAlways` | `Spec => []ReservationInFlight` | `TransactionInv` (`LeaseIn`) |
| `TransactionProofs!MaintenanceAlone` | `Spec => []MaintenanceExclusive` | `TransactionInv` (`AloneIn`) |
| `TransactionProofs!OrphanKept` | `Spec => []OrphanIsFree` | `TransactionInv` (`OrphanIn`, `NoDebt`) |
| `TransactionProofs!EmptyAnswerHonest` | `Spec => EmptyIsHonest` | `TransactionInv` (`CoverIn`) |
| `TransactionProofs!DirectsKept` | `Spec => DirectsSurvive` | `BrokerInv` |
| `TransactionProofs!RepliesOrdered` | `Spec => []RepliesInOrder` | `OrderInv` |
| `TransactionProofs!VirtualStaysHere` | `Spec => []VirtualNeverForwarded` | `RoundInv` |
| `MuxProofs!MuxIsBroker` | `MuxSpec => Spec /\ []LinkType` | `LinkType` |
| `MuxProofs!RepliesBelong` | `MuxSpec => []ReplyOwnership` | `WireInv` (`Aligned`, `Answering`) |
| `MuxProofs!ClockAfterWrite` | `MuxSpec => []ClockStartsAfterWrite` | `WireInv` (`Aligned`) |
| `MuxProofs!ScopesIsolated` | `MuxSpec => []ScopeIsolated` | `WireInv` (`Scoped`) |
| `MuxProofs!OneRemoteRequest` | `MuxSpec => []OneRemoteOutstanding`, if `"remote" \notin Deadlines` | `RemoteInv` (`OneAtMost`) |
| `MuxProofs!ResultsReachRequester` | `MuxSpec => ResultToRequester`, if `"remote" \notin Deadlines` | `ResultInv` (`Served`), `RemoteInv`, `WireInv` |
| `MuxProofs!SigningAlone` | `MuxSpec => []SigningUninterrupted` | `SignInv` (`SignTurn`, `SignHeld`), `WireInv` |
| `MessageProofs!InboxOrdered` | `MuxSpec => []InboxInOrder` | `QueueInv` (`Held`, `Coming`) |
| `MuxProofs!EpochSurvives` | `MuxSpec => []HealthyEpochSurvives`, if `Undisturbed` | `FittingInv`, `WireInv` |
| `MessageProofs!PopsKept` | `MuxSpec => PopIsKept`, if `Lossless` | `OweInv`, `FittingInv`, `WireInv` |
| `MessageProofs!SlotsComplete` | `MuxSpec /\ [][RoomForAll]_muxVars => []SlotsMissNothing`, if `Lossless` and `SameCompanion` | `SlotsMissNothing` itself, with `OweInv`, `QueueInv` |
| `StartupProofs!StartupFreshIdentity` | `StartupSpec => []FreshIdentity` | `StartupInv` |
| `StartupProofs!StartupLeavesNothing` | `StartupSpec => []ReadyIsClean` | `CleanInv` |
| `TransportProofs!OutputIsOrdered` | `TransportSpec => []WritesInOrder` | `TransportInv` (`OutputInv`) |
| `TransportProofs!StoppedIsSilent` | `TransportSpec => NoEventAfterStop` | `TransportInv` (`JoinInv`) |
| `RelayProofs!RelayIsExclusive` | `RelaySpec => CompanionIsExclusive` | `RelayInv` |
| `RelayProofs!ChecksAreExclusive` | `CheckSpec => CompanionIsExclusive` | `RelayInv`, `Linkage` |
| `RelayProofs!FaultsAreShown` | `CheckSpec => []FaultShown` | `FaultInv` (`GenInv`, `CountInv`, `TimeInv`, `ContactsInv`) |
| `RelayProofs!ScopeOrderIsShown` | `CheckSpec => []ScopeOrderShown` | `FaultInv`, `ScopeInv` (`OneBusy`, `InOrder`) |
| `DedicatedProofs!OkIsEvidence` | `DedicatedSpec => []EvidenceInOrder` | `DedicatedInvariant` (`Deliveries`, `Acks`) |
| `DedicatedProofs!StrictIsExact` | `DedicatedSpec => []NothingElse` | `DedicatedInvariant` (`Deliveries`) |
| `DedicatedProofs!OnlyFencedSends` | `DedicatedSpec => []SendsAreFenced` | `DedicatedInvariant` (`Fences`, `Sends`) |
| `DedicatedProofs!NothingIsLeft` | `DedicatedSpec => []LeavesNothing` | `DedicatedInvariant` (`Connections`) |

**The broker.** The proofs have lemmas per operator on the handlers' record
(`Reply`, `FanOut`, `PopResult`, ...), then one per action, then the temporal
theorem. Each layer assumes the invariants of the ones before.

* `TypeInv` is `TypeOK`, and `PopShape` for `active` and `debt`: a transaction
  of the internal consumer is an inbox pop in its command step. Without it the
  reply to an owner-0 transaction could not be known to carry an item.
* `InboxInv` is the conjunction of its three properties and `TurnFree`: no
  transaction is running while the second loop of `schedule` is, because
  dispatching a client's command in that loop must not displace a pop that the
  waiting clients rely on. `SyncWaitsOnEmptyInbox` needs `SlotAttachment`,
  since a wait in a slot ends when the item is queued for the slot's attached
  session. `Ended` says that a failed broker has no sessions and no
  transaction, which makes the steps between the failure and the restart
  harmless.
* `TransactionInv` says what a running transaction holds: the lease or the ring
  place its reply will be recorded in (`LeaseIn`), everything if it is an
  exclusive one (`AloneIn`), and a pop the free orphan entry (`OrphanIn`) and
  the waits its empty answer may end (`CoverIn`). `EmptyIsHonest` alone is not
  inductive: `CoverIn` dates every wait by the pop sequence, so that one which
  began after the dispatch carries the next number. `NoDebt` says that only a
  failed epoch has a response debt. `BrokerInv` is all of this together.
* `OrderInv`: what a client is owed is its running command, or its sync that
  waits for a message, followed by its queue (`Fits`). Never both at once:
  that is what keeps an answer given locally from overtaking one that is
  upstream.
* `RoundInv`: the round robin has no session twice, the turns left do not
  reach around, and the heads they may still meet are not virtual. The last
  part is what rules out the shift in the second loop of `schedule`, where
  commands are not validated again (`broker.cr:522`): a refusal exposes a new
  head, but only behind the turns that are left.

**The whole.** `LinkType` types the writer, the link and the companion. A
frame that arrives is therefore one of `Frames`, a completion event names a
write that was made, and every step of `MuxNext` is a step of `Next` or leaves
the broker alone (`MuxIsBroker`): all the theorems about `Spec` hold of
`MuxSpec`. `WireInv` then says, as long as the epoch lives: the one command on
the link is the last write of the running transaction, in the writer's queue
or at the companion, and then none of its replies exists yet, or it is answered
(`Aligned`); every reply on its way answers it, none but the last completes it,
and a push on its way is none that answers a self telemetry request
(`Answering`); the companion's flood scope is the one that the step of the
transaction calls for, whether its OK has arrived or not (`Scoped`). The three
need each other: that a second write cannot be issued while replies of the
first are under way follows from `Answering`, and `Scoped` from both.

`RemoteInv` follows a remote request from the writer's queue to its result
(`RemoteWork`): there is one at most (`OneAtMost`), the lease is held for its
sender or, when that has left, for nobody (`Leased`), none exists while the
hidden scope of a request is set up or when a refusal is on its way
(`AsksOnce`), and the lease never waits for the companion's own telemetry
(`PeerNamed`). It survives the end of the epoch and a reconnection to the same
companion. Its two theorems assume that the lease has no deadline, as the run
that checks them does: once the lease's deadline has passed
(`leases.cr:179`), the code itself gives up the lease and may send a second request while the first is still
executed, and a late result is then matched by kind and key alone.

`ResultInv` says in addition what brings a result to its requester. `Leased`
allows a lease that is nobody's, and a push that no lease matches is dropped, so
it only shows that no other client gets the result. `Served`: as long as the
client is connected, the lease is its own from the dispatch of the request until
the result arrives, it has the key of the result from the moment its `SENT` is
handled, and a `SENT` that is not handled yet is on its way before the result.
Every end of an epoch, departure and refusal either leaves the lease to the
clients that stay or takes it from one that has left; that nothing on the link
names a client that is still to come (`Known`) makes this enough, because a new
client then inherits no request. The theorem says that the result is written to
its requester, if that is still connected, its output has room, and the epoch does
not end with the frame, and to no other client.

`SignInv` follows a signing operation, which begins at the broker, with the
lease, and one answer later at the companion. `SigningUninterrupted` speaks of
both and is not inductive, because they change at different times. `SignHeld`:
a lease that is not tentative is the operation that the companion executes,
unless the signature is already on its way. `SignTurn`: a running signing
command is the lease owner's, the lease is tentative exactly during
`SIGN_START`, and once the answer to that is on its way the companion's
operation is that client's. `SignBound`: the bytes that the lease counts as accepted and as
pending together stay within the limit. The companion of the model counts no
bytes, so whether the lease counts them right is not shown.

`QueueInv` is about the numbers that the messages have in order of arrival.
There is a number m such that nothing given out or queued for a client, for a
slot or as the orphan is younger than m (`Held`), and what is on its way to the
multiplexer is younger than m and in order, and what the companion still holds
younger still (`Coming`). `InboxInOrder` alone says nothing of the messages to
come, and so nothing of the queue they will be appended to. Because `Coming` speaks of
every answer with a message, whoever asked for it, the invariant survives failed
epochs, owed pops and reconnection; the theorem has no hypothesis.

`FittingInv` is about the replies on their way in a living epoch: each suits the
command that is on the wire, an error only a command that can be refused, and
the replies of a stream of contacts begin with its start. It holds of every
epoch until it fails, for whatever reason, without a hypothesis. The theorem
`EpochSurvives` then goes through the handlers: none fails on a frame that
suits. What it assumes, `Undisturbed`, excludes the other ends of an epoch: no
deadline of the link elapses, the link is not closed, no client asks for a
maintenance command, which ends the epoch by design, and the companion refuses
neither a pop nor the restoration of the scope, which the broker takes for a
failure. The instance `MCTransactions` satisfies it.

`OweInv` is about an epoch that has failed and whose link still works. If the
transaction it left unanswered is a pop, that pop is in the writer's queue, at
the companion or answered, once at most, and all else on the way to the
multiplexer is pushes (`OneFetch`): the message that the drain attributes to the
debt is its answer. If it is anything else, no message is on its way and none
will be (`NoFetch`). An epoch that failed on a frame had read its last reply
(`Spent`). With `FittingInv` for the living epoch, `PopsKept` then follows the
message through `transaction_response` or `drain_uncertain` into every inbox, or
into the orphan entry. `Lossless` excludes what loses a message by design: the
link is closed or fails while writing, the debt is never paid, the answer
arrives at the very deadline (finding 1), or the item is taken for a duplicate.
The instance `MCRecovery` satisfies it.

`SlotsComplete` follows the same message into the slots. The companion keeps a
message until it is popped and then sends it; a step that takes no message from
the link only slides along a slot's queue (`SlotsSlide`: the head becomes the
last item given to the client); the step that takes one, whether it answers the
living pop or the owed one, appends it to the queue of every slot, attached or
not. `QueueInv` makes the age of the last item given a record of all that the
slot was given. A full queue discards by design (`offline_queue_size`), so that
no queue is full when a message is taken is a hypothesis on the behaviour
(`RoomForAll`), not on the constants; and another companion at the same address
(`SameCompanion` excludes it) starts with empty slots. `MCRecovery` satisfies
both: its two messages fit into its queue of two.

**The fence.** `StartupInv` is about the frames on their way. There is a k such that the first
k are what is left of the retained queue and no SELF_INFO or DEVICE_INFO behind
them is stale; while the last SELF_INFO received is a stale one, k and the
length of the run together do not exceed the retained queue; once it is a fresh
one, k is 0. The run can therefore reach the number of APP_STARTs only with a
fresh SELF_INFO, and then the DEVICE_INFO is fresh as well. `CleanInv` counts,
per stage, the requests that the companion has not handled against the answers
on their way: at the scope stage at most one answer is left and nothing else
but pushes, and no stream. The bounds on contacts, pushes and connections are
arbitrary numbers.

**The endpoints.** `OutputInv`: what is on the wire, the write in the writer's
hands and those in the queue are together the accepted ones, in order
(`NoGap`), as long as no write has failed; `JoinInv`: a stopped endpoint still
holds the coordinator in `stop`, or both its fibers have ended.

**The relay.** `RelayInv` is the type of the handlers and the flags, and: at most one handler
is past the lock (`OneHolder`), a physical connection is open only in a handler
that is past it (`OpenMeansHeld`), and once `close` has returned every handler
is done (`ShutIsFinal`). It makes the refinement mapping, "the generation of
the connection that is open", well defined: each step of `RelayNext` opens,
closes or leaves alone at most one. The environment in `RelaySpec` is
unconstrained: any number of connections, any commands, responses and faults,
and `drop` and `close` at any moment. `MCReconnect` checks the same refinement
together with the scripts.

**The reconnect check and the scope check.** Every step of the scripts, of the
multiplexer and of the companion is for the relay one of the steps its own
specification allows (`RelayStep`), so the refinement carries over
(`ChecksAreExclusive`). `FaultsAreShown` needs three more arguments.

* *Generations* (`GenInv`). A generation belongs to one connection, and once it
  was reported closed its handler has ended; the script's wait for the close of
  generation 1 is therefore the end of all copying in it (`FirstOver`).
* *Counts* (`CountInv`). What the companion executes in the first generation, and
  what waits for it there, was counted by the pump before. The script looks at
  the count after the first generation is over, so that nothing can be counted
  there later; looked at earlier, it would prove nothing.
* *The withheld reply* (`TimeInv`, `ContactsInv`). A command of the script is a
  thing that moves: `At` says where it can be, as a request that is pending, as a
  frame on either side of the relay or as its last reply; `Flows` that a step
  moves it and never copies it. The clock query is therefore in one place at
  most, and in none once its reply has reached the fault point, which holds one
  reply only: no second reply can come later, when the fault point is spent.
  A stream of contacts is withheld by the pause instead, and what has to be
  shown is that its end cannot overtake the contact at which the relay pauses
  (`Ahead`).

`ScopeInv` is about the history. `InOrder`: what the history has beyond the
commands the companion has taken is, in order, what is still in the pump
(`Continues`, with the matching function as its witness). That is why the script
may look while commands are under way: what it has not seen yet can only be a
continuation. It needs that one connection has commands under way at a time
(`OneBusy`, `EndsInv`) and that none that are recorded were sent before the
recording began (`Unrecorded`). `Compared` is the script's own comparison.

**The dedicated-listener check.** `run()` is a program, and the argument has two
halves.

* *The program of any settings is in order.* A ledger (`Ledgers`) says what is
  established when a step begins: which contacts are resolved and whether the
  secrets were compared, which clients have a collector, how much each endpoint
  was given, what was sent, which acknowledgements were required. `Fits` says
  what a step relies on: a message is sent only to a contact that was resolved,
  after which no key is read again; a marker that is expected is the one that is
  due at that endpoint; an acknowledgement is required of clients that have a
  collector. `Leads(a, q, l, m)` says that the steps of `q` find what they rely
  on and lead from ledger `l` to ledger `m`; it composes over the phases
  (`LeadsOn`), over the rounds of a loop over the ports, however many there are
  (`RowsLead`, by induction on the rounds), and `ProgramLeads` is the whole
  program: from the empty ledger to one that holds all the evidence
  (`Complete`). No step of this half is about behaviours; it is what a reader of
  `run()` does.
* *The ledgers are true* (`LedgersAreTrue`). In every state of a run the ledger
  of the next step (`Now`) describes it: contacts are the other radio's as far
  as the ledger says (`Fences`), the transmissions are exactly those in it
  (`Sends`), required acknowledgements were pushed, and queues hold only what
  was pushed (`Acks`), each endpoint was given at least what it says, and in a
  strict run without a late reply exactly that (`Deliveries`, where the markers
  received so far within a step count as well), and the connections are those
  that will be closed, and the one that `connect()` refused (`Connections`).

At "ok" the program is over, so the ledger is the last one.

Only model-checked: liveness (`EveryCommandAnswered`, `StartupCompletes`,
`StopReturns`, `WritesSettle`, `ShutdownJoins`, `CleanupCompletes`,
`GoodMuxPasses`, `GoodRunPasses`), which is out of the prover's reach. So is
what a recursive definition computes for every input; `RowsLead` needs less, an
induction over the numbers of rounds that are a defined set. Every safety property that a passing run checks is proved.

## 5. Not modelled

* Frame codec, listeners and acceptors, backoff: planned, below.
* Byte layouts of commands and frames, which are abstracted to well-formed or
  malformed.
* Configuration parsing, logging, the alarm watchdog, the command line, the
  probe: I/O.
* The remaining scripts. `check_live_pair.py`, `check_signing.py`,
  `check_sends.py` and `check_clients.py` are straight lines of requests and
  comparisons that never wait for two things at once; `check_fake_clients.py`
  replays byte fixtures; `check_docker.py` and `check_profile.py` run other
  programs and read their output; `watch_inbox.py` is a manual tool of two
  loops.
* What the reports of the modelled scripts say beyond their status.

## 6. Plan

Done: `Protocol`, `Leases`, `DedicatedClientSlot`,
`ReceivedMessageDeduplicator`, `Broker`, `Companion`, `Mux`, `Startup`,
`Transport`, the relay and the four scripts around it, and their runs; the
broker's own properties, the fence, the endpoints' order and silence, the
relay's exclusivity, the evidence of the reconnect, scope and dedicated-listener
checks, and of the composed system the attribution of replies, the
response clock, the scopes, the remote requests, the signing operation, the
order of the inbox, the survival of the epoch, the keeping of popped messages
and the completeness of the slots proved.

Next, in this order:

1. `Lifecycle`: `Runtime#run` with acceptors, connector, backoff and `stop`, on
   top of `Transport`; that a requested stop finishes in every phase of `run`.
2. An abstract `VirtualInbox` (each client sees a queue of its own) and the
   refinement by `Broker` and `Mux`.
3. The firmware's own acknowledgement ring and identities in `Companion`: no
   live acknowledgement is overwritten, also after an unknown acceptance; items
   never cross identities.
4. `FrameCodec`, the deduplicator and the dialect conversions as operators checked against reference definitions.
5. Bounded overtaking in the round robin; release of leases and the end of
   maintenance as liveness.
6. `RemoteRequests` with limits that exclude finding 2: a proof that operations
   then never compete.
