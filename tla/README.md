# OpenLogi, verified: models, runs and proofs

OpenLogi drives Logitech devices from a background agent. The agent keeps HID++
channels to devices and receivers open, diverts buttons in their firmware,
turns presses into actions, writes settings and passes the pointer between
machines. Its core is a set of small concurrent protocols: who owns a reply
header, whose turn it is to write, who holds a press down, who diverts a
control. This directory models those protocols in TLA+, checks them with TLC on
small instances and proves the central ones with TLAPS.

`PROJECT.json` holds the machine-readable index: components, runs, the source
lines behind every definition, mutants, findings, hazards and theorems.

## 1. Inventory

| Component | State | Operations | Interacts through | Hard part |
|---|---|---|---|---|
| HID++ channel (`openlogi-hidpp/src/channel.rs`, `channel/pending.rs`) | pending requests, stale keys with owed replies and expiry, parked wakers | `send_with`, `send_write_through`, drop at any await, read loop | transport; every feature call of the agent | replies carry only a header; late and lost replies; wake-ups |
| Write order: turns (`hardware/write_order.rs`) | `issued`, `through`, `early`, a `Notify` | `reserve`, `wait`, drop | all setting writers | out-of-order finish, lost notification |
| Write order: policy and Disable Keys (`write_order.rs`, `disable_keys.rs`, `orchestrator.rs`) | committed, policy and pending intents, recovery; workers; device | `begin`, `confirm`, drop, `sync_policy`, inventory pass, reload | IPC clients, inventory, config | a native write outlives its requester; abandoned writes |
| Button runtime (`runtime/button.rs`, `button/worker.rs`) | active presses, generation, bounded queue | down, up, pulse, triggers, five kinds of cancel, invalidate, shutdown | hook threads, HID++ sessions, action executor | full queue, thresholds behind a backlog, wakes |
| Capture manager (`watchers/capture_manager.rs`, `capture_session.rs`, `gesture.rs`) | slots, epochs, owed restores, restart pacing | reconcile, session events, deadlines, drain | orchestrator's plans, inventory, host I/O gate, session tasks | awaits in the middle of a reconcile, failing restores, stop at any time |
| Receiver access (`receiver_access.rs`) | lease lock, request counts | announce, acquire, share, withdraw | capture managers, pairing, host switch | captures must give way and come back |
| Keyboard capture manager, capture session monitor | one slot; armed diversions, watchdog | as above; re-arm, retarget | as above | reconnects while stopping |
| Flow handoff (`flow/handoff.rs`, `runtime/actor.rs`, `runtime/sender.rs`, `devices.rs`, `controller.rs`) | per host: armed transfer, finished transfers, the transfer being sent, inventory view | crossing, request, write, cancel, result, inventory change, expiry, stop and start of a generation | two machines over a link; receiver lease, device I/O gate, pointer | two-sided timeouts, crossing transfers, repeated and late messages |
| Agent lifecycle (`openlogi-agent`: `main.rs`, `takeover.rs`, `lifecycle.rs`, `transition.rs`, `armed_session.rs`, `shutdown.rs`, `binary_watch.rs`) | lock, armed-session file, watcher fleet, binary watcher, shutdown requests | start, takeover, arm, quit, signal, restart, crash, login | launchd, GUI, installer, the user's grants, tray thread, watcher managers | what survives a process; a record that may fail; a drain that fails; checks that go stale |
| Host switch, Flow pairing | departures; session keys | follow, roll back; pair | two machines, devices | two-sided timeouts |
| Receiver pairing, inventory, orchestrator | sessions; device list; settings ladders | start/cancel, passes, reload | exclusive lease, registry, IPC | cancellation, partial passes |
| Setting writers (light, RGB, DPI, pointer speed, lock keys), scroll, hook, notices | last written values | set, re-apply | write order | mostly sequential |
| Desktop app, CLI, overlay, camera, assets, config core, feature encodings, transport | - | - | - | presentation, data and I/O |

What makes each correct: a request is answered by its own reply and never
sleeps for ever; turns are granted in order, one at a time; the keyboard ends
with the choice the client saw accepted; the action layer sees balanced press
lifecycles whatever is lost; controls are diverted by one owner at a time and
are given back; a device told to leave is awaited on the other side; an agent
runs exactly when the user last wanted it, and schedules a successor only when
its own sessions have given everything back.

## 2. Plan

Modelled, in this order: `HidppChannel`, `ReservedTurns`, `DisableKeys`,
`ButtonRuntime`, `CaptureManager`, `OrderedTurns` (the abstract line),
`FlowHandoff`, `AgentLifecycle`. Every detailed module has its proofs: all the
safety invariants and action properties the passing runs check are theorems
(section 6).

Next, most important first:

1. `CaptureSession`: arming, re-arming after a reconnect, retargeting, watchdog
   and restoration of `openlogi-device/src/session/capture.rs`, shown to
   implement the session actions of `CaptureManager`.
2. `HostSwitch`, `ReceiverPairing` and `InventorySchedule`.
3. An abstract specification of a capture slot (native, diverted, owed) that
   `CaptureManager` implements, as `ReservedTurns` implements `OrderedTurns`.

## 3. Modules

Each detailed module has one variable per piece of the program's state and one
action per step between two points where another thread, task or callback can
run. Definitions keep the source's names where they can. Operators introduced
by `Mutant:` comments are plausible bugs; they take no part in the specification
and show that a property can fail.

### HidppChannel (MCHidppChannel, HidppChannelProofs)

Every member of `Requests` is one call on the channel. `phase` says where its
future is, `messages`, `extra`, `stale`, `outstanding`, `expires` and
`keyWaiters` are the fields of `PendingQueue`, and `native` and `wire` what the
transport and the device still hold. The clock is read before the queue lock is
taken (`ReadClock`), so registration (`ParkInFlight`, `ParkStale`, `Register`)
works with an old instant, as in the code. `GiveUp` is a drop at any await:
timeout, cancelled caller or a write-through request that ends early.
`AnswerPending`, `DiscardStaleReply` and `Unclaimed` are the read loop's three
branches. The transport may still deliver the report of a dropped request,
answers come in any order and may be lost. `lapsed` is a history variable: the
headers whose window closed with replies owed, after which the code promises
nothing.

### ReservedTurns (ReservedTurnsProofs)

`issued`, `through` and `early` as in `Finished`. Waiting is the loop of
`ReservedTurn::wait`, in three steps: register with the `Notify`, check, sleep;
`finish` releases its lock before it notifies, so `NotifyWaiters` is a step of
its own.

### OrderedTurns

What the users of `write_order.rs` rely on: a first-come-first-served line.
Turns are numbered as they are taken, the oldest waiting one is served, one at a
time, and anyone may leave. `ReservedTurns!Line` is the refinement mapping: a
reservation waits from `reserve` to the check that finds it first and is served
until its last handle is dropped; counters, registrations and notifications
are invisible. `DisableKeys` is stated over the line: its `order` is the line's
content and only the first of it writes.

### DisableKeys (MCDisableKeys, DisableKeysProofs)

`st` is `State<T>`; its transitions are functions (`Begun`, `Dropped`,
`Confirmed`, `Synced`) used by the actions. `job` holds the workers, each with
its requester; `order` is the FIFO of reserved turns. `StartWrite` passes the
checkpoints, `Apply` is the native report, `ReturnOk`, `Refused` and `IoError`
its ends. `Accept`, `Cancel` and `DropCompletion` are the requester's side.
`InventoryPass` and `ReloadConfig` are the orchestrator's whole handlers as far
as this setting is concerned. One keyboard is modelled because routes have
separate queues; it stays connected, and its answers may be errors. `overlapped`
is a history variable: a request was made while another awaited its answer.

### ButtonRuntime (MCButtonRuntime, ButtonRuntimeProofs)

A call of a producer takes up to four steps: read the generation and build the
command, `TrySend`, and, if the queue was full, `Invalidate` and `Wake`. The
worker's state is a record that `Processed` and its helpers transform; it holds
the table of active presses, the due presses of the settling loop and the events
not emitted yet. Settling a threshold holds events back and reorders them:
`emit_settled_events` puts the events of due presses that have fired first. An
event carries the press as it was when the event was made, and the due presses
are fixed before, so each press has its `first` and its `rest` from the
beginning, and `Settled` joins them. `Top`, `Receive`, `ReceiveTimesOut`,
`Received`, `Process`, `Settle`, `Drain`, `DrainOne` and `FireDue` are the points
of `run_worker` and `settle_due_long_presses` between which producers run. `seen`
is what the handler was told of each press. Left out: actions, bindings'
payloads, dispatch targets other than the pointer's window, and the order of
events of different presses.

### CaptureManager (CaptureManagerProofs)

`slot` is the manager's map (`active` and `draining` are the phases of a running
session, `recovering` holds an owed restore and the restart's pacing); `tasks`
are the session tasks, which share the receiver lease through a weak pointer.
`Reconcile` reads the publications and retires sessions; if restores are due
they are awaited one by one (`RetryRestore`), with everything else interleaved;
`SpawnSessions` ends the reconcile from the snapshot it started with.
`CheckDeadline` and the biased `select` (`HandleEvent` before `SelectNews`,
whose arms are in the order of the code) follow. `StartDrain` to `DrainRestore`
are `drain_for_shutdown`. A session is reduced to what the manager can tell:
it arms, captures, ends restored, ends owing a restore, or dies with its token
(`lost`). Steps inside one poll of the manager are not split, since manager and
sessions share a current-thread runtime. Left out: the route a restore is
retried on, the hook's record of diverted buttons, and the closing of a
control-plane source, which ends the process.

### FlowHandoff (MCFlowHandoff, FlowHandoffProofs)

Both hosts have every role. `pending` and `completed` are `IncomingLedger`,
`outgoing` is the actor's one transfer, `send` the task of `sender.rs` with its
phase (`preparing`, `calling`, `writing`, `applying`, `awaiting`, `reported`),
`seen` the actor's inventory view, and `at` where each device is. `Crossed` is
the edge crossing; `Prepared` to `Settle` are `negotiate`, split at each await;
`OwesCancel` is `after_switch`. `RequestArrives` is `IncomingLedger::arm` with its
four answers (replay, duplicate, rejected, armed), `InventoryChanged` is
`observe`, `Expire` is `expire`, each with the `record` and the result it sends.
Timers count down together in `Tick`: `left` is the receiver's window, `age`
runs from `requested_at` and `wait` to `give_up`. Nothing has to happen when its
timer does, so hosts may be arbitrarily late. Messages are a set, because every
call and notification has a QUIC stream of its own; they overtake each other,
and one that is never received is lost. `StopGeneration`, `SenderAborted` and
`StartGeneration` are a configuration change: the ledger is lost, the sender may
run on until `SENDER_GRACE`, and the next actor starts from the inventory published
last, which may be out of date. `StopGeneration` drops what is under way to the host
at once; an answer to its own open call is among it, as if the call had failed. `history` remembers what was armed, written and
placed, and which transfers a ledger has dropped. The device I/O gate and the
receiver lease are refusals that may come at any time. Left out: the position on
the edge, host slots (a device that is here and on the peer's slot needs a wrong
configuration), more than two hosts, the authentication of the link.

### AgentLifecycle (AgentLifecycleProofs)

The macOS agent. `phase` is the process that holds the lock: `dormant` in the
gate, `starting` until the fleet runs (the permission prompt is here),
`running`, `completing` between the end of the drain and its consequences,
`leaving` in `leave`, and `coreless` when the core's thread has died under the
tray's. What survives a process is `record` (the armed-session file), `file`
(the executable on disk), `access` (the Input Monitoring grant), `starts`
(processes launchd, the GUI or a scheduled relaunch will start) and `taker` (a
process in `replace_stale`). `fleet` and `managers` are `WatcherFleet` and its
completions, `watch` is `Watch` with the thread's state, `requests` the channel to
the lifecycle. `Boots` is `main`, `bootstrap` and the gate's first two questions.
The run loop's biased select gives the guards of `TakesSignal`, `TakesStop`,
`TakesRestart`, `ReplacementReady` and `LateGrant` their order.

- The record. A read, a write or a removal of it may fail, each a fault: then the
  gate takes it that nothing was recorded (`Boots`), and `record` and `clear` leave
  the file as it was and only log (`Records`, `Forgets`). `lapse` remembers that the
  last change of the record failed.
- Diversions. `owed` are the managers whose sessions may still know of something to
  give back. A clean stop is the result of `CaptureManager`
  (`GracefulStopIsNative`, `StopCompletes`): what the sessions knew of is given
  back. It does not make the devices native: a session whose task died has lost
  its restore and its manager stops cleanly all the same (`lost` in
  `CaptureManager`), and what an earlier fleet or process left behind is known to
  nobody. Neither is part of `owed`.
- The grant. `held` is what this process reads of it, which macOS fixes when it
  first asks. A grant at the prompt hands over before the fleet starts
  (`HandsOver`); one made later in the system's settings is noticed by the run
  loop, which hands over with the fleet running or draining (`LateGrant`). Both
  keep the record. `heir` is the successor that waits for this process to end, in
  whichever way it ends.
- History. `wish` is what the user last asked for; `unheard` is set when a stop
  request, or the watcher's notice that the app was removed, died with the process
  it was made to or found its core dead; `touched` when the file changed after
  the watcher asked for a restart.

Left out: the process that probes for a late grant and `RELAUNCH_COOLDOWN` (a
late grant may be acted on at any time or never), grants that are taken back,
Linux (exec in place) and Windows, the hook and its accessibility watch, the
overlay helper, App Translocation.

## 4. Runs

| Run | Instance | Shows |
|---|---|---|
| `hidpp_correlation` | 3 requests on one header: a repeat that adopts, a different one that writes through; grace 1 | types, one holder per header, owed replies counted, no foreign reply; with fairness, parked requests register |
| `hidpp_window` | 3 requests, no adoption | **violated**: `WindowReplyDiscarded` |
| `reserved_turns` | 4 reservations, fairness | counters exact, strict order; implements `OrderedTurns` with its fairness, so turns come |
| `disable_keys` | 2 workers, 3 intents, 2 retries, any requests, fairness | the accepted choice stays for a client that waits for its answers, a read-back is its writer's own, no intent leaks, no stale retry, recoveries end |
| `disable_keys_overlap` | 2 workers, 2 intents, overlapping requests | **violated**: `AcceptedStays` |
| `button_wakeups` | 1 button, long-press binding, queue of 1, 3 calls, 1 tick, fairness | balance, exit ends all; releases end presses, thresholds settle, shutdown served |
| `button_kinds` | hook button and G-key, gesture and wheel-hold bindings, 2 windows, queue of 3, 3 calls, pulses, gestures and all cancellations | balance with one press per control, a hold follows the pointer |
| `button_backlog` | 2 controls, queue of 2, 4 calls | **violated**: `EarlyReleaseWins` |
| `capture` | 1 device, 2 targets x 2 dispatch plans, 1 exclusive operation, 3 changes, 1 input, fairness | sole owner, reports owned, owed restores tracked, graceful stop native, fresh dispatch; exclusive access served, convergence, stop completes |
| `flow_crossing` | 2 hosts, 2 pointing devices, 2 transfers, windows of 3 ticks | writes fall into the receiver's window, honest reports, one cursor placement, the sender outwaits the receiver |
| `flow_faults` | 2 hosts, 2 devices, 1 transfer, 1 fault, fairness | no cancel after a write, a repeated request arms nothing again, transfers end on both sides |
| `agent_lifecycle` | 2 managers, 1 update, 2 logins, 1 fault, launch at login off, fairness | arms as wished where the record could be kept, a replacement owes no restore and finds a whole file, fleets do not overlap, updates and removals are acted on |

Apart from `hidpp_correlation` the runs spend no property on types: each
module's `TypeOK` is proved.

### Why the bounds are enough

- Header conflicts need a holder, a successor and a third request that would
  receive the wrong reply. Different headers never meet in the queue. Longer
  chains of adoptions are covered by the proof.
- `early` has gaps on both sides of a finished number from four reservations on.
- Three numbers are an accepted, an abandoned and a superseding intent, or two
  intents and a policy change; two workers are a running and a waiting one, of
  which either may be abandoned.
- The capacity of the button queue is 1 or 2 instead of 128 so that it is full
  often, and 3 in `button_kinds`, which is about the commands and not about
  losing them; `Threshold` is one tick, so a release falls before, at or after it.
  Three calls are a press, its lost release and what comes after it; the fourth
  of `button_backlog` fills the queue up again.
- `MaxChanges` counts what the outside does to the capture manager, failures
  included; resuming I/O, granting and withdrawing access are free. Three changes
  are a retirement, a failed restore and one interruption.
  One device is used: devices share only the lease and the event queue, and two
  are a state space of their own, planned with `CaptureSession`.
- Two transfers are a transfer and its successor, or two that cross; with
  `CompletedLimit` 1 the second pushes the first out of the ledger. A window of 3
  ticks has an odd half, of 2 an even one. Two devices are one that went and
  one that did not. The two Flow runs split directions and faults between them,
  since both at once are beyond TLC's reach; hosts and devices are
  interchangeable (`HostAndDeviceSymmetry`, used without liveness only).
- Safety does not rest on these bounds: the theorems of section 6 hold for all of
  them. They matter for the liveness properties and the findings.
- One update and one removal meet in every order; two managers are one that stops
  and one that does not; one fault is a crash, a dead core, a dead manager, a
  record that fails, a failed schedule or a failed stat at any point. `GoneTicks` is 2 instead of 3: a
  first and a deciding absence. With `LaunchAtLogin` the gate always arms and
  the record decides nothing, so it is off.

Deadlock checking is off in the capture run, where the manager returns and
everything has stopped, and in the Flow runs, where the bounded transfers are
over and no device has to move. The others have a stuttering step for their end, or
never stop.

### Fairness

- `HidppChannel`: woken futures are polled, writes return, deadlines after a
  write fire, time passes. Nothing of the device.
- `ReservedTurns`: ready futures are polled, an operation that has its turn
  ends, a notification is sent. Nobody has to cancel.
- `DisableKeys`: workers and requesters proceed. Strong fairness of confirming
  inventory passes stands for the watcher that is asked for another pass as
  long as a recovery is open; a pass waits for a free worker only in the model.
- `ButtonRuntime`: the worker and a call under way proceed. Nobody has to
  press, and the clock need not advance.
- `CaptureManager`: the manager is polled, a session that was told to stop ends
  (strongly fair, since the I/O gate may close in between), timers fire, the
  host resumes I/O eventually, an exclusive operation ends, and the receiver's
  lock is fair (tokio's `RwLock` is a FIFO), hence strong fairness of `Grant`.
  Failures are bounded by `MaxChanges`, so they stop eventually.
- `FlowHandoff`: time passes, every await of the sender has a deadline (a lease,
  `REQUEST_TIMEOUT`, `WRITE_TIMEOUT`, `give_up`), the receiver's expiry fires, and a
  stopping actor waits no longer than `SENDER_GRACE`. Nothing of the peer, the
  link or the devices.
- `AgentLifecycle`: the run loop handles what is ready, the watcher's thread
  ticks, and a manager that was told to stop ends, as `StopCompletes` shows of
  the capture manager. Nothing of launchd, the GUI, the installer or the user.

## 5. Findings

- **A late reply can use up another request's window** (`hidpp_window`). A
  stale entry is consumed by any reply with its header, also by the reply of an
  earlier request whose own window has closed. The reply of the later abandoned
  request, inside its window, then answers a third request, against
  `channel.rs`: "A reply that lands inside this window is discarded".
- **Accepting an older Disable Keys request can cancel a recovery**
  (`disable_keys_overlap`). Request 1 has been written and not yet accepted;
  request 2 is written and abandoned; accepting 1 finds itself the latest,
  commits, and clears the recovery that 2's drop asked for. The keyboard keeps
  2's keys. A client that waits for its answers does not meet this
  (`AcceptedStaysInTurn` in `disable_keys`).
- **One queued command may be missed at the long-press checkpoint**
  (`button_backlog`). After taking one command the worker reads `capacity - 1`
  more, but the queue may have been filled up again, so an early release in the
  last place loses against the long action.

Observations without a run of their own, in the models and worth knowing:

- `arm` does not look at an outgoing transfer, so two hosts whose users cross the
  edge at once may both be sending and receiving, although `actor.rs` says "One
  transfer runs at a time, in either direction". The properties of
  `flow_crossing` hold in these states too.
- A Quit or a signal that arrives while the permission prompt is open, while a
  replacement is being completed or after a handover has begun, is lost with the
  process, and the successor arms again (`unheard` in `ArmsAsWished`).
- A record that could not be removed at a Quit arms the next start of that login
  (`lapse` in `ArmsAsWished`). One that could not be written makes the successor of
  a handover or an update stay dormant, not only that of a crash: `armed_session.rs`
  says "A failure costs only crash recovery", while `lifecycle.rs` leaves the record
  for a successor that "must start armed".
- `lifecycle.rs` says that a replacement has "resolved firmware ownership, so a
  successor starts from native device state". `ReplacementOwesNothing` is what holds:
  every restore a session still knew of was made. The restore of a session whose
  task died is lost (`settle_capture_task`), and the successor meets those controls
  diverted.
- A handover for a late grant schedules its successor while the fleet runs, and
  leaves when the fleet has stopped or `STOP_TIMEOUT` has passed, so its successor
  may meet diverted controls as well; `ReplacementOwesNothing` is about updates.
- The watcher's verdict that the new file has settled is not repeated after the
  drain, which has no bound (`touched` in `SuccessorIsWhole`).
- A process that waited for the lock takes its baseline after the wait, so an
  update in between goes unnoticed until the next one; and a takeover gives up
  after four seconds, which the holder's ordered exit may exceed.

## 6. Proofs

`HidppChannelProofs` holds for every finite set of requests, every assignment of
headers and bodies in which equal bodies have equal headers, and every grace
(`RequestsAssumption`, `GraceAssumption`).

- `TypeCorrect`, `KeysExclusive`: from `IInv`, the conjunction of `TypeOK`,
  `OneHolderPerKey` and `QueueAgreesWithFutures`. The last is needed because
  exclusiveness alone is not inductive: a request registers only from
  `checking`, and it has to be known that it is not in the queue already. The
  sum over adopted entries (`SumFunctionOnSet`) is evaluated for sets of at most
  one element, which is all `OneHolderPerKey` allows (`SumOverNone`,
  `SumOverOne`).
- `RepliesAccounted`, `NoMisattribution`: from the accounting invariant. For a
  header that has not lapsed, the replies still to come are covered by the
  credit of its holder and answer the holder's bytes. One lemma per kind of step
  shows how `Coming` and `Credit` change together: a registration adds one of
  both, a reply takes one of both, an abandonment moves the credit from the
  pending to the stale entry, and an expiry that leaves replies uncovered makes
  the header lapse. Cardinalities come from `FiniteSetTheorems`.

`ReservedTurnsProofs` holds for every number of reservations.

- `CountersExact`: `FinishedIsExact` together with the types and the fact that
  what is running, asleep or gone has been issued. The step that absorbs early
  numbers is a lemma about `NextGap`: the first number not in `early` exists,
  because `early` stays within the tickets.
- `TurnsInOrder`: a reservation starts to run when `through + 1 >= n`; by
  exactness all numbers before it are gone, and gone is for ever.
- `TypeCorrect`, from the same invariant: `through` stays a number because
  `NextGap` exists.
- `TurnsImplementLine`: `Spec => Line!Spec`. Registration, sleep and notification
  leave the line unchanged; a reservation takes a turn; the check that finds its
  number first serves it, which by `StrictOrder` happens only when nobody else is
  served and nobody older waits; a drop leaves the line or ends the service.

`DisableKeysProofs` holds for all masks and workers and any number of intents
and retries (`DisableKeysAssumption`). `IInv` has two halves.

- `Core` holds whatever clients do: the workers that have not returned stand in
  the queue once each and only the first writes (`QueueHoldsWorkers`), which
  makes `ReadbackIsOwn` inductive; pending intents and owners correspond in both
  directions (`OwnersPend`, `PendingHasOwner` without the set of images); a
  number is given once and stands for one value (`NumbersAreUnique`,
  `NumbersMeanValues`), from which `NoStaleWrites` follows, since `StartWrite`
  compares numbers only.
- `InTurn` holds until two requests overlap: the request that waits is the newest
  (`NewestWaits`), an answer that may be accepted is still true of the keyboard
  (`AnswerStands`), and either a repair is due or the keyboard has the accepted
  choice and no write under way changes it (`ChoiceIsKept`). `AcceptedKept` is the
  last for an idle system. Without the condition it is false, which is the
  finding of `disable_keys_overlap`.

`ButtonRuntimeProofs` holds for all controls, sources, bindings and windows, any
capacity and threshold and any number of calls (`ButtonAssumption`). The tale of
a press is what was emitted of it followed by what is held back. `Story` relates
tale and table: the tale of an active press is open (begun once, no end), that
of any other press is empty or has its end; only one that has fired has its
decision; and the held-back events of a due press all go first, so that putting
them first changes nothing within a press. One lemma per operation of
`ButtonState` says how it extends tales, one lemma (`ProcessedFollows`) joins
them over the commands, and one per step of the worker carries this through
emission. That a press starts once needs the way of its command: the command that
starts it is in one place, the call, the queue or the worker's hand
(`StartsOnce`), and its tale is empty until it is processed
(`CommandsAreKnown`). `LifecyclesBalanced` and `ExitLeavesNone` then hold where
everything is emitted; `HoldsFollowPointer` is a by-product of
`ProcessedFollows`, because a gesture binding and the `lifecycle` behaviour go
together for as long as a press is active.

`CaptureManagerProofs` holds for any finite set of devices, any plans and
exclusive operations and any number of changes. A device has one task, the
task is the session its slot tracks, what is queued belongs to the tracked epoch,
and a completion is the last a session says, when its task is gone (`Ownership`).
`SoleOwner` is the part of it a reader asks for; it is not inductive, since a
completion that a later report of the same epoch could follow would free the slot
under a live task. `OwedTracked` is inductive over it. `StopIsNative` needs that
the drain has no running slot once its retries begin (`DrainIsQuiet`) and that
the devices it retries are owed (`TodoIsOwed`). `DispatchIsFresh` is proved from
the way an input is taken: the slot is reconciled with the publication in the
same step.

`FlowHandoffProofs` holds for two hosts (the model's Flow is between two), any
finite set of devices, all windows with the relations the code's constants have,
any ledger limit and any number of transfers and faults (`FlowAssumption`). The
invariant is built in layers, each proved with the ones before.

- `Numbered`: ids in messages, ledgers and tasks have been issued, a transfer has
  one receiver and one sender, and a result in hand is one's own.
- `Reporting`, with `CancelsMovedNothing` and `ReportsAreHonest`: a write is
  recorded only after `started`, and a cancel is owed only without it.
- `ArmedInv`, with `ArmsOnce`: what a ledger holds, pending or completed, was
  armed, and what was armed is held or forgotten; an unanswered transfer is in
  nobody's ledger.
- `CursorInv`, with `CursorOnce`: a placement belongs to a transfer whose `placed`
  flag is set or which is over.
- `TimerInv`, with `SenderOutwaits` and `WritesStartInWindow`: timers of the two
  hosts run together, so the promise in an accept, the sender's age and the
  receiver's window satisfy linear inequalities that `Tick` preserves
  (`WindowCovers`, `AgeCovers`, `SenderWaits`).

`AgentLifecycleProofs` holds for any set of managers, with and without launch at
login, for any `GoneTicks` and any number of updates, logins and faults. The
channel holds at most one request of the tray and one of the watcher, each in
step with the watcher's mode (`RequestsAreSingle`); a fleet exists in the phases
that have one, and a replacement is completed over ended managers only
(`FleetFollowsPhase`); a manager that ended clean owes nothing
(`CleanOwesNothing`), from which `ReplacementsOweNothing` follows, since every
manager has to be clean; from the watcher's verdict to the successor's start the
file is whole or touched (`RestartIsSettled`, for `SuccessorsAreWhole`); and the
armed-session record agrees with the user's wish but for stops under way or lost
and for a change of the record that failed (`RecordFollowsWish`). `ArmingFollowsWish`
needs the last where a process starts: there no stop is pending, and what the gate
reads is the record, or nothing where the read fails.

Only model-checked: all liveness properties (`ParkedRegisters`, the fairness part
of `ImplementsLine`,
`RecoveryCompletes`, `ReleaseEnds`, `ThresholdSettles`, `ShutdownServed`,
`ExclusiveServed`, `Converges`, `StopCompletes`, `TransfersEnd`, `ChangeIsHeeded`),
since fairness and `ENABLED` are beyond the prover; and the three violations of
section 5, which are counterexamples.

## 7. Not modelled

- Presentation, data and I/O: desktop app, UI kit, CLI, overlay, camera, assets,
  permissions, fixtures, configuration types, feature encodings, device tables,
  HID transport, OS hooks and injection.
- Numeric code: scroll smoothing, edge geometry, pointer placement; the
  cryptography and the connections of Flow.
- Planned (section 2): host switch, pairing, inventory, the session monitor and
  the keyboard manager.
- Within modelled components: message listeners, software-id rotation and
  `send_and_forget` of the channel, which writes a report and registers nothing; retirement of a removed keyboard's queue; `acquire_for_io`; the
  election of a restore's route; the closing of a manager's control sources.
- A known gap without a property: in the button worker's settling loop the
  generation is read before the next command is taken, so a press of a
  generation published in between is ignored with its release. No document
  promises otherwise.
