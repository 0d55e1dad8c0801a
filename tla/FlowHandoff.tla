----------------------------- MODULE FlowHandoff -----------------------------
(***************************************************************************)
(* A Flow handoff between two computers (openlogi-agent-core, flow/): the  *)
(* receiver's ledger (handoff.rs), the actor that owns it                  *)
(* (runtime/actor.rs), the task that sends one transfer                    *)
(* (runtime/sender.rs) and the generation's stop and start                 *)
(* (runtime.rs, controller.rs), on both hosts, with the devices that move. *)
(*                                                                         *)
(* Each request, answer and notification has a QUIC stream of its own, so  *)
(* messages are a set: one may overtake another, and one that is never     *)
(* received is lost.  Both hosts' clocks run at one rate: Tick moves every *)
(* timer; nothing has to run when its timer does, so a host may be late.   *)
(* The device I/O gate, the receiver lease and the link are external: a    *)
(* step that asks one of them may be refused at any time.                  *)
(***************************************************************************)
EXTENDS Integers, Sequences, FiniteSets

CONSTANTS
  Hosts,          \* the two computers
  Devices,        \* configured on both hosts
  Pointing,       \* the devices whose arrival places the cursor
  ArmTimeout,     \* ARM_TIMEOUT, in ticks
  MaxArmTimeout,  \* MAX_ARM_TIMEOUT, in ticks
  NetworkSlack,   \* NETWORK_SLACK, in ticks
  CompletedLimit, \* COMPLETED_LIMIT
  MaxTransfers,   \* how many edge crossings start a transfer (bound)
  MaxFaults       \* how many generations stop, devices are moved by hand and
                  \* requests are sent again, together (bound)

ASSUME FlowAssumption ==
  /\ \E a, b \in Hosts : a # b /\ Hosts = {a, b}
  /\ IsFiniteSet(Devices) /\ Pointing \subseteq Devices
  /\ ArmTimeout \in Nat \ {0} /\ MaxArmTimeout \in Nat /\ ArmTimeout <= MaxArmTimeout
  /\ NetworkSlack \in Nat /\ CompletedLimit \in Nat \ {0}
  /\ MaxTransfers \in Nat /\ MaxFaults \in Nat

VARIABLES
  at,        \* per device: the host it is at, or on its way to
  ordered,   \* devices whose switch write started and is not yet decided
  seen,      \* per host: the devices online in the actor's inventory view
  running,   \* per host: FALSE while the generation stops
  pending,   \* per host: IncomingLedger.pending
  completed, \* per host: IncomingLedger.completed in completion_order
  outgoing,  \* per host: Actor.outgoing
  send,      \* per host: the sender task
  msgs,      \* messages in flight
  issued,    \* transfers started; the last transfer id
  faults,    \* stops, moves and repeated requests so far
  history    \* what has happened, for the properties

vars == <<at, ordered, seen, running, pending, completed, outgoing, send, msgs,
          issued, faults, history>>

-----------------------------------------------------------------------------
Peer(h) == CHOOSE p \in Hosts : p # h

MinOf(a, b) == IF a < b THEN a ELSE b

Down(n) == IF n > 0 THEN n - 1 ELSE 0

NoIncoming == [id |-> 0, devices |-> {}, arrived |-> {}, left |-> 0,
               placed |-> FALSE]

NoOutgoing == [id |-> 0, taken |-> FALSE]

NoResult == [id |-> 0, outcome |-> "none", arrived |-> {}]

IdleSender == [phase |-> "idle", id |-> 0, switches |-> <<>>, age |-> 0,
               window |-> 0, wait |-> 0, started |-> FALSE, stopping |-> FALSE,
               result |-> NoResult, report |-> "none"]

\* The orders in which the devices of a set may be handed over: LocalDevices
\* sorts pointing devices first.
HandoffOrders(S) ==
  {q \in [1..Cardinality(S) -> S] :
     /\ \A d \in S : \E i \in DOMAIN q : q[i] = d
     /\ \A i, j \in DOMAIN q : q[j] \in Pointing /\ i < j => q[i] \in Pointing}

Elements(q) == {q[i] : i \in DOMAIN q}

Here(h, d) == at[d] = h

Request(h, id, devices) == [kind |-> "request", to |-> Peer(h), id |-> id, devices |-> devices]
Accept(h, id, window)   == [kind |-> "accept", to |-> h, id |-> id, window |-> window]
Reject(h, id)           == [kind |-> "reject", to |-> h, id |-> id]
Cancel(h, id)           == [kind |-> "cancel", to |-> Peer(h), id |-> id]
Result(h, result)       == [kind |-> "result", to |-> h, result |-> result]

\* Answers to the call of transfer id: they go with the call's stream.
Answers(id) == {m \in msgs : m.kind \in {"accept", "reject"} /\ m.id = id}

Init ==
  /\ at \in [Devices -> Hosts]
  /\ ordered = {}
  /\ seen = [h \in Hosts |-> {d \in Devices : Here(h, d)}]
  /\ running = [h \in Hosts |-> TRUE]
  /\ pending = [h \in Hosts |-> NoIncoming]
  /\ completed = [h \in Hosts |-> <<>>]
  /\ outgoing = [h \in Hosts |-> NoOutgoing]
  /\ send = [h \in Hosts |-> IdleSender]
  /\ msgs = {}
  /\ issued = 0 /\ faults = 0
  /\ history = [armed |-> {}, forgotten |-> {}, written |-> {}, placed |-> <<>>]

-----------------------------------------------------------------------------
(* The sending host: Actor::crossed and the sender task. *)

Crossed(h) ==
  /\ running[h] /\ issued < MaxTransfers
  /\ outgoing[h].id = 0 /\ pending[h].id = 0
  /\ seen[h] # {}
  /\ issued' = issued + 1
  /\ outgoing' = [outgoing EXCEPT ![h] = [id |-> issued + 1, taken |-> FALSE]]
  /\ \E q \in HandoffOrders(seen[h]) :
       send' = [send EXCEPT ![h] = [IdleSender EXCEPT !.phase = "preparing",
                                                      !.id = issued + 1,
                                                      !.switches = q]]
  /\ UNCHANGED <<at, ordered, seen, running, pending, completed, msgs,
                 faults, history>>

\* The task returns its SendReport.
Report(h, report) ==
  send' = [send EXCEPT ![h] = [IdleSender EXCEPT !.phase = "reported", !.id = send[h].id,
                                !.result = send[h].result, !.report = report]]

\* acquire_and_prepare fails: no lease in time, device I/O suspended, a device
\* that cannot be prepared, or every device on the peer's slot already.
NotStarted(h) ==
  /\ send[h].phase = "preparing"
  /\ Report(h, "not_started")
  /\ UNCHANGED <<at, ordered, seen, running, pending, completed, outgoing, msgs,
                 issued, faults, history>>

\* Every device answers, and the request goes out: requested_at is now.  (A
\* device that is here and on the peer's slot needs a wrong configuration.)
Prepared(h) ==
  /\ send[h].phase = "preparing"
  /\ \A d \in Elements(send[h].switches) : Here(h, d)
  /\ send' = [send EXCEPT ![h].phase = "calling"]
  /\ msgs' = msgs \cup {Request(h, send[h].id, Elements(send[h].switches))}
  /\ UNCHANGED <<at, ordered, seen, running, pending, completed, outgoing,
                 issued, faults, history>>

\* The peer refuses.
CallRejected(h) ==
  /\ send[h].phase = "calling"
  /\ Reject(h, send[h].id) \in msgs
  /\ msgs' = msgs \ Answers(send[h].id)
  /\ Report(h, "rejected")
  /\ UNCHANGED <<at, ordered, seen, running, pending, completed, outgoing,
                 issued, faults, history>>

\* Transport error, REQUEST_TIMEOUT, or an answer that is neither.
CallFails(h) ==
  /\ send[h].phase = "calling"
  /\ msgs' = (msgs \ Answers(send[h].id)) \cup {Cancel(h, send[h].id)}
  /\ Report(h, "cancelled")
  /\ UNCHANGED <<at, ordered, seen, running, pending, completed, outgoing,
                 issued, faults, history>>

\* Mutant: gives up at the end of the receiver's own window.
GiveUpWithoutSlack(window) == window

\* SwitchSchedule.give_up, from accepted_at.
GiveUp(window) == MinOf(window, MaxArmTimeout) + NetworkSlack

\* A zero window is the replay of a finished transfer.
CallAccepted(h) ==
  \E m \in msgs :
    /\ send[h].phase = "calling"
    /\ m.kind = "accept" /\ m.id = send[h].id
    /\ send' = [send EXCEPT ![h].phase = IF m.window = 0 THEN "awaiting" ELSE "writing",
                            ![h].switches = IF m.window = 0 THEN <<>> ELSE @,
                            ![h].age = IF m.window = 0 THEN 0 ELSE @,
                            ![h].window = MinOf(m.window, MaxArmTimeout),
                            ![h].wait = GiveUp(m.window)]
    /\ msgs' = msgs \ Answers(m.id)
    /\ UNCHANGED <<at, ordered, seen, running, pending, completed, outgoing,
                   issued, faults, history>>

\* Mutant: the write window is the receiver's whole window.
MayWriteWholeWindow(s) == s.age < s.window

\* SwitchSchedule::may_write: half the window from requested_at.
MayWrite(s) == 2 * s.age < s.window

\* The next switch write starts.
BeginWrite(h) ==
  LET d == Head(send[h].switches) IN
  /\ send[h].phase = "writing" /\ send[h].switches # <<>>
  /\ running[h] /\ ~send[h].stopping
  /\ MayWrite(send[h])
  /\ send' = [send EXCEPT ![h].phase = "applying", ![h].started = TRUE]
  /\ ordered' = IF Here(h, d) THEN ordered \cup {d} ELSE ordered
  /\ history' = [history EXCEPT !.written = @ \cup {<<send[h].id, d>>}]
  /\ UNCHANGED <<at, seen, running, pending, completed, outgoing, msgs,
                 issued, faults>>

\* Mutant: a skipped write makes the transfer one that never started.
SkipForgets(h) ==
  /\ send[h].phase = "writing" /\ send[h].switches # <<>>
  /\ send' = [send EXCEPT ![h].switches = Tail(@), ![h].stopping = @ \/ ~running[h],
                          ![h].started = FALSE]
  /\ UNCHANGED <<at, ordered, seen, running, pending, completed, outgoing, msgs,
                 issued, faults, history>>

\* The write is not started: stopping, I/O suspended, or too late.
SkipWrite(h) ==
  /\ send[h].phase = "writing" /\ send[h].switches # <<>>
  /\ send' = [send EXCEPT ![h].switches = Tail(@), ![h].stopping = @ \/ ~running[h]]
  /\ UNCHANGED <<at, ordered, seen, running, pending, completed, outgoing, msgs,
                 issued, faults, history>>

\* The write returns, fails or times out (WRITE_TIMEOUT).
EndWrite(h) ==
  /\ send[h].phase = "applying"
  /\ send' = [send EXCEPT ![h].phase = "writing", ![h].switches = Tail(@)]
  /\ UNCHANGED <<at, ordered, seen, running, pending, completed, outgoing, msgs,
                 issued, faults, history>>

\* after_switch: cancel when no write started.
OwesCancel(s) == ~s.started

\* The loop over the switches is done; the lease is released.
Settle(h) ==
  /\ send[h].phase = "writing" /\ send[h].switches = <<>>
  /\ \/ /\ OwesCancel(send[h])
        /\ msgs' = msgs \cup {Cancel(h, send[h].id)}
        /\ Report(h, "cancelled")
     \/ /\ ~OwesCancel(send[h]) /\ send[h].stopping
        /\ Report(h, "no_result")
        /\ UNCHANGED msgs
     \/ /\ ~OwesCancel(send[h]) /\ ~send[h].stopping
        /\ send' = [send EXCEPT ![h].phase = "awaiting", ![h].age = 0, ![h].window = 0]
        /\ UNCHANGED msgs
  /\ UNCHANGED <<at, ordered, seen, running, pending, completed, outgoing,
                 issued, faults, history>>

\* await_result: the stop signal, the peer's result, or the deadline.
AwaitEnds(h) ==
  /\ send[h].phase = "awaiting"
  /\ \/ /\ running[h] /\ send[h].result # NoResult
        /\ Report(h, "finished")
     \/ /\ ~running[h] \/ (send[h].wait = 0 /\ send[h].result = NoResult)
        /\ Report(h, "no_result")
  /\ UNCHANGED <<at, ordered, seen, running, pending, completed, outgoing, msgs,
                 issued, faults, history>>

\* Event::Sent at the actor.  A stopped actor takes no events.
Sent(h) ==
  /\ send[h].phase = "reported"
  /\ send' = [send EXCEPT ![h] = IdleSender]
  /\ outgoing' = [outgoing EXCEPT ![h] = IF running[h] /\ @.id = send[h].id
                                           THEN NoOutgoing ELSE @]
  /\ UNCHANGED <<at, ordered, seen, running, pending, completed, msgs,
                 issued, faults, history>>

-----------------------------------------------------------------------------
(* The receiving host: the actor and its ledger. *)

\* Mutant: a finished transfer is forgotten at once.
RemembersNothing(h, id) == {}

\* IncomingLedger.completed for one transfer.
Remembered(h, id) == {i \in DOMAIN completed[h] : completed[h][i].id = id}

\* A device the request names is online here, by the actor's inventory view.
NotReady(h, m) == m.devices \cap seen[h] # {}

\* IncomingLedger::arm and the answer.
RequestArrives(h) ==
  \E m \in msgs :
    /\ running[h] /\ m.kind = "request" /\ m.to = h
    /\ \/ \E i \in Remembered(h, m.id) :          \* Replay
            /\ msgs' = (msgs \ {m}) \cup {Accept(Peer(h), m.id, 0),
                                          Result(Peer(h), completed[h][i])}
            /\ UNCHANGED <<pending, history>>
       \/ /\ Remembered(h, m.id) = {} /\ pending[h].id = m.id   \* Duplicate
          /\ msgs' = (msgs \ {m}) \cup {Accept(Peer(h), m.id, pending[h].left)}
          /\ UNCHANGED <<pending, history>>
       \/ /\ Remembered(h, m.id) = {} /\ pending[h].id # m.id   \* Rejected
          /\ pending[h].id # 0 \/ NotReady(h, m)
          /\ msgs' = (msgs \ {m}) \cup {Reject(Peer(h), m.id)}
          /\ UNCHANGED <<pending, history>>
       \/ /\ Remembered(h, m.id) = {} /\ pending[h].id = 0      \* Armed
          /\ ~NotReady(h, m)
          /\ pending' = [pending EXCEPT ![h] =
               [id |-> m.id, devices |-> m.devices, arrived |-> {},
                left |-> ArmTimeout, placed |-> FALSE]]
          /\ msgs' = (msgs \ {m}) \cup {Accept(Peer(h), m.id, ArmTimeout)}
          /\ history' = [history EXCEPT !.armed = @ \cup {m.id}]
    /\ UNCHANGED <<at, ordered, seen, running, completed, outgoing, send,
                   issued, faults>>

\* record: remember the result and drop the oldest beyond COMPLETED_LIMIT.
Record(h, outcome, arrived) ==
  LET all == Append(completed[h], [id |-> pending[h].id, outcome |-> outcome,
                                   arrived |-> arrived])
  IN  completed' = [completed EXCEPT ![h] =
                      IF Len(all) > CompletedLimit THEN Tail(all) ELSE all]

\* The transfer that record drops.
Evicted(h) ==
  IF Len(completed[h]) = CompletedLimit THEN {Head(completed[h]).id} ELSE {}

\* IncomingLedger::cancel disarms only while nothing has arrived.
CancelArrives(h) ==
  \E m \in msgs :
    /\ running[h] /\ m.kind = "cancel" /\ m.to = h
    /\ msgs' = msgs \ {m}
    /\ \/ /\ pending[h].id = m.id /\ pending[h].arrived = {}
          /\ Record(h, "cancelled", {})
          /\ history' = [history EXCEPT !.forgotten = @ \cup Evicted(h)]
          /\ pending' = [pending EXCEPT ![h] = NoIncoming]
       \/ /\ pending[h].id # m.id \/ pending[h].arrived # {}
          /\ UNCHANGED <<pending, completed, history>>
    /\ UNCHANGED <<at, ordered, seen, running, outgoing, send,
                   issued, faults>>

\* Mutant: any result ends the transfer this host is sending.
AwaitsAnyResult(h, id) == outgoing[h].id # 0 /\ ~outgoing[h].taken

\* The result answers the transfer being sent, and is the first that does.
Awaits(h, id) == outgoing[h].id = id /\ ~outgoing[h].taken

\* HandoffResult: hand it to the sender task that waits for it.
ResultArrives(h) ==
  \E m \in msgs :
    /\ running[h] /\ m.kind = "result" /\ m.to = h
    /\ msgs' = msgs \ {m}
    /\ IF Awaits(h, m.result.id)
         THEN /\ outgoing' = [outgoing EXCEPT ![h].taken = TRUE]
              /\ send' = [send EXCEPT ![h].result = m.result]
         ELSE UNCHANGED <<outgoing, send>>
    /\ UNCHANGED <<at, ordered, seen, running, pending, completed,
                   issued, faults, history>>

\* Mutant: the cursor is placed for each pointing device that arrives.
PlacesForEach(p, arriving) == arriving \cap Pointing # {}

\* The first pointing device arrived: place the cursor.
PlacesCursor(p, arriving) == arriving \cap Pointing # {} /\ ~p.placed

\* The inventory is published and taken by the actor: observe.
InventoryChanged(h) ==
  LET online   == {d \in Devices : Here(h, d)}
      arriving == (pending[h].devices \ pending[h].arrived) \cap online
      arrived  == pending[h].arrived \cup arriving
      places   == PlacesCursor(pending[h], arriving)
      done     == pending[h].id # 0 /\ arrived = pending[h].devices
  IN
  /\ running[h] /\ online # seen[h]
  /\ seen' = [seen EXCEPT ![h] = online]
  /\ pending' = [pending EXCEPT ![h] =
       IF done THEN NoIncoming
               ELSE [pending[h] EXCEPT !.arrived = arrived, !.placed = @ \/ places]]
  /\ IF done
       THEN /\ Record(h, "arrived", arrived)
            /\ msgs' = msgs \cup {Result(Peer(h), [id |-> pending[h].id,
                                     outcome |-> "arrived", arrived |-> arrived])}
       ELSE UNCHANGED <<completed, msgs>>
  /\ history' = [history EXCEPT
       !.placed = IF places THEN Append(@, pending[h].id) ELSE @,
       !.forgotten = IF done THEN @ \cup Evicted(h) ELSE @]
  /\ UNCHANGED <<at, ordered, running, outgoing, send, issued, faults>>

\* Mutant: the deadline is given up once a device has arrived.
TimesOut(p) == p.id # 0 /\ p.left = 0 /\ p.arrived = {}

\* expire: a transfer is armed and its window has closed.
Expired(p) == p.id # 0 /\ p.left = 0

\* The deadline passed: IncomingLedger::expire, then finish.
Expire(h) ==
  LET outcome == IF pending[h].arrived = {} THEN "timeout" ELSE "partial" IN
  /\ running[h] /\ Expired(pending[h])
  /\ Record(h, outcome, pending[h].arrived)
  /\ msgs' = msgs \cup {Result(Peer(h), [id |-> pending[h].id, outcome |-> outcome,
                                         arrived |-> pending[h].arrived])}
  /\ pending' = [pending EXCEPT ![h] = NoIncoming]
  /\ history' = [history EXCEPT !.forgotten = @ \cup Evicted(h)]
  /\ UNCHANGED <<at, ordered, seen, running, outgoing, send,
                 issued, faults>>

-----------------------------------------------------------------------------
(* A generation stops and the next one starts (configuration change). *)

\* The streams to a host die with its connection.
InboundDropped(h) == {m \in msgs : m.to # h}

\* FlowRuntime::stop: the actor leaves its loop; the ledger goes with it.  The
\* connection closes a little later, when the sender's task has ended; an answer
\* to the sender's open call that is lost here is what CallFails may do anyway.
StopGeneration(h) ==
  /\ running[h] /\ faults < MaxFaults
  /\ faults' = faults + 1
  /\ running' = [running EXCEPT ![h] = FALSE]
  /\ pending' = [pending EXCEPT ![h] = NoIncoming]
  /\ completed' = [completed EXCEPT ![h] = <<>>]
  /\ outgoing' = [outgoing EXCEPT ![h] = NoOutgoing]
  /\ msgs' = InboundDropped(h)
  /\ history' = [history EXCEPT !.forgotten =
       @ \cup {pending[h].id} \cup {completed[h][i].id : i \in DOMAIN completed[h]}]
  /\ UNCHANGED <<at, ordered, seen, send, issued>>

\* The sender outlives SENDER_GRACE: its task is aborted where it is.
SenderAborted(h) ==
  /\ ~running[h] /\ send[h].phase # "idle"
  /\ send' = [send EXCEPT ![h] = IdleSender]
  /\ UNCHANGED <<at, ordered, seen, running, pending, completed, outgoing, msgs,
                 issued, faults, history>>

\* supervise: once the old generation has stopped, start the next.  Its actor takes
\* the inventory published last, which may be that of the one before.
StartGeneration(h) ==
  /\ ~running[h] /\ send[h].phase = "idle"
  /\ running' = [running EXCEPT ![h] = TRUE]
  /\ \E online \in {seen[h], {d \in Devices : Here(h, d)}} :
       seen' = [seen EXCEPT ![h] = online]
  /\ msgs' = InboundDropped(h)
  /\ UNCHANGED <<at, ordered, pending, completed, outgoing, send,
                 issued, faults, history>>

-----------------------------------------------------------------------------
(* The environment. *)

\* A device acts on the switch write and leaves for the other host.  Its
\* flight is part of the time the other host's inventory takes to list it.
DeviceLeaves(d) ==
  /\ d \in ordered
  /\ at' = [at EXCEPT ![d] = Peer(@)]
  /\ ordered' = ordered \ {d}
  /\ UNCHANGED <<seen, running, pending, completed, outgoing, send, msgs,
                 issued, faults, history>>

\* The write did not reach the device.
DeviceStays(d) ==
  /\ d \in ordered
  /\ ordered' = ordered \ {d}
  /\ UNCHANGED <<at, seen, running, pending, completed, outgoing, send, msgs,
                 issued, faults, history>>

\* The user presses the device's own Easy-Switch button.
UserMoves(d) ==
  /\ faults < MaxFaults
  /\ faults' = faults + 1
  /\ at' = [at EXCEPT ![d] = Peer(@)]
  /\ ordered' = ordered \ {d}
  /\ UNCHANGED <<seen, running, pending, completed, outgoing, send, msgs,
                 issued, history>>

\* A sender may repeat a request whose response was lost.
Retransmit(h) ==
  /\ send[h].phase = "calling" /\ faults < MaxFaults
  /\ faults' = faults + 1
  /\ msgs' = msgs \cup {Request(h, send[h].id, Elements(send[h].switches))}
  /\ UNCHANGED <<at, ordered, seen, running, pending, completed, outgoing, send,
                 issued, history>>

\* Time passes on both hosts.  age stops at MaxArmTimeout, beyond which it
\* decides nothing.
Tick ==
  /\ pending' = [h \in Hosts |-> [pending[h] EXCEPT !.left = Down(@)]]
  /\ send' = [h \in Hosts |-> [send[h] EXCEPT
       !.age  = IF send[h].phase \in {"calling", "writing", "applying"}
                  THEN MinOf(@ + 1, MaxArmTimeout) ELSE @,
       !.wait = Down(@)]]
  /\ <<pending, send>>' # <<pending, send>>
  /\ UNCHANGED <<at, ordered, seen, running, completed, outgoing, msgs,
                 issued, faults, history>>

-----------------------------------------------------------------------------
SenderStep(h) ==
  \/ NotStarted(h) \/ Prepared(h)
  \/ CallRejected(h) \/ CallAccepted(h) \/ CallFails(h)
  \/ BeginWrite(h) \/ SkipWrite(h) \/ EndWrite(h) \/ Settle(h)
  \/ AwaitEnds(h) \/ Sent(h) \/ SenderAborted(h)

ActorStep(h) ==
  \/ Crossed(h) \/ RequestArrives(h) \/ CancelArrives(h) \/ ResultArrives(h)
  \/ InventoryChanged(h) \/ Expire(h)

Next ==
  \/ \E h \in Hosts : SenderStep(h) \/ ActorStep(h) \/ StopGeneration(h)
                        \/ StartGeneration(h) \/ Retransmit(h)
  \/ \E d \in Devices : DeviceLeaves(d) \/ DeviceStays(d) \/ UserMoves(d)
  \/ Tick

Spec == Init /\ [][Next]_vars

\* Time passes, every await of the sender has a deadline, the actor's loop
\* handles its events, and a stopping actor waits no longer than SENDER_GRACE.
Fairness ==
  /\ WF_vars(Tick)
  /\ \A h \in Hosts : WF_vars(SenderStep(h)) /\ WF_vars(Expire(h)) /\ WF_vars(StartGeneration(h))

FairSpec == Spec /\ Fairness

-----------------------------------------------------------------------------
(* Properties. *)

Ids == 0..MaxTransfers

Results == [id : Ids, outcome : {"none", "arrived", "partial", "timeout", "cancelled"},
            arrived : SUBSET Devices]

Incomings == [id : Ids, devices : SUBSET Devices, arrived : SUBSET Devices,
              left : 0..ArmTimeout, placed : BOOLEAN]

Senders ==
  [phase : {"idle", "preparing", "calling", "writing", "applying", "awaiting", "reported"},
   id : Ids, switches : Seq(Devices), age : 0..MaxArmTimeout, window : 0..MaxArmTimeout,
   wait : 0..(MaxArmTimeout + NetworkSlack), started : BOOLEAN, stopping : BOOLEAN,
   result : Results,
   report : {"none", "not_started", "rejected", "cancelled", "no_result", "finished"}]

Messages ==
  [kind : {"request"}, to : Hosts, id : Ids, devices : SUBSET Devices]
    \cup [kind : {"accept"}, to : Hosts, id : Ids, window : 0..ArmTimeout]
    \cup [kind : {"reject", "cancel"}, to : Hosts, id : Ids]
    \cup [kind : {"result"}, to : Hosts, result : Results]

Histories ==
  [armed : SUBSET Ids, forgotten : SUBSET Ids, written : SUBSET (Ids \X Devices), placed : Seq(Ids)]

\* Every variable has its type: timers stay within their windows and the ledger
\* within COMPLETED_LIMIT.
TypeOK ==
  /\ at \in [Devices -> Hosts]
  /\ ordered \subseteq Devices
  /\ seen \in [Hosts -> SUBSET Devices]
  /\ running \in [Hosts -> BOOLEAN]
  /\ pending \in [Hosts -> Incomings]
  /\ completed \in [Hosts -> Seq(Results)]
  /\ \A h \in Hosts : Len(completed[h]) <= CompletedLimit
  /\ outgoing \in [Hosts -> [id : Ids, taken : BOOLEAN]]
  /\ send \in [Hosts -> Senders]
  /\ msgs \subseteq Messages
  /\ issued \in Ids /\ faults \in 0..MaxFaults
  /\ history \in Histories

\* The switch writes of a transfer that have been started.
WritesOf(id) == {w \in history.written : w[1] = id}

\* "so the device lands while the receiver still watches" (handoff.rs): a
\* switch write starts only while the peer is armed for that transfer with more
\* than half of the promised window left, however long the request and its
\* answer took.  It may start later only when the devices are all there
\* already, or the peer's generation ended.
WriteStartsInWindow ==
  [][\A h \in Hosts :
       send[h].phase = "writing" /\ send'[h].phase = "applying" =>
         LET id == send[h].id  p == Peer(h) IN
         \/ pending[p].id = id /\ 2 * pending[p].left > send[h].window
         \/ \E i \in Remembered(p, id) : completed[p][i].outcome = "arrived"
         \/ id \in history.forgotten]_vars

\* "Once any write was attempted the sender must not cancel" (handoff.rs): no
\* cancel is on its way, and no receiver has disarmed, for a transfer one of
\* whose devices was told to leave.
NoCancelAfterWrite ==
  /\ \A m \in msgs : m.kind = "cancel" => WritesOf(m.id) = {}
  /\ \A h \in Hosts : \A i \in DOMAIN completed[h] :
       completed[h][i].outcome = "cancelled" => WritesOf(completed[h][i].id) = {}

\* What the sender task reports is true of its own transfer: a transfer that
\* was not started, refused or cancelled moved nothing, and a finished one
\* carries the peer's result for this transfer, not a late one for another.
ReportIsHonest ==
  \A h \in Hosts : send[h].phase = "reported" =>
    /\ send[h].report \in {"not_started", "rejected", "cancelled"}
         => WritesOf(send[h].id) = {}
    /\ send[h].report = "finished" => send[h].result.id = send[h].id

\* A transfer id is the idempotency key: a repeated request never arms a
\* transfer again, except one that the ledger dropped.
ArmedOnce ==
  [][\A h \in Hosts :
       pending'[h].id \notin {0, pending[h].id} =>
         pending'[h].id \notin history.armed \ history.forgotten]_vars

\* The cursor is placed once for a transfer, however many pointing devices
\* arrive and in whichever order.
CursorPlacedOnce ==
  \A i, j \in DOMAIN history.placed :
    i # j /\ history.placed[i] = history.placed[j]
      => history.placed[i] \in history.forgotten

\* The sender does not give up before the receiver: while both wait for the
\* same transfer the sender has the whole network slack on top.
SenderOutwaitsReceiver ==
  \A h \in Hosts :
    LET p == Peer(h) IN
    /\ send[h].phase = "awaiting" /\ pending[p].id = send[h].id /\ pending[p].left > 0
    /\ send[h].id \notin history.forgotten
    => send[h].wait >= pending[p].left + NetworkSlack

\* A transfer ends on both sides by their own deadlines: the sender's whatever
\* the peer does, and the receiver disarms also when its sender is gone and
\* when only some of the devices came.
TransfersEnd ==
  \A h \in Hosts :
    /\ outgoing[h].id # 0 ~> outgoing[h].id = 0
    /\ pending[h].id # 0 ~> pending[h].id = 0

=============================================================================
