---------------------------- MODULE ButtonRuntime ----------------------------
(***************************************************************************)
(* Press lifecycles: runtime/button.rs and runtime/button/worker.rs of     *)
(* openlogi-agent-core.                                                    *)
(*                                                                         *)
(* Capture threads (OS hook callbacks, HID++ sessions) and the agent's     *)
(* controlling thread put commands into a bounded queue without blocking;  *)
(* one worker owns the active presses and emits balanced events.  An input *)
(* carries the generation its producer read.  A full queue drops the       *)
(* command and invalidates every press instead: a new generation is        *)
(* published, then the worker is woken, in two steps.                      *)
(*                                                                         *)
(* Presses are numbered; `seen` records what the event handler was told of *)
(* each.  Action payloads, dispatch targets other than the pointer's       *)
(* window and the order of events of different presses are left out.       *)
(***************************************************************************)
EXTENDS Integers, Sequences, SequencesExt, FiniteSets

CONSTANTS
  Keys,         \* PressKey: the controls
  Sources,      \* ButtonSource
  SourceOf,     \* [Keys -> Sources]
  Hooks,        \* the sources that are OS hook threads
  GKeys,        \* the controls that are G-keys
  Controller,   \* the thread that cancels and invalidates
  Bindings,     \* the bindings in use
  Windows,      \* pointer targets
  NoWindow,     \* a dispatch target that is not the pointer's window
  Kinds,        \* the commands in use
  Capacity,     \* EVENT_QUEUE_CAPACITY
  Threshold,    \* LONG_PRESS_THRESHOLD, in ticks
  MaxCalls,     \* calls of producers (bound)
  MaxNow        \* clock (bound)

BindingKinds == {"gesture", "single", "longPress", "wheelHold"}
InputKinds   == {"down", "up", "pulse", "trigger", "wheel"}
CancelKinds  == {"stale", "source", "gkeys", "hooks", "pointer"}

ASSUME ButtonAssumption ==
  /\ SourceOf \in [Keys -> Sources]
  /\ Hooks \subseteq Sources /\ GKeys \subseteq Keys
  /\ Controller \notin Sources
  /\ Bindings \subseteq BindingKinds
  /\ NoWindow \notin Windows
  /\ Kinds \subseteq InputKinds \cup CancelKinds \cup {"invalidate"}
  /\ Capacity \in Nat \ {0} /\ Threshold \in Nat \ {0}
  /\ MaxCalls \in Nat /\ MaxNow \in Nat

Threads == Sources \cup {Controller}
Ids     == 1..MaxCalls

VARIABLES
  press,        \* the presses made so far, as their producer built them
  queue,        \* the commands in the channel
  generation,   \* the shared generation
  accepting,    \* whether inputs are taken
  call,         \* where each thread is in its call
  calls,        \* calls made
  state,        \* the worker's ButtonState, generation, due_presses and deferred events
  at,           \* where the worker is
  held,         \* the command it received last
  limit,        \* commands the settling loop may still read
  unread,       \* history: commands of the checkpoint's queue not read yet
  shutdown,     \* the owner's shutdown
  asked,        \* a ShutdownRequest waits
  now,
  seen          \* history: the events emitted for each press

producerVars == <<press, accepting, call, calls, shutdown>>
workerVars   == <<state, at, held, limit, unread, seen>>
vars == <<producerVars, workerVars, queue, generation, asked, now>>

NoCommand == [kind |-> "none"]
Idle      == [at |-> "idle", command |-> NoCommand]
NoEvents  == [i \in Ids |-> <<>>]

Init ==
  /\ press = <<>> /\ queue = <<>> /\ generation = 0 /\ accepting = TRUE
  /\ call = [t \in Threads |-> Idle] /\ calls = 0
  /\ state = [active |-> [k \in Keys |-> 0], behavior |-> [i \in Ids |-> "none"],
              window |-> [i \in Ids |-> NoWindow], generation |-> 0, due |-> {},
              first |-> NoEvents, rest |-> NoEvents]
  /\ at = "top" /\ held = NoCommand /\ limit = 0 /\ unread = 0
  /\ shutdown = "no" /\ asked = FALSE /\ now = 0
  /\ seen = NoEvents

-----------------------------------------------------------------------------
(* Producers: ButtonInputHandle.                                           *)

\* The first half of a call: the generation and `accepting` are read, and the
\* command is built.
Begin(t, command) ==
  /\ call[t].at = "idle" /\ calls < MaxCalls /\ command.kind \in Kinds
  /\ calls' = calls + 1
  /\ call' = IF command.kind \in InputKinds /\ ~accepting THEN call
             ELSE [call EXCEPT ![t] = [at |-> "sending", command |-> command]]
  /\ UNCHANGED <<workerVars, queue, generation, accepting, shutdown, asked, now>>

Input(kind, i, k) ==
  [kind |-> kind, generation |-> generation, id |-> i, key |-> k, time |-> now]

\* try_down and try_hidpp_pulse make the press first.
BeginPress(k, binding, window, kind) ==
  /\ Begin(SourceOf[k], Input(kind, Len(press) + 1, k))
  /\ press' = Append(press, [key |-> k, binding |-> binding, window |-> window,
                             generation |-> generation, deadline |-> now + Threshold])

BeginUp(k) == Begin(SourceOf[k], Input("up", 0, k)) /\ UNCHANGED press

\* A gesture or the wheel, for a press of the current generation.
BeginWhilePressed(i, kind) ==
  /\ press[i].generation = generation
  /\ press[i].binding = (IF kind = "trigger" THEN "gesture" ELSE "wheelHold")
  /\ Begin(SourceOf[press[i].key], Input(kind, i, press[i].key))
  /\ UNCHANGED press

BeginCancel(t, command) == Begin(t, command) /\ UNCHANGED press

\* invalidate_all goes straight to the new generation.
BeginInvalidate ==
  /\ call[Controller].at = "idle" /\ calls < MaxCalls /\ "invalidate" \in Kinds
  /\ calls' = calls + 1
  /\ call' = [call EXCEPT ![Controller] = [Idle EXCEPT !.at = "invalidating"]]
  /\ UNCHANGED <<press, workerVars, queue, generation, accepting, shutdown, asked, now>>

\* try_send: a full queue leads to invalidation, a worker that is gone to nothing.
TrySend(t) ==
  /\ call[t].at = "sending"
  /\ IF at # "exited" /\ Len(queue) < Capacity
     THEN queue' = Append(queue, call[t].command) ELSE UNCHANGED queue
  /\ call' = [call EXCEPT ![t] =
       IF at # "exited" /\ Len(queue) >= Capacity THEN [Idle EXCEPT !.at = "invalidating"]
       ELSE Idle]
  /\ UNCHANGED <<press, accepting, calls, shutdown, workerVars, generation, asked, now>>

Invalidate(t) ==
  /\ call[t].at = "invalidating"
  /\ generation' = generation + 1
  /\ call' = [call EXCEPT ![t].at = "waking"]
  /\ UNCHANGED <<press, accepting, calls, shutdown, workerVars, queue, asked, now>>

\* A full queue drops the wake.
PutWake ==
  queue' = IF at # "exited" /\ Len(queue) < Capacity
           THEN Append(queue, [kind |-> "wake"]) ELSE queue

\* Mutant: only invalidate_all wakes; a producer that found the queue full does
\* not.
NoWakeAfterFull(t) ==
  /\ call[t].at = "waking"
  /\ IF t = Controller THEN PutWake ELSE UNCHANGED queue
  /\ call' = [call EXCEPT ![t] = Idle]
  /\ UNCHANGED <<press, accepting, calls, shutdown, workerVars, generation, asked, now>>

Wake(t) ==
  /\ call[t].at = "waking"
  /\ PutWake
  /\ call' = [call EXCEPT ![t] = Idle]
  /\ UNCHANGED <<press, accepting, calls, shutdown, workerVars, generation, asked, now>>

-----------------------------------------------------------------------------
(* The owner's shutdown: stop accepting, request, wake; it waits a bounded *)
(* time for the worker afterwards.                                         *)

StopAccepting ==
  /\ shutdown = "no"
  /\ shutdown' = "stopped" /\ accepting' = FALSE
  /\ UNCHANGED <<press, call, calls, workerVars, queue, generation, asked, now>>

SendRequest ==
  /\ shutdown = "stopped"
  /\ shutdown' = "requested" /\ asked' = TRUE
  /\ UNCHANGED <<press, accepting, call, calls, workerVars, queue, generation, now>>

\* Mutant: an idle worker is not told of the request.
RequestWithoutWake ==
  /\ shutdown = "requested"
  /\ shutdown' = "waiting"
  /\ UNCHANGED <<press, accepting, call, calls, workerVars, queue, generation, asked, now>>

WakeForShutdown ==
  /\ shutdown = "requested"
  /\ shutdown' = "waiting"
  /\ PutWake
  /\ UNCHANGED <<press, accepting, call, calls, workerVars, generation, asked, now>>

-----------------------------------------------------------------------------
(* ButtonState and process_command, as functions of the worker's state s.  *)

\* PressBehavior::new.  "gesture" is a press that carries no binding, whose owner acts
\* on the lifecycle alone; a Binding::Gesture acts at once, like "single".
BehaviorOf == [gesture |-> "lifecycle", single |-> "immediate",
               longPress |-> "longPending", wheelHold |-> "wheelPending"]

Active(s) == {s.active[k] : k \in Keys} \ {0}

IsActive(s, i) == s.active[press[i].key] = i

\* emit_settled_events puts the events of the due presses that have fired first.
\* An event carries the press as it was when the event was made, and the due
\* presses are fixed before events are deferred, so the two parts are kept apart
\* from the beginning.
GoesFirst(s, i) == s.behavior[i] = "longFired" /\ i \in s.due

Told(s, ids, what) ==
  [s EXCEPT
    !.first = [i \in Ids |-> IF i \in ids /\ GoesFirst(s, i)
                            THEN Append(s.first[i], what) ELSE s.first[i]],
    !.rest  = [i \in Ids |-> IF i \in ids /\ ~GoesFirst(s, i)
                            THEN Append(s.rest[i], what) ELSE s.rest[i]]]

Removed(s, ids) ==
  [s EXCEPT !.active = [k \in Keys |-> IF s.active[k] \in ids THEN 0 ELSE s.active[k]]]

Canceled(s, ids) == Told(Removed(s, ids), ids, "canceled")

\* synchronize_generation
Synchronized(s) ==
  IF s.generation = generation THEN s
  ELSE [Canceled(s, Active(s)) EXCEPT !.generation = generation]

Entered(s, i) ==
  Told([s EXCEPT !.active[press[i].key] = i,
                 !.behavior[i] = BehaviorOf[press[i].binding],
                 !.window[i] = press[i].window], {i}, "started")

\* Mutant: a press is replaced without ending the one it replaces.
PressedOver(s, i) == Entered(s, i)

\* A second Down of a control proves that the first one's release was lost.
Pressed(s, i) == Entered(Canceled(s, {s.active[press[i].key]} \ {0}), i)

IsDue(s, i, time) == s.behavior[i] = "longPending" /\ press[i].deadline <= time

\* fire_long, for those of ids that are due
FiredLong(s, ids, time) ==
  LET late == {i \in ids : IsDue(s, i, time)}
  IN  Told([s EXCEPT !.behavior = [i \in Ids |-> IF i \in late THEN "longFired"
                                                  ELSE s.behavior[i]]], late, "long")

\* Mutant: the short action fires on every release.
EmitReleasedAlways(s, i) ==
  Told(Told(Removed(s, {i}), {i}, "short"), {i}, "released")

\* emit_released
EmitReleased(s, i) ==
  LET gone == Removed(s, {i})
  IN  Told(IF s.behavior[i] \in {"longPending", "wheelPending"}
           THEN Told(gone, {i}, "short") ELSE gone, {i}, "released")

Released(s, k, time) ==
  IF s.active[k] = 0 THEN s
  ELSE EmitReleased(FiredLong(s, {s.active[k]}, time), s.active[k])

\* Mutant: a gesture hold ends with its window, too.
PointerMovedAll(s, window) ==
  Canceled(s, {i \in Active(s) : s.window[i] \notin {NoWindow, window}})

\* A gesture hold follows the pointer; other presses of the old window end.
PointerMoved(s, window) ==
  LET follows(i) == i \in Active(s) /\ s.behavior[i] = "lifecycle" /\ s.window[i] # NoWindow
      moved == [s EXCEPT !.window = [i \in Ids |-> IF follows(i) THEN window ELSE s.window[i]]]
  IN  Canceled(moved, {i \in Active(s) : moved.window[i] \notin {NoWindow, window}})

Processed(s, c) ==
  CASE c.kind \in InputKinds /\ c.generation # s.generation -> s
    [] c.kind = "wake" -> s
    [] c.kind = "stale"   -> IF IsActive(s, c.id) THEN Canceled(s, {c.id}) ELSE s
    [] c.kind = "source"  -> Canceled(s, {i \in Active(s) : SourceOf[press[i].key] = c.source})
    [] c.kind = "gkeys"   -> Canceled(s, {i \in Active(s) : /\ SourceOf[press[i].key] = c.source
                                                            /\ press[i].key \in GKeys})
    [] c.kind = "hooks"   -> Canceled(s, {i \in Active(s) : SourceOf[press[i].key] \in Hooks})
    [] c.kind = "pointer" -> PointerMoved(s, c.window)
    [] OTHER ->
       CASE c.kind = "down"    -> Pressed(s, c.id)
         [] c.kind = "up"      -> Released(s, c.key, c.time)
         [] c.kind = "pulse"   -> EmitReleased(Pressed(s, c.id), c.id)
         [] c.kind = "trigger" -> IF IsActive(s, c.id) THEN Told(s, {c.id}, "gesture") ELSE s
         [] c.kind = "wheel"   -> IF IsActive(s, c.id) /\ s.behavior[c.id] = "wheelPending"
                                  THEN [s EXCEPT !.behavior[c.id] = "wheelScrolled"] ELSE s

DuePresses(s) == {i \in Active(s) : IsDue(s, i, now)}

FiredDue(s) == FiredLong(s, s.due \cap Active(s), now)

-----------------------------------------------------------------------------
(* The worker: run_worker and settle_due_long_presses.                     *)

\* Mutant: only the events that go first are emitted after settling.
SettledFirst(s, i) == IF s.due = {} THEN s.rest[i] ELSE s.first[i]

\* emit_settled_events; nothing is due outside settling.
Settled(s, i) == s.first[i] \o s.rest[i]

\* The handler is told of the events; the state keeps none.
Emitted(s) == [i \in Ids |-> seen[i] \o Settled(s, i)]
Quiet(s)   == [s EXCEPT !.due = {}, !.first = NoEvents, !.rest = NoEvents]

Emit(s) == seen' = Emitted(s) /\ state' = Quiet(s)

Goto(where, command) == at' = where /\ held' = command

ExitForShutdown ==
  /\ Emit(Canceled(state, Active(state)))
  /\ asked' = FALSE
  /\ queue' = <<>>
  /\ Goto("exited", NoCommand)
  /\ UNCHANGED <<limit, unread>>

Top ==
  /\ at = "top"
  /\ IF asked THEN ExitForShutdown
     ELSE Goto("receive", NoCommand) /\ UNCHANGED <<state, seen, asked, queue, limit, unread>>
  /\ UNCHANGED <<producerVars, generation, now>>

Receive ==
  /\ at = "receive" /\ queue # <<>>
  /\ queue' = Tail(queue)
  /\ Goto("received", Head(queue))
  /\ UNCHANGED <<producerVars, state, seen, limit, unread, generation, asked, now>>

\* Mutant: the worker waits without a deadline.
NeverTimesOut == FALSE /\ UNCHANGED vars

\* The earliest threshold is over and no command came.
ReceiveTimesOut ==
  /\ at = "receive" /\ queue = <<>> /\ DuePresses(state) # {}
  /\ Goto("settle", NoCommand)
  /\ UNCHANGED <<producerVars, state, seen, limit, unread, queue, generation, asked, now>>

Received ==
  LET s == Synchronized(state)
  IN  /\ at = "received"
      /\ Emit(s)
      /\ Goto(IF DuePresses(s) # {} THEN "settle" ELSE "process", held)
      /\ UNCHANGED <<producerVars, limit, unread, queue, generation, asked, now>>

Process ==
  LET s == Processed(state, held)
  IN  /\ at = "process"
      /\ Emit(s)
      /\ Goto("settle", NoCommand)
      /\ UNCHANGED <<producerVars, limit, unread, queue, generation, asked, now>>

\* The command that was received, if any, is processed first; its events wait
\* with the others if a threshold is over.
ProcessHeld(s) == IF held = NoCommand THEN s ELSE Processed(s, held)

Settle ==
  LET s == Synchronized(state)
  IN  /\ at = "settle"
      /\ UNCHANGED <<producerVars, generation, now>>
      /\ \/ asked /\ ExitForShutdown
         \/ /\ ~asked /\ DuePresses(s) = {}
            /\ Emit(ProcessHeld(s))
            /\ Goto("top", NoCommand)
            /\ UNCHANGED <<limit, unread, queue, asked>>
         \/ /\ ~asked /\ DuePresses(s) # {}
            /\ seen' = Emitted(s)
            /\ state' = ProcessHeld([Quiet(s) EXCEPT !.due = DuePresses(s)])
            /\ limit' = IF held = NoCommand THEN Capacity ELSE Capacity - 1
            /\ unread' = Len(queue)
            /\ Goto("drain", NoCommand)
            /\ UNCHANGED <<queue, asked>>

Drain ==
  /\ at = "drain"
  /\ IF asked THEN ExitForShutdown
     ELSE /\ state' = Synchronized(state)
          /\ Goto("drainNext", NoCommand)
          /\ UNCHANGED <<seen, asked, queue, limit, unread>>
  /\ UNCHANGED <<producerVars, generation, now>>

DrainOne ==
  /\ at = "drainNext" /\ limit > 0 /\ queue # <<>>
  /\ state' = Processed(state, Head(queue))
  /\ queue' = Tail(queue)
  /\ limit' = limit - 1
  /\ unread' = IF unread = 0 THEN 0 ELSE unread - 1
  /\ Goto("drain", NoCommand)
  /\ UNCHANGED <<producerVars, seen, generation, asked, now>>

FireDue ==
  /\ at = "drainNext" /\ (limit = 0 \/ queue = <<>>)
  /\ Emit(FiredDue(state))
  /\ limit' = 0 /\ unread' = 0
  /\ Goto("top", NoCommand)
  /\ UNCHANGED <<producerVars, queue, generation, asked, now>>

-----------------------------------------------------------------------------
Tick ==
  /\ now < MaxNow
  /\ now' = now + 1
  /\ UNCHANGED <<producerVars, workerVars, queue, generation, asked>>

\* The owner has waited long enough; the process ends.
Rest ==
  /\ shutdown = "waiting" /\ \A t \in Threads : call[t] = Idle
  /\ UNCHANGED vars

SourceStep ==
  \/ \E k \in Keys, b \in Bindings, w \in Windows \cup {NoWindow} :
       \/ BeginPress(k, b, w, "down")
       \/ SourceOf[k] \notin Hooks /\ BeginPress(k, b, w, "pulse")
  \/ \E k \in Keys : BeginUp(k)
  \/ \E i \in DOMAIN press, kind \in {"trigger", "wheel"} : BeginWhilePressed(i, kind)
  \/ \E i \in DOMAIN press :
       /\ press[i].binding = "gesture"
       /\ BeginCancel(SourceOf[press[i].key], [kind |-> "stale", id |-> i])
  \/ \E s \in Sources : BeginCancel(s, [kind |-> "source", source |-> s])

ControllerStep ==
  \/ \E s \in Sources \ Hooks : BeginCancel(Controller, [kind |-> "gkeys", source |-> s])
  \/ BeginCancel(Controller, [kind |-> "hooks"])
  \/ \E w \in Windows : BeginCancel(Controller, [kind |-> "pointer", window |-> w])
  \/ BeginInvalidate

CallStep(t) == TrySend(t) \/ Invalidate(t) \/ Wake(t)

ShutdownStep == StopAccepting \/ SendRequest \/ WakeForShutdown

WorkerStep ==
  \/ Top \/ Receive \/ ReceiveTimesOut \/ Received \/ Process
  \/ Settle \/ Drain \/ DrainOne \/ FireDue

Next ==
  \/ SourceStep \/ ControllerStep
  \/ \E t \in Threads : CallStep(t)
  \/ ShutdownStep \/ WorkerStep \/ Tick \/ Rest

Spec == Init /\ [][Next]_vars

(* Threads run.  Nobody has to call, the clock need not reach a threshold. *)
Fairness ==
  /\ WF_vars(WorkerStep)
  /\ \A t \in Threads : WF_vars(CallStep(t))
  /\ WF_vars(SendRequest \/ WakeForShutdown)

FairSpec == Spec /\ Fairness

-----------------------------------------------------------------------------
(* Properties.                                                             *)

Ends    == {"released", "canceled"}
Started(i) == seen[i] # <<>>
Ended(i)   == seen[i] # <<>> /\ Last(seen[i]) \in Ends

Presses ==
  [key : Keys, binding : Bindings, window : Windows \cup {NoWindow},
   generation : Nat, deadline : Nat]

Commands ==
  [kind : InputKinds, generation : Nat, id : 0..MaxCalls, key : Keys, time : Nat]
    \cup [kind : {"stale"}, id : Ids] \cup [kind : {"source", "gkeys"}, source : Sources]
    \cup [kind : {"hooks", "wake"}] \cup [kind : {"pointer"}, window : Windows]

Calls ==
  [at : {"idle", "invalidating", "waking"}, command : {NoCommand}]
    \cup [at : {"sending"}, command : Commands]

Behaviors == {"none", "lifecycle", "immediate", "longPending", "longFired",
              "wheelPending", "wheelScrolled"}
Tellings  == {"started", "gesture", "short", "long", "released", "canceled"}
Tales     == [Ids -> Seq(Tellings)]

WorkerStates ==
  [active : [Keys -> 0..MaxCalls], behavior : [Ids -> Behaviors],
   window : [Ids -> Windows \cup {NoWindow}], generation : Nat, due : SUBSET Ids,
   first : Tales, rest : Tales]

\* Every variable has its type, and the queue its capacity.
TypeOK ==
  /\ press \in Seq(Presses) /\ Len(press) <= calls /\ calls \in 0..MaxCalls
  /\ queue \in Seq(Commands) /\ Len(queue) <= Capacity
  /\ generation \in Nat /\ now \in 0..MaxNow
  /\ accepting \in BOOLEAN /\ asked \in BOOLEAN
  /\ shutdown \in {"no", "stopped", "requested", "waiting"}
  /\ call \in [Threads -> Calls]
  /\ state \in WorkerStates /\ state.generation <= generation
  /\ at \in {"top", "receive", "received", "process", "settle", "drain", "drainNext", "exited"}
  /\ held \in Commands \cup {NoCommand}
  /\ limit \in 0..Capacity /\ unread \in 0..Capacity
  /\ seen \in Tales

\* One start, at most one of the short and the long action, one end, and
\* nothing after the end.
BalancedLifecycle(h) ==
  /\ h # <<>> => h[1] = "started"
  /\ \A n \in 2..Len(h) : h[n] # "started" /\ h[n - 1] \notin Ends
  /\ Cardinality({n \in DOMAIN h : h[n] \in {"short", "long"}}) <= 1

\* The handler sees a balanced lifecycle of every press, even with events held
\* back and reordered around a threshold, and a control is held by one press at a
\* time, even when a release was lost and the control is pressed again.
Balanced ==
  /\ \A i \in Ids : BalancedLifecycle(seen[i])
  /\ \A i, j \in DOMAIN press :
       i # j /\ Started(i) /\ ~Ended(i) /\ Started(j) /\ ~Ended(j)
         => press[i].key # press[j].key

\* The command the worker processes in this step, if any.
Current == IF at = "drainNext" THEN Head(queue) ELSE held

\* A gesture hold is not ended by the pointer entering another window, so that one
\* hold can chain swipes: only its release, a press of its control after a lost
\* release, an invalidation, the shutdown or another cancellation than the
\* pointer's end it (cancel_pointer_except).
HoldFollowsPointer ==
  [][\A i \in Active(state) \ Active(state') :
       press[i].binding = "gesture" =>
         \/ asked
         \/ state.generation # generation
         \/ Current.kind \in CancelKinds \ {"pointer"}
         \/ Current.kind \in {"up", "down", "pulse"} /\ Current.key = press[i].key]_vars

\* The worker leaves no press behind.
ExitEndsAll == at = "exited" => \A i \in Ids : Started(i) => Ended(i)

\* A release that was reported ends its press, whether the report was queued,
\* dropped at a full queue or overtaken by an invalidation.
ReleaseEnds ==
  \A i \in Ids, t \in Sources :
    (/\ Started(i) /\ call[t].at = "sending" /\ call[t].command.kind = "up"
     /\ call[t].command.key = press[i].key)
      ~> Ended(i)

\* A long press past its threshold is decided without further input.
ThresholdSettles ==
  \A i \in Ids : (i \in DuePresses(state)) ~> (i \notin DuePresses(state))

\* A shutdown request is served, however idle or busy the worker is.
ShutdownServed == asked ~> at = "exited"

\* The long action is not fired over a release that happened before the
\* threshold and was queued when the due presses were determined
\* (a_release_observed_before_the_threshold_wins_despite_worker_backlog).
EarlyReleaseWins ==
  [][FireDue => \A n \in 1..unread : \A i \in state.due :
       ~(/\ queue[n].kind = "up" /\ queue[n].key = press[i].key
         /\ queue[n].generation = state.generation
         /\ state.behavior[i] = "longPending" /\ IsActive(state, i)
         /\ queue[n].time < press[i].deadline)]_vars
=============================================================================
