--------------------------- MODULE CaptureManager ---------------------------
(***************************************************************************)
(* The gesture capture manager and the receiver it shares: watchers/       *)
(* capture_manager.rs, capture_session.rs, gesture.rs and                  *)
(* receiver_access.rs of openlogi-agent-core.                              *)
(*                                                                         *)
(* The manager keeps one capture session per device of the published       *)
(* plans.  A session diverts controls in the device's firmware and gives   *)
(* them back when it is stopped; if it cannot, it hands over a token for   *)
(* the restore it owes.  Sessions share a read lease of the receiver;      *)
(* pairing and host transitions announce themselves and wait for the write *)
(* lease.  The host may pause device I/O.                                  *)
(*                                                                         *)
(* Retry instants are `waiting` until they are `due`.  The route a restore *)
(* is retried on and the inputs' translation are left out, and so is the   *)
(* closing of a control-plane source, which ends the process.  `changes`   *)
(* bounds what the outside does to the manager, failures included.         *)
(***************************************************************************)
EXTENDS Integers, Sequences, FiniteSets

CONSTANTS
  Devices,     \* physical devices
  Targets,     \* CaptureTarget: what re-arming depends on
  Dispatches,  \* DispatchPlan: what inputs are dispatched against
  NoPlan,      \* the device is not to be captured
  Exclusives,  \* operations that may ask for exclusive access
  MaxChanges,  \* changes from outside (bound)
  MaxInputs    \* inputs captured (bound)

ASSUME CaptureAssumption ==
  IsFiniteSet(Devices) /\ MaxChanges \in Nat /\ MaxInputs \in Nat

Plans  == [target : Targets, dispatch : Dispatches]
Delays == {"none", "waiting", "due"}

VARIABLES
  plan,       \* the published plan of each device
  planNews,   \* published.changed()
  access,     \* where each exclusive operation is
  accessNews, \* receiver_requests.changed()
  io,         \* device_io.allows_io()
  ioNews,     \* device_io.changed()
  regNews,    \* registry_changes.changed()
  slot,       \* GestureManagerState::slots
  epoch,      \* NEXT_SESSION_EPOCH
  at,         \* where the manager is
  again,      \* `reconcile` of the loop
  view,       \* the plans wanted by the reconcile under way
  todo,       \* restores it still has to retry
  tasks,      \* live session tasks; each shares the receiver lease
  diverted,   \* devices whose firmware diverts controls
  lost,       \* devices whose session died with its restore token
  events,     \* reports of the sessions, in order
  stop,       \* the lifecycle's stop request was sent
  changes, inputs

outside  == <<plan, planNews, access, accessNews, io, ioNews, regNews, stop>>
manager  == <<slot, epoch, at, again, view, todo>>
sessions == <<tasks, diverted, lost, events, inputs>>
vars     == <<outside, manager, sessions, changes>>

EmptySlot == [at |-> "empty", epoch |-> 0, plan |-> NoPlan, restore |-> "none", restart |-> "none"]
NoView    == [d \in Devices |-> NoPlan]

Init ==
  /\ plan \in [Devices -> Plans \cup {NoPlan}]
  /\ planNews = FALSE
  /\ access = [x \in Exclusives |-> "idle"] /\ accessNews = FALSE
  /\ io = TRUE /\ ioNews = FALSE /\ regNews = FALSE
  /\ slot = [d \in Devices |-> EmptySlot] /\ epoch = 0
  /\ at = "loop" /\ again = TRUE /\ view = NoView /\ todo = {}
  /\ tasks = {} /\ diverted = {} /\ lost = {} /\ events = <<>>
  /\ stop = FALSE
  /\ changes = 0 /\ inputs = 0

Running(s) == s.at \in {"active", "draining"}
Requested  == \E x \in Exclusives : access[x] # "idle"

-----------------------------------------------------------------------------
(* What happens outside the manager: ReceiverAccess, publications, host.   *)

\* A session lease is alive: in a task, or in the reconcile or drain that
\* retries restores, through the spawning after them.
Leased == tasks # {} \/ at \in {"restoring", "rearming", "drainRestoring"}

\* acquire_session_lease: share the lease that is alive, or take a fresh one
\* unless an exclusive operation is announced.
LeaseAvailable == Leased \/ ~Requested

Change == changes < MaxChanges /\ changes' = changes + 1

Announce(x) ==
  /\ access[x] = "idle" /\ Change
  /\ access' = [access EXCEPT ![x] = "waiting"] /\ accessNews' = TRUE
  /\ UNCHANGED <<plan, planNews, io, ioNews, regNews, stop, manager, sessions>>

\* The write lease: nobody shares the receiver and nobody else owns it.
Grant(x) ==
  /\ access[x] = "waiting" /\ ~Leased /\ \A y \in Exclusives : access[y] # "holding"
  /\ access' = [access EXCEPT ![x] = "holding"]
  /\ UNCHANGED <<plan, planNews, accessNews, io, ioNews, regNews, stop, manager, sessions,
                 changes>>

\* The operation ends, or its wait is cancelled; the request is withdrawn.
Withdraw(x, from) ==
  /\ access[x] = from
  /\ access' = [access EXCEPT ![x] = "idle"] /\ accessNews' = TRUE
  /\ UNCHANGED <<plan, planNews, io, ioNews, regNews, stop, manager, sessions, changes>>

Publish(d, p) ==
  /\ p # plan[d] /\ Change
  /\ plan' = [plan EXCEPT ![d] = p] /\ planNews' = TRUE
  /\ UNCHANGED <<access, accessNews, io, ioNews, regNews, stop, manager, sessions>>

PauseIo ==
  /\ io /\ Change
  /\ io' = FALSE /\ ioNews' = TRUE
  /\ UNCHANGED <<plan, planNews, access, accessNews, regNews, stop, manager, sessions>>

ResumeIo ==
  /\ ~io
  /\ io' = TRUE /\ ioNews' = TRUE
  /\ UNCHANGED <<plan, planNews, access, accessNews, regNews, stop, manager, sessions, changes>>

ReplaceChannels ==
  /\ ~regNews /\ Change
  /\ regNews' = TRUE
  /\ UNCHANGED <<plan, planNews, access, accessNews, io, ioNews, stop, manager, sessions>>

RequestStop ==
  /\ ~stop
  /\ stop' = TRUE
  /\ UNCHANGED <<plan, planNews, access, accessNews, io, ioNews, regNews, manager, sessions,
                 changes>>

-----------------------------------------------------------------------------
(* The session tasks: spawn_session, complete_session, settle_capture_task *)
(* and what run_capture does to the firmware.                              *)

Done(t, owes) == [kind |-> "done", device |-> t.device, epoch |-> t.epoch, owes |-> owes]

\* Arming diverts the controls; it is refused while the host pauses device I/O.
Arm(t) ==
  /\ t \in tasks /\ ~t.armed /\ io
  /\ tasks' = (tasks \ {t}) \cup {[t EXCEPT !.armed = TRUE]}
  /\ diverted' = diverted \cup {t.device} /\ lost' = lost \ {t.device}
  /\ UNCHANGED <<outside, manager, events, inputs, changes>>

ArmFails(t) ==
  /\ t \in tasks /\ ~t.armed
  /\ IF io THEN Change ELSE UNCHANGED changes
  /\ tasks' = tasks \ {t}
  /\ events' = Append(events, Done(t, FALSE))
  /\ UNCHANGED <<outside, manager, diverted, lost, inputs>>

\* The listener accepts inputs until the task ends.
Capture(t) ==
  /\ t \in tasks /\ t.armed /\ inputs < MaxInputs
  /\ inputs' = inputs + 1
  /\ events' = Append(events, [kind |-> "input", device |-> t.device, epoch |-> t.epoch])
  /\ UNCHANGED <<outside, manager, tasks, diverted, lost, changes>>

\* The monitor stops because it was told to, or by itself, and gives the
\* controls back before the completion is reported.
EndRestored(t) ==
  /\ t \in tasks /\ t.armed /\ io
  /\ IF t.told THEN UNCHANGED changes ELSE Change
  /\ tasks' = tasks \ {t}
  /\ diverted' = diverted \ {t.device}
  /\ events' = Append(events, Done(t, FALSE))
  /\ UNCHANGED <<outside, manager, lost, inputs>>

\* It stops with the restore owed, or it dies and its token dies with it.
EndDiverted(t, owes) ==
  /\ t \in tasks /\ t.armed /\ io /\ Change
  /\ tasks' = tasks \ {t}
  /\ lost' = IF owes THEN lost ELSE lost \cup {t.device}
  /\ events' = Append(events, Done(t, owes))
  /\ UNCHANGED <<outside, manager, diverted, inputs>>

-----------------------------------------------------------------------------
(* Slots: CaptureSession::reconcile_with, CaptureSlot::complete,           *)
(* CaptureRecovery.                                                        *)

\* Mutant: a retired session is forgotten before it has reported.
ReconciledForgetting(s, wanted) ==
  CASE s.at # "active" -> s
    [] s.at = "active" /\ wanted # NoPlan /\ s.plan.target = wanted.target ->
         [s EXCEPT !.plan = wanted]
    [] OTHER -> EmptySlot

\* A dispatch change is adopted in place; anything else retires the session,
\* whose dispatch plan is frozen from then on.
Reconciled(s, wanted) ==
  CASE s.at # "active" -> s
    [] s.at = "active" /\ wanted # NoPlan /\ s.plan.target = wanted.target ->
         [s EXCEPT !.plan = wanted]
    [] OTHER -> [s EXCEPT !.at = "draining"]

Recovering(restore, restart) ==
  IF restore = "none" /\ restart = "none" THEN EmptySlot
  ELSE [EmptySlot EXCEPT !.at = "recovering", !.restore = restore, !.restart = restart]

\* Mutant: a retiring session does not block its successor.
BlocksRestartWhileActive(s) == s.at = "active" \/ s.restore # "none" \/ s.restart = "waiting"

BlocksRestart(s) == Running(s) \/ s.restore # "none" \/ s.restart = "waiting"

DueRestores(slots) == {d \in Devices : slots[d].restore = "due"}

\* Mutant: only restores have deadlines.
DeadlineOfRestores ==
  /\ ~Requested /\ io
  /\ DueRestores(slot) # {}

\* next_deadline: a restart waits for the restore.
DeadlineOver ==
  /\ ~Requested /\ io
  /\ \E d \in Devices :
       slot[d].restore = "due" \/ (slot[d].restore = "none" /\ slot[d].restart = "due")

Pending == {d \in Devices : slot[d].restore # "none"}

\* expedite_pending_restores
Expedited == [d \in Devices |->
  [slot[d] EXCEPT !.restore = IF @ = "none" THEN "none" ELSE "due"]]

\* The stop command of every session that a step retires is sent in that step.
TellRetired(slots) ==
  tasks' = {[t EXCEPT !.told = t.told \/ (slots[t.device].epoch = t.epoch
                                          /\ slots[t.device].at = "draining")] : t \in tasks}

\* Mutant: an exclusive request does not suspend capture.
WantedRegardless(d) == plan[d]

\* The plan the current publication and requests want for d.
Wanted(d) == IF Requested THEN NoPlan ELSE plan[d]

-----------------------------------------------------------------------------
(* The loop of capture_manager::run.                                       *)

Goto(where, more) == at' = where /\ again' = more

\* reconcile, up to the restores: read the publications, retire sessions, drop
\* finished recoveries and the pacing of withdrawn plans.
Reconcile ==
  LET retired == [d \in Devices |-> Reconciled(slot[d], Wanted(d))]
      slots   == [d \in Devices |->
                    IF slot[d].at = "recovering"
                    THEN Recovering(slot[d].restore, IF plan[d] = NoPlan THEN "none"
                                                     ELSE slot[d].restart)
                    ELSE retired[d]]
      due     == IF LeaseAvailable THEN DueRestores(slots) ELSE {}
  IN  /\ at = "loop" /\ again
      /\ IF io
         THEN /\ planNews' = FALSE /\ accessNews' = FALSE
              /\ view' = [d \in Devices |-> Wanted(d)]
              /\ slot' = slots
              /\ TellRetired(slots)
              /\ todo' = due
              /\ Goto(IF due = {} THEN "spawning" ELSE "restoring", FALSE)
         ELSE /\ Goto("loop", FALSE)
              /\ UNCHANGED <<planNews, accessNews, view, slot, tasks, todo>>
      /\ UNCHANGED <<plan, access, io, ioNews, regNews, stop, epoch, diverted, lost, events,
                     inputs, changes>>

\* Mutant: the token of a failed retry is dropped.
RetriedOnce(d, ok) ==
  /\ IF ok THEN UNCHANGED changes ELSE Change
  /\ slot' = [slot EXCEPT ![d] = Recovering("none", @.restart)]
  /\ diverted' = IF ok THEN diverted \ {d} ELSE diverted
  /\ todo' = todo \ {d}

\* retry_pending_restores for one device.
Retried(d, ok) ==
  /\ IF ok THEN UNCHANGED changes ELSE Change
  /\ slot' = [slot EXCEPT ![d] = Recovering(IF ok THEN "none" ELSE "waiting", @.restart)]
  /\ diverted' = IF ok THEN diverted \ {d} ELSE diverted
  /\ todo' = todo \ {d}

\* The retries of a reconcile are awaited: everything else runs in between.
RetryRestore(d, ok) ==
  /\ at = "restoring" /\ d \in todo
  /\ Retried(d, ok)
  /\ Goto(IF todo' = {} THEN "rearming" ELSE "restoring", FALSE)
  /\ UNCHANGED <<outside, epoch, view, tasks, lost, events, inputs>>

\* The rest of reconcile: sessions for the wanted plans without one.
SpawnSessions ==
  LET ready == {d \in Devices : view[d] # NoPlan /\ ~BlocksRestart(slot[d])}
      rank  == CHOOSE f \in [ready -> 1..Cardinality(ready)] :
                 \A d, e \in ready : f[d] = f[e] => d = e
  IN  /\ at \in {"spawning", "rearming"}
      /\ IF LeaseAvailable
         THEN /\ slot' = [d \in Devices |->
                   IF d \in ready
                   THEN [EmptySlot EXCEPT !.at = "active", !.epoch = epoch + rank[d],
                                          !.plan = view[d]]
                   ELSE slot[d]]
              /\ tasks' = tasks \cup {[device |-> d, epoch |-> epoch + rank[d],
                                       armed |-> FALSE, told |-> FALSE] : d \in ready}
              /\ epoch' = epoch + Cardinality(ready)
         ELSE /\ slot' = [d \in Devices |->
                   IF d \in ready THEN Recovering("none", "waiting") ELSE slot[d]]
              /\ UNCHANGED <<tasks, epoch>>
      /\ view' = NoView
      /\ Goto("loop", FALSE)
      /\ UNCHANGED <<outside, todo, diverted, lost, events, inputs, changes>>

\* The check of the deadline before the select.
CheckDeadline ==
  /\ at = "loop" /\ ~again
  /\ IF DeadlineOver THEN Goto("loop", TRUE) ELSE Goto("select", FALSE)
  /\ UNCHANGED <<outside, slot, epoch, view, todo, sessions, changes>>

\* Mutant: an input is dispatched as the manager last reconciled.
HandledAsIs(e) ==
  LET s       == slot[e.device]
      settled == Recovering(IF e.owes THEN "waiting" ELSE "none",
                            IF s.at = "active" /\ io THEN "waiting" ELSE "none")
  IN  /\ slot' = [slot EXCEPT ![e.device] =
           IF e.kind = "done" /\ Running(s) /\ s.epoch = e.epoch THEN settled ELSE s]
      /\ UNCHANGED tasks

\* handle_session_event.  An input first reconciles its session against the
\* latest publication; the input of a session that is not tracked is ignored.
Handled(e) ==
  LET s         == slot[e.device]
      refreshed == IF io /\ Running(s) THEN Reconciled(s, Wanted(e.device)) ELSE s
      settled   == IF Running(s) /\ s.epoch = e.epoch
                   THEN Recovering(IF e.owes THEN "waiting" ELSE "none",
                                   IF s.at = "active" /\ io THEN "waiting" ELSE "none")
                   ELSE s
      slots     == [slot EXCEPT ![e.device] = IF e.kind = "input" THEN refreshed ELSE settled]
  IN  slot' = slots /\ TellRetired(slots)

CallsForReconcile(e) ==
  e.kind = "done" /\ Running(slot[e.device]) /\ slot[e.device].epoch = e.epoch

TakeEvent(from) ==
  /\ at = from /\ events # <<>>
  /\ Handled(Head(events))
  /\ events' = Tail(events)
  /\ UNCHANGED <<outside, epoch, view, todo, diverted, lost, inputs, changes>>

HandleEvent ==
  /\ ~stop /\ TakeEvent("select")
  /\ Goto("loop", CallsForReconcile(Head(events)))

\* The other arms of the biased select: publications, requests, the I/O gate,
\* the registry while a restore is owed, the deadline.
Arms == <<planNews, accessNews, ioNews, regNews /\ Pending # {}, DeadlineOver>>

ReadyArm(i) ==
  /\ at = "select" /\ ~stop /\ events = <<>>
  /\ Arms[i] /\ \A j \in 1..(i - 1) : ~Arms[j]

SelectNews(i) ==
  /\ ReadyArm(i)
  /\ planNews'   = (planNews /\ i # 1)
  /\ accessNews' = (accessNews /\ i # 2)
  /\ ioNews'     = (ioNews /\ i # 3)
  /\ regNews'    = (regNews /\ i # 4)
  /\ slot' = IF i = 4 /\ io THEN Expedited ELSE slot
  /\ Goto("loop", IF i \in {3, 4} THEN io ELSE TRUE)
  /\ UNCHANGED <<plan, access, io, stop, epoch, view, todo, sessions, changes>>

\* A retry instant is reached; nobody looks at it inside a reconcile, which
\* compares with the instant it started at.
Elapse(d, which) ==
  /\ at \in {"loop", "select"} /\ slot[d][which] = "waiting"
  /\ slot' = [slot EXCEPT ![d][which] = "due"]
  /\ UNCHANGED <<outside, epoch, at, again, view, todo, sessions, changes>>

-----------------------------------------------------------------------------
(* drain_for_shutdown.                                                     *)

StartDrain ==
  LET slots == [d \in Devices |-> Reconciled(slot[d], NoPlan)]
  IN  /\ at = "select" /\ stop
      /\ slot' = slots
      /\ TellRetired(slots)
      /\ Goto("drain", FALSE)
      /\ UNCHANGED <<outside, epoch, view, todo, diverted, lost, events, inputs, changes>>

AnyRunning == \E d \in Devices : Running(slot[d])

DrainEvent ==
  /\ AnyRunning /\ TakeEvent("drain")
  /\ UNCHANGED <<at, again>>

\* Mutant: the drain ends with the last session.
DrainedAtOnce ==
  /\ at = "drain" /\ ~AnyRunning
  /\ slot' = Expedited
  /\ Goto("done", FALSE)
  /\ UNCHANGED <<outside, epoch, view, todo, sessions, changes>>

\* Every session has reported: expedite the owed restores and retry them,
\* under a lease, with device I/O allowed, until none is left.
Drained ==
  /\ at = "drain" /\ ~AnyRunning
  /\ slot' = Expedited
  /\ Goto(IF Pending = {} THEN "done" ELSE "drainRetry", FALSE)
  /\ UNCHANGED <<outside, epoch, view, todo, sessions, changes>>

\* Mutant: a restore that failed is not expedited again.
DrainRetryDue ==
  /\ at = "drainRetry" /\ io /\ LeaseAvailable /\ DueRestores(slot) # {}
  /\ todo' = DueRestores(slot)
  /\ Goto("drainRestoring", FALSE)
  /\ UNCHANGED <<outside, slot, epoch, view, sessions, changes>>

DrainRetry ==
  /\ at = "drainRetry" /\ io /\ LeaseAvailable
  /\ todo' = Pending
  /\ Goto("drainRestoring", FALSE)
  /\ UNCHANGED <<outside, slot, epoch, view, sessions, changes>>

\* A pass that leaves restores owed sleeps and expedites them again.
DrainRestore(d, ok) ==
  /\ at = "drainRestoring" /\ d \in todo
  /\ Retried(d, ok)
  /\ Goto(CASE todo' # {} -> "drainRestoring"
            [] todo' = {} /\ \E e \in Devices : slot'[e].restore # "none" -> "drainRetry"
            [] OTHER -> "done",
          FALSE)
  /\ UNCHANGED <<outside, epoch, view, tasks, lost, events, inputs>>

-----------------------------------------------------------------------------
Manager ==
  \/ Reconcile \/ SpawnSessions \/ CheckDeadline \/ HandleEvent
  \/ \E i \in 1..5 : SelectNews(i)
  \/ \E d \in Devices, ok \in BOOLEAN : RetryRestore(d, ok) \/ DrainRestore(d, ok)
  \/ StartDrain \/ DrainEvent \/ Drained \/ DrainRetry

Session(t) ==
  \/ Arm(t) \/ ArmFails(t) \/ Capture(t) \/ EndRestored(t)
  \/ \E owes \in BOOLEAN : EndDiverted(t, owes)

Outside ==
  \/ \E x \in Exclusives : Announce(x) \/ Grant(x) \/ Withdraw(x, "waiting") \/ Withdraw(x, "holding")
  \/ \E d \in Devices, p \in Plans \cup {NoPlan} : Publish(d, p)
  \/ PauseIo \/ ResumeIo \/ ReplaceChannels \/ RequestStop
  \/ \E d \in Devices, which \in {"restore", "restart"} : Elapse(d, which)

Next == Manager \/ Outside \/ \E t \in tasks : Session(t)

Spec == Init /\ [][Next]_vars

\* The manager and its tasks are polled while they can move, told tasks end,
\* clocks run, the receiver's lock is fair, operations end and hosts wake up.
Fairness ==
  /\ WF_vars(Manager) /\ WF_vars(ResumeIo)
  /\ \A d \in Devices :
       /\ WF_vars(\E t \in tasks : t.device = d /\ Arm(t))
       /\ SF_vars(\E t \in tasks : t.device = d /\ t.told /\ EndRestored(t))
       /\ WF_vars(Elapse(d, "restore")) /\ WF_vars(Elapse(d, "restart"))
  /\ \A x \in Exclusives : SF_vars(Grant(x)) /\ WF_vars(Withdraw(x, "holding"))

FairSpec == Spec /\ Fairness

-----------------------------------------------------------------------------
(* Properties.                                                             *)

\* A slot is kept only while it has a session or something to recover
\* (CaptureSlot, CaptureRecovery::is_empty).
Slots ==
  {s \in [at : {"empty", "active", "draining", "recovering"}, epoch : Nat,
          plan : Plans \cup {NoPlan}, restore : Delays, restart : Delays] :
     /\ Running(s) <=> s.plan # NoPlan
     /\ s.at = "recovering" <=> (s.restore # "none" \/ s.restart # "none")}

Tasks == [device : Devices, epoch : Nat, armed : BOOLEAN, told : BOOLEAN]

Reports ==
  [kind : {"input"}, device : Devices, epoch : Nat]
    \cup [kind : {"done"}, device : Devices, epoch : Nat, owes : BOOLEAN]

FlagsOK ==
  /\ planNews \in BOOLEAN /\ accessNews \in BOOLEAN /\ io \in BOOLEAN /\ ioNews \in BOOLEAN
  /\ regNews \in BOOLEAN /\ stop \in BOOLEAN /\ again \in BOOLEAN

\* The type of every variable.
TypeOK ==
  /\ plan \in [Devices -> Plans \cup {NoPlan}]
  /\ access \in [Exclusives -> {"idle", "waiting", "holding"}]
  /\ FlagsOK
  /\ slot \in [Devices -> Slots] /\ epoch \in Nat
  /\ at \in {"loop", "select", "spawning", "restoring", "rearming",
             "drain", "drainRetry", "drainRestoring", "done"}
  /\ view \in [Devices -> Plans \cup {NoPlan}]
  /\ tasks \subseteq Tasks /\ events \in Seq(Reports)
  /\ todo \subseteq Devices /\ diverted \subseteq Devices /\ lost \subseteq Devices
  /\ changes \in 0..MaxChanges /\ inputs \in 0..MaxInputs

\* One owner of a device's controls at a time: two sessions never live
\* together, and none lives while a restore of an earlier one is owed, in its
\* slot or in a report under way (blocks_restart, the acknowledged teardown of
\* CaptureSession).
SoleOwner ==
  \A t \in tasks :
    /\ \A u \in tasks : u.device = t.device => u = t
    /\ slot[t.device].restore = "none"
    /\ \A i \in 1..Len(events) : events[i].kind = "done" => events[i].device # t.device

\* No input is thrown away as stale and no completion is ignored: what is
\* queued belongs to the epoch its slot still tracks, because completion is
\* queued behind the inputs and a slot keeps its session until then
\* (report_done_after_inputs, dispatch_context_for, complete).
ReportsAreOwned ==
  \A i \in 1..Len(events) :
    LET s == slot[events[i].device]
    IN  Running(s) /\ s.epoch = events[i].epoch

\* Whoever still diverts a device is known: a live session, a restore token
\* in a queued completion or in the slot, or a session that died with its
\* token (retry_pending_restores, complete, settle_capture_task).
OwedIsTracked ==
  \A d \in diverted :
    \/ \E t \in tasks : t.device = d /\ t.armed
    \/ \E i \in 1..Len(events) : events[i].device = d /\ events[i].kind = "done" /\ events[i].owes
    \/ slot[d].restore # "none"
    \/ d \in lost

\* A graceful stop leaves no session behind and every control native, but for
\* the ones whose token died (drain_for_shutdown).
GracefulStopIsNative == at = "done" => tasks = {} /\ events = <<>> /\ diverted \subseteq lost

\* An input cannot slip between a publication and its notification: once it
\* is taken, an active session dispatches by the published plan and a session
\* that is no longer wanted is retiring (reconcile_published_session).
FreshDispatch ==
  [][ (io /\ events # <<>> /\ events' = Tail(events) /\ Head(events).kind = "input") =>
      LET d == Head(events).device
      IN  slot'[d].at = "active" => slot'[d].plan = plan[d] /\ ~Requested ]_vars

\* Pairing and host transitions get the receiver: the captures that share it
\* are retired and stay away, however the manager is interrupted.
ExclusiveServed == \A x \in Exclusives : access[x] = "waiting" ~> access[x] # "waiting"

\* Once the publication, the requests and the host are quiet, every wanted
\* device is captured with its plan, and the others are given back.
Converges ==
  \A d \in Devices, p \in Plans \cup {NoPlan} :
    <>[](plan[d] = p /\ ~Requested /\ io /\ ~stop) =>
      <>[](IF p = NoPlan
           THEN slot[d] = EmptySlot /\ (d \in diverted => d \in lost)
           ELSE slot[d].at = "active" /\ slot[d].plan = p /\ d \in diverted)

\* A stop request is completed, whatever is owed when it arrives.
StopCompletes == stop ~> at = "done"
=============================================================================
