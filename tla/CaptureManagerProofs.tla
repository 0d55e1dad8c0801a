------------------------ MODULE CaptureManagerProofs ------------------------
(***************************************************************************)
(* Proofs about CaptureManager, for any finite set of devices, any plans   *)
(* and exclusive operations, and any number of changes and inputs.         *)
(***************************************************************************)
EXTENDS CaptureManager, FiniteSetTheorems, FunctionTheorems, TLAPS

USE CaptureAssumption

\* A live task is the session its slot tracks.
TasksAreTracked ==
  \A t \in tasks : Running(slot[t.device]) /\ slot[t.device].epoch = t.epoch

OneTaskEach == \A t, u \in tasks : u.device = t.device => u = t

\* A session reports its end last, when its task is gone.
DoneIsLast ==
  \A i \in 1..Len(events) : events[i].kind = "done" =>
    /\ \A t \in tasks : t.device # events[i].device
    /\ \A k \in 1..Len(events) : k > i => events[k].device # events[i].device

\* What a pass of retries still has to do is owed.
TodoIsOwed ==
  at \in {"restoring", "drainRestoring"} => \A d \in todo : slot[d].restore # "none"

\* After the drain no session runs, and at its end nothing is owed.
DrainIsQuiet ==
  /\ at \in {"drainRetry", "drainRestoring", "done"} => ~AnyRunning
  /\ at = "done" => Pending = {}

Ownership == TasksAreTracked /\ OneTaskEach /\ DoneIsLast /\ ReportsAreOwned

IInv == TypeOK /\ Ownership /\ OwedIsTracked /\ TodoIsOwed /\ DrainIsQuiet

-----------------------------------------------------------------------------
(* Slots.                                                                  *)

LEMMA EmptySlotFields ==
  /\ EmptySlot \in Slots /\ ~Running(EmptySlot) /\ EmptySlot.restore = "none"
BY DEF EmptySlot, Slots, Running, Delays

LEMMA RecoveringFields ==
  ASSUME NEW restore \in Delays, NEW restart \in Delays
  PROVE  /\ Recovering(restore, restart) \in Slots
         /\ ~Running(Recovering(restore, restart))
         /\ Recovering(restore, restart).restore = restore
<1>1. CASE restore = "none" /\ restart = "none"
  BY <1>1, EmptySlotFields DEF Recovering
<1>2. CASE ~(restore = "none" /\ restart = "none")
  <2> DEFINE r == [at |-> "recovering", epoch |-> 0, plan |-> NoPlan,
                   restore |-> restore, restart |-> restart]
  <2>1. Recovering(restore, restart) = r
    BY <1>2 DEF Recovering, EmptySlot
  <2>2. r \in Slots /\ ~Running(r) /\ r.restore = restore
    BY <1>2 DEF Slots, Running
  <2> QED BY <2>1, <2>2
<1> QED BY <1>1, <1>2

LEMMA StartedFields ==
  ASSUME NEW e \in Nat, NEW p \in Plans \cup {NoPlan}, p # NoPlan, NEW r,
         r = [EmptySlot EXCEPT !.at = "active", !.epoch = e, !.plan = p]
  PROVE  r \in Slots /\ Running(r) /\ r.epoch = e /\ r.restore = "none"
<1> DEFINE q == [at |-> "active", epoch |-> e, plan |-> p, restore |-> "none", restart |-> "none"]
<1>1. r = q
  BY DEF EmptySlot
<1>2. q \in Slots /\ Running(q) /\ q.epoch = e /\ q.restore = "none"
  BY DEF Slots, Running, Delays
<1> QED BY <1>1, <1>2

\* A running session keeps its epoch while it is reconciled; it stays active
\* only with the plan that is wanted.
LEMMA ReconciledFields ==
  ASSUME NEW s \in Slots, NEW wanted \in Plans \cup {NoPlan}
  PROVE  /\ Reconciled(s, wanted) \in Slots
         /\ Running(Reconciled(s, wanted)) <=> Running(s)
         /\ Reconciled(s, wanted).epoch = s.epoch
         /\ Reconciled(s, wanted).restore = s.restore
         /\ Reconciled(s, wanted).at = "active" =>
              wanted # NoPlan /\ Reconciled(s, wanted).plan = wanted
<1>1. CASE s.at # "active"
  <2>1. Reconciled(s, wanted) = s
    BY <1>1 DEF Reconciled
  <2> QED BY <1>1, <2>1
<1>2. CASE s.at = "active" /\ wanted # NoPlan /\ s.plan.target = wanted.target
  <2>1. Reconciled(s, wanted) = [s EXCEPT !.plan = wanted]
    BY <1>2 DEF Reconciled
  <2>2. [s EXCEPT !.plan = wanted] \in Slots
    BY <1>2 DEF Slots, Running
  <2> QED BY <1>2, <2>1, <2>2 DEF Slots, Running
<1>3. CASE s.at = "active" /\ ~(wanted # NoPlan /\ s.plan.target = wanted.target)
  <2>1. Reconciled(s, wanted) = [s EXCEPT !.at = "draining"]
    BY <1>3 DEF Reconciled
  <2>2. [s EXCEPT !.at = "draining"] \in Slots
    BY <1>3 DEF Slots, Running
  <2> QED BY <1>3, <2>1, <2>2 DEF Slots, Running
<1> QED BY <1>1, <1>2, <1>3

LEMMA SlotFields ==
  ASSUME NEW s \in Slots
  PROVE  /\ s.restore \in Delays /\ s.restart \in Delays /\ s.epoch \in Nat
         /\ Running(s) => s.restore = "none"
BY DEF Slots, Running

LEMMA WantedType ==
  ASSUME TypeOK, NEW d \in Devices
  PROVE  Wanted(d) \in Plans \cup {NoPlan}
BY DEF TypeOK, Wanted

LEMMA DoneFields ==
  ASSUME NEW t \in Tasks, NEW owes \in BOOLEAN
  PROVE  /\ Done(t, owes) \in Reports /\ Done(t, owes).kind = "done"
         /\ Done(t, owes).device = t.device /\ Done(t, owes).epoch = t.epoch
         /\ Done(t, owes).owes = owes
BY DEF Done, Tasks, Reports

\* Tasks that are told to stop are otherwise the same tasks.
LEMMA TellRetiredKeepsTasks ==
  ASSUME tasks \subseteq Tasks, NEW slots, TellRetired(slots)
  PROVE  /\ tasks' \subseteq Tasks
         /\ \A u \in tasks' : \E t \in tasks :
              u.device = t.device /\ u.epoch = t.epoch /\ u.armed = t.armed
         /\ \A t \in tasks : \E u \in tasks' :
              u.device = t.device /\ u.epoch = t.epoch /\ u.armed = t.armed
         /\ OneTaskEach => OneTaskEach'
<1> DEFINE B(t) == t.told \/ (slots[t.device].epoch = t.epoch
                              /\ slots[t.device].at = "draining")
           F(t) == [t EXCEPT !.told = B(t)]
<1>1. tasks' = {F(t) : t \in tasks}
  BY DEF TellRetired
<1>2. \A t \in tasks : B(t) \in BOOLEAN
  BY Zenon
<1> HIDE DEF B
<1>3. \A t \in tasks : /\ F(t) \in Tasks /\ F(t).device = t.device /\ F(t).epoch = t.epoch
                       /\ F(t).armed = t.armed
  BY <1>2 DEF Tasks
<1> HIDE DEF F
<1> QED BY <1>1, <1>3 DEF OneTaskEach

-----------------------------------------------------------------------------
(* Steps that keep the sessions.                                           *)

\* No slot loses its session or its owed restore, and no session changes.
LEMMA SlotsGoOn ==
  ASSUME TypeOK, Ownership, OwedIsTracked,
         \A d \in Devices :
           /\ Running(slot[d]) => Running(slot'[d]) /\ slot'[d].epoch = slot[d].epoch
           /\ slot[d].restore # "none" /\ d \in diverted' => slot'[d].restore # "none",
         \A u \in tasks' : \E t \in tasks :
           u.device = t.device /\ u.epoch = t.epoch /\ u.armed = t.armed,
         \A t \in tasks : \E u \in tasks' :
           u.device = t.device /\ u.epoch = t.epoch /\ u.armed = t.armed,
         OneTaskEach', events' = events, diverted' \subseteq diverted, lost' = lost
  PROVE  Ownership' /\ OwedIsTracked'
<1>1. /\ \A t \in tasks : t.device \in Devices
      /\ \A i \in 1..Len(events) : events[i].device \in Devices
      /\ diverted \subseteq Devices
  BY DEF TypeOK, Tasks, Reports
<1>2. TasksAreTracked'
  BY <1>1 DEF Ownership, TasksAreTracked
<1>3. DoneIsLast'
  BY DEF Ownership, DoneIsLast
<1>4. ReportsAreOwned'
  BY <1>1 DEF Ownership, ReportsAreOwned
<1>5. OwedIsTracked'
  <2> SUFFICES ASSUME NEW d \in diverted'
               PROVE  \/ \E t \in tasks' : t.device = d /\ t.armed
                      \/ \E i \in 1..Len(events) : events[i].device = d /\ events[i].kind = "done"
                                                  /\ events[i].owes
                      \/ slot'[d].restore # "none"
                      \/ d \in lost
    BY DEF OwedIsTracked
  <2>1. d \in Devices
    BY <1>1
  <2>2. CASE \E t \in tasks : t.device = d /\ t.armed
    <3>1. PICK t \in tasks : t.device = d /\ t.armed
      BY <2>2
    <3>2. PICK u \in tasks' : u.device = t.device /\ u.armed = t.armed
      OBVIOUS
    <3> QED BY <3>1, <3>2
  <2> QED BY <2>1, <2>2 DEF OwedIsTracked
<1> QED BY <1>2, <1>3, <1>4, <1>5 DEF Ownership

LEMMA TasksTypedUnchanged ==
  ASSUME Ownership, tasks' = tasks
  PROVE  /\ \A u \in tasks' : \E t \in tasks :
              u.device = t.device /\ u.epoch = t.epoch /\ u.armed = t.armed
         /\ \A t \in tasks : \E u \in tasks' :
              u.device = t.device /\ u.epoch = t.epoch /\ u.armed = t.armed
         /\ OneTaskEach'
BY DEF Ownership, OneTaskEach

\* Steps outside the manager and its sessions.
LEMMA ManagerUntouched ==
  ASSUME IInv, UNCHANGED <<manager, sessions>>
  PROVE  Ownership' /\ OwedIsTracked' /\ TodoIsOwed' /\ DrainIsQuiet'
<1>1. /\ slot' = slot /\ at' = at /\ todo' = todo /\ tasks' = tasks /\ events' = events
      /\ diverted' = diverted /\ lost' = lost
  BY DEF manager, sessions
<1>2. Ownership' /\ OwedIsTracked'
  BY <1>1, SlotsGoOn, TasksTypedUnchanged DEF IInv
<1>3. TodoIsOwed' /\ DrainIsQuiet'
  BY <1>1 DEF IInv, TodoIsOwed, DrainIsQuiet, AnyRunning, Pending
<1> QED BY <1>2, <1>3

LEMMA OutsideKeeps ==
  ASSUME IInv,
         \/ \E x \in Exclusives :
              Announce(x) \/ Grant(x) \/ Withdraw(x, "waiting") \/ Withdraw(x, "holding")
         \/ \E d \in Devices, p \in Plans \cup {NoPlan} : Publish(d, p)
         \/ PauseIo \/ ResumeIo \/ ReplaceChannels \/ RequestStop
  PROVE  IInv'
<1>1. UNCHANGED <<manager, sessions>>
  BY DEF Announce, Grant, Withdraw, Publish, PauseIo, ResumeIo, ReplaceChannels, RequestStop,
         manager, sessions
<1>2. Ownership' /\ OwedIsTracked' /\ TodoIsOwed' /\ DrainIsQuiet'
  BY <1>1, ManagerUntouched
<1>3. FlagsOK'
  BY ZenonT(60) DEF IInv, TypeOK, FlagsOK, Announce, Grant, Withdraw, Publish, PauseIo, ResumeIo,
         ReplaceChannels, RequestStop, manager
<1>4. changes' \in 0..MaxChanges
  BY DEF IInv, TypeOK, Change, Announce, Grant, Withdraw, Publish, PauseIo, ResumeIo,
         ReplaceChannels, RequestStop
<1>5. plan' \in [Devices -> Plans \cup {NoPlan}]
  BY DEF IInv, TypeOK, Announce, Grant, Withdraw, Publish, PauseIo, ResumeIo,
         ReplaceChannels, RequestStop
<1>6. access' \in [Exclusives -> {"idle", "waiting", "holding"}]
  BY DEF IInv, TypeOK, Announce, Grant, Withdraw, Publish, PauseIo, ResumeIo,
         ReplaceChannels, RequestStop
<1>7. TypeOK'
  BY <1>1, <1>3, <1>4, <1>5, <1>6 DEF IInv, TypeOK, manager, sessions
<1> QED BY <1>2, <1>7 DEF IInv

LEMMA CheckDeadlineKeeps ==
  ASSUME IInv, CheckDeadline
  PROVE  IInv'
<1>1. /\ slot' = slot /\ at' \in {"loop", "select"} /\ todo' = todo /\ tasks' = tasks
      /\ events' = events /\ diverted' = diverted /\ lost' = lost
  BY DEF CheckDeadline, Goto, sessions
<1>2. Ownership' /\ OwedIsTracked'
  BY <1>1, SlotsGoOn, TasksTypedUnchanged DEF IInv
<1>3. TodoIsOwed' /\ DrainIsQuiet'
  BY <1>1 DEF TodoIsOwed, DrainIsQuiet
<1>4. FlagsOK'
  BY Zenon DEF IInv, TypeOK, FlagsOK, CheckDeadline, Goto, outside
<1>5. TypeOK'
  BY <1>1, <1>4 DEF IInv, TypeOK, CheckDeadline, outside, sessions
<1> QED BY <1>2, <1>3, <1>5 DEF IInv

\* A retry instant is reached.
LEMMA ElapseKeeps ==
  ASSUME IInv, NEW d \in Devices, NEW which \in {"restore", "restart"}, Elapse(d, which)
  PROVE  IInv'
<1> DEFINE r == [slot[d] EXCEPT ![which] = "due"]
<1>1. /\ slot' = [slot EXCEPT ![d] = r] /\ slot[d][which] = "waiting"
      /\ at \in {"loop", "select"} /\ at' = at /\ todo' = todo /\ tasks' = tasks
      /\ events' = events /\ diverted' = diverted /\ lost' = lost
  BY DEF Elapse, sessions
<1>2. slot[d] \in Slots
  BY DEF IInv, TypeOK
<1>3. /\ r \in Slots /\ (Running(r) <=> Running(slot[d])) /\ r.epoch = slot[d].epoch
      /\ slot[d].restore # "none" => r.restore # "none"
  <2>1. CASE which = "restore"
    BY <1>1, <1>2, <2>1 DEF Slots, Running, Delays
  <2>2. CASE which = "restart"
    BY <1>1, <1>2, <2>2 DEF Slots, Running, Delays
  <2> QED BY <2>1, <2>2
<1> HIDE DEF r
<1>4. slot' \in [Devices -> Slots]
  BY <1>1, <1>3 DEF IInv, TypeOK
<1>5. \A e \in Devices :
        /\ Running(slot[e]) => Running(slot'[e]) /\ slot'[e].epoch = slot[e].epoch
        /\ slot[e].restore # "none" => slot'[e].restore # "none"
  BY <1>1, <1>3 DEF IInv, TypeOK
<1>6. Ownership' /\ OwedIsTracked'
  BY <1>1, <1>5, SlotsGoOn, TasksTypedUnchanged DEF IInv
<1>7. TodoIsOwed' /\ DrainIsQuiet'
  BY <1>1 DEF TodoIsOwed, DrainIsQuiet
<1>8. FlagsOK'
  BY Zenon DEF IInv, TypeOK, FlagsOK, Elapse, outside
<1>9. TypeOK'
  BY <1>1, <1>4, <1>8 DEF IInv, TypeOK, Elapse, outside, sessions
<1> QED BY <1>6, <1>7, <1>9 DEF IInv

LEMMA ExpeditedFields ==
  ASSUME TypeOK
  PROVE  /\ Expedited \in [Devices -> Slots]
         /\ \A d \in Devices :
              /\ Running(Expedited[d]) <=> Running(slot[d])
              /\ Expedited[d].epoch = slot[d].epoch
              /\ Expedited[d].restore = "none" <=> slot[d].restore = "none"
<1>1. ASSUME NEW d \in Devices
      PROVE  /\ Expedited[d] \in Slots
             /\ Running(Expedited[d]) <=> Running(slot[d])
             /\ Expedited[d].epoch = slot[d].epoch
             /\ Expedited[d].restore = "none" <=> slot[d].restore = "none"
  <2>1. slot[d] \in Slots
    BY DEF TypeOK
  <2>2. CASE slot[d].restore = "none"
    <3>1. Expedited[d] = [slot[d] EXCEPT !.restore = "none"]
      BY <2>2 DEF Expedited
    <3> QED BY <2>1, <2>2, <3>1 DEF Slots, Running
  <2>3. CASE slot[d].restore # "none"
    <3>1. Expedited[d] = [slot[d] EXCEPT !.restore = "due"]
      BY <2>3 DEF Expedited
    <3> QED BY <2>1, <2>3, <3>1 DEF Slots, Running, Delays
  <2> QED BY <2>2, <2>3
<1>2. Expedited = [d \in Devices |-> Expedited[d]]
  BY DEF Expedited
<1> QED BY <1>1, <1>2

LEMMA SelectNewsKeeps ==
  ASSUME IInv, NEW i \in 1..5, SelectNews(i)
  PROVE  IInv'
<1>1. /\ slot' = slot \/ slot' = Expedited
      /\ at' = "loop" /\ todo' = todo /\ tasks' = tasks
      /\ events' = events /\ diverted' = diverted /\ lost' = lost
  BY DEF SelectNews, Goto, sessions
<1>2. /\ slot' \in [Devices -> Slots]
      /\ \A e \in Devices :
           /\ Running(slot[e]) => Running(slot'[e]) /\ slot'[e].epoch = slot[e].epoch
           /\ slot[e].restore # "none" => slot'[e].restore # "none"
  <2>1. CASE slot' = slot
    BY <2>1 DEF IInv, TypeOK
  <2>2. CASE slot' = Expedited
    BY <2>2, ExpeditedFields DEF IInv
  <2> QED BY <1>1, <2>1, <2>2
<1>3. Ownership' /\ OwedIsTracked'
  BY <1>1, <1>2, SlotsGoOn, TasksTypedUnchanged DEF IInv
<1>4. TodoIsOwed' /\ DrainIsQuiet'
  BY <1>1 DEF TodoIsOwed, DrainIsQuiet
<1>5. FlagsOK'
  BY Zenon DEF IInv, TypeOK, FlagsOK, SelectNews, Goto
<1>6. TypeOK'
  BY <1>1, <1>2, <1>5 DEF IInv, TypeOK, SelectNews, sessions
<1> QED BY <1>3, <1>4, <1>6 DEF IInv

LEMMA ReconcileKeeps ==
  ASSUME IInv, Reconcile
  PROVE  IInv'
<1>1. /\ at = "loop" /\ UNCHANGED <<plan, access, epoch, diverted, lost, events, inputs, changes>>
      /\ io' = io /\ ioNews' = ioNews /\ regNews' = regNews /\ stop' = stop /\ again' = FALSE
  BY DEF Reconcile, Goto
<1>2. CASE ~io
  <2>1. /\ at' = "loop" /\ slot' = slot /\ tasks' = tasks /\ todo' = todo /\ view' = view
        /\ planNews' = planNews /\ accessNews' = accessNews
    BY <1>2 DEF Reconcile, Goto
  <2>2. Ownership' /\ OwedIsTracked'
    BY <1>1, <2>1, SlotsGoOn, TasksTypedUnchanged DEF IInv
  <2>3. TodoIsOwed' /\ DrainIsQuiet'
    BY <2>1 DEF TodoIsOwed, DrainIsQuiet
  <2>4. FlagsOK'
    BY <1>1, <2>1, Zenon DEF IInv, TypeOK, FlagsOK
  <2>5. TypeOK'
    BY <1>1, <2>1, <2>4 DEF IInv, TypeOK
  <2> QED BY <2>2, <2>3, <2>5 DEF IInv
<1>3. CASE io
  <2> DEFINE R(d)  == Recovering(slot[d].restore, IF plan[d] = NoPlan THEN "none"
                                                  ELSE slot[d].restart)
             slots == [d \in Devices |-> IF slot[d].at = "recovering" THEN R(d)
                                         ELSE [e \in Devices |-> Reconciled(slot[e], Wanted(e))][d]]
  <2>1. /\ slot' = slots /\ TellRetired(slots)
        /\ todo' = {} \/ todo' = DueRestores(slots)
        /\ at' \in {"spawning", "restoring"}
        /\ view' = [d \in Devices |-> Wanted(d)]
        /\ planNews' = FALSE /\ accessNews' = FALSE
    BY <1>3 DEF Reconcile, Goto
  <2>2. ASSUME NEW d \in Devices
        PROVE  /\ slots[d] \in Slots
               /\ Running(slot[d]) => Running(slots[d]) /\ slots[d].epoch = slot[d].epoch
               /\ slot[d].restore # "none" => slots[d].restore # "none"
    <3>1. slot[d] \in Slots /\ Wanted(d) \in Plans \cup {NoPlan}
      BY WantedType DEF IInv, TypeOK
    <3>2. CASE slot[d].at = "recovering"
      <4>1. slots[d] = R(d)
        BY <3>2
      <4>2. /\ R(d) \in Slots /\ R(d).restore = slot[d].restore
        <5>1. slot[d].restore \in Delays /\ slot[d].restart \in Delays /\ "none" \in Delays
          BY <3>1, SlotFields DEF Delays
        <5>2. (IF plan[d] = NoPlan THEN "none" ELSE slot[d].restart) \in Delays
          BY <5>1
        <5> QED BY <5>1, <5>2, RecoveringFields
      <4> HIDE DEF R, slots
      <4> QED BY <3>2, <4>1, <4>2 DEF Running
    <3>3. CASE slot[d].at # "recovering"
      <4>1. slots[d] = Reconciled(slot[d], Wanted(d))
        BY <3>3
      <4> HIDE DEF slots
      <4> QED BY <3>1, <4>1, ReconciledFields
    <3> QED BY <3>2, <3>3
  <2>3. slots \in [Devices -> Slots]
    <3>1. slots = [d \in Devices |-> slots[d]]
      OBVIOUS
    <3> HIDE DEF slots
    <3> QED BY <2>2, <3>1
  <2> HIDE DEF slots
  <2>4. /\ tasks' \subseteq Tasks /\ OneTaskEach'
        /\ \A u \in tasks' : \E t \in tasks :
             u.device = t.device /\ u.epoch = t.epoch /\ u.armed = t.armed
        /\ \A t \in tasks : \E u \in tasks' :
             u.device = t.device /\ u.epoch = t.epoch /\ u.armed = t.armed
    BY <2>1, TellRetiredKeepsTasks DEF IInv, TypeOK, Ownership
  <2>5. Ownership' /\ OwedIsTracked'
    BY <1>1, <2>1, <2>2, <2>4, SlotsGoOn DEF IInv
  <2>6. todo' \subseteq Devices /\ TodoIsOwed' /\ DrainIsQuiet'
    BY <2>1 DEF TodoIsOwed, DrainIsQuiet, DueRestores
  <2>7. view' \in [Devices -> Plans \cup {NoPlan}]
    BY <2>1, WantedType DEF IInv
  <2>8. FlagsOK'
    BY <1>1, <2>1, Zenon DEF IInv, TypeOK, FlagsOK
  <2>9. TypeOK'
    BY <1>1, <2>1, <2>3, <2>4, <2>6, <2>7, <2>8 DEF IInv, TypeOK
  <2> QED BY <2>5, <2>6, <2>9 DEF IInv
<1> QED BY <1>2, <1>3

LEMMA StartDrainKeeps ==
  ASSUME IInv, StartDrain
  PROVE  IInv'
<1> DEFINE slots == [d \in Devices |-> Reconciled(slot[d], NoPlan)]
<1>1. /\ slot' = slots /\ TellRetired(slots) /\ at' = "drain" /\ again' = FALSE
      /\ UNCHANGED <<outside, epoch, view, todo, diverted, lost, events, inputs, changes>>
  BY DEF StartDrain, Goto
<1>2. ASSUME NEW d \in Devices
      PROVE  /\ slots[d] \in Slots
             /\ Running(slot[d]) => Running(slots[d]) /\ slots[d].epoch = slot[d].epoch
             /\ slot[d].restore # "none" => slots[d].restore # "none"
  <2>1. slot[d] \in Slots /\ slots[d] = Reconciled(slot[d], NoPlan)
    BY DEF IInv, TypeOK
  <2> HIDE DEF slots
  <2> QED BY <2>1, ReconciledFields
<1>3. slots \in [Devices -> Slots]
  <2>1. slots = [d \in Devices |-> slots[d]]
    OBVIOUS
  <2> HIDE DEF slots
  <2> QED BY <1>2, <2>1
<1> HIDE DEF slots
<1>4. /\ tasks' \subseteq Tasks /\ OneTaskEach'
      /\ \A u \in tasks' : \E t \in tasks :
           u.device = t.device /\ u.epoch = t.epoch /\ u.armed = t.armed
      /\ \A t \in tasks : \E u \in tasks' :
           u.device = t.device /\ u.epoch = t.epoch /\ u.armed = t.armed
  BY <1>1, TellRetiredKeepsTasks DEF IInv, TypeOK, Ownership
<1>5. Ownership' /\ OwedIsTracked'
  BY <1>1, <1>2, <1>4, SlotsGoOn DEF IInv
<1>6. TodoIsOwed' /\ DrainIsQuiet'
  BY <1>1 DEF TodoIsOwed, DrainIsQuiet
<1>7. FlagsOK'
  BY <1>1, Zenon DEF IInv, TypeOK, FlagsOK, outside
<1>8. TypeOK'
  BY <1>1, <1>3, <1>4, <1>7 DEF IInv, TypeOK, outside
<1> QED BY <1>5, <1>6, <1>8 DEF IInv

LEMMA DrainedKeeps ==
  ASSUME IInv, Drained
  PROVE  IInv'
<1>1. /\ ~AnyRunning /\ slot' = Expedited /\ todo' = todo /\ tasks' = tasks
      /\ at' = IF Pending = {} THEN "done" ELSE "drainRetry"
      /\ events' = events /\ diverted' = diverted /\ lost' = lost
  BY DEF Drained, Goto, sessions
<1>2. /\ slot' \in [Devices -> Slots]
      /\ \A e \in Devices :
           /\ Running(slot'[e]) <=> Running(slot[e])
           /\ slot'[e].epoch = slot[e].epoch
           /\ slot'[e].restore = "none" <=> slot[e].restore = "none"
  BY <1>1, ExpeditedFields DEF IInv
<1>3. Ownership' /\ OwedIsTracked'
  BY <1>1, <1>2, SlotsGoOn, TasksTypedUnchanged DEF IInv
<1>4. TodoIsOwed' /\ DrainIsQuiet'
  BY <1>1, <1>2 DEF TodoIsOwed, DrainIsQuiet, AnyRunning, Pending
<1>5. FlagsOK'
  BY Zenon DEF IInv, TypeOK, FlagsOK, Drained, Goto, outside
<1>6. TypeOK'
  BY <1>1, <1>2, <1>5 DEF IInv, TypeOK, Drained, outside, sessions
<1> QED BY <1>3, <1>4, <1>6 DEF IInv

LEMMA DrainRetryKeeps ==
  ASSUME IInv, DrainRetry
  PROVE  IInv'
<1>1. /\ at = "drainRetry" /\ at' = "drainRestoring" /\ slot' = slot /\ todo' = Pending
      /\ tasks' = tasks /\ events' = events /\ diverted' = diverted /\ lost' = lost
  BY DEF DrainRetry, Goto, sessions
<1>2. Ownership' /\ OwedIsTracked'
  BY <1>1, SlotsGoOn, TasksTypedUnchanged DEF IInv
<1>3. TodoIsOwed' /\ DrainIsQuiet' /\ todo' \subseteq Devices
  BY <1>1 DEF IInv, TodoIsOwed, DrainIsQuiet, AnyRunning, Pending
<1>4. FlagsOK'
  BY Zenon DEF IInv, TypeOK, FlagsOK, DrainRetry, Goto, outside
<1>5. TypeOK'
  BY <1>1, <1>3, <1>4 DEF IInv, TypeOK, DrainRetry, outside, sessions
<1> QED BY <1>2, <1>3, <1>5 DEF IInv

-----------------------------------------------------------------------------
(* Restores, new sessions, and reports.                                    *)

\* A retry settles the restore or keeps it owed; it never touches a session.
LEMMA RetriedKeeps ==
  ASSUME IInv, NEW d \in Devices, NEW ok \in BOOLEAN, d \in todo,
         at \in {"restoring", "drainRestoring"}, Retried(d, ok),
         UNCHANGED <<tasks, events, lost>>
  PROVE  /\ Ownership' /\ OwedIsTracked'
         /\ slot' \in [Devices -> Slots] /\ todo' \subseteq Devices /\ diverted' \subseteq Devices
         /\ changes' \in 0..MaxChanges
         /\ \A e \in todo' : slot'[e].restore # "none"
         /\ \A e \in Devices : Running(slot'[e]) <=> Running(slot[e])
<1> DEFINE r == Recovering(IF ok THEN "none" ELSE "waiting", slot[d].restart)
<1>1. slot[d] \in Slots /\ slot[d].restore # "none"
  BY DEF IInv, TypeOK, TodoIsOwed
<1>2. ~Running(slot[d]) /\ slot[d].restart \in Delays
  BY <1>1, SlotFields
<1>3. r \in Slots /\ ~Running(r) /\ (~ok => r.restore # "none")
  <2>1. (IF ok THEN "none" ELSE "waiting") \in Delays
    BY DEF Delays
  <2> QED BY <1>2, <2>1, RecoveringFields
<1>4. /\ slot' = [slot EXCEPT ![d] = r] /\ todo' = todo \ {d}
      /\ ok => diverted' = diverted \ {d}
      /\ ~ok => diverted' = diverted
  BY DEF Retried
<1>5. changes' \in 0..MaxChanges
  BY DEF IInv, TypeOK, Retried, Change
<1> HIDE DEF r
<1>6. /\ slot' \in [Devices -> Slots] /\ slot'[d] = r
      /\ \A e \in Devices : e # d => slot'[e] = slot[e]
  BY <1>3, <1>4 DEF IInv, TypeOK
<1>7. diverted' \subseteq diverted /\ (ok => d \notin diverted')
  BY <1>4
<1>8. \A e \in Devices :
        /\ Running(slot[e]) => Running(slot'[e]) /\ slot'[e].epoch = slot[e].epoch
        /\ slot[e].restore # "none" /\ e \in diverted' => slot'[e].restore # "none"
  BY <1>2, <1>3, <1>6, <1>7
<1>9. Ownership' /\ OwedIsTracked'
  BY <1>7, <1>8, SlotsGoOn, TasksTypedUnchanged DEF IInv
<1>10. \A e \in todo' : slot'[e].restore # "none"
  BY <1>4, <1>6 DEF IInv, TypeOK, TodoIsOwed
<1>11. todo' \subseteq Devices /\ diverted' \subseteq Devices
  BY <1>4, <1>7 DEF IInv, TypeOK
<1> QED BY <1>2, <1>3, <1>5, <1>6, <1>9, <1>10, <1>11

LEMMA RetryRestoreKeeps ==
  ASSUME IInv, NEW d \in Devices, NEW ok \in BOOLEAN, RetryRestore(d, ok)
  PROVE  IInv'
<1>1. /\ at = "restoring" /\ d \in todo /\ Retried(d, ok) /\ again' = FALSE
      /\ at' \in {"rearming", "restoring"}
      /\ UNCHANGED <<outside, epoch, view, tasks, lost, events, inputs>>
  BY DEF RetryRestore, Goto
<1>2. /\ Ownership' /\ OwedIsTracked'
      /\ slot' \in [Devices -> Slots] /\ todo' \subseteq Devices /\ diverted' \subseteq Devices
      /\ changes' \in 0..MaxChanges
      /\ \A e \in todo' : slot'[e].restore # "none"
  BY <1>1, RetriedKeeps
<1>3. TodoIsOwed' /\ DrainIsQuiet'
  BY <1>1, <1>2 DEF TodoIsOwed, DrainIsQuiet
<1>4. FlagsOK'
  BY <1>1, Zenon DEF IInv, TypeOK, FlagsOK, outside
<1>5. TypeOK'
  BY <1>1, <1>2, <1>4 DEF IInv, TypeOK, outside
<1> QED BY <1>2, <1>3, <1>5 DEF IInv

LEMMA DrainRestoreKeeps ==
  ASSUME IInv, NEW d \in Devices, NEW ok \in BOOLEAN, DrainRestore(d, ok)
  PROVE  IInv'
<1>1. /\ at = "drainRestoring" /\ d \in todo /\ Retried(d, ok) /\ again' = FALSE
      /\ UNCHANGED <<outside, epoch, view, tasks, lost, events, inputs>>
  BY DEF DrainRestore, Goto
<1>2. /\ at' \in {"drainRestoring", "drainRetry", "done"}
      /\ at' = "done" => ~\E e \in Devices : slot'[e].restore # "none"
  BY DEF DrainRestore, Goto
<1>3. /\ Ownership' /\ OwedIsTracked'
      /\ slot' \in [Devices -> Slots] /\ todo' \subseteq Devices /\ diverted' \subseteq Devices
      /\ changes' \in 0..MaxChanges
      /\ \A e \in todo' : slot'[e].restore # "none"
      /\ \A e \in Devices : Running(slot'[e]) <=> Running(slot[e])
  BY <1>1, RetriedKeeps
<1>4. TodoIsOwed'
  BY <1>3 DEF TodoIsOwed
<1>5. DrainIsQuiet'
  BY <1>1, <1>2, <1>3 DEF IInv, DrainIsQuiet, AnyRunning, Pending
<1>6. FlagsOK'
  BY <1>1, Zenon DEF IInv, TypeOK, FlagsOK, outside
<1>7. TypeOK'
  BY <1>1, <1>2, <1>3, <1>6 DEF IInv, TypeOK, outside
<1> QED BY <1>3, <1>4, <1>5, <1>7 DEF IInv

\* A finite set can be numbered.
LEMMA RankExists ==
  ASSUME NEW S, IsFiniteSet(S)
  PROVE  /\ Cardinality(S) \in Nat
         /\ \E f \in [S -> 1..Cardinality(S)] : \A d, e \in S : f[d] = f[e] => d = e
<1>1. Cardinality(S) \in Nat /\ ExistsBijection(1..Cardinality(S), S)
  BY FS_CardinalityType
<1>2. ExistsBijection(S, 1..Cardinality(S))
  BY <1>1, Fun_ExistsBijSymmetric
<1> QED BY <1>1, <1>2 DEF ExistsBijection, Bijection, Injection, IsInjective

LEMMA SpawnSessionsKeeps ==
  ASSUME IInv, SpawnSessions
  PROVE  IInv'
<1> DEFINE ready == {d \in Devices : view[d] # NoPlan /\ ~BlocksRestart(slot[d])}
           rank  == CHOOSE f \in [ready -> 1..Cardinality(ready)] :
                      \A d, e \in ready : f[d] = f[e] => d = e
           R(d)  == [EmptySlot EXCEPT !.at = "active", !.epoch = epoch + rank[d], !.plan = view[d]]
           T(d)  == [device |-> d, epoch |-> epoch + rank[d], armed |-> FALSE, told |-> FALSE]
<1>1. /\ at' = "loop" /\ again' = FALSE /\ view' = NoView
      /\ UNCHANGED <<outside, todo, diverted, lost, events, inputs, changes>>
  BY DEF SpawnSessions, Goto
<1>2. /\ LeaseAvailable =>
           /\ slot' = [d \in Devices |-> IF d \in ready THEN R(d) ELSE slot[d]]
           /\ tasks' = tasks \cup {T(d) : d \in ready}
           /\ epoch' = epoch + Cardinality(ready)
      /\ ~LeaseAvailable =>
           /\ slot' = [d \in Devices |-> IF d \in ready THEN Recovering("none", "waiting")
                                         ELSE slot[d]]
           /\ tasks' = tasks /\ epoch' = epoch
  BY DEF SpawnSessions
<1>3. /\ Cardinality(ready) \in Nat /\ rank \in [ready -> 1..Cardinality(ready)]
  <2>1. ready \subseteq Devices
    OBVIOUS
  <2> HIDE DEF ready
  <2>2. IsFiniteSet(ready)
    BY <2>1, FS_Subset
  <2> QED BY <2>2, RankExists
<1>4. epoch \in Nat /\ \A d \in ready : epoch + rank[d] \in Nat
  <2>1. epoch \in Nat
    BY DEF IInv, TypeOK
  <2> HIDE DEF ready, rank
  <2> QED BY <1>3, <2>1
<1>5. \A d \in ready : /\ d \in Devices /\ view[d] # NoPlan /\ view[d] \in Plans \cup {NoPlan}
                       /\ ~Running(slot[d]) /\ slot[d].restore = "none"
  BY DEF IInv, TypeOK, BlocksRestart
<1> HIDE DEF ready, rank
<1>6. \A d \in ready : R(d) \in Slots /\ Running(R(d)) /\ R(d).epoch = epoch + rank[d]
  <2> TAKE d \in ready
  <2>1. epoch + rank[d] \in Nat /\ view[d] \in Plans \cup {NoPlan} /\ view[d] # NoPlan
    BY <1>4, <1>5
  <2> DEFINE e == epoch + rank[d]
             p == view[d]
             q == [EmptySlot EXCEPT !.at = "active", !.epoch = e, !.plan = p]
  <2>2. e \in Nat /\ p \in Plans \cup {NoPlan} /\ p # NoPlan
    BY <2>1
  <2>3. R(d) = q
    OBVIOUS
  <2> HIDE DEF e, p, R
  <2>4. q \in Slots /\ Running(q) /\ q.epoch = e
    BY <2>2, StartedFields
  <2> QED BY <2>3, <2>4 DEF e
<1>7. \A d \in ready : /\ T(d) \in Tasks /\ T(d).device = d /\ T(d).epoch = epoch + rank[d]
  BY <1>4, <1>5 DEF Tasks
<1>8. Recovering("none", "waiting") \in Slots
  BY RecoveringFields DEF Delays
<1> HIDE DEF R, T
<1>9. slot' \in [Devices -> Slots]
  BY <1>2, <1>6, <1>8 DEF IInv, TypeOK
<1>10. \A d \in Devices : d \notin ready => slot'[d] = slot[d]
  BY <1>2
<1>11. tasks' \subseteq Tasks
  BY <1>2, <1>7 DEF IInv, TypeOK
<1>12. epoch' \in Nat
  BY <1>2, <1>3, <1>4
<1>13. \A t \in tasks : t.device \in Devices /\ t.device \notin ready
  BY <1>5 DEF IInv, TypeOK, Tasks, Ownership, TasksAreTracked
<1>14. \A i \in 1..Len(events) : events[i].device \in Devices /\ events[i].device \notin ready
  <2>1. \A i \in 1..Len(events) : events[i].device \in Devices
    BY DEF IInv, TypeOK, Reports
  <2> QED BY <1>5, <2>1 DEF IInv, Ownership, ReportsAreOwned
<1>15. \A u \in tasks' : u \in tasks \/ \E d \in ready : u = T(d) /\ LeaseAvailable
  BY <1>2
<1>16. tasks \subseteq tasks'
  BY <1>2
<1>17. TasksAreTracked'
  <2>1. ASSUME NEW d \in ready, LeaseAvailable
        PROVE  Running(slot'[d]) /\ slot'[d].epoch = epoch + rank[d]
    BY <1>2, <1>5, <1>6, <2>1
  <2> QED BY <1>7, <1>10, <1>13, <1>15, <2>1 DEF IInv, Ownership, TasksAreTracked
<1>18. OneTaskEach'
  BY <1>7, <1>13, <1>15 DEF IInv, Ownership, OneTaskEach
<1>19. DoneIsLast'
  BY <1>1, <1>7, <1>14, <1>15 DEF IInv, Ownership, DoneIsLast
<1>20. ReportsAreOwned'
  BY <1>1, <1>10, <1>14 DEF IInv, Ownership, ReportsAreOwned
<1>21. OwedIsTracked'
  <2>1. \A d \in diverted : d \in Devices /\ (d \in ready => slot[d].restore = "none")
    BY <1>5 DEF IInv, TypeOK
  <2> QED BY <1>1, <1>10, <1>16, <2>1 DEF IInv, OwedIsTracked
<1>22. TodoIsOwed' /\ DrainIsQuiet'
  BY <1>1 DEF TodoIsOwed, DrainIsQuiet
<1>23. FlagsOK'
  BY <1>1, Zenon DEF IInv, TypeOK, FlagsOK, outside
<1>24. TypeOK'
  BY <1>1, <1>9, <1>11, <1>12, <1>23 DEF IInv, TypeOK, outside, NoView
<1> QED BY <1>17, <1>18, <1>19, <1>20, <1>21, <1>22, <1>24 DEF IInv, Ownership

\* The head of the queue is handled: an input reconciles its session in place, a
\* completion settles it, and nothing more is queued for a settled session.
LEMMA TakeEventKeeps ==
  ASSUME IInv, NEW from, TakeEvent(from)
  PROVE  /\ Ownership' /\ OwedIsTracked'
         /\ slot' \in [Devices -> Slots] /\ tasks' \subseteq Tasks /\ events' \in Seq(Reports)
<1> DEFINE e == Head(events)
           d == e.device
           s == slot[d]
           refreshed == IF io /\ Running(s) THEN Reconciled(s, Wanted(d)) ELSE s
           settled   == IF Running(s) /\ s.epoch = e.epoch
                        THEN Recovering(IF e.owes THEN "waiting" ELSE "none",
                                        IF s.at = "active" /\ io THEN "waiting" ELSE "none")
                        ELSE s
           r         == IF e.kind = "input" THEN refreshed ELSE settled
           slots     == [slot EXCEPT ![d] = r]
<1>1. /\ events # <<>> /\ events' = Tail(events) /\ slot' = slots /\ TellRetired(slots)
      /\ diverted' = diverted /\ lost' = lost
  BY DEF TakeEvent, Handled
<1>2. events \in Seq(Reports)
  BY DEF IInv, TypeOK
<1>3. /\ e \in Reports /\ e = events[1] /\ events' \in Seq(Reports)
      /\ Len(events) \in Nat /\ 1 \in 1..Len(events) /\ Len(events') = Len(events) - 1
      /\ \A i \in 1..Len(events) - 1 : events'[i] = events[i + 1]
  BY <1>1, <1>2
<1>4. d \in Devices /\ e.kind \in {"input", "done"}
  BY <1>3 DEF Reports
<1>5. s \in Slots /\ Running(s) /\ s.epoch = e.epoch /\ s.restore = "none"
  <2>1. s \in Slots
    BY <1>4 DEF IInv, TypeOK
  <2>2. Running(s) /\ s.epoch = e.epoch
    BY <1>3 DEF IInv, Ownership, ReportsAreOwned
  <2> QED BY <2>1, <2>2, SlotFields
<1>6. e.kind = "input" => r \in Slots /\ Running(r) /\ r.epoch = s.epoch
  <2>1. Wanted(d) \in Plans \cup {NoPlan}
    BY <1>4, WantedType DEF IInv
  <2>2. /\ Reconciled(s, Wanted(d)) \in Slots
        /\ Running(Reconciled(s, Wanted(d))) <=> Running(s)
        /\ Reconciled(s, Wanted(d)).epoch = s.epoch
    <3> HIDE DEF s
    <3> QED BY <1>5, <2>1, ReconciledFields
  <2> QED BY <1>5, <2>2
<1>7. e.kind = "done" => r \in Slots /\ (e.owes => r.restore # "none")
  <2> DEFINE a == IF e.owes THEN "waiting" ELSE "none"
             b == IF s.at = "active" /\ io THEN "waiting" ELSE "none"
  <2>1. a \in Delays /\ b \in Delays /\ (e.owes => a # "none")
    BY DEF Delays
  <2>2. e.kind = "done" => r = Recovering(a, b)
    BY <1>5
  <2> HIDE DEF a, b, r
  <2>3. Recovering(a, b) \in Slots /\ Recovering(a, b).restore = a
    BY <2>1, RecoveringFields
  <2> QED BY <2>1, <2>2, <2>3
<1>8. r \in Slots
  BY <1>4, <1>6, <1>7
<1> HIDE DEF r
<1>9. /\ slots \in [Devices -> Slots] /\ slots[d] = r
      /\ \A c \in Devices : c # d => slots[c] = slot[c]
  <2> HIDE DEF d
  <2> QED BY <1>4, <1>8 DEF IInv, TypeOK
<1> HIDE DEF slots
<1>10. /\ tasks' \subseteq Tasks /\ OneTaskEach'
       /\ \A u \in tasks' : \E t \in tasks :
            u.device = t.device /\ u.epoch = t.epoch /\ u.armed = t.armed
       /\ \A t \in tasks : \E u \in tasks' :
            u.device = t.device /\ u.epoch = t.epoch /\ u.armed = t.armed
  BY <1>1, TellRetiredKeepsTasks DEF IInv, TypeOK, Ownership
<1>11. \A t \in tasks : t.device \in Devices
  BY DEF IInv, TypeOK, Tasks
<1>12. \A i \in 1..Len(events) : events[i].device \in Devices
  BY <1>2 DEF Reports
<1>13. e.kind = "done" => \A t \in tasks : t.device # d
  BY <1>3 DEF IInv, Ownership, DoneIsLast
<1>14. e.kind = "done" => \A i \in 1..Len(events) : i > 1 => events[i].device # d
  BY <1>3 DEF IInv, Ownership, DoneIsLast
<1> HIDE DEF s, d, e
<1>15. TasksAreTracked'
  <2>1. ASSUME NEW t \in tasks
        PROVE  Running(slots[t.device]) /\ slots[t.device].epoch = t.epoch
    <3>1. Running(slot[t.device]) /\ slot[t.device].epoch = t.epoch
      BY <2>1 DEF IInv, Ownership, TasksAreTracked
    <3>2. CASE t.device # d
      BY <1>9, <1>11, <3>1, <3>2
    <3>3. CASE t.device = d
      <4>1. e.kind = "input"
        BY <1>4, <1>13, <2>1, <3>3
      <4> QED BY <1>6, <1>9, <3>1, <3>3, <4>1 DEF s
    <3> QED BY <3>2, <3>3
  <2> QED BY <1>1, <1>10, <2>1 DEF TasksAreTracked
<1>16. \A i \in 1..Len(events') : i + 1 \in 1..Len(events) /\ i + 1 > 1 /\ events'[i] = events[i + 1]
  BY <1>3
<1>17. DoneIsLast'
  <2>1. ASSUME NEW i \in 1..Len(events'), events'[i].kind = "done"
        PROVE  /\ \A t \in tasks' : t.device # events'[i].device
               /\ \A k \in 1..Len(events') : k > i => events'[k].device # events'[i].device
    <3>1. /\ i + 1 \in 1..Len(events) /\ events[i + 1].kind = "done"
          /\ events'[i] = events[i + 1]
      BY <1>16, <2>1
    <3>2. /\ \A t \in tasks : t.device # events[i + 1].device
          /\ \A k \in 1..Len(events) : k > i + 1 => events[k].device # events[i + 1].device
      BY <3>1 DEF IInv, Ownership, DoneIsLast
    <3>3. \A t \in tasks' : t.device # events'[i].device
      BY <1>10, <3>1, <3>2
    <3>4. ASSUME NEW k \in 1..Len(events'), k > i
          PROVE  events'[k].device # events'[i].device
      <4>1. k + 1 \in 1..Len(events) /\ k + 1 > i + 1 /\ events'[k] = events[k + 1]
        BY <1>16, <3>4
      <4> QED BY <3>1, <3>2, <4>1
    <3> QED BY <3>3, <3>4
  <2> QED BY <2>1 DEF DoneIsLast
<1>18. ReportsAreOwned'
  <2>1. ASSUME NEW i \in 1..Len(events')
        PROVE  Running(slots[events'[i].device]) /\ slots[events'[i].device].epoch = events'[i].epoch
    <3>1. i + 1 \in 1..Len(events) /\ i + 1 > 1 /\ events'[i] = events[i + 1]
      BY <1>16, <2>1
    <3>2. /\ Running(slot[events'[i].device]) /\ slot[events'[i].device].epoch = events'[i].epoch
          /\ events'[i].device \in Devices
      BY <1>12, <3>1 DEF IInv, Ownership, ReportsAreOwned
    <3>3. CASE events'[i].device # d
      BY <1>9, <3>2, <3>3
    <3>4. CASE events'[i].device = d
      <4>1. e.kind = "input"
        BY <1>4, <1>14, <3>1, <3>4
      <4> QED BY <1>6, <1>9, <3>2, <3>4, <4>1 DEF s
    <3> QED BY <3>3, <3>4
  <2> QED BY <1>1, <2>1 DEF ReportsAreOwned
<1>19. OwedIsTracked'
  <2>1. ASSUME NEW c \in diverted
        PROVE  \/ \E t \in tasks' : t.device = c /\ t.armed
               \/ \E i \in 1..Len(events') : events'[i].device = c /\ events'[i].kind = "done"
                                            /\ events'[i].owes
               \/ slots[c].restore # "none"
               \/ c \in lost
    <3>0. c \in Devices
      BY <2>1 DEF IInv, TypeOK
    <3>1. CASE \E t \in tasks : t.device = c /\ t.armed
      <4>1. PICK t \in tasks : t.device = c /\ t.armed
        BY <3>1
      <4>2. PICK u \in tasks' : u.device = t.device /\ u.armed = t.armed
        BY <1>10
      <4> QED BY <4>1, <4>2
    <3>2. CASE \E i \in 1..Len(events) : events[i].device = c /\ events[i].kind = "done"
                                         /\ events[i].owes
      <4>1. PICK i \in 1..Len(events) : events[i].device = c /\ events[i].kind = "done"
                                         /\ events[i].owes
        BY <3>2
      <4>2. CASE i = 1
        <5>1. e.kind = "done" /\ e.owes /\ c = d
          BY <1>3, <4>1, <4>2 DEF d
        <5> QED BY <1>7, <1>9, <5>1
      <4>3. CASE i # 1
        <5>1. i - 1 \in 1..Len(events') /\ events'[i - 1] = events[i]
          <6>1. i - 1 \in 1..Len(events) - 1 /\ (i - 1) + 1 = i
            BY <1>3, <4>3
          <6> QED BY <1>3, <6>1
        <5> QED BY <4>1, <5>1
      <4> QED BY <4>2, <4>3
    <3>3. CASE slot[c].restore # "none"
      <4>1. c # d
        BY <1>5, <3>3 DEF s
      <4> QED BY <1>9, <3>0, <3>3, <4>1
    <3> QED BY <2>1, <3>1, <3>2, <3>3 DEF IInv, OwedIsTracked
  <2> QED BY <1>1, <2>1 DEF OwedIsTracked
<1> QED BY <1>1, <1>3, <1>9, <1>10, <1>15, <1>17, <1>18, <1>19 DEF Ownership

LEMMA EventsKeep ==
  ASSUME IInv, HandleEvent \/ DrainEvent
  PROVE  IInv'
<1>1. PICK from \in {"select", "drain"} : TakeEvent(from)
  BY DEF HandleEvent, DrainEvent
<1>2. /\ Ownership' /\ OwedIsTracked'
      /\ slot' \in [Devices -> Slots] /\ tasks' \subseteq Tasks /\ events' \in Seq(Reports)
  BY <1>1, TakeEventKeeps
<1>3. /\ UNCHANGED <<outside, epoch, view, todo, diverted, lost, inputs, changes>>
      /\ at' \in {"loop", "drain"}
  BY DEF HandleEvent, DrainEvent, TakeEvent, Goto
<1>4. FlagsOK'
  BY Zenon DEF IInv, TypeOK, FlagsOK, HandleEvent, DrainEvent, TakeEvent, Goto, outside,
               CallsForReconcile
<1>5. TypeOK'
  BY <1>2, <1>3, <1>4 DEF IInv, TypeOK, outside
<1>6. TodoIsOwed' /\ DrainIsQuiet'
  BY <1>3 DEF TodoIsOwed, DrainIsQuiet
<1> QED BY <1>2, <1>5, <1>6 DEF IInv

-----------------------------------------------------------------------------
(* The session tasks.                                                      *)

LEMMA ReportQueued ==
  ASSUME NEW q \in Seq(Reports), NEW r \in Reports
  PROVE  /\ Append(q, r) \in Seq(Reports)
         /\ Len(q) \in Nat /\ Len(Append(q, r)) = Len(q) + 1
         /\ Append(q, r)[Len(q) + 1] = r
         /\ \A i \in 1..Len(q) : Append(q, r)[i] = q[i]
OBVIOUS

\* A task reports its end and is gone: if its device is left diverted, the
\* report carries the token or the token is lost.
LEMMA TaskEnds ==
  ASSUME IInv, NEW t \in tasks, NEW owes \in BOOLEAN, tasks' = tasks \ {t}, slot' = slot,
         events' = Append(events, Done(t, owes)), diverted' \subseteq diverted, lost \subseteq lost',
         t.armed /\ t.device \in diverted' => owes \/ t.device \in lost'
  PROVE  Ownership' /\ OwedIsTracked' /\ events' \in Seq(Reports)
<1> DEFINE r == Done(t, owes)
           n == Len(events) + 1
<1>1. t \in Tasks /\ events \in Seq(Reports)
  BY DEF IInv, TypeOK
<1>2. /\ r \in Reports /\ r.kind = "done" /\ r.device = t.device /\ r.epoch = t.epoch
      /\ r.owes = owes
  BY <1>1, DoneFields
<1> HIDE DEF r
<1>3. /\ events' \in Seq(Reports) /\ Len(events) \in Nat /\ Len(events') = n
      /\ events'[n] = r /\ \A i \in 1..Len(events) : events'[i] = events[i]
  BY <1>1, <1>2, ReportQueued DEF r
<1>4. \A i \in 1..Len(events') : i \in 1..Len(events) \/ i = n
  BY <1>3
<1>5. n \in 1..Len(events') /\ \A i \in 1..Len(events) : i \in 1..Len(events') /\ ~(i > n) /\ n > i
  BY <1>3
<1>6. TasksAreTracked' /\ OneTaskEach'
  BY DEF IInv, Ownership, TasksAreTracked, OneTaskEach
<1>7. \A u \in tasks' : u.device # t.device
  BY DEF IInv, Ownership, OneTaskEach
<1>8. DoneIsLast'
  <2>1. ASSUME NEW i \in 1..Len(events'), events'[i].kind = "done"
        PROVE  /\ \A u \in tasks' : u.device # events'[i].device
               /\ \A k \in 1..Len(events') : k > i => events'[k].device # events'[i].device
    <3>1. CASE i = n
      <4>1. \A k \in 1..Len(events') : ~(k > n)
        BY <1>3
      <4> QED BY <1>2, <1>3, <1>7, <3>1, <4>1
    <3>2. CASE i \in 1..Len(events)
      <4>1. /\ events[i].kind = "done" /\ events'[i] = events[i]
            /\ \A u \in tasks : u.device # events[i].device
            /\ \A k \in 1..Len(events) : k > i => events[k].device # events[i].device
        BY <1>3, <2>1, <3>2 DEF IInv, Ownership, DoneIsLast
      <4>2. ASSUME NEW k \in 1..Len(events'), k > i
            PROVE  events'[k].device # events'[i].device
        <5>1. CASE k = n
          BY <1>2, <1>3, <4>1, <5>1
        <5>2. CASE k \in 1..Len(events)
          BY <1>3, <4>1, <4>2, <5>2
        <5> QED BY <1>4, <5>1, <5>2
      <4> QED BY <4>1, <4>2
    <3> QED BY <1>4, <3>1, <3>2
  <2> QED BY <2>1 DEF DoneIsLast
<1>9. ReportsAreOwned'
  <2>1. Running(slot[t.device]) /\ slot[t.device].epoch = t.epoch
    BY DEF IInv, Ownership, TasksAreTracked
  <2>2. ASSUME NEW i \in 1..Len(events')
        PROVE  Running(slot[events'[i].device]) /\ slot[events'[i].device].epoch = events'[i].epoch
    <3>1. CASE i = n
      BY <1>2, <1>3, <2>1, <3>1
    <3>2. CASE i \in 1..Len(events)
      BY <1>3, <3>2 DEF IInv, Ownership, ReportsAreOwned
    <3> QED BY <1>4, <3>1, <3>2
  <2> QED BY <2>2 DEF ReportsAreOwned
<1>10. OwedIsTracked'
  <2> SUFFICES ASSUME NEW d \in diverted'
               PROVE  \/ \E u \in tasks' : u.device = d /\ u.armed
                      \/ \E i \in 1..Len(events') : events'[i].device = d /\ events'[i].kind = "done"
                                                   /\ events'[i].owes
                      \/ slot[d].restore # "none"
                      \/ d \in lost'
    BY DEF OwedIsTracked
  <2>1. CASE \E u \in tasks : u.device = d /\ u.armed
    <3>1. PICK u \in tasks : u.device = d /\ u.armed
      BY <2>1
    <3>2. CASE u = t
      <4>1. owes \/ d \in lost'
        BY <3>1, <3>2
      <4>2. CASE owes
        BY <1>2, <1>3, <1>5, <3>1, <3>2, <4>2
      <4> QED BY <4>1, <4>2
    <3>3. CASE u # t
      BY <3>1, <3>3
    <3> QED BY <3>2, <3>3
  <2>2. CASE \E i \in 1..Len(events) : events[i].device = d /\ events[i].kind = "done"
                                       /\ events[i].owes
    <3>1. PICK i \in 1..Len(events) : events[i].device = d /\ events[i].kind = "done"
                                       /\ events[i].owes
      BY <2>2
    <3> QED BY <1>3, <1>5, <3>1
  <2> QED BY <2>1, <2>2 DEF IInv, OwedIsTracked
<1> QED BY <1>3, <1>6, <1>8, <1>9, <1>10 DEF Ownership

LEMMA ManagerAsBefore ==
  ASSUME IInv, UNCHANGED manager
  PROVE  TodoIsOwed' /\ DrainIsQuiet'
BY DEF IInv, manager, TodoIsOwed, DrainIsQuiet, AnyRunning, Pending

LEMMA EndsKeep ==
  ASSUME IInv, NEW t \in tasks,
         ArmFails(t) \/ EndRestored(t) \/ \E owes \in BOOLEAN : EndDiverted(t, owes)
  PROVE  IInv'
<1>1. /\ UNCHANGED <<outside, manager, inputs>> /\ tasks' = tasks \ {t} /\ slot' = slot
  BY DEF ArmFails, EndRestored, EndDiverted, manager
<1>2. changes' \in 0..MaxChanges
  <2>1. changes' = changes \/ Change
    BY Zenon DEF ArmFails, EndRestored, EndDiverted
  <2> QED BY <2>1 DEF IInv, TypeOK, Change
<1>3. /\ Ownership' /\ OwedIsTracked' /\ events' \in Seq(Reports)
      /\ diverted' \subseteq diverted /\ lost' \subseteq lost \cup {t.device}
  <2>1. CASE ArmFails(t)
    <3>1. /\ events' = Append(events, Done(t, FALSE)) /\ diverted' = diverted /\ lost' = lost
          /\ ~t.armed
      BY <2>1 DEF ArmFails
    <3> QED BY <1>1, <3>1, TaskEnds
  <2>2. CASE EndRestored(t)
    <3>1. /\ events' = Append(events, Done(t, FALSE)) /\ diverted' = diverted \ {t.device}
          /\ lost' = lost
      BY <2>2 DEF EndRestored
    <3>2. diverted' \subseteq diverted /\ t.device \notin diverted' /\ lost \subseteq lost'
      BY <3>1
    <3> QED BY <1>1, <3>1, <3>2, TaskEnds
  <2>3. ASSUME NEW owes \in BOOLEAN, EndDiverted(t, owes)
        PROVE  /\ Ownership' /\ OwedIsTracked' /\ events' \in Seq(Reports)
               /\ diverted' \subseteq diverted /\ lost' \subseteq lost \cup {t.device}
    <3>1. /\ events' = Append(events, Done(t, owes)) /\ diverted' = diverted
          /\ lost' = IF owes THEN lost ELSE lost \cup {t.device}
      BY <2>3 DEF EndDiverted
    <3>2. /\ lost \subseteq lost'
          /\ (owes \/ t.device \in lost')
          /\ lost' \subseteq lost \cup {t.device}
      BY <3>1
    <3> QED BY <1>1, <3>1, <3>2, TaskEnds
  <2> QED BY <2>1, <2>2, <2>3
<1>4. FlagsOK'
  BY <1>1, Zenon DEF IInv, TypeOK, FlagsOK, outside, manager
<1>5. t.device \in Devices
  BY DEF IInv, TypeOK, Tasks
<1>6. TypeOK'
  BY <1>1, <1>2, <1>3, <1>4, <1>5 DEF IInv, TypeOK, outside, manager
<1> QED BY <1>1, <1>3, <1>6, ManagerAsBefore DEF IInv

LEMMA CaptureKeeps ==
  ASSUME IInv, NEW t \in tasks, Capture(t)
  PROVE  IInv'
<1> DEFINE r == [kind |-> "input", device |-> t.device, epoch |-> t.epoch]
           n == Len(events) + 1
<1>1. /\ UNCHANGED <<outside, manager, tasks, diverted, lost, changes>> /\ slot' = slot
      /\ events' = Append(events, r) /\ inputs < MaxInputs /\ inputs' = inputs + 1
  BY DEF Capture, manager
<1>2. t \in Tasks /\ events \in Seq(Reports)
  BY DEF IInv, TypeOK
<1>3. r \in Reports /\ r.kind = "input" /\ r.device = t.device /\ r.epoch = t.epoch
  BY <1>2 DEF Tasks, Reports
<1> HIDE DEF r
<1>4. /\ events' \in Seq(Reports) /\ Len(events) \in Nat /\ Len(events') = n
      /\ events'[n] = r /\ \A i \in 1..Len(events) : events'[i] = events[i]
  BY <1>1, <1>2, <1>3, ReportQueued
<1>5. /\ \A i \in 1..Len(events') : i \in 1..Len(events) \/ i = n
      /\ \A i \in 1..Len(events) : i \in 1..Len(events')
  BY <1>4
<1>6. Running(slot[t.device]) /\ slot[t.device].epoch = t.epoch
  BY DEF IInv, Ownership, TasksAreTracked
<1>7. TasksAreTracked' /\ OneTaskEach'
  BY <1>1 DEF IInv, Ownership, TasksAreTracked, OneTaskEach
<1>8. DoneIsLast'
  <2>1. ASSUME NEW i \in 1..Len(events'), events'[i].kind = "done"
        PROVE  /\ \A u \in tasks' : u.device # events'[i].device
               /\ \A k \in 1..Len(events') : k > i => events'[k].device # events'[i].device
    <3>1. i \in 1..Len(events)
      BY <1>3, <1>4, <1>5, <2>1
    <3>2. /\ events'[i] = events[i]
          /\ \A u \in tasks : u.device # events[i].device
          /\ \A k \in 1..Len(events) : k > i => events[k].device # events[i].device
      BY <1>4, <2>1, <3>1 DEF IInv, Ownership, DoneIsLast
    <3>3. t.device # events[i].device
      BY <3>2
    <3> QED BY <1>1, <1>3, <1>4, <1>5, <3>2, <3>3
  <2> QED BY <2>1 DEF DoneIsLast
<1>9. ReportsAreOwned'
  BY <1>1, <1>3, <1>4, <1>5, <1>6 DEF IInv, Ownership, ReportsAreOwned
<1>10. OwedIsTracked'
  BY <1>1, <1>4, <1>5 DEF IInv, OwedIsTracked
<1>11. FlagsOK'
  BY <1>1, Zenon DEF IInv, TypeOK, FlagsOK, outside, manager
<1>12. TypeOK'
  BY <1>1, <1>4, <1>11 DEF IInv, TypeOK, outside, manager
<1> QED BY <1>1, <1>7, <1>8, <1>9, <1>10, <1>12, ManagerAsBefore DEF IInv, Ownership

LEMMA ArmKeeps ==
  ASSUME IInv, NEW t \in tasks, Arm(t)
  PROVE  IInv'
<1> DEFINE u == [t EXCEPT !.armed = TRUE]
<1>1. /\ UNCHANGED <<outside, manager, events, inputs, changes>> /\ slot' = slot
      /\ tasks' = (tasks \ {t}) \cup {u}
      /\ diverted' = diverted \cup {t.device} /\ lost' = lost \ {t.device}
  BY DEF Arm, manager
<1>2. t \in Tasks
  BY DEF IInv, TypeOK
<1>3. u \in Tasks /\ u.device = t.device /\ u.epoch = t.epoch /\ u.armed = TRUE
  BY <1>2 DEF Tasks
<1> HIDE DEF u
<1>4. \A w \in tasks' : w = u \/ (w \in tasks /\ w # t)
  BY <1>1
<1>5. u \in tasks' /\ \A w \in tasks : w # t => w \in tasks'
  BY <1>1
<1>6. TasksAreTracked'
  BY <1>1, <1>3, <1>4 DEF IInv, Ownership, TasksAreTracked
<1>7. OneTaskEach'
  BY <1>3, <1>4 DEF IInv, Ownership, OneTaskEach
<1>8. DoneIsLast' /\ ReportsAreOwned'
  BY <1>1, <1>3, <1>4 DEF IInv, Ownership, DoneIsLast, ReportsAreOwned
<1>9. OwedIsTracked'
  <2>1. ASSUME NEW d \in diverted', d # t.device
        PROVE  \/ \E w \in tasks' : w.device = d /\ w.armed
               \/ \E i \in 1..Len(events) : events[i].device = d /\ events[i].kind = "done"
                                           /\ events[i].owes
               \/ slot[d].restore # "none"
               \/ d \in lost'
    <3>1. d \in diverted /\ (d \in lost => d \in lost')
      BY <1>1, <2>1
    <3>2. \A w \in tasks : w.device = d => w \in tasks'
      BY <1>5, <2>1
    <3> QED BY <3>1, <3>2 DEF IInv, OwedIsTracked
  <2> QED BY <1>1, <1>3, <1>5, <2>1 DEF OwedIsTracked
<1>10. FlagsOK'
  BY <1>1, Zenon DEF IInv, TypeOK, FlagsOK, outside, manager
<1>11. t.device \in Devices
  BY <1>2 DEF Tasks
<1>12. TypeOK'
  BY <1>1, <1>3, <1>10, <1>11 DEF IInv, TypeOK, outside, manager
<1> QED BY <1>1, <1>6, <1>7, <1>8, <1>9, <1>12, ManagerAsBefore DEF IInv, Ownership

-----------------------------------------------------------------------------
(* The inductive invariant.                                                *)

LEMMA InitEstablishes == Init => IInv
<1> SUFFICES ASSUME Init PROVE IInv
  OBVIOUS
<1>1. /\ tasks = {} /\ events = <<>> /\ diverted = {} /\ at = "loop"
  BY DEF Init
<1>2. slot \in [Devices -> Slots]
  BY EmptySlotFields DEF Init
<1>3. FlagsOK
  BY Zenon DEF Init, FlagsOK
<1>4. TypeOK
  BY <1>1, <1>2, <1>3 DEF Init, TypeOK, NoView
<1>5. Ownership /\ OwedIsTracked
  BY <1>1 DEF Ownership, TasksAreTracked, OneTaskEach, DoneIsLast, ReportsAreOwned, OwedIsTracked
<1>6. TodoIsOwed /\ DrainIsQuiet
  BY <1>1 DEF TodoIsOwed, DrainIsQuiet
<1> QED BY <1>4, <1>5, <1>6 DEF IInv

LEMMA NextKeeps == IInv /\ [Next]_vars => IInv'
<1> SUFFICES ASSUME IInv, [Next]_vars PROVE IInv'
  OBVIOUS
<1>1. CASE Manager
  <2>1. ASSUME NEW i \in 1..5, SelectNews(i) PROVE IInv'
    BY <2>1, SelectNewsKeeps
  <2>2. ASSUME NEW d \in Devices, NEW ok \in BOOLEAN, RetryRestore(d, ok) PROVE IInv'
    BY <2>2, RetryRestoreKeeps
  <2>3. ASSUME NEW d \in Devices, NEW ok \in BOOLEAN, DrainRestore(d, ok) PROVE IInv'
    BY <2>3, DrainRestoreKeeps
  <2>4. CASE Reconcile \/ SpawnSessions \/ CheckDeadline
    BY <2>4, ReconcileKeeps, SpawnSessionsKeeps, CheckDeadlineKeeps
  <2>5. CASE HandleEvent \/ DrainEvent
    BY <2>5, EventsKeep
  <2>6. CASE StartDrain \/ Drained \/ DrainRetry
    BY <2>6, StartDrainKeeps, DrainedKeeps, DrainRetryKeeps
  <2> QED BY <1>1, <2>1, <2>2, <2>3, <2>4, <2>5, <2>6 DEF Manager
<1>2. CASE Outside
  <2>1. ASSUME NEW d \in Devices, NEW which \in {"restore", "restart"}, Elapse(d, which)
        PROVE  IInv'
    BY <2>1, ElapseKeeps
  <2> QED BY <1>2, <2>1, OutsideKeeps DEF Outside
<1>3. ASSUME NEW t \in tasks, Session(t) PROVE IInv'
  BY <1>3, ArmKeeps, CaptureKeeps, EndsKeep DEF Session
<1>4. CASE UNCHANGED vars
  <2>1. UNCHANGED <<manager, sessions>>
    BY <1>4 DEF vars, manager, sessions
  <2>2. Ownership' /\ OwedIsTracked' /\ TodoIsOwed' /\ DrainIsQuiet'
    BY <2>1, ManagerUntouched
  <2>3. FlagsOK'
    BY <1>4, Zenon DEF IInv, TypeOK, FlagsOK, vars, outside, manager
  <2>4. TypeOK'
    BY <1>4, <2>3 DEF IInv, TypeOK, vars, outside, manager, sessions
  <2> QED BY <2>2, <2>4 DEF IInv
<1> QED BY <1>1, <1>2, <1>3, <1>4 DEF Next

LEMMA IInvHolds == Spec => []IInv
BY InitEstablishes, NextKeeps, PTL DEF Spec

-----------------------------------------------------------------------------
(* The results.                                                            *)

\* Every variable keeps its type; a slot is kept only while it has a session or
\* something to recover.
THEOREM TypeCorrect == Spec => []TypeOK
<1>1. IInv => TypeOK
  BY DEF IInv
<1> QED BY <1>1, IInvHolds, PTL

\* For any number of devices: two sessions of a device never live together, and
\* none lives while an earlier one still owes a restore.
THEOREM OneOwner == Spec => []SoleOwner
<1>1. IInv => SoleOwner
  <2> SUFFICES ASSUME IInv, NEW t \in tasks
               PROVE  /\ \A u \in tasks : u.device = t.device => u = t
                      /\ slot[t.device].restore = "none"
                      /\ \A i \in 1..Len(events) :
                           events[i].kind = "done" => events[i].device # t.device
    BY DEF SoleOwner
  <2>1. slot[t.device] \in Slots /\ Running(slot[t.device])
    BY DEF IInv, TypeOK, Tasks, Ownership, TasksAreTracked
  <2>2. slot[t.device].restore = "none"
    BY <2>1, SlotFields
  <2> QED BY <2>2 DEF IInv, Ownership, OneTaskEach, DoneIsLast
<1> QED BY <1>1, IInvHolds, PTL

\* Every queued input and completion belongs to the epoch its slot still tracks.
THEOREM ReportsOwned == Spec => []ReportsAreOwned
<1>1. IInv => ReportsAreOwned
  BY DEF IInv, Ownership
<1> QED BY <1>1, IInvHolds, PTL

\* A device that is still diverted has a live session, a restore token under way
\* or in its slot, or a session that died with its token.
THEOREM OwedTracked == Spec => []OwedIsTracked
<1>1. IInv => OwedIsTracked
  BY DEF IInv
<1> QED BY <1>1, IInvHolds, PTL

\* When the drain is over no session lives, no report is queued and every
\* control is native but for those whose token died.
THEOREM StopIsNative == Spec => []GracefulStopIsNative
<1>1. IInv => GracefulStopIsNative
  <2> SUFFICES ASSUME IInv, at = "done"
               PROVE  tasks = {} /\ events = <<>> /\ diverted \subseteq lost
    BY DEF GracefulStopIsNative
  <2>1. \A d \in Devices : ~Running(slot[d]) /\ slot[d].restore = "none"
    BY DEF IInv, DrainIsQuiet, AnyRunning, Pending
  <2>2. tasks = {}
    BY <2>1 DEF IInv, TypeOK, Tasks, Ownership, TasksAreTracked
  <2>3. events = <<>>
    <3>1. events \in Seq(Reports)
      BY DEF IInv, TypeOK
    <3>2. \A i \in 1..Len(events) : events[i].device \in Devices
      BY <3>1 DEF Reports
    <3>3. \A i \in 1..Len(events) : FALSE
      BY <2>1, <3>2 DEF IInv, Ownership, ReportsAreOwned
    <3> QED BY <3>1, <3>3
  <2>4. diverted \subseteq lost
    BY <2>1, <2>2, <2>3 DEF IInv, TypeOK, OwedIsTracked
  <2> QED BY <2>2, <2>3, <2>4
<1> QED BY <1>1, IInvHolds, PTL

\* Only the manager takes a report off the queue.
LEMMA OnlyTakeEventTakes ==
  ASSUME IInv, Next, events # <<>>, events' = Tail(events)
  PROVE  TakeEvent("select") \/ TakeEvent("drain")
<1>1. events \in Seq(Reports) /\ tasks \subseteq Tasks
  BY DEF IInv, TypeOK
<1>2. Len(events) \in Nat /\ Len(events') = Len(events) - 1
  BY <1>1
<1>3. events' # events
  <2> SUFFICES ASSUME events' = events PROVE FALSE
    OBVIOUS
  <2>1. Len(events) = Len(events) - 1
    BY <1>2, Zenon
  <2> QED BY <1>2, <2>1
<1>4. ASSUME NEW r \in Reports, events' = Append(events, r) PROVE FALSE
  <2>1. Len(events') = Len(events) + 1
    BY <1>1, <1>4, ReportQueued
  <2> QED BY <1>2, <2>1
<1>5. ASSUME NEW t \in tasks, Session(t) PROVE FALSE
  <2>1. t \in Tasks
    BY <1>1
  <2>2. ASSUME NEW owes \in BOOLEAN, events' = Append(events, Done(t, owes)) PROVE FALSE
    BY <1>4, <2>1, <2>2, DoneFields
  <2>3. [kind |-> "input", device |-> t.device, epoch |-> t.epoch] \in Reports
    BY <2>1 DEF Tasks, Reports
  <2>4. ~Capture(t)
    BY <1>4, <2>3 DEF Capture
  <2>5. ~Arm(t)
    BY <1>3 DEF Arm
  <2>6. ~ArmFails(t) /\ ~EndRestored(t)
    BY <2>2 DEF ArmFails, EndRestored
  <2>7. ~\E owes \in BOOLEAN : EndDiverted(t, owes)
    BY <2>2 DEF EndDiverted
  <2> QED BY <1>5, <2>4, <2>5, <2>6, <2>7 DEF Session
<1>6. ~Outside
  BY <1>3 DEF Outside, Announce, Grant, Withdraw, Publish, PauseIo, ResumeIo, ReplaceChannels,
              RequestStop, Elapse, sessions
<1>7. Manager
  BY <1>5, <1>6 DEF Next
<1>8. ~Reconcile /\ ~SpawnSessions /\ ~CheckDeadline /\ ~StartDrain /\ ~Drained /\ ~DrainRetry
  BY <1>3 DEF Reconcile, SpawnSessions, CheckDeadline, StartDrain, Drained, DrainRetry, sessions
<1>9. ASSUME NEW d, NEW ok, RetryRestore(d, ok) \/ DrainRestore(d, ok) PROVE FALSE
  BY <1>3, <1>9 DEF RetryRestore, DrainRestore
<1>10. ASSUME NEW i, SelectNews(i) PROVE FALSE
  BY <1>3, <1>10 DEF SelectNews, sessions
<1> QED BY <1>7, <1>8, <1>9, <1>10 DEF Manager, HandleEvent, DrainEvent

\* Once an input is taken, its session dispatches by the plan published last and
\* under no exclusive request, or is retiring.
THEOREM DispatchIsFresh == Spec => FreshDispatch
<1> DEFINE A == (io /\ events # <<>> /\ events' = Tail(events) /\ Head(events).kind = "input") =>
                LET d == Head(events).device
                IN  slot'[d].at = "active" => slot'[d].plan = plan[d] /\ ~Requested
<1>1. ASSUME IInv, Next, io, events # <<>>, events' = Tail(events), Head(events).kind = "input",
             NEW d, d = Head(events).device, slot'[d].at = "active"
      PROVE  slot'[d].plan = plan[d] /\ ~Requested
  <2>1. PICK from \in {"select", "drain"} : TakeEvent(from)
    BY <1>1, OnlyTakeEventTakes
  <2>2. slot' = [slot EXCEPT ![d] = IF io /\ Running(slot[d]) THEN Reconciled(slot[d], Wanted(d))
                                    ELSE slot[d]]
    BY <1>1, <2>1 DEF TakeEvent, Handled
  <2>3. events \in Seq(Reports) /\ Head(events) = events[1] /\ 1 \in 1..Len(events)
        /\ Head(events) \in Reports
    BY <1>1 DEF IInv, TypeOK
  <2>4. d \in Devices
    BY <1>1, <2>3 DEF Reports
  <2>5. slot \in [Devices -> Slots] /\ slot[d] \in Slots /\ Wanted(d) \in Plans \cup {NoPlan}
    BY <1>1, <2>4, WantedType DEF IInv, TypeOK
  <2>6. Running(slot[d])
    BY <1>1, <2>3 DEF IInv, Ownership, ReportsAreOwned
  <2>7. slot'[d] = Reconciled(slot[d], Wanted(d))
    BY <1>1, <2>2, <2>4, <2>5, <2>6
  <2>8. Wanted(d) # NoPlan /\ slot'[d].plan = Wanted(d)
    BY <1>1, <2>5, <2>7, ReconciledFields
  <2> QED BY <2>8 DEF Wanted
<1>2. IInv /\ [Next]_vars => [A]_vars
  BY <1>1
<1> QED BY <1>2, IInvHolds, PTL DEF Spec, FreshDispatch
=============================================================================
