----------------------------- MODULE DisableKeys -----------------------------
(***************************************************************************)
(* Confirmed-policy write ordering of the Disable Keys setting of one      *)
(* keyboard: hardware/write_order.rs (the intents), hardware/              *)
(* disable_keys.rs (the owned writes) and the recovery ladder that         *)
(* orchestrator.rs runs on inventory passes, all of openlogi-agent-core.   *)
(*                                                                         *)
(* A client's request (set_disable_keys) is a pending intent: it outranks  *)
(* the saved policy until it is confirmed or abandoned.  Its write runs in *)
(* a worker that keeps its turn through the native write even when the     *)
(* requester is gone.  An abandoned request may have reached the keyboard, *)
(* so it asks for a recovery, which the next inventory passes turn into a  *)
(* bounded run of writes of the accepted choice.                           *)
(*                                                                         *)
(* Routes have separate queues, so one is modelled.  The reserved turns    *)
(* are a FIFO here; how the counters implement one is module ReservedTurns.*)
(* The keyboard stays connected and enabled; its answers may be errors.    *)
(***************************************************************************)
EXTENDS Integers, Sequences, SequencesExt, FiniteSets, FiniteSetsExt

CONSTANTS
  Masks,        \* the sets of keys a request or the config may disable
  Unset,        \* Option::None as a setting: nothing saved for this keyboard
  Absent,       \* no intent at all
  Jobs,         \* workers that can be alive at once (bound)
  MaxNumber,    \* how many intents are numbered (bound)
  Retries       \* VOLATILE_REAPPLY_CONFIRM_RETRIES

ASSUME DisableKeysAssumption ==
  /\ Unset \notin Masks /\ Absent \notin Masks /\ Unset # Absent
  /\ MaxNumber \in Nat /\ Retries \in Nat \ {0}

VARIABLES
  st,         \* State<T>: next, committed, policy, pending, recovery
  job,        \* the workers and the completions they hand over
  order,      \* reserved turns not finished, oldest first
  device,     \* the keys the keyboard has disabled
  saved,      \* the mask in the config file
  budget,     \* disabled_keys_recovery[keyboard]; 0 when it has no entry
  failed,     \* history: the last write of the accepted choice met an error
  overlapped  \* history: a request was made while another awaited its answer

vars == <<st, job, order, device, saved, budget, failed, overlapped>>

Settings == Masks \cup {Unset}
NoIntent == [number |-> 0, value |-> Absent]
Intents  == [number : 0..MaxNumber, value : Settings] \cup {NoIntent}

FreeJob == [at |-> "free", number |-> 0, value |-> Absent, requester |-> "none"]

Init ==
  /\ st = [next |-> 0, committed |-> NoIntent, policy |-> NoIntent,
           pending |-> {}, recovery |-> "none"]
  /\ job = [j \in Jobs |-> FreeJob]
  /\ order = <<>>
  /\ device \in Masks
  /\ saved \in Settings
  /\ budget = 0
  /\ failed = FALSE /\ overlapped = FALSE

-----------------------------------------------------------------------------
(* The intents: State and PendingWrite, as functions of the state s.       *)

Latest(s) == Max(s.pending \cup {s.committed.number})

IsCurrent(n) == Latest(st) = n

\* A new intent of a client, pending until it is confirmed or dropped.
Begun(s) == [s EXCEPT !.next = @ + 1, !.pending = @ \cup {s.next + 1}]

\* Mutant: no recovery is asked for.
DroppedSilently(s, n) == [s EXCEPT !.pending = @ \ {n}]

\* Drop for PendingWrite n: ask for a recovery unless something as new was
\* accepted.
Dropped(s, n) ==
  [s EXCEPT !.pending = @ \ {n},
            !.recovery = IF s.committed.number < n THEN "requested" ELSE @]

\* Mutant: a superseded request is never removed from the pending ones.
ConfirmedLeaks(s, n, v) ==
  IF Latest(s) = n
  THEN Dropped([s EXCEPT !.committed = [number |-> n, value |-> v],
                         !.recovery = "none"], n)
  ELSE s

\* PendingWrite::confirm, and the drop that ends it.
Confirmed(s, n, v) ==
  IF Latest(s) = n
  THEN Dropped([s EXCEPT !.committed = [number |-> n, value |-> v],
                         !.recovery = "none"], n)
  ELSE Dropped(s, n)

\* sync_policy acknowledges a confirmed request, ignores an unchanged policy,
\* publishes the first policy as older than any request, and publishes a
\* changed one as the newest intent.
Publishes(s, v) == s.committed.value # v /\ s.policy.value # v

Synced(s, v) ==
  CASE s.committed.value = v -> [s EXCEPT !.policy = s.committed]
    [] s.committed.value # v /\ ~Publishes(s, v) -> s
    [] Publishes(s, v) /\ s.policy = NoIntent ->
         LET baseline == [number |-> 0, value |-> v]
         IN  [s EXCEPT !.policy = baseline,
                       !.committed = IF @ = NoIntent THEN baseline ELSE @]
    [] OTHER ->
         LET intent == [number |-> s.next + 1, value |-> v]
         IN  [s EXCEPT !.next = @ + 1, !.policy = intent,
                       !.committed = intent, !.recovery = "none"]

\* schedule_recovery: only once no request is pending.
RecoveryDue(s) == s.pending = {} /\ s.recovery = "requested"

\* Mutant: a recovery is scheduled for good.
RecoveryStays(s, remaining) == s

\* finish_recovery, after the last attempt.
FinishRecovery(s, remaining) ==
  IF remaining = 0 /\ s.recovery = "scheduled"
  THEN [s EXCEPT !.recovery = "none"]
  ELSE s

\* policy(): the saved policy, or what was accepted while a recovery runs.
PolicyOf(s) == IF s.recovery = "scheduled" THEN s.committed ELSE s.policy

-----------------------------------------------------------------------------
(* The workers: spawn_disable_keys, run_disable_keys.                      *)

Spawn(j, n, v, who) ==
  /\ job[j].at = "free"
  /\ job' = [job EXCEPT ![j] = [at |-> "queued", number |-> n, value |-> v,
                                requester |-> who]]
  /\ order' = Append(order, j)

\* reapply_disabled_keys: another attempt at the intent in force, never a new
\* intent; nothing to write when that intent leaves the setting alone.
Reapply(intent) ==
  IF intent.value \in Masks
  THEN \E j \in Jobs : Spawn(j, intent.number, intent.value, "none")
  ELSE UNCHANGED <<job, order>>

\* Whether the client asks again before it has its answer.
NoteOverlap == overlapped' = (overlapped \/ \E j \in Jobs : job[j].requester = "waiting")

SetDisableKeys(v) ==
  /\ st.next < MaxNumber
  /\ st' = Begun(st)
  /\ \E j \in Jobs : Spawn(j, st'.next, v, "waiting")
  /\ NoteOverlap
  /\ UNCHANGED <<device, saved, budget, failed>>

\* The keyboard cannot be resolved: the request ends before it has a worker.
SetRejected ==
  /\ st.next < MaxNumber
  /\ st' = Dropped(Begun(st), st.next + 1)
  /\ NoteOverlap
  /\ UNCHANGED <<job, order, device, saved, budget, failed>>

Cancelled(j) == job[j].requester = "gone"

\* Mutant: a reserved turn need not come first.
HasAnyTurn(j) == j \in Range(order)

HasTurn(j) == order # <<>> /\ Head(order) = j

\* Mutant: a superseded worker notices only after its write.
StartUnchecked(j) ==
  /\ job[j].at = "queued" /\ HasTurn(j) /\ ~Cancelled(j)
  /\ job' = [job EXCEPT ![j].at = "writing"]
  /\ UNCHANGED <<st, order, device, saved, budget, failed, overlapped>>

\* Every checkpoint before the write passed; the report is the transport's.
StartWrite(j) ==
  /\ job[j].at = "queued" /\ HasTurn(j)
  /\ ~Cancelled(j) /\ IsCurrent(job[j].number)
  /\ job' = [job EXCEPT ![j].at = "writing"]
  /\ UNCHANGED <<st, order, device, saved, budget, failed, overlapped>>

Apply(j) ==
  /\ job[j].at = "writing"
  /\ device' = job[j].value
  /\ job' = [job EXCEPT ![j].at = "written"]
  /\ UNCHANGED <<st, order, saved, budget, failed, overlapped>>

\* run_disable_keys returns and gives up its turn.  A client's completion keeps
\* the pending intent; a background worker is done.
Return(j, result) ==
  /\ \E i \in 1..Len(order) : order[i] = j /\ order' = RemoveAt(order, i)
  /\ job' = [job EXCEPT ![j] = IF job[j].requester = "none" THEN FreeJob
                               ELSE [@ EXCEPT !.at = result]]

\* The last checkpoint passed and the readback agrees.
ReturnOk(j) ==
  /\ job[j].at = "written"
  /\ ~Cancelled(j) /\ IsCurrent(job[j].number)
  /\ Return(j, "succeeded")
  /\ failed' = FALSE
  /\ UNCHANGED <<st, device, saved, budget, overlapped>>

\* A cancelled worker leaves the wait for its turn; one that has its turn
\* stops at a checkpoint when it is cancelled or superseded.
Refused(j) ==
  /\ \/ job[j].at = "queued" /\ Cancelled(j)
     \/ /\ job[j].at \in {"queued", "written"}
        /\ HasTurn(j)
        /\ Cancelled(j) \/ ~IsCurrent(job[j].number)
  /\ Return(j, "errored")
  /\ UNCHANGED <<st, device, saved, budget, failed, overlapped>>

\* An I/O error before, in or after the write.
IoError(j) ==
  /\ job[j].at \in {"queued", "writing", "written"} /\ HasTurn(j)
  /\ Return(j, "errored")
  /\ failed' = (failed \/ job[j].requester = "none")
  /\ UNCHANGED <<st, device, saved, budget, overlapped>>

-----------------------------------------------------------------------------
(* The requester: DisableKeysJob::wait and its cancellation.               *)

Answered(j) == job[j].at \in {"succeeded", "errored"}

Accept(j) ==
  /\ job[j].requester = "waiting" /\ Answered(j)
  /\ st' = IF job[j].at = "succeeded"
           THEN Confirmed(st, job[j].number, job[j].value)
           ELSE Dropped(st, job[j].number)
  /\ job' = [job EXCEPT ![j] = FreeJob]
  /\ UNCHANGED <<order, device, saved, budget, failed, overlapped>>

\* The deadline or the client's connection ends the wait.
Cancel(j) ==
  /\ job[j].requester = "waiting"
  /\ job' = [job EXCEPT ![j].requester = "gone"]
  /\ UNCHANGED <<st, order, device, saved, budget, failed, overlapped>>

\* Nobody takes the completion: the pending intent is dropped with it.
DropCompletion(j) ==
  /\ Cancelled(j) /\ Answered(j)
  /\ st' = Dropped(st, job[j].number)
  /\ job' = [job EXCEPT ![j] = FreeJob]
  /\ UNCHANGED <<order, device, saved, budget, failed, overlapped>>

-----------------------------------------------------------------------------
(* The orchestrator: config reload and inventory passes.                   *)

\* The keyboard is in the inventory from the first pass on.
Sighted == st.policy # NoIntent

ReloadConfig(v) ==
  /\ Sighted
  /\ saved' = v
  /\ st' = Synced(st, v)
  /\ st'.next <= MaxNumber
  /\ IF Publishes(st, v) THEN Reapply(PolicyOf(st')) ELSE UNCHANGED <<job, order>>
  /\ UNCHANGED <<device, budget, failed, overlapped>>

\* One inventory pass, which may re-apply the volatile settings (the first one
\* does) and may be one that confirms settings.  A recovery is scheduled once no
\* request is pending, spends one attempt per confirming pass, and is over with
\* its last attempt.
InventoryPass(volatile, confirm) ==
  LET synced    == Synced(st, saved)
      schedule  == RecoveryDue(synced)
      scheduled == IF schedule THEN [synced EXCEPT !.recovery = "scheduled"] ELSE synced
      remaining == IF schedule THEN Max({budget, Retries}) ELSE budget
      attempt   == confirm /\ remaining > 0
  IN  /\ Sighted \/ volatile
      /\ budget' = IF attempt THEN remaining - 1 ELSE remaining
      /\ st' = FinishRecovery(scheduled, budget')
      /\ IF attempt \/ volatile
         THEN Reapply(PolicyOf(scheduled))
         ELSE UNCHANGED <<job, order>>
      /\ UNCHANGED <<device, saved, failed, overlapped>>

Next ==
  \/ \E v \in Masks : SetDisableKeys(v)
  \/ SetRejected
  \/ \E j \in Jobs :
       \/ StartWrite(j) \/ Apply(j) \/ ReturnOk(j) \/ Refused(j) \/ IoError(j)
       \/ Accept(j) \/ Cancel(j) \/ DropCompletion(j)
  \/ \E v \in Settings : ReloadConfig(v)
  \/ \E volatile, confirm \in BOOLEAN : InventoryPass(volatile, confirm)

Spec == Init /\ [][Next]_vars

(* Workers run to their end, requesters take their answer or are gone, and *)
(* confirming passes come while a recovery is due: the watcher is asked for*)
(* one by the abandoned request and again after each pass.  A pass is      *)
(* always possible in the code; here it waits for a free member of Jobs,   *)
(* hence strong fairness.                                                  *)
Fairness ==
  /\ SF_vars(\E volatile \in BOOLEAN : InventoryPass(volatile, TRUE))
  /\ \A j \in Jobs :
       /\ WF_vars(StartWrite(j) \/ Apply(j) \/ ReturnOk(j) \/ Refused(j) \/ IoError(j))
       /\ WF_vars(Accept(j) \/ DropCompletion(j))

FairSpec == Spec /\ Fairness

-----------------------------------------------------------------------------
(* Properties.                                                             *)

States ==
  [next : 0..MaxNumber, committed : Intents, policy : Intents,
   pending : SUBSET (1..MaxNumber), recovery : {"none", "requested", "scheduled"}]

Workers ==
  [at : {"free", "queued", "writing", "written", "succeeded", "errored"},
   number : 0..MaxNumber, value : Masks \cup {Absent},
   requester : {"none", "waiting", "gone"}]

\* Every variable has its type.
TypeOK ==
  /\ st \in States
  /\ job \in [Jobs -> Workers]
  /\ order \in Seq(Jobs)
  /\ device \in Masks
  /\ saved \in Settings
  /\ budget \in 0..Retries
  /\ failed \in BOOLEAN /\ overlapped \in BOOLEAN

Idle ==
  /\ order = <<>> /\ st.pending = {}
  /\ st.recovery = "none" /\ budget = 0

\* Once no write is under way and no recovery is owed, the keyboard has the keys
\* disabled that were last accepted, whatever requests failed, were cancelled or
\* were overtaken on the way; unless a write of that choice met an error.
AcceptedStays ==
  Idle /\ st.committed.value \in Masks /\ ~failed => device = st.committed.value

\* AcceptedStays for a client that waits for each answer before it asks again.
AcceptedStaysInTurn == overlapped \/ AcceptedStays

\* The pending intents are those of requests whose completion nobody has
\* consumed yet: none is leaked (it would retire the saved policy for good) and
\* none is released while its native write may still land.
PendingHasOwner ==
  st.pending = {job[j].number : j \in {i \in Jobs : job[i].requester # "none"}}

\* Workers take turns from their first checkpoint to their readback: what a
\* worker reads back is what it wrote, never the write of another one.
ReadbackIsOwn ==
  \A j \in Jobs : job[j].at = "written" => device = job[j].value

\* A retry never overwrites a newer accepted choice: a write starts only with the
\* number of the intent in force, and reconnects never create one.
NoStaleWrite ==
  [][\A j \in Jobs : job[j].at = "queued" /\ job'[j].at = "writing"
       => \/ job[j].requester # "none"
          \/ job[j].number = st.committed.number /\ job[j].value = st.committed.value]_vars

\* An abandoned request does not stay unrepaired: its recovery ends.
RecoveryCompletes == st.recovery # "none" ~> st.recovery = "none"
=============================================================================
