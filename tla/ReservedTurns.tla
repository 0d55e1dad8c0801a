---------------------------- MODULE ReservedTurns ----------------------------
(***************************************************************************)
(* Strictly ordered turns of one setting on one route: Finished, reserve,  *)
(* finish, is_turn_of and ReservedTurn of hardware/write_order.rs          *)
(* (openlogi-agent-core).  Host renames, backlight writes and Disable Keys *)
(* workers take their turn here.                                           *)
(*                                                                         *)
(* A reservation is numbered when it is made.  Dropping its last handle,   *)
(* after its I/O or because it was cancelled, finishes the number.  The    *)
(* finished numbers are kept as `through` (all up to it) and `early`.      *)
(* Waiting is the register-check-sleep loop over a tokio Notify; finish    *)
(* releases its lock before it notifies.                                   *)
(***************************************************************************)
EXTENDS Integers, FiniteSets

CONSTANT MaxTickets   \* how many reservations are made (bound)

ASSUME MaxTicketsAssumption == MaxTickets \in Nat

Tickets == 1..MaxTickets

VARIABLES
  issued, through, early,   \* Finished
  at,         \* where the future of each reservation is
  woken,      \* registered waiters that a notify_waiters has reached
  notifying   \* dropped reservations that have not called notify_waiters yet

vars == <<issued, through, early, at, woken, notifying>>

Phases == {"unissued", "reserved", "registered", "asleep", "running", "gone"}

Init ==
  /\ issued = 0 /\ through = 0 /\ early = {}
  /\ at = [n \in Tickets |-> "unissued"]
  /\ woken = {} /\ notifying = {}

Reserve ==
  /\ issued < MaxTickets
  /\ issued' = issued + 1
  /\ at' = [at EXCEPT ![issued + 1] = "reserved"]
  /\ UNCHANGED <<through, early, woken, notifying>>

\* Mutant: counts finished reservations instead of the finished prefix.
IsTurnByCount(n) == through + Cardinality(early) + 1 >= n

IsTurnOf(n) == through + 1 >= n

\* One round of ReservedTurn::wait: register, check, sleep.
Register(n) ==
  /\ at[n] = "reserved"
  /\ at' = [at EXCEPT ![n] = "registered"]
  /\ woken' = woken \ {n}
  /\ UNCHANGED <<issued, through, early, notifying>>

CheckTurn(n) ==
  /\ at[n] = "registered"
  /\ at' = [at EXCEPT ![n] = IF IsTurnOf(n) THEN "running" ELSE "asleep"]
  /\ UNCHANGED <<issued, through, early, woken, notifying>>

WakeUp(n) ==
  /\ at[n] = "asleep" /\ n \in woken
  /\ at' = [at EXCEPT ![n] = "reserved"]
  /\ UNCHANGED <<issued, through, early, woken, notifying>>

\* The first number after n that is not finished early.
NextGap(n) ==
  CHOOSE k \in (n + 1)..(MaxTickets + 1) :
    k \notin early /\ (n + 1)..(k - 1) \subseteq early

\* Mutant: the prefix does not absorb the numbers that finished early.
FinishOne(n) ==
  IF n = through + 1 THEN through' = n /\ UNCHANGED early
  ELSE early' = early \cup {n} /\ UNCHANGED through

\* Queue::finish, up to the notification.
Finish(n) ==
  IF n = through + 1
  THEN /\ through' = NextGap(n) - 1
       /\ early' = early \ (n..through')
  ELSE /\ early' = early \cup {n}
       /\ UNCHANGED through

\* Drop for ReservedTurn, where its future can be dropped or ends.
DropTurn(n) ==
  /\ at[n] \in {"reserved", "asleep", "running"}
  /\ at' = [at EXCEPT ![n] = "gone"]
  /\ Finish(n)
  /\ notifying' = notifying \cup {n}
  /\ UNCHANGED <<issued, woken>>

\* Mutant: notify_one, which may wake a reservation whose turn it is not.
NotifyOne(n) ==
  LET waiting == {k \in Tickets \ woken : at[k] \in {"registered", "asleep"}}
  IN  /\ n \in notifying
      /\ notifying' = notifying \ {n}
      /\ IF waiting = {} THEN UNCHANGED woken
         ELSE \E k \in waiting : woken' = woken \cup {k}
      /\ UNCHANGED <<issued, through, early, at>>

NotifyWaiters(n) ==
  /\ n \in notifying
  /\ notifying' = notifying \ {n}
  /\ woken' = woken \cup {k \in Tickets : at[k] \in {"registered", "asleep"}}
  /\ UNCHANGED <<issued, through, early, at>>

Done ==
  /\ \A n \in Tickets : at[n] = "gone"
  /\ notifying = {}
  /\ UNCHANGED vars

Next ==
  \/ Reserve
  \/ \E n \in Tickets : Register(n) \/ CheckTurn(n) \/ WakeUp(n)
                        \/ DropTurn(n) \/ NotifyWaiters(n)
  \/ Done

Spec == Init /\ [][Next]_vars

(* A future that is ready is polled, a notification under way is sent and  *)
(* an operation that has its turn ends.  Nobody has to cancel.             *)
Fairness ==
  \A n \in Tickets :
    /\ WF_vars(Register(n)) /\ WF_vars(CheckTurn(n)) /\ WF_vars(WakeUp(n))
    /\ WF_vars(NotifyWaiters(n))
    /\ WF_vars(at[n] = "running" /\ DropTurn(n))

FairSpec == Spec /\ Fairness

-----------------------------------------------------------------------------
(* Properties.                                                             *)

Gone == {n \in Tickets : at[n] = "gone"}

\* Every variable has its type.
TypeOK ==
  /\ issued \in 0..MaxTickets
  /\ through \in Nat
  /\ early \subseteq Tickets
  /\ at \in [Tickets -> Phases]
  /\ woken \subseteq Tickets
  /\ notifying \subseteq Tickets

\* The compressed form of the finished numbers is exact: `through` and `early`
\* describe the dropped reservations and nothing else, and the prefix is
\* maximal, whatever order the drops come in.
FinishedIsExact ==
  /\ Gone = (1..through) \cup early
  /\ \A n \in early : n > through + 1

\* A reservation runs only after every earlier one is gone, so two never run at
\* once and none overtakes.
StrictOrder ==
  \A n \in Tickets : at[n] = "running" => \A m \in 1..(n - 1) : at[m] = "gone"

\* The line as its users see it: a reservation waits from reserve to the check
\* that finds it first, and is served until its last handle is dropped.
Line == INSTANCE OrderedTurns WITH
  Turns   <- Tickets,
  taken   <- issued,
  waiting <- {n \in Tickets : at[n] \in {"reserved", "registered", "asleep"}},
  served  <- {n \in Tickets : at[n] = "running"}

\* The counters and the notifications implement a first-come-first-served line,
\* and one that moves: no notification is lost between the check and the sleep,
\* and cancelled predecessors block nobody.
ImplementsLine == Line!FairSpec
=============================================================================
