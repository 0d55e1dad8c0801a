------------------------ MODULE ReservedTurnsProofs ------------------------
(***************************************************************************)
(* Proofs about ReservedTurns, for every number of reservations.           *)
(***************************************************************************)
EXTENDS ReservedTurns, NaturalsInduction, WellFoundedInduction, TLAPS

USE MaxTicketsAssumption

\* A number is issued exactly if it is not above `issued`.
IssuedInOrder == \A n \in Tickets : at[n] = "unissued" <=> n > issued

\* The inductive invariant: the two properties, with the types and the order of
\* issue that they need.
IInv == TypeOK /\ FinishedIsExact /\ StrictOrder /\ IssuedInOrder

\* The loop in finish ends: past n there is a first number that is not in early.
LEMMA NextGapExists ==
  ASSUME TypeOK, NEW n \in Tickets
  PROVE  /\ NextGap(n) \in (n + 1)..(MaxTickets + 1)
         /\ NextGap(n) \notin early
         /\ (n + 1)..(NextGap(n) - 1) \subseteq early
<1> DEFINE T == {k \in Nat : k > n /\ k \notin early}
<1>1. MaxTickets + 1 \in T
  BY DEF TypeOK, Tickets
<1>2. \E x \in T : \A y \in T : ~(<<y, x>> \in OpToRel(<, Nat))
  <2> HIDE DEF T
  <2>1. T \subseteq Nat BY DEF T
  <2> QED BY <1>1, <2>1, WFMin, NatLessThanWellFounded
<1>3. PICK x \in T : \A y \in T : ~(y < x)
  BY <1>2 DEF OpToRel
<1>4. /\ x \in (n + 1)..(MaxTickets + 1) /\ x \notin early
      /\ (n + 1)..(x - 1) \subseteq early
  BY <1>1, <1>3 DEF Tickets
<1> QED BY <1>4 DEF NextGap

\* Nothing is issued at first.
LEMMA InitIInv == Init => IInv
BY DEF Init, IInv, TypeOK, FinishedIsExact, StrictOrder, IssuedInOrder, Tickets, Phases, Gone

\* The running reservation is the one right after the finished prefix.
LEMMA RunningIsNext ==
  ASSUME IInv, NEW n \in Tickets, at[n] # "gone", IsTurnOf(n)
  PROVE  n = through + 1 /\ \A m \in 1..(n - 1) : at[m] = "gone"
BY DEF IInv, TypeOK, FinishedIsExact, IsTurnOf, Gone, Tickets

\* Counting a dropped number keeps the compressed form exact.
LEMMA FinishKeepsExact ==
  ASSUME IInv, NEW n \in Tickets, DropTurn(n)
  PROVE  FinishedIsExact' /\ through' \in Nat /\ early' \subseteq Tickets
<1>1. Gone' = Gone \cup {n} /\ at[n] # "gone"
  BY DEF DropTurn, Gone, IInv, TypeOK
<1>2. /\ Gone = (1..through) \cup early
      /\ \A m \in early : m > through + 1
      /\ through \in Nat /\ early \subseteq Tickets
      /\ n > through
  BY <1>1 DEF IInv, TypeOK, FinishedIsExact, Gone, Tickets
<1>3. CASE n = through + 1
  <2>1. through' = NextGap(n) - 1 /\ early' = early \ (n..through')
    BY <1>3 DEF DropTurn, Finish
  <2>2. /\ NextGap(n) \in (n + 1)..(MaxTickets + 1)
        /\ NextGap(n) \notin early
        /\ (n + 1)..(NextGap(n) - 1) \subseteq early
    BY NextGapExists DEF IInv
  <2>3. through' \in Nat /\ through' >= n /\ (n + 1)..through' \subseteq early
    BY <2>1, <2>2 DEF Tickets
  <2>4. Gone' = (1..through') \cup early'
    BY <1>1, <1>2, <1>3, <2>1, <2>3 DEF Tickets
  <2>5. \A m \in early' : m > through' + 1
    BY <1>2, <1>3, <2>1, <2>2, <2>3 DEF Tickets
  <2> QED BY <1>2, <2>1, <2>3, <2>4, <2>5 DEF FinishedIsExact
<1>4. CASE n # through + 1
  <2>1. through' = through /\ early' = early \cup {n}
    BY <1>4 DEF DropTurn, Finish
  <2> QED BY <1>1, <1>2, <1>4, <2>1 DEF FinishedIsExact, Tickets
<1> QED BY <1>3, <1>4

\* Every step of reserve, wait, finish and the notification keeps it.
LEMMA NextIInv == IInv /\ [Next]_vars => IInv'
<1> SUFFICES ASSUME IInv, [Next]_vars PROVE IInv'
  OBVIOUS
<1>0. TypeOK /\ FinishedIsExact /\ StrictOrder /\ IssuedInOrder
  BY DEF IInv
<1>1. CASE Reserve
  <2>1. issued + 1 \in Tickets /\ at[issued + 1] = "unissued" /\ issued \in Nat
    BY <1>0, <1>1 DEF Reserve, TypeOK, IssuedInOrder, Tickets
  <2>2. TypeOK'
    BY <1>0, <1>1, <2>1 DEF Reserve, TypeOK, Phases
  <2>3. FinishedIsExact'
    BY <1>0, <1>1, <2>1 DEF Reserve, TypeOK, FinishedIsExact, Gone
  <2>4. StrictOrder'
    BY <1>0, <1>1, <2>1 DEF Reserve, TypeOK, StrictOrder, Tickets
  <2>5. IssuedInOrder'
    BY <1>0, <1>1, <2>1 DEF Reserve, TypeOK, IssuedInOrder, Tickets
  <2> QED BY <2>2, <2>3, <2>4, <2>5 DEF IInv
<1>2. ASSUME NEW n \in Tickets, Register(n) \/ WakeUp(n) PROVE IInv'
  <2>1. /\ at' = [at EXCEPT ![n] = at'[n]]
        /\ at[n] \in {"reserved", "asleep"} /\ at'[n] \in {"registered", "reserved"}
        /\ woken' \subseteq woken
        /\ UNCHANGED <<issued, through, early, notifying>>
    BY <1>0, <1>2 DEF Register, WakeUp, TypeOK
  <2>2. TypeOK'
    BY <1>0, <2>1 DEF TypeOK, Phases
  <2>3. Gone' = Gone
    BY <1>0, <2>1 DEF TypeOK, Gone
  <2>4. FinishedIsExact'
    BY <1>0, <2>1, <2>3 DEF FinishedIsExact
  <2>5. StrictOrder' /\ IssuedInOrder'
    BY <1>0, <2>1 DEF TypeOK, StrictOrder, IssuedInOrder, Tickets
  <2> QED BY <2>2, <2>4, <2>5 DEF IInv
<1>3. ASSUME NEW n \in Tickets, CheckTurn(n) PROVE IInv'
  <2>1. TypeOK' /\ FinishedIsExact' /\ IssuedInOrder'
    BY <1>0, <1>3 DEF CheckTurn, TypeOK, Phases, FinishedIsExact, Gone, IssuedInOrder
  <2>2. StrictOrder'
    <3>1. IsTurnOf(n) => \A m \in 1..(n - 1) : at[m] = "gone"
      BY <1>3, RunningIsNext DEF CheckTurn
    <3> QED BY <1>0, <1>3, <3>1 DEF CheckTurn, TypeOK, StrictOrder, Tickets
  <2> QED BY <2>1, <2>2 DEF IInv
<1>4. ASSUME NEW n \in Tickets, DropTurn(n) PROVE IInv'
  <2>1. TypeOK' /\ FinishedIsExact'
    BY <1>0, <1>4, FinishKeepsExact DEF DropTurn, TypeOK, Phases
  <2>2. StrictOrder' /\ IssuedInOrder'
    BY <1>0, <1>4 DEF DropTurn, TypeOK, StrictOrder, IssuedInOrder, Tickets
  <2> QED BY <2>1, <2>2 DEF IInv
<1>5. ASSUME NEW n \in Tickets, NotifyWaiters(n) PROVE IInv'
  BY <1>0, <1>5 DEF NotifyWaiters, IInv, TypeOK, FinishedIsExact, Gone, StrictOrder, IssuedInOrder
<1>6. CASE UNCHANGED vars
  BY <1>0, <1>6 DEF vars, IInv, TypeOK, FinishedIsExact, Gone, StrictOrder, IssuedInOrder
<1> QED
  BY <1>1, <1>2, <1>3, <1>4, <1>5, <1>6 DEF Next, Done

\* For any number of reservations, every variable keeps its type.
THEOREM TypeCorrect == Spec => []TypeOK
<1>1. IInv => TypeOK BY DEF IInv
<1> QED BY InitIInv, NextIInv, <1>1, PTL DEF Spec

\* For any number of reservations, `through` and `early` are exactly the dropped
\* ones.
THEOREM CountersExact == Spec => []FinishedIsExact
<1>1. IInv => FinishedIsExact BY DEF IInv
<1> QED BY InitIInv, NextIInv, <1>1, PTL DEF Spec

\* For any number of reservations, one runs only after all earlier ones are gone.
THEOREM TurnsInOrder == Spec => []StrictOrder
<1>1. IInv => StrictOrder BY DEF IInv
<1> QED BY InitIInv, NextIInv, <1>1, PTL DEF Spec

\* Every step of the reserved turns is a step of the line, or leaves it alone.
LEMMA StepIsLineStep ==
  ASSUME IInv, [Next]_vars
  PROVE  [Line!Next]_(Line!line)
<1> DEFINE W == {n \in Tickets : at[n] \in {"reserved", "registered", "asleep"}}
           S == {n \in Tickets : at[n] = "running"}
<1>0. TypeOK /\ FinishedIsExact /\ StrictOrder /\ IssuedInOrder
  BY DEF IInv
<1>1. CASE Reserve
  <2>1. issued + 1 \in Tickets /\ at[issued + 1] = "unissued"
    BY <1>0, <1>1 DEF Reserve, TypeOK, IssuedInOrder, Tickets
  <2>2. W' = W \cup {issued + 1} /\ S' = S /\ issued' = issued + 1
    BY <1>0, <1>1, <2>1 DEF Reserve, TypeOK
  <2> QED BY <2>1, <2>2 DEF Line!Next, Line!Take
<1>2. ASSUME NEW n \in Tickets, Register(n) \/ WakeUp(n) \/ NotifyWaiters(n)
      PROVE  W' = W /\ S' = S /\ issued' = issued
  BY <1>0, <1>2 DEF Register, WakeUp, NotifyWaiters, TypeOK
<1>3. ASSUME NEW n \in Tickets, CheckTurn(n), ~IsTurnOf(n)
      PROVE  W' = W /\ S' = S /\ issued' = issued
  BY <1>0, <1>3 DEF CheckTurn, TypeOK
<1>4. ASSUME NEW n \in Tickets, CheckTurn(n), IsTurnOf(n)
      PROVE  Line!Next
  <2>1. at[n] = "registered" /\ \A m \in 1..(n - 1) : at[m] = "gone"
    BY <1>4, RunningIsNext DEF CheckTurn
  <2>2. \A m \in Tickets : at[m] # "gone" => n <= m
    BY <2>1 DEF Tickets
  <2>3. n \in W /\ \A m \in W : n <= m
    BY <2>1, <2>2
  <2>4. S = {}
    BY <1>0, <2>1, <2>2 DEF StrictOrder, Tickets
  <2>5. W' = W \ {n} /\ S' = {n} /\ issued' = issued
    BY <1>0, <1>4, <2>1, <2>4 DEF CheckTurn, TypeOK
  <2> QED BY <2>3, <2>4, <2>5 DEF Line!Next, Line!Serve
<1>5. ASSUME NEW n \in Tickets, DropTurn(n), at[n] # "running"
      PROVE  Line!Next
  <2>1. n \in W /\ W' = W \ {n} /\ S' = S /\ issued' = issued
    BY <1>0, <1>5 DEF DropTurn, TypeOK
  <2> QED BY <2>1 DEF Line!Next, Line!Leave
<1>6. ASSUME NEW n \in Tickets, DropTurn(n), at[n] = "running"
      PROVE  Line!Next
  <2>1. \A m \in Tickets : at[m] = "running" => m = n
    BY <1>0, <1>6 DEF StrictOrder, TypeOK, Tickets
  <2>2. S # {} /\ S' = {} /\ W' = W /\ issued' = issued
    BY <1>0, <1>6, <2>1 DEF DropTurn, TypeOK
  <2> QED BY <2>2 DEF Line!Next, Line!End
<1>7. CASE UNCHANGED vars
  BY <1>7 DEF vars, Line!line
<1> QED
  BY <1>1, <1>2, <1>3, <1>4, <1>5, <1>6, <1>7 DEF Next, Done, Line!line

\* For any number of reservations the counters implement the line: its steps,
\* without the promise that it moves.
THEOREM TurnsImplementLine == Spec => Line!Spec
<1>1. Init => Line!Init
  BY DEF Init, Line!Init, Tickets
<1> QED BY <1>1, InitIInv, NextIInv, StepIsLineStep, PTL DEF Spec, Line!Spec
=============================================================================
