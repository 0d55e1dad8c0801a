---------------------------- MODULE OrderedTurns ----------------------------
(***************************************************************************)
(* What the reserved turns of one route promise to the operations that     *)
(* take them (hardware/write_order.rs): a first-come-first-served line.    *)
(* Turns are numbered in the order they are taken; the oldest that still   *)
(* waits is served, one at a time; anyone may leave the line.              *)
(***************************************************************************)
EXTENDS Integers

CONSTANT Turns     \* the numbers of the turns

VARIABLES
  taken,    \* how many turns have been taken
  waiting,  \* the turns in the line
  served    \* the turn being served, if any

line == <<taken, waiting, served>>

Init == taken = 0 /\ waiting = {} /\ served = {}

Take ==
  /\ taken + 1 \in Turns
  /\ taken' = taken + 1
  /\ waiting' = waiting \cup {taken + 1}
  /\ UNCHANGED served

Serve(n) ==
  /\ served = {} /\ \A m \in waiting : n <= m
  /\ served' = {n}
  /\ waiting' = waiting \ {n}
  /\ UNCHANGED taken

Leave(n) ==
  /\ waiting' = waiting \ {n}
  /\ UNCHANGED <<taken, served>>

End ==
  /\ served # {}
  /\ served' = {}
  /\ UNCHANGED <<taken, waiting>>

Next == Take \/ End \/ \E n \in waiting : Serve(n) \/ Leave(n)

Spec == Init /\ [][Next]_line

\* The line moves: whoever is served ends, and then the oldest is served.
FairSpec == Spec /\ WF_line(End) /\ WF_line(\E n \in waiting : Serve(n))

=============================================================================
