------------------------- MODULE ButtonRuntimeProofs -------------------------
(***************************************************************************)
(* Proofs about ButtonRuntime: every variable keeps its type, the handler  *)
(* sees a balanced lifecycle of every press, and the worker that exits     *)
(* leaves no press behind.                                                 *)
(*                                                                         *)
(* The events of a press are the emitted ones followed by those the        *)
(* settling loop holds back, its tale.  The invariant says what the        *)
(* worker's table and the tales know of each other: the tale of an active  *)
(* press is open, that of any other press is empty or has its end.  A      *)
(* press is started once because the command that starts it is in one      *)
(* place, and its tale is empty until that command is processed.           *)
(***************************************************************************)
EXTENDS ButtonRuntime, FiniteSetTheorems, SequenceTheorems, TLAPS

Tale(l, s, i) == l[i] \o Settled(s, i)

Over(h) == h # <<>> /\ h[Len(h)] \in Ends

\* Started, and not ended.
Open(h) ==
  /\ h # <<>> /\ h[1] = "started"
  /\ \A n \in 1..Len(h) : h[n] \notin Ends
  /\ \A n \in 2..Len(h) : h[n] # "started"

Undecided(h) == \A n \in 1..Len(h) : h[n] \notin {"short", "long"}

\* The table holds presses at their own controls.
OwnKeys(s) ==
  \A k \in Keys : s.active[k] # 0 => s.active[k] \in DOMAIN press /\ press[s.active[k]].key = k

Fits == [gesture |-> {"lifecycle"}, single |-> {"immediate"},
         longPress |-> {"longPending", "longFired"},
         wheelHold |-> {"wheelPending", "wheelScrolled"}]

\* What the worker's state s and the events l emitted so far say of press i.
Story(l, s, i) ==
  /\ BalancedLifecycle(Tale(l, s, i))
  /\ i \in Active(s) => /\ Open(Tale(l, s, i))
                        /\ s.behavior[i] \in Fits[press[i].binding]
                        /\ s.behavior[i] # "longFired" => Undecided(Tale(l, s, i))
                        /\ i \in s.due => /\ s.rest[i] = <<>>
                                          /\ s.behavior[i] \in {"longPending", "longFired"}
  /\ i \notin Active(s) => Tale(l, s, i) = <<>> \/ Over(Tale(l, s, i))
  /\ i \in s.due \/ i \in Active(s) => Tale(l, s, i) # <<>>
  /\ i \notin DOMAIN press => Tale(l, s, i) = <<>>

Good(l, s) ==
  /\ press \in Seq(Presses) /\ Len(press) <= MaxCalls
  /\ l \in Tales /\ s \in WorkerStates
  /\ OwnKeys(s)
  /\ \A i \in Ids : Story(l, s, i)

\* The press a command is about has been made.
Known(c) ==
  /\ c.kind \in {"down", "pulse", "trigger", "wheel", "stale"} => c.id \in DOMAIN press
  /\ c.kind \in {"down", "pulse"} => press[c.id].key = c.key
  /\ c.kind = "trigger" => press[c.id].binding = "gesture"

Creates(c) == c.kind \in {"down", "pulse"}

\* The command that starts a press has not been processed.
Unborn(c) == Creates(c) => Tale(seen, state, c.id) = <<>>

CommandsAreKnown ==
  /\ Known(held) /\ Unborn(held)
  /\ \A n \in 1..Len(queue) : Known(queue[n]) /\ Unborn(queue[n])
  /\ \A t \in Threads : Known(call[t].command) /\ Unborn(call[t].command)

Differ(c, d) == ~(Creates(c) /\ Creates(d) /\ c.id = d.id)

\* The command that starts a press is in one place.
StartsOnce ==
  /\ \A m, n \in 1..Len(queue) : m # n => Differ(queue[m], queue[n])
  /\ \A t, u \in Threads : t # u => Differ(call[t].command, call[u].command)
  /\ \A t \in Threads, n \in 1..Len(queue) : Differ(call[t].command, queue[n])
  /\ \A n \in 1..Len(queue) : Differ(held, queue[n])
  /\ \A t \in Threads : Differ(held, call[t].command)

\* The worker has the command it is about to process.
HoldsCommand == at \in {"received", "process"} => held # NoCommand

IInv ==
  /\ TypeOK /\ Good(seen, state) /\ HoldsCommand
  /\ CommandsAreKnown /\ StartsOnce
  /\ Balanced /\ ExitEndsAll
-----------------------------------------------------------------------------
(* Tales.                                                                  *)

USE ButtonAssumption

Decisions(h) == {n \in DOMAIN h : h[n] \in {"short", "long"}}

LEMMA AppendFacts ==
  ASSUME NEW h \in Seq(Tellings), NEW e \in Tellings
  PROVE  /\ Append(h, e) \in Seq(Tellings) /\ Append(h, e) # <<>>
         /\ Len(h) \in Nat /\ Len(Append(h, e)) = Len(h) + 1
         /\ DOMAIN h = 1..Len(h) /\ DOMAIN Append(h, e) = 1..(Len(h) + 1)
         /\ \A n \in 1..Len(h) : Append(h, e)[n] = h[n]
         /\ Append(h, e)[Len(h) + 1] = e
         /\ h = <<>> <=> Len(h) = 0
OBVIOUS

LEMMA DecisionsFinite ==
  ASSUME NEW h \in Seq(Tellings)
  PROVE  IsFiniteSet(Decisions(h)) /\ Cardinality(Decisions(h)) \in Nat
<1>1. IsFiniteSet(1..Len(h)) /\ DOMAIN h = 1..Len(h)
  BY FS_Interval
<1>2. Decisions(h) \subseteq 1..Len(h)
  BY <1>1 DEF Decisions
<1> QED BY <1>1, <1>2, FS_Subset, FS_CardinalityType

\* An open tale goes on.
LEMMA OpenAppend ==
  ASSUME NEW h \in Seq(Tellings), NEW e \in Tellings, Open(h), BalancedLifecycle(h)
  PROVE  /\ e = "gesture" => /\ Open(Append(h, e)) /\ BalancedLifecycle(Append(h, e))
                             /\ Undecided(h) => Undecided(Append(h, e))
         /\ e \in {"short", "long"} /\ Undecided(h)
              => Open(Append(h, e)) /\ BalancedLifecycle(Append(h, e))
         /\ e \in Ends => BalancedLifecycle(Append(h, e)) /\ Over(Append(h, e))
<1> DEFINE g == Append(h, e)
<1>1. /\ g \in Seq(Tellings) /\ g # <<>>
      /\ Len(h) \in Nat /\ Len(g) = Len(h) + 1 /\ Len(h) >= 1
      /\ DOMAIN h = 1..Len(h) /\ DOMAIN g = 1..(Len(h) + 1)
      /\ \A n \in 1..Len(h) : g[n] = h[n]
      /\ g[Len(h) + 1] = e
  BY AppendFacts DEF Open
<1> HIDE DEF g
<1>2. \A n \in 1..(Len(h) + 1) : n \in 1..Len(h) \/ n = Len(h) + 1
  BY <1>1
<1>3. g[1] = "started"
  BY <1>1 DEF Open
<1>4. e # "started" => \A n \in 2..Len(g) : g[n] # "started" /\ g[n - 1] \notin Ends
  <2> SUFFICES ASSUME e # "started", NEW n \in 2..Len(g)
               PROVE  g[n] # "started" /\ g[n - 1] \notin Ends
    OBVIOUS
  <2>1. n - 1 \in 1..Len(h)
    BY <1>1
  <2>2. g[n - 1] = h[n - 1] /\ h[n - 1] \notin Ends
    BY <1>1, <2>1 DEF Open
  <2>3. CASE n = Len(h) + 1
    BY <1>1, <2>2, <2>3
  <2>4. CASE n \in 2..Len(h)
    <3>1. g[n] = h[n] /\ h[n] # "started"
      BY <1>1, <2>4 DEF Open
    <3> QED BY <2>2, <3>1
  <2> QED BY <1>1, <2>3, <2>4
<1>5. e \notin {"short", "long"} => Decisions(g) = Decisions(h)
  BY <1>1, <1>2 DEF Decisions
<1>6. Undecided(h) => Decisions(h) = {} /\ Decisions(g) \subseteq {Len(h) + 1}
  BY <1>1, <1>2 DEF Decisions, Undecided
<1>7. e # "started" /\ (e \notin {"short", "long"} \/ Undecided(h)) => BalancedLifecycle(g)
  <2> SUFFICES ASSUME e # "started", e \notin {"short", "long"} \/ Undecided(h)
               PROVE  Cardinality(Decisions(g)) <= 1
    BY <1>3, <1>4 DEF BalancedLifecycle, Decisions
  <2>1. CASE e \notin {"short", "long"}
    BY <1>5, <2>1 DEF BalancedLifecycle, Decisions
  <2>2. CASE Undecided(h)
    <3>1. Decisions(g) = {} \/ Decisions(g) = {Len(h) + 1}
      BY <1>6, <2>2
    <3>2. Cardinality({}) = 0
      BY FS_EmptySet
    <3>3. Cardinality({Len(h) + 1}) = 1
      BY FS_Singleton
    <3>4. Cardinality(Decisions(g)) = 0 \/ Cardinality(Decisions(g)) = 1
      BY <3>1, <3>2, <3>3, Zenon
    <3> QED BY <3>4
  <2> QED BY <2>1, <2>2
<1>8. e \notin Ends /\ e # "started" => Open(g)
  BY <1>1, <1>2, <1>3 DEF Open
<1>9. e \notin {"short", "long"} /\ Undecided(h) => Undecided(g)
  BY <1>1, <1>2 DEF Undecided
<1>10. e \in Ends => Over(g)
  BY <1>1 DEF Over
<1> QED BY <1>7, <1>8, <1>9, <1>10 DEF g, Ends

\* A tale begins.
LEMMA BeginsTale ==
  /\ Append(<<>>, "started") = <<"started">>
  /\ Open(<<"started">>) /\ Undecided(<<"started">>)
  /\ BalancedLifecycle(<<"started">>) /\ BalancedLifecycle(<<>>)
<1>1. Append(<<>>, "started") = <<"started">>
  OBVIOUS
<1>2. Open(<<"started">>) /\ Undecided(<<"started">>)
  BY DEF Open, Undecided, Ends
<1>3. Decisions(<<"started">>) = {} /\ Decisions(<<>>) = {}
  BY DEF Decisions
<1>4. BalancedLifecycle(<<"started">>) /\ BalancedLifecycle(<<>>)
  BY <1>3, FS_EmptySet DEF BalancedLifecycle, Decisions
<1> QED BY <1>1, <1>2, <1>4

\* An open tale is not over.
LEMMA OpenIsNotOver ==
  ASSUME NEW h \in Seq(Tellings), Open(h)
  PROVE  h # <<>> /\ ~Over(h)
BY DEF Open, Over
-----------------------------------------------------------------------------
(* Telling and emitting.                                                   *)

LEMMA WorkerFields ==
  ASSUME NEW s \in WorkerStates
  PROVE  /\ s.active \in [Keys -> 0..MaxCalls] /\ s.behavior \in [Ids -> Behaviors]
         /\ s.window \in [Ids -> Windows \cup {NoWindow}] /\ s.generation \in Nat
         /\ s.due \subseteq Ids /\ s.first \in Tales /\ s.rest \in Tales
BY DEF WorkerStates

LEMMA TaleType ==
  ASSUME NEW l \in Tales, NEW s \in WorkerStates, NEW i \in Ids
  PROVE  /\ l[i] \in Seq(Tellings) /\ s.first[i] \in Seq(Tellings)
         /\ s.rest[i] \in Seq(Tellings) /\ Tale(l, s, i) \in Seq(Tellings)
         /\ Settled(s, i) \in Seq(Tellings)
<1>1. l[i] \in Seq(Tellings) /\ s.first[i] \in Seq(Tellings) /\ s.rest[i] \in Seq(Tellings)
  BY WorkerFields DEF Tales
<1>2. Settled(s, i) \in Seq(Tellings)
  BY <1>1, ConcatProperties DEF Settled
<1>3. Tale(l, s, i) \in Seq(Tellings)
  BY <1>1, <1>2, ConcatProperties DEF Tale
<1> QED BY <1>1, <1>2, <1>3

\* What is appended to the last part, or to a part with nothing after it, is
\* appended to the whole.
LEMMA AppendToLast ==
  ASSUME NEW a \in Seq(Tellings), NEW d \in Seq(Tellings), NEW e \in Tellings
  PROVE  a \o d \in Seq(Tellings) /\ a \o Append(d, e) = Append(a \o d, e)
<1>1. <<e>> \in Seq(Tellings)
  OBVIOUS
<1>2. Append(d, e) = d \o <<e>>
  BY AppendIsConcat
<1>3. a \o d \in Seq(Tellings)
  BY ConcatProperties
<1>4. Append(a \o d, e) = (a \o d) \o <<e>>
  BY <1>3, AppendIsConcat
<1>5. (a \o d) \o <<e>> = a \o (d \o <<e>>)
  BY <1>1, ConcatAssociative
<1> QED BY <1>2, <1>3, <1>4, <1>5

LEMMA AppendToMiddle ==
  ASSUME NEW a \in Seq(Tellings), NEW b \in Seq(Tellings), NEW e \in Tellings
  PROVE  a \o (Append(b, e) \o <<>>) = Append(a \o (b \o <<>>), e)
<1>1. Append(b, e) \in Seq(Tellings)
  BY AppendProperties
<1>2. Append(b, e) \o <<>> = Append(b, e) /\ b \o <<>> = b
  BY <1>1, ConcatEmptySeq
<1>3. a \o Append(b, e) = Append(a \o b, e)
  BY AppendToLast
<1> QED BY <1>2, <1>3, Zenon

Joined(a, b, c) == a \o (b \o c)
Extended(h, e)  == Append(h, e)

LEMMA JoinedGrows ==
  ASSUME NEW a \in Seq(Tellings), NEW b \in Seq(Tellings), NEW c \in Seq(Tellings),
         NEW e \in Tellings
  PROVE  /\ Joined(a, b, Extended(c, e)) = Extended(Joined(a, b, c), e)
         /\ Joined(a, Extended(b, e), <<>>) = Extended(Joined(a, b, <<>>), e)
<1>1. a \o (b \o Append(c, e)) = Append(a \o (b \o c), e)
  <2>1. b \o c \in Seq(Tellings) /\ b \o Append(c, e) = Append(b \o c, e)
    BY AppendToLast
  <2>2. a \o Append(b \o c, e) = Append(a \o (b \o c), e)
    BY <2>1, AppendToLast, ZenonT(60)
  <2> QED BY <2>1, <2>2, Zenon
<1>2. a \o (Append(b, e) \o <<>>) = Append(a \o (b \o <<>>), e)
  BY AppendToMiddle
<1> QED BY <1>1, <1>2, Zenon DEF Joined, Extended

LEMMA TaleGrows ==
  ASSUME NEW l \in Tales, NEW s \in WorkerStates, NEW t \in WorkerStates, NEW i \in Ids,
         NEW e \in Tellings,
         \/ t.first[i] = Append(s.first[i], e) /\ t.rest[i] = <<>> /\ s.rest[i] = <<>>
         \/ t.first[i] = s.first[i] /\ t.rest[i] = Append(s.rest[i], e)
  PROVE  Tale(l, t, i) = Append(Tale(l, s, i), e)
<1>1. l[i] \in Seq(Tellings) /\ s.first[i] \in Seq(Tellings) /\ s.rest[i] \in Seq(Tellings)
  BY TaleType
<1>2. /\ Tale(l, s, i) = Joined(l[i], s.first[i], s.rest[i])
      /\ Tale(l, t, i) = Joined(l[i], t.first[i], t.rest[i])
  BY Zenon DEF Tale, Settled, Joined
<1>3. \/ t.first[i] = Extended(s.first[i], e) /\ t.rest[i] = <<>> /\ s.rest[i] = <<>>
      \/ t.first[i] = s.first[i] /\ t.rest[i] = Extended(s.rest[i], e)
  BY Zenon DEF Extended
<1>4. Tale(l, t, i) = Extended(Tale(l, s, i), e)
  BY <1>1, <1>2, <1>3, JoinedGrows
<1> QED BY <1>4, Zenon DEF Extended

Untold(s, t) ==
  /\ t.active = s.active /\ t.behavior = s.behavior /\ t.window = s.window
  /\ t.generation = s.generation /\ t.due = s.due

\* t is s with the presses of ids told.
IsTold(l, s, t, ids, what) ==
  /\ t \in WorkerStates /\ Untold(s, t)
  /\ \A i \in Ids : /\ i \in ids => Tale(l, t, i) = Append(Tale(l, s, i), what)
                    /\ i \notin ids => Tale(l, t, i) = Tale(l, s, i)
                    /\ i \notin ids \/ GoesFirst(s, i) => t.rest[i] = s.rest[i]

\* No event of ids that goes first is preceded by one that does not.
InOrder(s, ids) == \A i \in ids : GoesFirst(s, i) => s.rest[i] = <<>>

LEMMA ToldFacts ==
  ASSUME NEW l \in Tales, NEW s \in WorkerStates, NEW ids \in SUBSET Ids,
         NEW what \in Tellings, InOrder(s, ids)
  PROVE  IsTold(l, s, Told(s, ids, what), ids, what)
<1> DEFINE t == Told(s, ids, what)
<1> DEFINE first == [i \in Ids |-> IF i \in ids /\ GoesFirst(s, i)
                                   THEN Append(s.first[i], what) ELSE s.first[i]]
           rest  == [i \in Ids |-> IF i \in ids /\ ~GoesFirst(s, i)
                                   THEN Append(s.rest[i], what) ELSE s.rest[i]]
<1>1. t = [s EXCEPT !.first = first, !.rest = rest]
  BY DEF Told
<1>2. first \in Tales /\ rest \in Tales
  <2>1. \A i \in Ids : /\ s.first[i] \in Seq(Tellings) /\ s.rest[i] \in Seq(Tellings)
                       /\ Append(s.first[i], what) \in Seq(Tellings)
                       /\ Append(s.rest[i], what) \in Seq(Tellings)
    BY TaleType, AppendProperties
  <2> QED BY <2>1 DEF Tales
<1>3. \A i \in Ids :
        /\ first[i] = IF i \in ids /\ GoesFirst(s, i)
                        THEN Append(s.first[i], what) ELSE s.first[i]
        /\ rest[i] = IF i \in ids /\ ~GoesFirst(s, i)
                       THEN Append(s.rest[i], what) ELSE s.rest[i]
  OBVIOUS
<1> HIDE DEF first, rest, t
<1>4. t.first = first /\ t.rest = rest /\ Untold(s, t) /\ t \in WorkerStates
  BY <1>1, <1>2 DEF WorkerStates, Untold
<1>5. ASSUME NEW i \in Ids
      PROVE  /\ i \in ids => Tale(l, t, i) = Append(Tale(l, s, i), what)
             /\ i \notin ids => Tale(l, t, i) = Tale(l, s, i)
             /\ i \notin ids \/ GoesFirst(s, i) => t.rest[i] = s.rest[i]
  <2>1. l[i] \in Seq(Tellings) /\ s.first[i] \in Seq(Tellings) /\ s.rest[i] \in Seq(Tellings)
    BY TaleType
  <2>2. CASE i \in ids /\ GoesFirst(s, i)
    <3>1. t.first[i] = Append(s.first[i], what) /\ t.rest[i] = <<>> /\ s.rest[i] = <<>>
      BY <1>3, <1>4, <2>2 DEF InOrder
    <3> QED BY <1>4, <2>2, <3>1, TaleGrows
  <2>3. CASE i \in ids /\ ~GoesFirst(s, i)
    <3>1. t.first[i] = s.first[i] /\ t.rest[i] = Append(s.rest[i], what)
      BY <1>3, <1>4, <2>3
    <3> QED BY <1>4, <2>3, <3>1, TaleGrows
  <2>4. CASE i \notin ids
    BY <1>3, <1>4, <2>4 DEF Tale, Settled
  <2> QED BY <2>2, <2>3, <2>4
<1> QED BY <1>4, <1>5 DEF IsTold, t

LEMMA PressFacts ==
  ASSUME press \in Seq(Presses), Len(press) <= MaxCalls
  PROVE  /\ DOMAIN press = 1..Len(press) /\ DOMAIN press \subseteq Ids
         /\ \A i \in DOMAIN press : press[i] \in Presses /\ press[i].key \in Keys
                                    /\ press[i].binding \in Bindings /\ press[i].deadline \in Nat
                                    /\ press[i].window \in Windows \cup {NoWindow}
                                    /\ press[i].generation \in Nat
         /\ Ids \subseteq Nat /\ 0 \notin Ids
<1>1. Len(press) \in Nat /\ DOMAIN press = 1..Len(press)
  OBVIOUS
<1>2. DOMAIN press \subseteq Ids /\ Ids \subseteq Nat /\ 0 \notin Ids
  BY <1>1 DEF Ids
<1>3. \A i \in DOMAIN press : press[i] \in Presses
  OBVIOUS
<1> QED BY <1>1, <1>2, <1>3 DEF Presses

\* An active press is at its own control, and nowhere else.
LEMMA ActiveFacts ==
  ASSUME press \in Seq(Presses), Len(press) <= MaxCalls, NEW s \in WorkerStates, OwnKeys(s)
  PROVE  /\ Active(s) \subseteq DOMAIN press /\ Active(s) \subseteq Ids
         /\ \A i \in DOMAIN press : i \in Active(s) <=> s.active[press[i].key] = i
         /\ \A k \in Keys : s.active[k] # 0 => s.active[k] \in Active(s)
<1>1. \A k \in Keys : s.active[k] # 0 => s.active[k] \in Active(s)
  BY DEF Active
<1>2. Active(s) \subseteq DOMAIN press /\ DOMAIN press \subseteq Ids
  BY PressFacts DEF Active, OwnKeys
<1>3. ASSUME NEW i \in DOMAIN press
      PROVE  i \in Active(s) <=> s.active[press[i].key] = i
  <2>1. press[i].key \in Keys /\ i # 0
    BY PressFacts
  <2> QED BY <2>1 DEF Active, OwnKeys
<1> QED BY <1>1, <1>2, <1>3

LEMMA GoodFacts ==
  ASSUME NEW l, NEW s, Good(l, s)
  PROVE  /\ l \in Tales /\ s \in WorkerStates
         /\ DOMAIN press = 1..Len(press) /\ DOMAIN press \subseteq Ids /\ 0 \notin Ids
         /\ \A i \in DOMAIN press : press[i].key \in Keys
         /\ Active(s) \subseteq DOMAIN press /\ Active(s) \subseteq Ids
         /\ \A i \in DOMAIN press : i \in Active(s) <=> s.active[press[i].key] = i
         /\ \A k \in Keys : s.active[k] # 0 => s.active[k] \in Active(s)
         /\ \A i \in Ids : Tale(l, s, i) \in Seq(Tellings)
         /\ \A i \in Active(s) :
              /\ Open(Tale(l, s, i)) /\ BalancedLifecycle(Tale(l, s, i))
              /\ GoesFirst(s, i) => s.rest[i] = <<>>
<1>1. press \in Seq(Presses) /\ Len(press) <= MaxCalls /\ s \in WorkerStates /\ OwnKeys(s)
      /\ l \in Tales
  BY DEF Good
<1>2. Active(s) \subseteq Ids
  BY <1>1, ActiveFacts
<1>3. \A i \in Ids : Tale(l, s, i) \in Seq(Tellings)
  BY <1>1, TaleType
<1>4. \A i \in Active(s) : /\ Open(Tale(l, s, i)) /\ BalancedLifecycle(Tale(l, s, i))
                           /\ GoesFirst(s, i) => s.rest[i] = <<>>
  BY <1>2 DEF Good, Story, GoesFirst
<1> QED BY <1>1, <1>3, <1>4, PressFacts, ActiveFacts

\* What every operation of the worker leaves alone.
Keeps(l, s, t) ==
  /\ t.due = s.due /\ t.generation = s.generation
  /\ \A i \in Ids : Tale(l, s, i) = <<>> => Tale(l, t, i) = <<>>

\* The same tales and the same table.
LEMMA GoodAgain ==
  ASSUME NEW l, NEW s, Good(l, s), NEW m \in Tales, NEW t \in WorkerStates,
         t.active = s.active, t.behavior = s.behavior,
         \A i \in Ids : Tale(m, t, i) = Tale(l, s, i),
         \A i \in t.due : /\ Tale(l, s, i) # <<>>
                          /\ i \in Active(s) => /\ t.rest[i] = <<>>
                                                /\ s.behavior[i] \in {"longPending", "longFired"}
  PROVE  Good(m, t)
<1>1. Active(t) = Active(s) /\ OwnKeys(t)
  BY DEF Active, OwnKeys, Good
<1> SUFFICES ASSUME NEW i \in Ids PROVE Story(m, t, i)
  BY <1>1 DEF Good
<1>2. Story(l, s, i) /\ Tale(m, t, i) = Tale(l, s, i)
  BY DEF Good
<1>3. Open(Tale(l, s, i)) => Tale(l, s, i) # <<>>
  BY DEF Open
<1> QED BY <1>1, <1>2, <1>3 DEF Story

\* The presses of ids leave the table.
LEMMA RemovedFacts ==
  ASSUME NEW l, NEW s, Good(l, s), NEW ids \in SUBSET Active(s), NEW u, u = Removed(s, ids)
  PROVE  /\ u \in WorkerStates /\ u.behavior = s.behavior /\ u.window = s.window
         /\ u.generation = s.generation /\ u.due = s.due /\ u.rest = s.rest
         /\ \A k \in Keys : u.active[k] = IF s.active[k] \in ids THEN 0 ELSE s.active[k]
         /\ Active(u) = Active(s) \ ids /\ OwnKeys(u)
         /\ \A i \in Ids : Tale(l, u, i) = Tale(l, s, i) /\ (GoesFirst(u, i) <=> GoesFirst(s, i))
<1>1. s \in WorkerStates
  BY GoodFacts
<1> DEFINE active == [k \in Keys |-> IF s.active[k] \in ids THEN 0 ELSE s.active[k]]
<1>2. active \in [Keys -> 0..MaxCalls]
  BY <1>1, WorkerFields
<1>3. \A k \in Keys : active[k] = IF s.active[k] \in ids THEN 0 ELSE s.active[k]
  OBVIOUS
<1>4. u = [s EXCEPT !.active = active]
  BY DEF Removed
<1> HIDE DEF active
<1>5. /\ u \in WorkerStates /\ u.active = active /\ u.behavior = s.behavior
      /\ u.window = s.window /\ u.generation = s.generation /\ u.due = s.due
      /\ u.first = s.first /\ u.rest = s.rest
  BY <1>1, <1>2, <1>4 DEF WorkerStates
<1>6. Active(u) = Active(s) \ ids
  BY <1>3, <1>5 DEF Active
<1>7. OwnKeys(u)
  BY <1>3, <1>5 DEF OwnKeys, Good
<1>8. \A i \in Ids : Tale(l, u, i) = Tale(l, s, i) /\ (GoesFirst(u, i) <=> GoesFirst(s, i))
  BY <1>5 DEF Tale, Settled, GoesFirst
<1> QED BY <1>3, <1>5, <1>6, <1>7, <1>8

\* The presses of ids end.
LEMMA CanceledFacts ==
  ASSUME NEW l, NEW s, Good(l, s), NEW ids \in SUBSET Active(s), NEW t, t = Canceled(s, ids)
  PROVE  /\ Good(l, t) /\ Keeps(l, s, t) /\ t.behavior = s.behavior /\ t.window = s.window
         /\ Active(t) = Active(s) \ ids
         /\ \A k \in Keys : t.active[k] = IF s.active[k] \in ids THEN 0 ELSE s.active[k]
<1>1. /\ l \in Tales /\ Active(s) \subseteq DOMAIN press /\ Active(s) \subseteq Ids
      /\ \A i \in Ids : Tale(l, s, i) \in Seq(Tellings)
      /\ \A i \in Active(s) : /\ Open(Tale(l, s, i)) /\ BalancedLifecycle(Tale(l, s, i))
                              /\ GoesFirst(s, i) => s.rest[i] = <<>>
  BY GoodFacts
<1>2. PICK u : u = Removed(s, ids)
  OBVIOUS
<1>3. /\ u \in WorkerStates /\ u.behavior = s.behavior /\ u.window = s.window
      /\ u.generation = s.generation /\ u.due = s.due /\ u.rest = s.rest
      /\ \A k \in Keys : u.active[k] = IF s.active[k] \in ids THEN 0 ELSE s.active[k]
      /\ Active(u) = Active(s) \ ids /\ OwnKeys(u)
      /\ \A i \in Ids : Tale(l, u, i) = Tale(l, s, i) /\ (GoesFirst(u, i) <=> GoesFirst(s, i))
  BY <1>2, RemovedFacts
<1>4. IsTold(l, u, t, ids, "canceled")
  <2>1. l \in Tales /\ u \in WorkerStates /\ ids \in SUBSET Ids /\ "canceled" \in Tellings
    BY <1>1, <1>3 DEF Tellings
  <2>2. InOrder(u, ids)
    BY <1>1, <1>3, <2>1 DEF InOrder
  <2>3. t = Told(u, ids, "canceled")
    BY <1>2 DEF Canceled
  <2> QED BY <2>1, <2>2, <2>3, ToldFacts
<1>5. /\ t \in WorkerStates /\ t.active = u.active /\ t.behavior = s.behavior
      /\ t.window = s.window /\ t.due = s.due /\ t.generation = s.generation
  BY <1>3, <1>4 DEF IsTold, Untold
<1>6. Active(t) = Active(s) \ ids /\ OwnKeys(t)
  BY <1>3, <1>5 DEF Active, OwnKeys
<1>7. ASSUME NEW i \in Ids PROVE Story(l, t, i) /\ (Tale(l, s, i) = <<>> => Tale(l, t, i) = <<>>)
  <2>0. Story(l, s, i)
    BY DEF Good
  <2>1. CASE i \in ids
    <3>1. Tale(l, t, i) = Append(Tale(l, s, i), "canceled") /\ Tale(l, s, i) \in Seq(Tellings)
          /\ Open(Tale(l, s, i)) /\ BalancedLifecycle(Tale(l, s, i)) /\ i \in DOMAIN press
      BY <1>1, <1>3, <1>4, <2>1 DEF IsTold
    <3>2. BalancedLifecycle(Tale(l, t, i)) /\ Over(Tale(l, t, i))
      BY <3>1, OpenAppend, "canceled" \in Tellings, "canceled" \in Ends DEF Tellings, Ends
    <3>3. Tale(l, s, i) # <<>> /\ Tale(l, t, i) # <<>>
      BY <3>1, <3>2 DEF Open, Over
    <3> QED BY <1>6, <2>1, <3>1, <3>2, <3>3 DEF Story
  <2>2. CASE i \notin ids
    <3>1. Tale(l, t, i) = Tale(l, s, i) /\ t.rest[i] = s.rest[i]
      BY <1>3, <1>4, <2>2 DEF IsTold
    <3> QED BY <1>5, <1>6, <2>0, <2>2, <3>1 DEF Story
  <2> QED BY <2>1, <2>2
<1>8. Good(l, t)
  BY <1>5, <1>6, <1>7 DEF Good
<1> QED BY <1>3, <1>5, <1>6, <1>7, <1>8 DEF Keeps

\* A press gets a behavior that fits its binding, and one that has not fired.
LEMMA BehaviorFits ==
  ASSUME NEW b \in Bindings
  PROVE  /\ BehaviorOf[b] \in Fits[b] /\ BehaviorOf[b] \in Behaviors
         /\ BehaviorOf[b] # "longFired"
<1>1. b \in {"gesture", "single", "longPress", "wheelHold"}
  BY DEF BindingKinds
<1>2. CASE b = "gesture"
  BY <1>2 DEF BehaviorOf, Fits, Behaviors
<1>3. CASE b = "single"
  BY <1>3 DEF BehaviorOf, Fits, Behaviors
<1>4. CASE b = "longPress"
  BY <1>4 DEF BehaviorOf, Fits, Behaviors
<1>5. CASE b = "wheelHold"
  BY <1>5 DEF BehaviorOf, Fits, Behaviors
<1> QED BY <1>1, <1>2, <1>3, <1>4, <1>5

\* What a behavior says of the binding.
LEMMA FitsFacts ==
  ASSUME NEW b \in Bindings
  PROVE  /\ "longPending" \in Fits[b] => "longFired" \in Fits[b]
         /\ "wheelPending" \in Fits[b] => "wheelScrolled" \in Fits[b]
         /\ b = "gesture" => Fits[b] = {"lifecycle"}
<1>1. b \in {"gesture", "single", "longPress", "wheelHold"}
  BY DEF BindingKinds
<1>2. CASE b = "gesture"
  BY <1>2 DEF Fits
<1>3. CASE b = "single"
  BY <1>3 DEF Fits
<1>4. CASE b = "longPress"
  BY <1>4 DEF Fits
<1>5. CASE b = "wheelHold"
  BY <1>5 DEF Fits
<1> QED BY <1>1, <1>2, <1>3, <1>4, <1>5

\* A press enters the table at a control that is free.
LEMMA EnteredFacts ==
  ASSUME NEW l, NEW s, Good(l, s), NEW i \in DOMAIN press, Tale(l, s, i) = <<>>,
         s.active[press[i].key] = 0, NEW t, t = Entered(s, i)
  PROVE  /\ Good(l, t) /\ t.due = s.due /\ t.generation = s.generation
         /\ Active(t) = Active(s) \cup {i}
         /\ \A j \in Ids \ {i} : Tale(l, t, j) = Tale(l, s, j)
<1>1. /\ l \in Tales /\ s \in WorkerStates /\ i \in Ids /\ i # 0
      /\ \A j \in Active(s) : Open(Tale(l, s, j))
      /\ Active(s) \subseteq DOMAIN press /\ DOMAIN press \subseteq Ids
  BY GoodFacts
<1>2. /\ press \in Seq(Presses) /\ Len(press) <= MaxCalls
      /\ press[i].key \in Keys /\ press[i].binding \in Bindings
      /\ press[i].window \in Windows \cup {NoWindow}
  BY PressFacts DEF Good
<1>3. i \notin Active(s) /\ i \notin s.due
  <2>1. ~Open(<<>>)
    BY DEF Open
  <2> QED BY <1>1, <2>1 DEF Good, Story
<1>4. /\ BehaviorOf[press[i].binding] \in Fits[press[i].binding]
      /\ BehaviorOf[press[i].binding] \in Behaviors
      /\ BehaviorOf[press[i].binding] # "longFired"
  BY <1>2, BehaviorFits
<1> DEFINE active == [s.active EXCEPT ![press[i].key] = i]
           behavior == [s.behavior EXCEPT ![i] = BehaviorOf[press[i].binding]]
           window == [s.window EXCEPT ![i] = press[i].window]
<1>5. /\ active \in [Keys -> 0..MaxCalls] /\ behavior \in [Ids -> Behaviors]
      /\ window \in [Ids -> Windows \cup {NoWindow}]
  BY <1>1, <1>2, <1>4, WorkerFields DEF Ids
<1>6. /\ active[press[i].key] = i /\ behavior[i] = BehaviorOf[press[i].binding]
      /\ \A k \in Keys \ {press[i].key} : active[k] = s.active[k]
      /\ \A j \in Ids \ {i} : behavior[j] = s.behavior[j]
  BY <1>1, <1>2, WorkerFields
<1>7. PICK u : u = [s EXCEPT !.active = active, !.behavior = behavior, !.window = window]
  OBVIOUS
<1>8. t = Told(u, {i}, "started")
  BY <1>7 DEF Entered
<1> HIDE DEF active, behavior, window
<1>9. /\ u \in WorkerStates /\ u.active = active /\ u.behavior = behavior
      /\ u.generation = s.generation /\ u.due = s.due /\ u.first = s.first /\ u.rest = s.rest
  BY <1>1, <1>5, <1>7 DEF WorkerStates
<1>10. \A j \in Ids : Tale(l, u, j) = Tale(l, s, j)
  BY <1>9 DEF Tale, Settled
<1>11. IsTold(l, u, t, {i}, "started")
  <2>1. {i} \in SUBSET Ids /\ "started" \in Tellings
    BY <1>1 DEF Tellings
  <2>2. InOrder(u, {i})
    BY <1>4, <1>6, <1>9 DEF InOrder, GoesFirst
  <2> QED BY <1>1, <1>8, <1>9, <2>1, <2>2, ToldFacts
<1>12. /\ t \in WorkerStates /\ t.active = active /\ t.behavior = behavior
       /\ t.due = s.due /\ t.generation = s.generation
  BY <1>9, <1>11 DEF IsTold, Untold
<1>13. Active(t) = Active(s) \cup {i}
  <2>1. \A j \in Active(t) : j \in Active(s) \cup {i}
    BY <1>6, <1>12 DEF Active
  <2>2. \A j \in Active(s) : j \in Active(t)
    BY <1>6, <1>12 DEF Active
  <2>3. i \in Active(t)
    BY <1>1, <1>2, <1>6, <1>12 DEF Active
  <2> QED BY <2>1, <2>2, <2>3
<1>14. OwnKeys(t)
  <2> SUFFICES ASSUME NEW k \in Keys, t.active[k] # 0
               PROVE  t.active[k] \in DOMAIN press /\ press[t.active[k]].key = k
    BY DEF OwnKeys
  <2>1. CASE k = press[i].key
    BY <1>6, <1>12, <2>1
  <2>2. CASE k # press[i].key
    BY <1>6, <1>12, <2>2 DEF Good, OwnKeys
  <2> QED BY <2>1, <2>2
<1>15. ASSUME NEW j \in Ids \ {i}
       PROVE  Story(l, t, j) /\ Tale(l, t, j) = Tale(l, s, j)
  <2>1. Story(l, s, j)
    BY DEF Good
  <2>2. Tale(l, t, j) = Tale(l, s, j) /\ t.rest[j] = s.rest[j] /\ t.behavior[j] = s.behavior[j]
    BY <1>6, <1>9, <1>10, <1>11, <1>12 DEF IsTold
  <2> QED BY <1>12, <1>13, <2>1, <2>2 DEF Story
<1>16. Story(l, t, i)
  <2>1. Tale(l, t, i) = <<"started">>
    BY <1>1, <1>10, <1>11, BeginsTale DEF IsTold
  <2>2. <<"started">> # <<>>
    OBVIOUS
  <2> QED BY <1>3, <1>4, <1>6, <1>12, <1>13, <2>1, <2>2, BeginsTale DEF Story
<1>17. Good(l, t)
  BY <1>2, <1>1, <1>12, <1>14, <1>15, <1>16 DEF Good
<1> QED BY <1>12, <1>13, <1>15, <1>17

\* The long action of those that are due.
LEMMA FiredFacts ==
  ASSUME NEW l, NEW s, Good(l, s), NEW ids \in SUBSET Active(s), NEW time,
         NEW t, t = FiredLong(s, ids, time)
  PROVE  Good(l, t) /\ Keeps(l, s, t) /\ t.active = s.active
<1>1. /\ l \in Tales /\ s \in WorkerStates
      /\ Active(s) \subseteq DOMAIN press /\ Active(s) \subseteq Ids
      /\ \A i \in Ids : Tale(l, s, i) \in Seq(Tellings)
      /\ \A i \in Active(s) : Open(Tale(l, s, i)) /\ BalancedLifecycle(Tale(l, s, i))
  BY GoodFacts
<1> DEFINE late == {i \in ids : IsDue(s, i, time)}
           behavior == [i \in Ids |-> IF i \in late THEN "longFired" ELSE s.behavior[i]]
<1>2. late \subseteq Active(s) /\ \A i \in late : s.behavior[i] = "longPending"
  BY DEF IsDue
<1>3. PICK u : u = [s EXCEPT !.behavior = behavior]
  OBVIOUS
<1>4. t = Told(u, late, "long")
  BY <1>3 DEF FiredLong
<1> HIDE DEF late
<1>5. behavior \in [Ids -> Behaviors]
  BY <1>1, WorkerFields DEF Behaviors
<1>6. \A i \in Ids : behavior[i] = IF i \in late THEN "longFired" ELSE s.behavior[i]
  OBVIOUS
<1> HIDE DEF behavior
<1>7. /\ u \in WorkerStates /\ u.active = s.active /\ u.behavior = behavior
      /\ u.generation = s.generation /\ u.due = s.due /\ u.first = s.first /\ u.rest = s.rest
  BY <1>1, <1>3, <1>5 DEF WorkerStates
<1>8. \A i \in Ids : Tale(l, u, i) = Tale(l, s, i)
  BY <1>7 DEF Tale, Settled
<1>9. \A i \in Active(s) : i \in s.due => s.rest[i] = <<>>
  BY <1>1 DEF Good, Story
<1>10. IsTold(l, u, t, late, "long")
  <2>1. late \in SUBSET Ids /\ "long" \in Tellings
    BY <1>1, <1>2 DEF Tellings
  <2>2. InOrder(u, late)
    BY <1>2, <1>7, <1>9 DEF InOrder, GoesFirst
  <2> QED BY <1>1, <1>4, <1>7, <2>1, <2>2, ToldFacts
<1>11. /\ t \in WorkerStates /\ t.active = s.active /\ t.behavior = behavior
       /\ t.due = s.due /\ t.generation = s.generation
  BY <1>7, <1>10 DEF IsTold, Untold
<1>12. Active(t) = Active(s) /\ OwnKeys(t)
  BY <1>11 DEF Active, OwnKeys, Good
<1>13. ASSUME NEW i \in Ids PROVE Story(l, t, i) /\ (Tale(l, s, i) = <<>> => Tale(l, t, i) = <<>>)
  <2>0. Story(l, s, i)
    BY DEF Good
  <2>1. CASE i \in late
    <3>1. /\ Tale(l, t, i) = Append(Tale(l, s, i), "long") /\ Tale(l, s, i) \in Seq(Tellings)
          /\ Open(Tale(l, s, i)) /\ BalancedLifecycle(Tale(l, s, i)) /\ i \in DOMAIN press
          /\ i \in Active(s) /\ t.behavior[i] = "longFired" /\ s.behavior[i] = "longPending"
      BY <1>1, <1>2, <1>6, <1>8, <1>10, <1>11, <2>1 DEF IsTold
    <3>2. Undecided(Tale(l, s, i)) /\ "longPending" \in Fits[press[i].binding]
      BY <2>0, <3>1 DEF Story
    <3>3. BalancedLifecycle(Tale(l, t, i)) /\ Open(Tale(l, t, i))
      BY <3>1, <3>2, OpenAppend, "long" \in Tellings DEF Tellings
    <3>4. "longFired" \in Fits[press[i].binding]
      <4>1. press[i].binding \in Bindings
        BY <3>1, PressFacts DEF Good
      <4> QED BY <3>2, <4>1, FitsFacts
    <3>5. i \in s.due => t.rest[i] = <<>>
      BY <1>6, <1>7, <1>9, <1>10, <2>1, <3>1 DEF IsTold, GoesFirst
    <3>6. Tale(l, s, i) # <<>> /\ Tale(l, t, i) # <<>>
      BY <3>1, <3>3 DEF Open
    <3> QED BY <1>11, <1>12, <3>1, <3>3, <3>4, <3>5, <3>6 DEF Story
  <2>2. CASE i \notin late
    <3>1. /\ Tale(l, t, i) = Tale(l, s, i) /\ t.rest[i] = s.rest[i]
          /\ t.behavior[i] = s.behavior[i]
      BY <1>6, <1>7, <1>8, <1>10, <1>11, <2>2 DEF IsTold
    <3> QED BY <1>11, <1>12, <2>0, <3>1 DEF Story
  <2> QED BY <2>1, <2>2
<1>14. Good(l, t)
  BY <1>1, <1>11, <1>12, <1>13 DEF Good
<1> QED BY <1>11, <1>13, <1>14 DEF Keeps

\* A press is released, with its short action if it is still undecided.
LEMMA ReleasedFacts ==
  ASSUME NEW l, NEW s, Good(l, s), NEW i \in Active(s), NEW t, t = EmitReleased(s, i)
  PROVE  /\ Good(l, t) /\ Keeps(l, s, t) /\ Active(t) = Active(s) \ {i}
<1>1. /\ l \in Tales /\ Active(s) \subseteq DOMAIN press /\ i \in Ids /\ i \in DOMAIN press
      /\ Tale(l, s, i) \in Seq(Tellings)
      /\ Open(Tale(l, s, i)) /\ BalancedLifecycle(Tale(l, s, i))
      /\ GoesFirst(s, i) => s.rest[i] = <<>>
  BY GoodFacts
<1>2. PICK u : u = Removed(s, {i})
  OBVIOUS
<1>3. /\ u \in WorkerStates /\ u.behavior = s.behavior
      /\ u.generation = s.generation /\ u.due = s.due /\ u.rest = s.rest
      /\ Active(u) = Active(s) \ {i} /\ OwnKeys(u)
      /\ \A j \in Ids : Tale(l, u, j) = Tale(l, s, j) /\ (GoesFirst(u, j) <=> GoesFirst(s, j))
  BY <1>2, RemovedFacts
<1>4. PICK v : v = IF s.behavior[i] \in {"longPending", "wheelPending"}
                   THEN Told(u, {i}, "short") ELSE u
  OBVIOUS
<1>5. {i} \in SUBSET Ids /\ {"short", "released"} \subseteq Tellings /\ InOrder(u, {i})
  BY <1>1, <1>3 DEF InOrder, Tellings
<1>6. /\ v \in WorkerStates /\ Untold(u, v) /\ InOrder(v, {i})
      /\ Open(Tale(l, v, i)) /\ BalancedLifecycle(Tale(l, v, i)) /\ Tale(l, v, i) \in Seq(Tellings)
      /\ \A j \in Ids \ {i} : Tale(l, v, j) = Tale(l, s, j) /\ v.rest[j] = s.rest[j]
  <2>1. CASE s.behavior[i] \in {"longPending", "wheelPending"}
    <3>1. IsTold(l, u, v, {i}, "short")
      BY <1>1, <1>3, <1>4, <1>5, <2>1, ToldFacts
    <3>2. Undecided(Tale(l, s, i))
      BY <1>1, <2>1 DEF Good, Story
    <3>3. Tale(l, v, i) = Append(Tale(l, s, i), "short")
      BY <1>1, <1>3, <3>1 DEF IsTold
    <3>4. Open(Tale(l, v, i)) /\ BalancedLifecycle(Tale(l, v, i)) /\ Tale(l, v, i) \in Seq(Tellings)
      BY <1>1, <1>5, <3>2, <3>3, OpenAppend, AppendFacts
    <3>5. InOrder(v, {i})
      BY <1>3, <2>1, <3>1 DEF InOrder, GoesFirst, IsTold, Untold
    <3> QED BY <1>3, <3>1, <3>4, <3>5 DEF IsTold
  <2>2. CASE s.behavior[i] \notin {"longPending", "wheelPending"}
    BY <1>1, <1>3, <1>4, <1>5, <2>2 DEF Untold
  <2> QED BY <2>1, <2>2
<1>7. IsTold(l, v, t, {i}, "released")
  <2>1. t = Told(v, {i}, "released")
    BY <1>2, <1>4 DEF EmitReleased
  <2> QED BY <1>1, <1>5, <1>6, <2>1, ToldFacts
<1>8. /\ t \in WorkerStates /\ t.active = u.active /\ t.behavior = s.behavior
      /\ t.due = s.due /\ t.generation = s.generation
  BY <1>3, <1>6, <1>7 DEF IsTold, Untold
<1>9. Active(t) = Active(s) \ {i} /\ OwnKeys(t)
  <2>1. Active(t) = Active(u)
    BY <1>8 DEF Active
  <2>2. OwnKeys(t)
    BY <1>3, <1>8 DEF OwnKeys
  <2> QED BY <1>3, <2>1, <2>2
<1>10. ASSUME NEW j \in Ids PROVE Story(l, t, j) /\ (Tale(l, s, j) = <<>> => Tale(l, t, j) = <<>>)
  <2>1. CASE j = i
    <3>1. Tale(l, t, i) = Append(Tale(l, v, i), "released")
      BY <1>1, <1>7 DEF IsTold
    <3>2. BalancedLifecycle(Tale(l, t, i)) /\ Over(Tale(l, t, i))
      BY <1>5, <1>6, <3>1, OpenAppend, "released" \in Ends DEF Ends
    <3>3. Tale(l, s, i) # <<>> /\ Tale(l, t, i) # <<>>
      BY <1>1, <3>2 DEF Open, Over
    <3> QED BY <1>1, <1>9, <2>1, <3>2, <3>3 DEF Story
  <2>2. CASE j # i
    <3>1. Tale(l, t, j) = Tale(l, s, j) /\ t.rest[j] = s.rest[j] /\ Story(l, s, j)
      BY <1>6, <1>7, <2>2 DEF IsTold, Good
    <3> QED BY <1>8, <1>9, <2>2, <3>1 DEF Story
  <2> QED BY <2>1, <2>2
<1>11. Good(l, t)
  BY <1>8, <1>9, <1>10 DEF Good
<1> QED BY <1>8, <1>9, <1>10, <1>11 DEF Keeps

\* A gesture of a hold.
LEMMA GestureFacts ==
  ASSUME NEW l, NEW s, Good(l, s), NEW i \in Active(s), press[i].binding = "gesture",
         NEW t, t = Told(s, {i}, "gesture")
  PROVE  Good(l, t) /\ Keeps(l, s, t) /\ Active(t) = Active(s)
<1>1. /\ l \in Tales /\ s \in WorkerStates /\ i \in Ids /\ i \in DOMAIN press
      /\ Tale(l, s, i) \in Seq(Tellings)
      /\ Open(Tale(l, s, i)) /\ BalancedLifecycle(Tale(l, s, i))
      /\ GoesFirst(s, i) => s.rest[i] = <<>>
  BY GoodFacts
<1>2. Story(l, s, i)
  BY <1>1 DEF Good
<1>3. s.behavior[i] = "lifecycle"
  <2>1. press[i].binding \in Bindings
    BY <1>1, PressFacts DEF Good
  <2> QED BY <1>2, <2>1, FitsFacts DEF Story
<1>4. i \notin s.due
  BY <1>2, <1>3 DEF Story
<1>5. IsTold(l, s, t, {i}, "gesture")
  <2>1. {i} \in SUBSET Ids /\ "gesture" \in Tellings /\ InOrder(s, {i})
    BY <1>1 DEF InOrder, Tellings
  <2> QED BY <1>1, <2>1, ToldFacts
<1>6. /\ t \in WorkerStates /\ t.active = s.active /\ t.behavior = s.behavior
      /\ t.due = s.due /\ t.generation = s.generation
  BY <1>5 DEF IsTold, Untold
<1>7. Active(t) = Active(s) /\ OwnKeys(t)
  <2>1. Active(t) = Active(s)
    BY <1>6 DEF Active
  <2>2. OwnKeys(t)
    BY <1>6 DEF OwnKeys, Good
  <2> QED BY <2>1, <2>2
<1>8. ASSUME NEW j \in Ids PROVE Story(l, t, j) /\ (Tale(l, s, j) = <<>> => Tale(l, t, j) = <<>>)
  <2>1. CASE j = i
    <3>1. Tale(l, t, i) = Append(Tale(l, s, i), "gesture")
      BY <1>1, <1>5 DEF IsTold
    <3>2. /\ Open(Tale(l, t, i)) /\ BalancedLifecycle(Tale(l, t, i))
          /\ Undecided(Tale(l, s, i)) => Undecided(Tale(l, t, i))
      BY <1>1, <3>1, OpenAppend, "gesture" \in Tellings DEF Tellings
    <3>3. Tale(l, s, i) # <<>> /\ Tale(l, t, i) # <<>>
      BY <1>1, <3>2 DEF Open
    <3> QED BY <1>1, <1>2, <1>4, <1>6, <1>7, <2>1, <3>2, <3>3 DEF Story
  <2>2. CASE j # i
    <3>1. Tale(l, t, j) = Tale(l, s, j) /\ t.rest[j] = s.rest[j] /\ Story(l, s, j)
      BY <1>5, <2>2 DEF IsTold, Good
    <3> QED BY <1>6, <1>7, <3>1 DEF Story
  <2> QED BY <2>1, <2>2
<1>9. Good(l, t)
  BY <1>1, <1>6, <1>7, <1>8 DEF Good
<1> QED BY <1>6, <1>7, <1>8, <1>9 DEF Keeps

\* The wheel moves during a hold.
LEMMA WheelFacts ==
  ASSUME NEW l, NEW s, Good(l, s), NEW i \in Active(s), s.behavior[i] = "wheelPending",
         NEW t, t = [s EXCEPT !.behavior[i] = "wheelScrolled"]
  PROVE  Good(l, t) /\ Keeps(l, s, t) /\ Active(t) = Active(s)
<1>1. l \in Tales /\ s \in WorkerStates /\ i \in Ids /\ i \in DOMAIN press
  BY GoodFacts
<1> DEFINE behavior == [s.behavior EXCEPT ![i] = "wheelScrolled"]
<1>2. /\ behavior \in [Ids -> Behaviors] /\ behavior[i] = "wheelScrolled"
      /\ \A j \in Ids \ {i} : behavior[j] = s.behavior[j]
  BY <1>1, WorkerFields DEF Behaviors
<1>3. t = [s EXCEPT !.behavior = behavior]
  OBVIOUS
<1> HIDE DEF behavior
<1>4. /\ t \in WorkerStates /\ t.active = s.active /\ t.behavior = behavior
      /\ t.generation = s.generation /\ t.due = s.due /\ t.first = s.first /\ t.rest = s.rest
  BY <1>1, <1>2, <1>3 DEF WorkerStates
<1>5. \A j \in Ids : Tale(l, t, j) = Tale(l, s, j)
  BY <1>4 DEF Tale, Settled
<1>6. Active(t) = Active(s) /\ OwnKeys(t)
  BY <1>4 DEF Active, OwnKeys, Good
<1>7. ASSUME NEW j \in Ids PROVE Story(l, t, j)
  <2>1. Story(l, s, j) /\ Tale(l, t, j) = Tale(l, s, j)
    BY <1>5 DEF Good
  <2>2. CASE j = i
    <3>1. press[i].binding \in Bindings
      BY <1>1, PressFacts DEF Good
    <3>2. "wheelScrolled" \in Fits[press[i].binding]
      BY <2>1, <2>2, <3>1, FitsFacts DEF Story
    <3>3. i \notin s.due
      BY <2>1, <2>2 DEF Story
    <3> QED BY <1>2, <1>4, <1>6, <2>1, <2>2, <3>2, <3>3 DEF Story
  <2>3. CASE j # i
    BY <1>2, <1>4, <1>6, <2>1, <2>3 DEF Story
  <2> QED BY <2>2, <2>3
<1>8. Good(l, t)
  BY <1>1, <1>4, <1>6, <1>7 DEF Good
<1> QED BY <1>4, <1>5, <1>6, <1>8 DEF Keeps

\* The pointer enters another window: gesture holds go on.
LEMMA PointerFacts ==
  ASSUME NEW l, NEW s, Good(l, s), NEW window \in Windows, NEW t, t = PointerMoved(s, window)
  PROVE  /\ Good(l, t) /\ Keeps(l, s, t)
         /\ \A i \in Active(s) \ Active(t) : s.behavior[i] # "lifecycle"
<1>1. l \in Tales /\ s \in WorkerStates /\ Active(s) \subseteq Ids
  BY GoodFacts
<1> DEFINE follows(i) == i \in Active(s) /\ s.behavior[i] = "lifecycle" /\ s.window[i] # NoWindow
           windows == [i \in Ids |-> IF follows(i) THEN window ELSE s.window[i]]
           moved == [s EXCEPT !.window = windows]
           leaving == {i \in Active(s) : moved.window[i] \notin {NoWindow, window}}
<1>2. windows \in [Ids -> Windows \cup {NoWindow}]
  BY <1>1, WorkerFields
<1>3. \A i \in Ids : windows[i] = IF follows(i) THEN window ELSE s.window[i]
  OBVIOUS
<1>4. t = Canceled(moved, leaving)
  BY DEF PointerMoved
<1> HIDE DEF windows
<1>5. /\ moved \in WorkerStates /\ moved.active = s.active /\ moved.behavior = s.behavior
      /\ moved.window = windows /\ moved.generation = s.generation /\ moved.due = s.due
      /\ moved.first = s.first /\ moved.rest = s.rest
  BY <1>1, <1>2 DEF WorkerStates
<1>6. leaving \subseteq Active(s) /\ \A i \in leaving : windows[i] \notin {NoWindow, window}
  BY <1>5
<1> HIDE DEF moved, leaving
<1>7. Active(moved) = Active(s)
  BY <1>5 DEF Active
<1>8. \A i \in Ids : Tale(l, moved, i) = Tale(l, s, i)
  BY <1>5 DEF Tale, Settled
<1>9. Good(l, moved)
  <2>1. \A i \in s.due : i \in Ids /\ Story(l, s, i)
    BY <1>1, WorkerFields DEF Good
  <2>2. \A i \in moved.due :
          /\ Tale(l, s, i) # <<>>
          /\ i \in Active(s) => /\ moved.rest[i] = <<>>
                                /\ s.behavior[i] \in {"longPending", "longFired"}
    BY <1>5, <2>1 DEF Story
  <2> QED BY <1>1, <1>5, <1>8, <2>2, GoodAgain
<1>10. Good(l, t) /\ Keeps(l, moved, t) /\ Active(t) = Active(s) \ leaving
  BY <1>4, <1>6, <1>7, <1>9, CanceledFacts
<1>11. \A i \in leaving : s.behavior[i] # "lifecycle"
  BY <1>1, <1>3, <1>6
<1> QED BY <1>5, <1>8, <1>10, <1>11 DEF Keeps

-----------------------------------------------------------------------------
(* Commands.                                                               *)

LEMMA CommandFields ==
  ASSUME NEW c \in Commands
  PROVE  /\ c.kind \in InputKinds => /\ c.id \in 0..MaxCalls /\ c.key \in Keys
                                     /\ c.generation \in Nat /\ c.time \in Nat
         /\ c.kind = "stale" => c.id \in Ids
         /\ c.kind = "pointer" => c.window \in Windows
         /\ c.kind \in InputKinds \cup CancelKinds \cup {"wake"}
<1>1. CASE c \in [kind : InputKinds, generation : Nat, id : 0..MaxCalls, key : Keys, time : Nat]
  BY <1>1 DEF InputKinds, CancelKinds
<1>2. CASE c \in [kind : {"stale"}, id : Ids]
  BY <1>2 DEF InputKinds, CancelKinds
<1>3. CASE c \in [kind : {"source", "gkeys"}, source : Sources]
  BY <1>3 DEF InputKinds, CancelKinds
<1>4. CASE c \in [kind : {"hooks", "wake"}]
  BY <1>4 DEF InputKinds, CancelKinds
<1>5. CASE c \in [kind : {"pointer"}, window : Windows]
  BY <1>5 DEF InputKinds, CancelKinds
<1> QED BY <1>1, <1>2, <1>3, <1>4, <1>5 DEF Commands

LEMMA PressedFacts ==
  ASSUME NEW l, NEW s, Good(l, s), NEW i \in DOMAIN press, Tale(l, s, i) = <<>>,
         NEW t, t = Pressed(s, i)
  PROVE  /\ Good(l, t) /\ t.due = s.due /\ t.generation = s.generation
         /\ i \in Active(t)
         /\ \A j \in Active(s) : j \in Active(t) \/ press[j].key = press[i].key
         /\ \A j \in Ids \ {i} : Tale(l, s, j) = <<>> => Tale(l, t, j) = <<>>
<1>1. /\ s \in WorkerStates /\ press[i].key \in Keys /\ i \in Ids
      /\ \A k \in Keys : s.active[k] # 0 => s.active[k] \in Active(s)
  BY GoodFacts
<1> DEFINE ids == {s.active[press[i].key]} \ {0}
<1>2. PICK u : u = Canceled(s, ids)
  OBVIOUS
<1>3. ids \in SUBSET Active(s)
  BY <1>1
<1>4. /\ Good(l, u) /\ Keeps(l, s, u) /\ Active(u) = Active(s) \ ids
      /\ \A k \in Keys : u.active[k] = IF s.active[k] \in ids THEN 0 ELSE s.active[k]
  <2> HIDE DEF ids
  <2> QED BY <1>2, <1>3, CanceledFacts
<1>5. u.active[press[i].key] = 0 /\ Tale(l, u, i) = <<>>
  BY <1>1, <1>4 DEF Keeps
<1>6. t = Entered(u, i)
  BY <1>2 DEF Pressed
<1>7. /\ Good(l, t) /\ t.due = u.due /\ t.generation = u.generation
      /\ Active(t) = Active(u) \cup {i}
      /\ \A j \in Ids \ {i} : Tale(l, t, j) = Tale(l, u, j)
  BY <1>4, <1>5, <1>6, EnteredFacts
<1>8. \A j \in ids : press[j].key = press[i].key
  BY <1>1 DEF Good, OwnKeys
<1> QED BY <1>4, <1>7, <1>8 DEF Keeps

\* The commands that may end a gesture hold at its control.
MayEnd(c, key) ==
  \/ c.kind \in CancelKinds \ {"pointer"}
  \/ c.kind \in {"up", "down", "pulse"} /\ c.key = key

\* What processing a command does: t follows s.
Follows(l, s, c, t) ==
  /\ Good(l, t) /\ t.due = s.due /\ t.generation = s.generation
  /\ \A i \in Ids : Tale(l, s, i) = <<>> /\ ~(Creates(c) /\ c.id = i) => Tale(l, t, i) = <<>>
  /\ \A i \in Active(s) \ Active(t) :
       press[i].binding = "gesture" => MayEnd(c, press[i].key)

LEMMA NothingFollows ==
  ASSUME NEW l, NEW s, Good(l, s), NEW c
  PROVE  Follows(l, s, c, s)
BY DEF Follows

LEMMA CancelsFollow ==
  ASSUME NEW l, NEW s, Good(l, s), NEW ids \in SUBSET Active(s),
         NEW c, c.kind \in CancelKinds \ {"pointer"}
  PROVE  Follows(l, s, c, Canceled(s, ids))
<1>1. PICK t : t = Canceled(s, ids)
  OBVIOUS
<1>2. Good(l, t) /\ Keeps(l, s, t)
  BY <1>1, CanceledFacts
<1>3. Follows(l, s, c, t)
  BY <1>2 DEF Keeps, Follows, MayEnd
<1> QED BY <1>1, <1>3

LEMMA DownFollows ==
  ASSUME NEW l, NEW s, Good(l, s), NEW c \in Commands, Known(c), c.kind = "down",
         Tale(l, s, c.id) = <<>>
  PROVE  Follows(l, s, c, Pressed(s, c.id))
<1>1. c.id \in DOMAIN press /\ press[c.id].key = c.key
  BY DEF Known
<1>2. PICK t : t = Pressed(s, c.id)
  OBVIOUS
<1>3. /\ Good(l, t) /\ t.due = s.due /\ t.generation = s.generation
      /\ \A j \in Active(s) : j \in Active(t) \/ press[j].key = press[c.id].key
      /\ \A j \in Ids \ {c.id} : Tale(l, s, j) = <<>> => Tale(l, t, j) = <<>>
  BY <1>1, <1>2, PressedFacts
<1>4. Follows(l, s, c, t)
  BY <1>1, <1>3 DEF Follows, MayEnd, Creates
<1> QED BY <1>2, <1>4

LEMMA PulseFollows ==
  ASSUME NEW l, NEW s, Good(l, s), NEW c \in Commands, Known(c), c.kind = "pulse",
         Tale(l, s, c.id) = <<>>
  PROVE  Follows(l, s, c, EmitReleased(Pressed(s, c.id), c.id))
<1>1. c.id \in DOMAIN press /\ press[c.id].key = c.key
  BY DEF Known
<1>2. PICK u : u = Pressed(s, c.id)
  OBVIOUS
<1>3. /\ Good(l, u) /\ u.due = s.due /\ u.generation = s.generation /\ c.id \in Active(u)
      /\ \A j \in Active(s) : j \in Active(u) \/ press[j].key = press[c.id].key
      /\ \A j \in Ids \ {c.id} : Tale(l, s, j) = <<>> => Tale(l, u, j) = <<>>
  BY <1>1, <1>2, PressedFacts
<1>4. PICK t : t = EmitReleased(u, c.id)
  OBVIOUS
<1>5. Good(l, t) /\ Keeps(l, u, t) /\ Active(t) = Active(u) \ {c.id}
  BY <1>3, <1>4, ReleasedFacts
<1>6. Follows(l, s, c, t)
  BY <1>1, <1>3, <1>5 DEF Follows, MayEnd, Creates, Keeps
<1> QED BY <1>2, <1>4, <1>6

LEMMA UpFollows ==
  ASSUME NEW l, NEW s, Good(l, s), NEW c \in Commands, c.kind = "up"
  PROVE  Follows(l, s, c, Released(s, c.key, c.time))
<1>1. /\ c.key \in Keys /\ s \in WorkerStates
      /\ \A k \in Keys : s.active[k] # 0 => s.active[k] \in Active(s)
  BY CommandFields, GoodFacts, "up" \in InputKinds DEF InputKinds
<1>2. CASE s.active[c.key] = 0
  BY <1>2, NothingFollows DEF Released
<1>3. CASE s.active[c.key] # 0
  <2>1. PICK i : i = s.active[c.key]
    OBVIOUS
  <2>2. i \in Active(s) /\ press[i].key = c.key
    BY <1>1, <1>3, <2>1 DEF Good, OwnKeys
  <2>3. PICK u : u = FiredLong(s, {i}, c.time)
    OBVIOUS
  <2>4. Good(l, u) /\ Keeps(l, s, u) /\ u.active = s.active
    BY <2>2, <2>3, FiredFacts
  <2>5. Active(u) = Active(s)
    BY <2>4 DEF Active
  <2>6. PICK t : t = EmitReleased(u, i)
    OBVIOUS
  <2>7. Good(l, t) /\ Keeps(l, u, t) /\ Active(t) = Active(u) \ {i}
    BY <2>2, <2>4, <2>5, <2>6, ReleasedFacts
  <2>8. Follows(l, s, c, t)
    BY <2>2, <2>4, <2>5, <2>7 DEF Follows, MayEnd, Keeps
  <2>9. t = Released(s, c.key, c.time)
    BY <1>3, <2>1, <2>3, <2>6 DEF Released
  <2> QED BY <2>8, <2>9
<1> QED BY <1>2, <1>3

LEMMA ProcessedFollows ==
  ASSUME NEW l, NEW s, Good(l, s), NEW c \in Commands, Known(c),
         Creates(c) => Tale(l, s, c.id) = <<>>
  PROVE  Follows(l, s, c, Processed(s, c))
<1>0. /\ s \in WorkerStates
      /\ \A i \in DOMAIN press : i \in Active(s) <=> s.active[press[i].key] = i
      /\ \A i \in DOMAIN press : i \in Active(s) <=> IsActive(s, i)
  BY GoodFacts DEF IsActive
<1>1. CASE (c.kind \in InputKinds /\ c.generation # s.generation) \/ c.kind = "wake"
  <2>1. Processed(s, c) = s
    <3>1. CASE c.kind \in InputKinds /\ c.generation # s.generation
      BY <3>1 DEF Processed, InputKinds
    <3>2. CASE c.kind = "wake"
      BY <3>2 DEF Processed, InputKinds
    <3> QED BY <1>1, <3>1, <3>2
  <2> QED BY <2>1, NothingFollows
<1>2. CASE c.kind = "stale"
  <2>1. Processed(s, c) = IF IsActive(s, c.id) THEN Canceled(s, {c.id}) ELSE s
    BY <1>2 DEF Processed, InputKinds
  <2>2. c.id \in DOMAIN press /\ c.kind \in CancelKinds \ {"pointer"}
    BY <1>2 DEF Known, CancelKinds
  <2> QED BY <1>0, <2>1, <2>2, CancelsFollow, NothingFollows
<1>3. CASE c.kind = "source"
  <2> DEFINE ids == {i \in Active(s) : SourceOf[press[i].key] = c.source}
  <2>1. Processed(s, c) = Canceled(s, ids)
    BY <1>3 DEF Processed, InputKinds
  <2>2. ids \in SUBSET Active(s) /\ c.kind \in CancelKinds \ {"pointer"}
    BY <1>3 DEF CancelKinds
  <2> HIDE DEF ids
  <2> QED BY <2>1, <2>2, CancelsFollow
<1>4. CASE c.kind = "gkeys"
  <2> DEFINE ids == {i \in Active(s) : /\ SourceOf[press[i].key] = c.source
                                       /\ press[i].key \in GKeys}
  <2>1. Processed(s, c) = Canceled(s, ids)
    BY <1>4 DEF Processed, InputKinds
  <2>2. ids \in SUBSET Active(s) /\ c.kind \in CancelKinds \ {"pointer"}
    BY <1>4 DEF CancelKinds
  <2> HIDE DEF ids
  <2> QED BY <2>1, <2>2, CancelsFollow
<1>5. CASE c.kind = "hooks"
  <2> DEFINE ids == {i \in Active(s) : SourceOf[press[i].key] \in Hooks}
  <2>1. Processed(s, c) = Canceled(s, ids)
    BY <1>5 DEF Processed, InputKinds
  <2>2. ids \in SUBSET Active(s) /\ c.kind \in CancelKinds \ {"pointer"}
    BY <1>5 DEF CancelKinds
  <2> HIDE DEF ids
  <2> QED BY <2>1, <2>2, CancelsFollow
<1>6. CASE c.kind = "pointer"
  <2>1. PICK t : t = PointerMoved(s, c.window)
    OBVIOUS
  <2>2. Processed(s, c) = t
    BY <1>6, <2>1 DEF Processed, InputKinds
  <2>3. /\ Good(l, t) /\ Keeps(l, s, t)
        /\ \A i \in Active(s) \ Active(t) : s.behavior[i] # "lifecycle"
    BY <1>6, <2>1, CommandFields, PointerFacts
  <2>4. \A i \in Active(s) : press[i].binding = "gesture" => s.behavior[i] = "lifecycle"
    <3> SUFFICES ASSUME NEW i \in Active(s), press[i].binding = "gesture"
                 PROVE  s.behavior[i] = "lifecycle"
      OBVIOUS
    <3>1. i \in Ids /\ i \in DOMAIN press
      BY GoodFacts
    <3>2. press[i].binding \in Bindings
      BY <3>1, PressFacts DEF Good
    <3> QED BY <3>1, <3>2, FitsFacts DEF Good, Story
  <2>5. Follows(l, s, c, t)
    BY <2>3, <2>4 DEF Follows, Keeps
  <2> QED BY <2>2, <2>5
<1>7. CASE c.kind \in InputKinds /\ c.generation = s.generation
  <2>1. CASE c.kind = "down"
    <3>1. Processed(s, c) = Pressed(s, c.id)
      BY <1>7, <2>1 DEF Processed
    <3> QED BY <2>1, <3>1, DownFollows DEF Creates
  <2>2. CASE c.kind = "up"
    <3>1. Processed(s, c) = Released(s, c.key, c.time)
      BY <1>7, <2>2 DEF Processed
    <3> QED BY <2>2, <3>1, UpFollows
  <2>3. CASE c.kind = "pulse"
    <3>1. Processed(s, c) = EmitReleased(Pressed(s, c.id), c.id)
      BY <1>7, <2>3 DEF Processed
    <3> QED BY <2>3, <3>1, PulseFollows DEF Creates
  <2>4. CASE c.kind = "trigger"
    <3>1. Processed(s, c) = IF IsActive(s, c.id) THEN Told(s, {c.id}, "gesture") ELSE s
      BY <1>7, <2>4 DEF Processed
    <3>2. c.id \in DOMAIN press /\ press[c.id].binding = "gesture"
      BY <2>4 DEF Known
    <3>3. CASE IsActive(s, c.id)
      <4>1. PICK t : t = Told(s, {c.id}, "gesture")
        OBVIOUS
      <4>2. Good(l, t) /\ Keeps(l, s, t) /\ Active(t) = Active(s)
        BY <1>0, <3>2, <3>3, <4>1, GestureFacts
      <4>3. Follows(l, s, c, t)
        BY <4>2 DEF Follows, Keeps
      <4> QED BY <3>1, <3>3, <4>1, <4>3
    <3> QED BY <3>1, <3>3, NothingFollows
  <2>5. CASE c.kind = "wheel"
    <3>1. Processed(s, c) = IF IsActive(s, c.id) /\ s.behavior[c.id] = "wheelPending"
                            THEN [s EXCEPT !.behavior[c.id] = "wheelScrolled"] ELSE s
      BY <1>7, <2>5 DEF Processed
    <3>2. c.id \in DOMAIN press
      BY <2>5 DEF Known
    <3>3. CASE IsActive(s, c.id) /\ s.behavior[c.id] = "wheelPending"
      <4>1. PICK t : t = [s EXCEPT !.behavior[c.id] = "wheelScrolled"]
        OBVIOUS
      <4>2. Good(l, t) /\ Keeps(l, s, t) /\ Active(t) = Active(s)
        BY <1>0, <3>2, <3>3, <4>1, WheelFacts
      <4>3. Follows(l, s, c, t)
        BY <4>2 DEF Follows, Keeps
      <4> QED BY <3>1, <3>3, <4>1, <4>3
    <3> QED BY <3>1, <3>3, NothingFollows
  <2> QED BY <1>7, <2>1, <2>2, <2>3, <2>4, <2>5 DEF InputKinds
<1> QED BY <1>1, <1>2, <1>3, <1>4, <1>5, <1>6, <1>7, CommandFields DEF CancelKinds
-----------------------------------------------------------------------------
(* Generations, due presses and emitting.                                  *)

\* A new generation ends every active press.
LEMMA SynchronizedFacts ==
  ASSUME NEW l, NEW s, Good(l, s), generation \in Nat, NEW t, t = Synchronized(s)
  PROVE  /\ Good(l, t) /\ t.due = s.due /\ t.generation = generation
         /\ \A i \in Ids : Tale(l, s, i) = <<>> => Tale(l, t, i) = <<>>
         /\ s.generation = generation => Active(t) = Active(s)
<1>1. CASE s.generation = generation
  BY <1>1 DEF Synchronized
<1>2. CASE s.generation # generation
  <2>1. PICK u : u = Canceled(s, Active(s))
    OBVIOUS
  <2>2. Good(l, u) /\ Keeps(l, s, u)
    BY <2>1, CanceledFacts
  <2>3. l \in Tales /\ u \in WorkerStates
    BY <2>2 DEF Good
  <2>4. t = [u EXCEPT !.generation = generation]
    BY <1>2, <2>1 DEF Synchronized
  <2>5. /\ t \in WorkerStates /\ t.active = u.active /\ t.behavior = u.behavior
        /\ t.generation = generation /\ t.due = u.due /\ t.first = u.first /\ t.rest = u.rest
    BY <2>3, <2>4 DEF WorkerStates
  <2>6. \A i \in Ids : Tale(l, t, i) = Tale(l, u, i)
    BY <2>5 DEF Tale, Settled
  <2>7. \A i \in u.due : i \in Ids /\ Story(l, u, i)
    BY <2>2, <2>3, WorkerFields DEF Good
  <2>8. \A i \in t.due : /\ Tale(l, u, i) # <<>>
                         /\ i \in Active(u) => /\ t.rest[i] = <<>>
                                               /\ u.behavior[i] \in {"longPending", "longFired"}
    BY <2>5, <2>7 DEF Story
  <2>9. Good(l, t)
    BY <2>2, <2>3, <2>5, <2>6, <2>8, GoodAgain
  <2> QED BY <1>2, <2>2, <2>5, <2>6, <2>9 DEF Keeps
<1> QED BY <1>1, <1>2

LEMMA DueFacts ==
  ASSUME NEW l, NEW s, Good(l, s)
  PROVE  /\ DuePresses(s) \subseteq Active(s)
         /\ DuePresses(s) \subseteq {i \in Active(s) : s.behavior[i] = "longPending"}
         /\ DuePresses(s) \subseteq Ids
BY GoodFacts DEF DuePresses, IsDue

LEMMA QuietFacts ==
  ASSUME NEW s \in WorkerStates, NEW t, t = Quiet(s)
  PROVE  /\ t \in WorkerStates /\ t.active = s.active /\ t.behavior = s.behavior
         /\ t.generation = s.generation /\ t.due = {}
         /\ t.first = NoEvents /\ t.rest = NoEvents
<1>1. NoEvents \in Tales
  BY DEF NoEvents, Tales
<1> QED BY <1>1 DEF Quiet, WorkerStates

\* The presses of due wait for the settling loop.
Awaiting(s, due) == [Quiet(s) EXCEPT !.due = due]

LEMMA QuietWithDue ==
  ASSUME NEW s \in WorkerStates, NEW due \in SUBSET Ids, NEW t, t = Awaiting(s, due)
  PROVE  /\ t \in WorkerStates /\ t.active = s.active /\ t.behavior = s.behavior
         /\ t.generation = s.generation /\ t.due = due
         /\ t.first = NoEvents /\ t.rest = NoEvents
<1>1. PICK u : u = Quiet(s)
  OBVIOUS
<1>2. /\ u \in WorkerStates /\ u.active = s.active /\ u.behavior = s.behavior
      /\ u.generation = s.generation /\ u.first = NoEvents /\ u.rest = NoEvents
  BY <1>1, QuietFacts
<1>3. t = [u EXCEPT !.due = due]
  BY <1>1 DEF Awaiting
<1> QED BY <1>2, <1>3 DEF WorkerStates

\* The events l, with those of s emitted.
Spread(l, s) == [i \in Ids |-> l[i] \o Settled(s, i)]

\* Emitting moves the events and tells the same tales.
LEMMA EmittedFacts ==
  ASSUME NEW l, NEW s, Good(l, s), NEW m, m = Spread(l, s),
         NEW t \in WorkerStates, t.active = s.active, t.behavior = s.behavior,
         t.first = NoEvents, t.rest = NoEvents,
         t.due \subseteq {i \in Active(s) : s.behavior[i] = "longPending"}
  PROVE  /\ Good(m, t)
         /\ \A i \in Ids : m[i] = Tale(l, s, i) /\ Tale(m, t, i) = Tale(l, s, i)
<1>1. /\ l \in Tales /\ s \in WorkerStates /\ Active(s) \subseteq Ids
      /\ \A i \in Ids : Tale(l, s, i) \in Seq(Tellings)
      /\ \A i \in Active(s) : Open(Tale(l, s, i))
  BY GoodFacts
<1>2. m = [i \in Ids |-> Tale(l, s, i)]
  BY DEF Tale, Spread
<1>3. m \in Tales /\ \A i \in Ids : m[i] = Tale(l, s, i)
  BY <1>1, <1>2 DEF Tales
<1>4. ASSUME NEW i \in Ids PROVE Tale(m, t, i) = Tale(l, s, i)
  <2>1. t.first[i] = <<>> /\ t.rest[i] = <<>>
    BY DEF NoEvents
  <2>2. <<>> \o <<>> = <<>>
    OBVIOUS
  <2>3. Settled(t, i) = <<>>
    BY <2>1, <2>2, Zenon DEF Settled
  <2>4. m[i] \o <<>> = m[i]
    BY <1>1, <1>3, ConcatEmptySeq
  <2>5. Tale(m, t, i) = m[i]
    BY <2>3, <2>4, Zenon DEF Tale
  <2> QED BY <1>3, <2>5
<1>5. ASSUME NEW i \in t.due
      PROVE  /\ Tale(l, s, i) # <<>>
             /\ i \in Active(s) => /\ t.rest[i] = <<>>
                                   /\ s.behavior[i] \in {"longPending", "longFired"}
  BY <1>1 DEF Open, NoEvents
<1>6. Good(m, t)
  <2>1. /\ \A i \in Ids : Tale(m, t, i) = Tale(l, s, i)
        /\ \A i \in t.due : /\ Tale(l, s, i) # <<>>
                            /\ i \in Active(s) => /\ t.rest[i] = <<>>
                                                  /\ s.behavior[i] \in {"longPending", "longFired"}
    BY <1>4, <1>5
  <2> QED BY ONLY Good(l, s), t \in WorkerStates, t.active = s.active,
                  t.behavior = s.behavior, <1>3, <2>1, GoodAgain
<1> QED BY <1>3, <1>4, <1>6
-----------------------------------------------------------------------------
(* Steps.                                                                  *)

LEMMA SamePress ==
  ASSUME press' = press, Good(seen', state')
  PROVE  Good(seen, state)'
BY DEF Good, Story, OwnKeys

\* Where all events are emitted, what the handler saw is balanced.
LEMMA EmittedIsBalanced ==
  ASSUME NEW l, NEW s, Good(l, s), \A i \in Ids : l[i] = Tale(l, s, i)
  PROVE  /\ \A i \in Ids : BalancedLifecycle(l[i])
         /\ \A i \in Ids : l[i] # <<>> /\ ~(Last(l[i]) \in Ends) => i \in Active(s)
<1> SUFFICES ASSUME NEW i \in Ids
             PROVE  /\ BalancedLifecycle(l[i])
                    /\ l[i] # <<>> /\ ~(Last(l[i]) \in Ends) => i \in Active(s)
  OBVIOUS
<1>1. Story(l, s, i) /\ l[i] = Tale(l, s, i)
  BY DEF Good
<1>2. BalancedLifecycle(l[i]) /\ (i \notin Active(s) => l[i] = <<>> \/ Over(l[i]))
  BY <1>1 DEF Story
<1>3. Over(l[i]) => Last(l[i]) \in Ends
  BY Zenon DEF Over, Last
<1> QED BY <1>2, <1>3

\* Two active presses are at different controls.
LEMMA ActiveApart ==
  ASSUME NEW l, NEW s, Good(l, s), NEW i \in Active(s), NEW j \in Active(s), i # j
  PROVE  press[i].key # press[j].key
BY GoodFacts

LEMMA EmitStep ==
  ASSUME NEW s, Good(seen, s), Emit(s), press' = press
  PROVE  /\ Good(seen, state)' /\ Balanced'
         /\ Active(s) = {} => ExitEndsAll'
         /\ \A i \in Ids : Tale(seen', state', i) = Tale(seen, s, i)
         /\ seen' \in Tales /\ state' \in WorkerStates
         /\ state'.generation = s.generation /\ Active(state') = Active(s)
<1>1. seen' = Spread(seen, s) /\ state' = Quiet(s)
  BY DEF Emit, Emitted, Spread
<1>2. s \in WorkerStates
  BY DEF Good
<1>3. /\ state' \in WorkerStates /\ state'.active = s.active /\ state'.behavior = s.behavior
      /\ state'.generation = s.generation /\ state'.due = {}
      /\ state'.first = NoEvents /\ state'.rest = NoEvents
  BY <1>1, <1>2, QuietFacts
<1>4. /\ Good(seen', state')
      /\ \A i \in Ids : seen'[i] = Tale(seen, s, i) /\ Tale(seen', state', i) = Tale(seen, s, i)
  <2>1. state'.due \subseteq {i \in Active(s) : s.behavior[i] = "longPending"}
    BY <1>3
  <2>2. seen' = Spread(seen, s)
    BY <1>1
  <2> QED BY <1>3, <2>1, <2>2, EmittedFacts
<1>5. Active(state') = Active(s)
  BY <1>3 DEF Active
<1>6. /\ \A i \in Ids : BalancedLifecycle(seen'[i])
      /\ \A i \in Ids : seen'[i] # <<>> /\ ~(Last(seen'[i]) \in Ends) => i \in Active(state')
  BY <1>4, EmittedIsBalanced
<1>7. DOMAIN press \subseteq Ids
  BY GoodFacts
<1>8. Balanced'
  <2>1. \A i \in DOMAIN press : Started(i)' /\ ~Ended(i)' => i \in Active(state')
    BY <1>6, <1>7 DEF Started, Ended
  <2>2. \A i, j \in DOMAIN press :
          i # j /\ Started(i)' /\ ~Ended(i)' /\ Started(j)' /\ ~Ended(j)'
            => press[i].key # press[j].key
    BY <1>4, <2>1, ActiveApart
  <2> QED BY <1>6, <2>2 DEF Balanced
<1>9. Active(s) = {} => ExitEndsAll'
  BY <1>5, <1>6 DEF ExitEndsAll, Started, Ended
<1> QED BY <1>3, <1>4, <1>5, <1>8, <1>9, SamePress DEF Good

\* Nothing is emitted.
LEMMA SilentStep ==
  ASSUME Balanced, press' = press, seen' = seen, at' # "exited" \/ (at = at' /\ ExitEndsAll)
  PROVE  Balanced' /\ ExitEndsAll'
BY DEF Balanced, ExitEndsAll, Started, Ended

\* A command that is not the processed one stays as it is.
LEMMA StaysUnborn ==
  ASSUME DOMAIN press \subseteq Ids, NEW c, NEW d, Differ(c, d), Known(d), Unborn(d),
         \A i \in Ids : Tale(seen, state, i) = <<>> /\ ~(Creates(c) /\ c.id = i)
                          => Tale(seen', state', i) = <<>>
  PROVE  Creates(d) => Tale(seen', state', d.id) = <<>>
<1> SUFFICES ASSUME Creates(d) PROVE Tale(seen', state', d.id) = <<>>
  OBVIOUS
<1>1. d.id \in Ids
  BY DEF Known, Creates
<1>2. Tale(seen, state, d.id) = <<>> /\ ~(Creates(c) /\ c.id = d.id)
  BY DEF Unborn, Differ
<1> QED BY <1>1, <1>2

\* The worker takes the first command of the queue, or all, or none; one command
\* is processed, and it is no longer anywhere.
LEMMA CommandsKept ==
  ASSUME CommandsAreKnown, StartsOnce, DOMAIN press \subseteq Ids,
         press' = press, call' = call, NEW c,
         \A i \in Ids : Tale(seen, state, i) = <<>> /\ ~(Creates(c) /\ c.id = i)
                          => Tale(seen', state', i) = <<>>,
         NEW q \in Nat, Len(queue') \in Nat,
         \A n \in 1..Len(queue') : n + q \in 1..Len(queue) /\ queue'[n] = queue[n + q],
         \A n \in 1..Len(queue') : Differ(c, queue[n + q]),
         \A t \in Threads : Differ(c, call[t].command),
         \/ held' = NoCommand
         \/ held' = held /\ Differ(c, held)
         \/ q = 1 /\ 1 \in 1..Len(queue) /\ held' = queue[1] /\ Differ(c, queue[1])
  PROVE  CommandsAreKnown' /\ StartsOnce'
<1>1. \A d : Known(d) /\ Unborn(d) /\ Differ(c, d) /\ Creates(d)
               => Tale(seen', state', d.id) = <<>>
  BY StaysUnborn
<1>2. ~Creates(NoCommand) /\ Known(NoCommand) /\ NoCommand.kind = "none"
  BY DEF NoCommand, Creates, Known
<1>3. /\ Known(held) /\ Unborn(held)
      /\ \A n \in 1..Len(queue) : Known(queue[n]) /\ Unborn(queue[n])
      /\ \A t \in Threads : Known(call[t].command) /\ Unborn(call[t].command)
  BY DEF CommandsAreKnown
<1>4. Known(held') /\ (Creates(held') => Tale(seen', state', held'.id) = <<>>)
  BY <1>1, <1>2, <1>3
<1>5. \A n \in 1..Len(queue') :
        Known(queue'[n]) /\ (Creates(queue'[n]) => Tale(seen', state', queue'[n].id) = <<>>)
  BY <1>1, <1>3
<1>6. \A t \in Threads :
        /\ Known(call[t].command)
        /\ Creates(call[t].command) => Tale(seen', state', call[t].command.id) = <<>>
  BY <1>1, <1>3
<1>7. CommandsAreKnown'
  <2>1. Known(held)' /\ Unborn(held)'
    BY <1>4 DEF Known, Unborn, Creates
  <2>2. \A n \in 1..Len(queue') : Known(queue[n])' /\ Unborn(queue[n])'
    BY <1>5 DEF Known, Unborn, Creates
  <2>3. \A t \in Threads : Known(call[t].command)' /\ Unborn(call[t].command)'
    BY <1>6 DEF Known, Unborn, Creates
  <2> QED BY <2>1, <2>2, <2>3 DEF CommandsAreKnown
<1>8. /\ \A m, n \in 1..Len(queue) : m # n => Differ(queue[m], queue[n])
      /\ \A t, u \in Threads : t # u => Differ(call[t].command, call[u].command)
      /\ \A t \in Threads, n \in 1..Len(queue) : Differ(call[t].command, queue[n])
      /\ \A n \in 1..Len(queue) : Differ(held, queue[n])
      /\ \A t \in Threads : Differ(held, call[t].command)
  BY DEF StartsOnce
<1>9. \A d : Differ(NoCommand, d)
  BY <1>2 DEF Differ
<1>10. \A d, e : Differ(d, e) => Differ(e, d)
  BY DEF Differ
<1>11. \A m, n \in 1..Len(queue') : m # n => Differ(queue'[m], queue'[n])
  <2> SUFFICES ASSUME NEW m \in 1..Len(queue'), NEW n \in 1..Len(queue'), m # n
               PROVE  Differ(queue'[m], queue'[n])
    OBVIOUS
  <2>1. m + q \in 1..Len(queue) /\ n + q \in 1..Len(queue) /\ m + q # n + q
    OBVIOUS
  <2> QED BY <1>8, <2>1
<1>12. \A t \in Threads, n \in 1..Len(queue') : Differ(call[t].command, queue'[n])
  BY <1>8
<1>13. \A n \in 1..Len(queue') : Differ(held', queue'[n])
  <2> SUFFICES ASSUME NEW n \in 1..Len(queue') PROVE Differ(held', queue'[n])
    OBVIOUS
  <2>1. n + q \in 1..Len(queue) /\ queue'[n] = queue[n + q]
    OBVIOUS
  <2>2. CASE q = 1 /\ 1 \in 1..Len(queue) /\ held' = queue[1]
    <3>1. n + 1 \in 1..Len(queue) /\ n + 1 # 1
      BY <2>1, <2>2
    <3>2. Differ(queue[1], queue[n + 1])
      BY <1>8, <2>2, <3>1
    <3> QED BY <2>1, <2>2, <3>2
  <2> QED BY <1>8, <1>9, <2>1, <2>2
<1>14. \A t \in Threads : Differ(held', call[t].command)
  BY <1>8, <1>9, <1>10
<1>15. StartsOnce'
  BY <1>8, <1>11, <1>12, <1>13, <1>14 DEF StartsOnce, Differ, Creates
<1> QED BY <1>7, <1>15
-----------------------------------------------------------------------------
(* The worker's steps.                                                     *)

Outside == UNCHANGED <<producerVars, generation, now>>

\* The step tells nothing of a press that has not started, but for the one that
\* command c starts.
Tells(c) ==
  \A i \in Ids : Tale(seen, state, i) = <<>> /\ ~(Creates(c) /\ c.id = i)
                   => Tale(seen', state', i) = <<>>

\* The step takes q commands from the queue, and c stays nowhere.
Takes(q, c) ==
  /\ queue' \in Seq(Commands) /\ Len(queue') <= Capacity
  /\ \A n \in 1..Len(queue') : n + q \in 1..Len(queue) /\ queue'[n] = queue[n + q]
  /\ \A n \in 1..Len(queue') : Differ(c, queue[n + q])
  /\ \A t \in Threads : Differ(c, call[t].command)
  /\ \/ held' = NoCommand
     \/ held' = held /\ Differ(c, held)
     \/ q = 1 /\ 1 \in 1..Len(queue) /\ held' = queue[1] /\ Differ(c, queue[1])

Placed ==
  /\ asked' \in BOOLEAN /\ limit' \in 0..Capacity /\ unread' \in 0..Capacity
  /\ at' \in {"top", "receive", "received", "process", "settle", "drain", "drainNext", "exited"}
  /\ at' \in {"received", "process"} => held' # NoCommand

\* What the step says of gesture holds.
HoldsStay ==
  \A i \in Active(state) \ Active(state') :
    press[i].binding = "gesture" =>
      asked \/ state.generation # generation \/ MayEnd(Current, press[i].key)

LEMMA NoCommandFacts ==
  /\ ~Creates(NoCommand) /\ Known(NoCommand) /\ NoCommand.kind = "none"
  /\ NoCommand \notin Commands
  /\ \A d : Differ(NoCommand, d) /\ Differ(d, NoCommand)
<1>1. ~Creates(NoCommand) /\ Known(NoCommand) /\ NoCommand.kind = "none"
  BY DEF NoCommand, Creates, Known
<1>2. NoCommand \notin Commands
  BY <1>1, CommandFields DEF InputKinds, CancelKinds
<1> QED BY <1>1, <1>2 DEF Differ

LEMMA InvFacts ==
  ASSUME IInv
  PROVE  /\ TypeOK /\ Good(seen, state) /\ CommandsAreKnown /\ StartsOnce /\ Balanced
         /\ ExitEndsAll /\ DOMAIN press \subseteq Ids
         /\ generation \in Nat /\ state.generation <= generation
         /\ state \in WorkerStates /\ seen \in Tales
         /\ queue \in Seq(Commands) /\ Len(queue) \in Nat /\ Len(queue) <= Capacity
         /\ held \in Commands \cup {NoCommand}
         /\ limit \in 0..Capacity /\ unread \in 0..Capacity
<1>1. TypeOK /\ Good(seen, state) /\ CommandsAreKnown /\ StartsOnce /\ Balanced /\ ExitEndsAll
  BY DEF IInv
<1>2. DOMAIN press \subseteq Ids
  BY <1>1, GoodFacts
<1> QED BY <1>1, <1>2 DEF TypeOK

LEMMA WorkerKeeps ==
  ASSUME IInv, Outside, Good(seen, state)', state'.generation <= generation,
         Balanced', ExitEndsAll', Placed,
         NEW c, Tells(c), NEW q \in Nat, Takes(q, c)
  PROVE  IInv'
<1>1. /\ TypeOK /\ CommandsAreKnown /\ StartsOnce /\ DOMAIN press \subseteq Ids
      /\ queue \in Seq(Commands) /\ held \in Commands \cup {NoCommand}
  BY InvFacts
<1>2. /\ press' = press /\ accepting' = accepting /\ call' = call /\ calls' = calls
      /\ shutdown' = shutdown /\ generation' = generation /\ now' = now
  BY DEF Outside, producerVars
<1>3. Len(queue') \in Nat
  BY DEF Takes
<1>4. CommandsAreKnown' /\ StartsOnce'
  BY <1>1, <1>2, <1>3, CommandsKept DEF Tells, Takes
<1>5. held' \in Commands \cup {NoCommand}
  BY <1>1 DEF Takes
<1>6. state' \in WorkerStates /\ seen' \in Tales
  BY DEF Good
<1>7. TypeOK'
  BY <1>1, <1>2, <1>5, <1>6 DEF TypeOK, Takes, Placed
<1> QED BY <1>4, <1>7 DEF IInv, HoldsCommand, Placed

\* Nothing is processed and the queue stays.
LEMMA TakesNothing ==
  ASSUME IInv, queue' = queue, held' \in {held, NoCommand}
  PROVE  Takes(0, NoCommand)
<1>1. queue \in Seq(Commands) /\ Len(queue) \in Nat /\ Len(queue) <= Capacity
  BY InvFacts
<1>2. \A n \in 1..Len(queue') : n + 0 \in 1..Len(queue) /\ queue'[n] = queue[n + 0]
  BY <1>1
<1> QED BY <1>1, <1>2, NoCommandFacts DEF Takes

\* The command that was received is processed.
LEMMA TakesHeld ==
  ASSUME IInv, queue' = queue, held' = NoCommand
  PROVE  Takes(0, held)
<1>1. queue \in Seq(Commands) /\ Len(queue) \in Nat /\ Len(queue) <= Capacity /\ StartsOnce
  BY InvFacts
<1>2. \A n \in 1..Len(queue') : n + 0 \in 1..Len(queue) /\ queue'[n] = queue[n + 0]
  BY <1>1
<1>3. \A n \in 1..Len(queue') : Differ(held, queue[n + 0])
  BY <1>1, <1>2 DEF StartsOnce
<1>4. \A t \in Threads : Differ(held, call[t].command)
  BY <1>1 DEF StartsOnce
<1> QED BY <1>1, <1>2, <1>3, <1>4 DEF Takes

LEMMA TailFacts ==
  ASSUME IInv, queue # <<>>, queue' = Tail(queue)
  PROVE  /\ queue' \in Seq(Commands) /\ Len(queue') \in Nat /\ Len(queue') = Len(queue) - 1
         /\ 1 \in 1..Len(queue) /\ Head(queue) = queue[1] /\ queue[1] \in Commands
         /\ \A n \in 1..Len(queue') : n + 1 \in 1..Len(queue) /\ queue'[n] = queue[n + 1]
<1>1. queue \in Seq(Commands) /\ Len(queue) \in Nat
  BY InvFacts
<1> QED BY <1>1

\* The first command of the queue is received.
LEMMA TakesToHold ==
  ASSUME IInv, queue # <<>>, queue' = Tail(queue), held' = Head(queue)
  PROVE  Takes(1, NoCommand)
<1>1. Len(queue) \in Nat /\ Len(queue) <= Capacity
  BY InvFacts
<1> QED BY <1>1, TailFacts, NoCommandFacts DEF Takes

\* The first command of the queue is processed.
LEMMA TakesHead ==
  ASSUME IInv, queue # <<>>, queue' = Tail(queue), held' = NoCommand
  PROVE  Takes(1, Head(queue))
<1>1. Len(queue) \in Nat /\ Len(queue) <= Capacity /\ StartsOnce
  BY InvFacts
<1>2. /\ queue' \in Seq(Commands) /\ Len(queue') \in Nat /\ Len(queue') = Len(queue) - 1
      /\ 1 \in 1..Len(queue) /\ Head(queue) = queue[1]
      /\ \A n \in 1..Len(queue') : n + 1 \in 1..Len(queue) /\ queue'[n] = queue[n + 1]
  BY TailFacts
<1>3. \A n \in 1..Len(queue') : Differ(queue[1], queue[n + 1])
  <2> SUFFICES ASSUME NEW n \in 1..Len(queue') PROVE Differ(queue[1], queue[n + 1])
    OBVIOUS
  <2>1. n + 1 \in 1..Len(queue) /\ n + 1 # 1
    BY <1>2
  <2> QED BY <1>1, <1>2, <2>1 DEF StartsOnce
<1>4. \A t \in Threads : Differ(queue[1], call[t].command)
  BY <1>1, <1>2 DEF StartsOnce, Differ
<1> QED BY <1>1, <1>2, <1>3, <1>4 DEF Takes

\* A step that leaves the table of presses alone.
LEMMA TableStays ==
  ASSUME state'.active = state.active
  PROVE  HoldsStay
<1>1. Active(state') = Active(state)
  BY DEF Active
<1> QED BY <1>1 DEF HoldsStay

LEMMA ExitKeeps ==
  ASSUME IInv, ExitForShutdown, Outside, asked
  PROVE  IInv' /\ HoldsStay
<1>1. /\ Good(seen, state) /\ generation \in Nat /\ state.generation <= generation
      /\ limit \in 0..Capacity /\ unread \in 0..Capacity
  BY InvFacts
<1>2. PICK s : s = Canceled(state, Active(state))
  OBVIOUS
<1>3. Good(seen, s) /\ Keeps(seen, state, s) /\ Active(s) = {}
  BY <1>1, <1>2, CanceledFacts
<1>4. Emit(s) /\ press' = press
  BY <1>2 DEF ExitForShutdown, Outside, producerVars
<1>5. /\ Good(seen, state)' /\ Balanced' /\ ExitEndsAll'
      /\ \A i \in Ids : Tale(seen', state', i) = Tale(seen, s, i)
      /\ state'.generation = s.generation
  BY <1>3, <1>4, EmitStep
<1>6. /\ queue' = <<>> /\ held' = NoCommand /\ at' = "exited" /\ asked' = FALSE
      /\ limit' = limit /\ unread' = unread
  BY DEF ExitForShutdown, Goto
<1>7. Takes(0, NoCommand)
  BY <1>6, NoCommandFacts DEF Takes
<1>8. Tells(NoCommand)
  BY <1>3, <1>5 DEF Tells, Keeps
<1>9. Placed
  BY <1>1, <1>6 DEF Placed
<1>10. state'.generation <= generation
  BY <1>1, <1>3, <1>5 DEF Keeps
<1>11. IInv'
  BY <1>5, <1>7, <1>8, <1>9, <1>10, WorkerKeeps
<1> QED BY <1>11 DEF HoldsStay

\* Steps that only move the worker or a command.
LEMMA WorkerMoves ==
  ASSUME IInv, Outside, state' = state, seen' = seen, Placed, at' # "exited",
         NEW q \in Nat, Takes(q, NoCommand)
  PROVE  IInv' /\ HoldsStay
<1>1. Good(seen, state) /\ Balanced /\ state.generation <= generation
  BY InvFacts
<1>2. press' = press
  BY DEF Outside, producerVars
<1>3. Good(seen, state)' /\ Balanced' /\ ExitEndsAll'
  BY <1>1, <1>2, SamePress, SilentStep
<1>4. Tells(NoCommand)
  BY DEF Tells
<1>5. IInv'
  BY <1>1, <1>3, <1>4, WorkerKeeps
<1> QED BY <1>5, TableStays

LEMMA TopKeeps ==
  ASSUME IInv, Top
  PROVE  IInv' /\ HoldsStay
<1>0. Outside
  BY DEF Top, Outside
<1>1. CASE asked
  BY <1>0, <1>1, ExitKeeps DEF Top
<1>2. CASE ~asked
  <2>1. /\ at' = "receive" /\ held' = NoCommand /\ state' = state /\ seen' = seen
        /\ asked' = asked /\ queue' = queue /\ limit' = limit /\ unread' = unread
    BY <1>2 DEF Top, Goto
  <2>2. Takes(0, NoCommand)
    BY <2>1, TakesNothing
  <2>3. Placed
    BY <2>1, InvFacts DEF Placed, TypeOK
  <2> QED BY <1>0, <2>1, <2>2, <2>3, WorkerMoves
<1> QED BY <1>1, <1>2

LEMMA ReceiveKeeps ==
  ASSUME IInv, Receive
  PROVE  IInv' /\ HoldsStay
<1>0. Outside
  BY DEF Receive, Outside
<1>1. /\ at' = "received" /\ queue # <<>> /\ queue' = Tail(queue) /\ held' = Head(queue)
      /\ state' = state /\ seen' = seen
      /\ asked' = asked /\ limit' = limit /\ unread' = unread
  BY DEF Receive, Goto
<1>2. Takes(1, NoCommand)
  BY <1>1, TakesToHold
<1>3. Head(queue) \in Commands
  BY <1>1, TailFacts
<1>4. Placed
  BY <1>1, <1>3, InvFacts, NoCommandFacts DEF Placed, TypeOK
<1> QED BY <1>0, <1>1, <1>2, <1>4, WorkerMoves

LEMMA TimesOutKeeps ==
  ASSUME IInv, ReceiveTimesOut
  PROVE  IInv' /\ HoldsStay
<1>0. Outside
  BY DEF ReceiveTimesOut, Outside
<1>1. /\ at' = "settle" /\ held' = NoCommand /\ state' = state /\ seen' = seen
      /\ asked' = asked /\ queue' = queue /\ limit' = limit /\ unread' = unread
  BY DEF ReceiveTimesOut, Goto
<1>2. Takes(0, NoCommand)
  BY <1>1, TakesNothing
<1>3. Placed
  BY <1>1, InvFacts DEF Placed, TypeOK
<1> QED BY <1>0, <1>1, <1>2, <1>3, WorkerMoves

LEMMA ReceivedKeeps ==
  ASSUME IInv, Received
  PROVE  IInv' /\ HoldsStay
<1>0. Outside
  BY DEF Received, Outside
<1>1. /\ Good(seen, state) /\ generation \in Nat /\ TypeOK
      /\ held \in Commands \cup {NoCommand}
  BY InvFacts
<1>2. PICK s : s = Synchronized(state)
  OBVIOUS
<1>3. /\ Good(seen, s) /\ s.generation = generation
      /\ \A i \in Ids : Tale(seen, state, i) = <<>> => Tale(seen, s, i) = <<>>
      /\ state.generation = generation => Active(s) = Active(state)
  BY <1>1, <1>2, SynchronizedFacts
<1>4. Emit(s) /\ press' = press
  BY <1>2 DEF Received, producerVars
<1>5. /\ Good(seen, state)' /\ Balanced'
      /\ \A i \in Ids : Tale(seen', state', i) = Tale(seen, s, i)
      /\ state'.generation = generation /\ Active(state') = Active(s)
  BY <1>3, <1>4, EmitStep
<1>6. /\ at = "received" /\ at' \in {"settle", "process"} /\ held' = held /\ queue' = queue
      /\ asked' = asked /\ limit' = limit /\ unread' = unread
  BY DEF Received, Goto
<1>7. Takes(0, NoCommand)
  BY <1>6, TakesNothing
<1>8. Placed
  BY <1>1, <1>6 DEF Placed, TypeOK, IInv, HoldsCommand
<1>9. ExitEndsAll'
  BY <1>6 DEF ExitEndsAll
<1>10. Tells(NoCommand)
  BY <1>3, <1>5 DEF Tells
<1>11. IInv'
  BY <1>0, <1>1, <1>5, <1>7, <1>8, <1>9, <1>10, WorkerKeeps
<1> QED BY <1>3, <1>5, <1>11 DEF HoldsStay

\* A command that is emitted at once.
LEMMA EmitsProcessed ==
  ASSUME IInv, Outside, Placed, at' # "exited", NEW s, Good(seen, s), NEW c \in Commands,
         Known(c), Creates(c) => Tale(seen, s, c.id) = <<>>, s.generation <= generation,
         \A i \in Ids : Tale(seen, state, i) = <<>> => Tale(seen, s, i) = <<>>,
         Emit(Processed(s, c)), NEW q \in Nat, Takes(q, c),
         state.generation = generation => s = state, Current = c
  PROVE  IInv' /\ HoldsStay
<1>1. PICK u : u = Processed(s, c)
  OBVIOUS
<1>2. Follows(seen, s, c, u)
  BY <1>1, ProcessedFollows
<1>3. /\ Good(seen, u) /\ u.generation = s.generation
      /\ \A i \in Ids : Tale(seen, s, i) = <<>> /\ ~(Creates(c) /\ c.id = i)
                          => Tale(seen, u, i) = <<>>
      /\ \A i \in Active(s) \ Active(u) :
           press[i].binding = "gesture" => MayEnd(c, press[i].key)
  BY <1>2 DEF Follows
<1>4. Emit(u) /\ press' = press
  BY <1>1 DEF Outside, producerVars
<1>5. /\ Good(seen, state)' /\ Balanced'
      /\ \A i \in Ids : Tale(seen', state', i) = Tale(seen, u, i)
      /\ state'.generation = u.generation /\ Active(state') = Active(u)
  BY <1>3, <1>4, EmitStep
<1>6. Tells(c)
  BY <1>3, <1>5 DEF Tells
<1>7. state'.generation <= generation
  BY <1>3, <1>5
<1>8. ExitEndsAll'
  BY DEF ExitEndsAll
<1>9. IInv'
  BY <1>5, <1>6, <1>7, <1>8, WorkerKeeps
<1>10. HoldsStay
  BY <1>3, <1>5 DEF HoldsStay
<1> QED BY <1>9, <1>10

LEMMA ProcessKeeps ==
  ASSUME IInv, Process
  PROVE  IInv' /\ HoldsStay
<1>0. Outside
  BY DEF Process, Outside
<1>1. /\ Good(seen, state) /\ state.generation <= generation /\ TypeOK /\ CommandsAreKnown
      /\ held \in Commands \cup {NoCommand}
  BY InvFacts
<1>2. /\ at = "process" /\ at' = "settle" /\ held' = NoCommand /\ queue' = queue
      /\ asked' = asked /\ limit' = limit /\ unread' = unread
      /\ Emit(Processed(state, held))
  BY DEF Process, Goto
<1>3. held \in Commands /\ Known(held) /\ (Creates(held) => Tale(seen, state, held.id) = <<>>)
  BY <1>1, <1>2 DEF IInv, HoldsCommand, CommandsAreKnown, Unborn
<1>4. Takes(0, held)
  BY <1>2, TakesHeld
<1>5. Placed
  BY <1>1, <1>2 DEF Placed, TypeOK
<1>6. Current = held
  BY <1>2 DEF Current
<1> QED BY <1>0, <1>1, <1>2, <1>3, <1>4, <1>5, <1>6, EmitsProcessed

LEMMA FireDueKeeps ==
  ASSUME IInv, FireDue
  PROVE  IInv' /\ HoldsStay
<1>0. Outside
  BY DEF FireDue, Outside
<1>1. Good(seen, state) /\ state.generation <= generation /\ TypeOK
  BY InvFacts
<1>2. PICK s : s = FiredDue(state)
  OBVIOUS
<1>3. Good(seen, s) /\ Keeps(seen, state, s) /\ s.active = state.active
  <2>1. state.due \cap Active(state) \in SUBSET Active(state)
    OBVIOUS
  <2> QED BY <1>1, <1>2, <2>1, FiredFacts DEF FiredDue
<1>4. Emit(s) /\ press' = press
  BY <1>2 DEF FireDue, producerVars
<1>5. /\ Good(seen, state)' /\ Balanced'
      /\ \A i \in Ids : Tale(seen', state', i) = Tale(seen, s, i)
      /\ state'.generation = s.generation /\ Active(state') = Active(s)
  BY <1>3, <1>4, EmitStep
<1>6. /\ at' = "top" /\ held' = NoCommand /\ queue' = queue
      /\ asked' = asked /\ limit' = 0 /\ unread' = 0
  BY DEF FireDue, Goto
<1>7. Takes(0, NoCommand)
  BY <1>6, TakesNothing
<1>8. Placed
  BY <1>1, <1>6 DEF Placed, TypeOK
<1>9. ExitEndsAll'
  BY <1>6 DEF ExitEndsAll
<1>10. Tells(NoCommand) /\ state'.generation <= generation
  BY <1>1, <1>3, <1>5 DEF Tells, Keeps
<1>11. IInv'
  BY <1>0, <1>5, <1>7, <1>8, <1>9, <1>10, WorkerKeeps
<1>12. Active(state') = Active(state)
  BY <1>3, <1>5 DEF Active
<1> QED BY <1>11, <1>12 DEF HoldsStay

LEMMA DrainKeeps ==
  ASSUME IInv, Drain
  PROVE  IInv' /\ HoldsStay
<1>0. Outside
  BY DEF Drain, Outside
<1>1. CASE asked
  BY <1>0, <1>1, ExitKeeps DEF Drain
<1>2. CASE ~asked
  <2>1. Good(seen, state) /\ generation \in Nat /\ TypeOK /\ Balanced
    BY InvFacts
  <2>2. /\ at' = "drainNext" /\ held' = NoCommand /\ queue' = queue /\ seen' = seen
        /\ asked' = asked /\ limit' = limit /\ unread' = unread /\ press' = press
        /\ state' = Synchronized(state)
    BY <1>2 DEF Drain, Goto, producerVars
  <2>3. /\ Good(seen, state') /\ state'.generation = generation
        /\ \A i \in Ids : Tale(seen, state, i) = <<>> => Tale(seen, state', i) = <<>>
        /\ state.generation = generation => Active(state') = Active(state)
    BY <2>1, <2>2, SynchronizedFacts
  <2>4. Good(seen, state)' /\ Balanced' /\ ExitEndsAll'
    BY <2>1, <2>2, <2>3, SamePress, SilentStep
  <2>5. Tells(NoCommand) /\ state'.generation <= generation
    BY <2>1, <2>2, <2>3 DEF Tells
  <2>6. Takes(0, NoCommand)
    BY <2>2, TakesNothing
  <2>7. Placed
    BY <2>1, <2>2 DEF Placed, TypeOK
  <2>8. IInv'
    BY <1>0, <2>4, <2>5, <2>6, <2>7, WorkerKeeps
  <2> QED BY <2>3, <2>8 DEF HoldsStay
<1> QED BY <1>1, <1>2

LEMMA DrainOneKeeps ==
  ASSUME IInv, DrainOne
  PROVE  IInv' /\ HoldsStay
<1>0. Outside
  BY DEF DrainOne, Outside
<1>1. /\ Good(seen, state) /\ state.generation <= generation /\ TypeOK /\ Balanced
      /\ CommandsAreKnown
  BY InvFacts
<1>2. /\ at = "drainNext" /\ limit > 0 /\ queue # <<>> /\ queue' = Tail(queue)
      /\ at' = "drain" /\ held' = NoCommand /\ seen' = seen /\ press' = press
      /\ asked' = asked /\ limit' = limit - 1
      /\ unread' = IF unread = 0 THEN 0 ELSE unread - 1
      /\ state' = Processed(state, Head(queue))
  BY DEF DrainOne, Goto, producerVars
<1>3. PICK c : c = Head(queue)
  OBVIOUS
<1>4. c \in Commands /\ Known(c) /\ (Creates(c) => Tale(seen, state, c.id) = <<>>)
  <2>1. 1 \in 1..Len(queue) /\ Head(queue) = queue[1] /\ queue[1] \in Commands
    BY <1>2, TailFacts
  <2> QED BY <1>1, <1>3, <2>1 DEF CommandsAreKnown, Unborn
<1>5. Follows(seen, state, c, state')
  BY <1>1, <1>2, <1>3, <1>4, ProcessedFollows
<1>6. Good(seen, state)' /\ Balanced' /\ ExitEndsAll'
  BY <1>1, <1>2, <1>5, SamePress, SilentStep DEF Follows
<1>7. Tells(c) /\ state'.generation <= generation
  BY <1>1, <1>2, <1>5 DEF Tells, Follows
<1>8. Takes(1, c)
  BY <1>2, <1>3, TakesHead
<1>9. Placed
  BY <1>1, <1>2 DEF Placed, TypeOK
<1>10. IInv'
  BY <1>0, <1>6, <1>7, <1>8, <1>9, WorkerKeeps
<1>11. Current = c
  BY <1>2, <1>3 DEF Current
<1> QED BY <1>5, <1>10, <1>11 DEF HoldsStay, Follows

LEMMA SettleKeeps ==
  ASSUME IInv, Settle
  PROVE  IInv' /\ HoldsStay
<1>0. Outside /\ press' = press
  BY DEF Settle, Outside, producerVars
<1>1. /\ Good(seen, state) /\ generation \in Nat /\ TypeOK /\ CommandsAreKnown
      /\ held \in Commands \cup {NoCommand} /\ Balanced
      /\ queue \in Seq(Commands) /\ Len(queue) \in Nat /\ Len(queue) <= Capacity
  BY InvFacts
<1>2. PICK s : s = Synchronized(state)
  OBVIOUS
<1>3. /\ Good(seen, s) /\ s.generation = generation
      /\ \A i \in Ids : Tale(seen, state, i) = <<>> => Tale(seen, s, i) = <<>>
      /\ state.generation = generation => Active(s) = Active(state)
  BY <1>1, <1>2, SynchronizedFacts
<1>4. state.generation = generation => s = state
  BY <1>2 DEF Synchronized
<1>5. /\ at = "settle" /\ Current = held
      /\ Known(held) /\ (Creates(held) => Tale(seen, s, held.id) = <<>>)
  <2>1. at = "settle" /\ Known(held) /\ Unborn(held)
    BY <1>1 DEF Settle, CommandsAreKnown
  <2>2. Creates(held) => held.id \in Ids
    BY <2>1, InvFacts DEF Known, Creates
  <2> QED BY <1>3, <2>1, <2>2 DEF Current, Unborn
<1>6. CASE asked /\ ExitForShutdown
  BY <1>0, <1>6, ExitKeeps
<1>7. CASE /\ ~asked /\ DuePresses(s) = {}
           /\ Emit(ProcessHeld(s))
           /\ Goto("top", NoCommand)
           /\ UNCHANGED <<limit, unread, queue, asked>>
  <2>1. /\ at' = "top" /\ held' = NoCommand /\ queue' = queue
        /\ asked' = asked /\ limit' = limit /\ unread' = unread
    BY <1>7 DEF Goto
  <2>2. Placed
    BY <1>1, <2>1 DEF Placed, TypeOK
  <2>3. CASE held = NoCommand
    <3>1. Emit(s)
      BY <1>7, <2>3 DEF ProcessHeld
    <3>2. /\ Good(seen, state)' /\ Balanced'
          /\ \A i \in Ids : Tale(seen', state', i) = Tale(seen, s, i)
          /\ state'.generation = s.generation /\ Active(state') = Active(s)
      BY <1>0, <1>3, <3>1, EmitStep
    <3>3. Takes(0, NoCommand) /\ ExitEndsAll'
      BY <2>1, TakesNothing DEF ExitEndsAll
    <3>4. Tells(NoCommand) /\ state'.generation <= generation
      BY <1>1, <1>3, <3>2 DEF Tells
    <3>5. IInv'
      BY <1>0, <2>2, <3>2, <3>3, <3>4, WorkerKeeps
    <3> QED BY <1>3, <3>2, <3>5 DEF HoldsStay
  <2>4. CASE held # NoCommand
    <3>1. Emit(Processed(s, held)) /\ held \in Commands
      BY <1>1, <1>7, <2>4 DEF ProcessHeld
    <3>2. Takes(0, held)
      BY <2>1, TakesHeld
    <3>3. s.generation <= generation /\ at' # "exited"
      BY <1>1, <1>3, <2>1
    <3> QED BY <1>0, <1>3, <1>4, <1>5, <2>2, <3>1, <3>2, <3>3, EmitsProcessed
  <2> QED BY <2>3, <2>4
<1>8. CASE /\ ~asked /\ DuePresses(s) # {}
           /\ seen' = Emitted(s)
           /\ state' = ProcessHeld([Quiet(s) EXCEPT !.due = DuePresses(s)])
           /\ limit' = IF held = NoCommand THEN Capacity ELSE Capacity - 1
           /\ unread' = Len(queue)
           /\ Goto("drain", NoCommand)
           /\ UNCHANGED <<queue, asked>>
  <2>1. /\ at' = "drain" /\ held' = NoCommand /\ queue' = queue /\ asked' = asked
    BY <1>8 DEF Goto
  <2>2. Placed
    BY <1>1, <1>8, <2>1 DEF Placed, TypeOK
  <2>3. PICK u : u = [Quiet(s) EXCEPT !.due = DuePresses(s)]
    OBVIOUS
  <2>4. /\ DuePresses(s) \in SUBSET Ids /\ s \in WorkerStates
        /\ DuePresses(s) \subseteq {i \in Active(s) : s.behavior[i] = "longPending"}
    BY <1>3, DueFacts DEF Good
  <2>5. /\ u \in WorkerStates /\ u.active = s.active /\ u.behavior = s.behavior
        /\ u.generation = s.generation /\ u.due = DuePresses(s)
        /\ u.first = NoEvents /\ u.rest = NoEvents
    <3>1. u = Awaiting(s, DuePresses(s))
      BY <2>3 DEF Awaiting
    <3> QED BY <2>4, <3>1, QuietWithDue
  <2>6. PICK m : m = Spread(seen, s)
    OBVIOUS
  <2>7. seen' = m
    BY <1>8, <2>6 DEF Emitted, Spread
  <2>8. /\ Good(m, u)
        /\ \A i \in Ids : m[i] = Tale(seen, s, i) /\ Tale(m, u, i) = Tale(seen, s, i)
    BY <1>3, <2>4, <2>5, <2>6, EmittedFacts
  <2>9. Active(u) = Active(s)
    BY <2>5 DEF Active
  <2>10. Balanced' /\ ExitEndsAll'
    <3>1. \A i \in Ids : m[i] = Tale(m, u, i)
      BY <2>8
    <3>2. /\ \A i \in Ids : BalancedLifecycle(m[i])
          /\ \A i \in Ids : m[i] # <<>> /\ ~(Last(m[i]) \in Ends) => i \in Active(u)
      BY <2>8, <3>1, EmittedIsBalanced
    <3>3. \A i \in DOMAIN press : Started(i)' /\ ~Ended(i)' => i \in Active(u)
      BY <2>7, <3>2, InvFacts DEF Started, Ended
    <3>4. \A i, j \in DOMAIN press :
            i # j /\ Started(i)' /\ ~Ended(i)' /\ Started(j)' /\ ~Ended(j)'
              => press[i].key # press[j].key
      BY <2>8, <3>3, ActiveApart
    <3>5. Balanced'
      BY <1>0, <2>7, <3>2, <3>4 DEF Balanced
    <3> QED BY <2>1, <3>5 DEF ExitEndsAll
  <2>11. /\ Creates(held) => held.id \in Ids
    BY <1>5, InvFacts DEF Known, Creates
  <2>12. Follows(m, u, held, state')
    <3>1. CASE held = NoCommand
      <4>1. state' = u
        BY <1>8, <2>3, <3>1 DEF ProcessHeld
      <4> QED BY <2>8, <4>1, NothingFollows
    <3>2. CASE held # NoCommand
      <4>1. state' = Processed(u, held) /\ held \in Commands
        BY <1>1, <1>8, <2>3, <3>2 DEF ProcessHeld
      <4>2. Creates(held) => Tale(m, u, held.id) = <<>>
        BY <1>5, <2>8, <2>11
      <4> QED BY <1>5, <2>8, <4>1, <4>2, ProcessedFollows
    <3> QED BY <3>1, <3>2
  <2>13. /\ Good(m, state') /\ state'.generation = generation
         /\ \A i \in Ids : Tale(m, u, i) = <<>> /\ ~(Creates(held) /\ held.id = i)
                             => Tale(m, state', i) = <<>>
         /\ \A i \in Active(u) \ Active(state') :
              press[i].binding = "gesture" => MayEnd(held, press[i].key)
    BY <1>3, <2>5, <2>12 DEF Follows
  <2>14. Good(seen, state)'
    BY <1>0, <2>7, <2>13, SamePress
  <2>15. Tells(held) /\ state'.generation <= generation
    BY <1>1, <1>3, <2>7, <2>8, <2>13 DEF Tells
  <2>16. Takes(0, held)
    BY <2>1, TakesHeld
  <2>17. IInv'
    BY <1>0, <2>2, <2>10, <2>14, <2>15, <2>16, WorkerKeeps
  <2>18. HoldsStay
    BY <1>3, <1>5, <2>9, <2>13 DEF HoldsStay
  <2> QED BY <2>17, <2>18
<1> QED BY <1>2, <1>6, <1>7, <1>8 DEF Settle
-----------------------------------------------------------------------------
(* The steps of everyone else.                                             *)

WorkerRests == UNCHANGED <<state, at, held, limit, unread, seen>>

\* A command that starts no press.
Plain(c) == Known(c) /\ ~Creates(c)

\* Every thread keeps its command or gets a plain one; the queue may get a
\* plain command or one that leaves its thread.
Passes(d) ==
  /\ \A u \in Threads : call'[u].command = call[u].command \/ Plain(call'[u].command)
  /\ Len(queue') \in Nat
  /\ \A n \in 1..Len(queue') : \/ n \in 1..Len(queue) /\ queue'[n] = queue[n]
                               \/ n = Len(queue) + 1 /\ queue'[n] = d
  /\ Plain(d) \/ \E t \in Threads : d = call[t].command /\ Plain(call'[t].command)

LEMMA CommandsPass ==
  ASSUME IInv, WorkerRests, press' = press, NEW d, Passes(d)
  PROVE  CommandsAreKnown' /\ StartsOnce'
<1>1. CommandsAreKnown /\ StartsOnce /\ Len(queue) \in Nat
  BY InvFacts
<1>2. held' = held /\ state' = state /\ seen' = seen
  BY DEF WorkerRests
<1>3. /\ Known(held) /\ Unborn(held)
      /\ \A n \in 1..Len(queue) : Known(queue[n]) /\ Unborn(queue[n])
      /\ \A t \in Threads : Known(call[t].command) /\ Unborn(call[t].command)
  BY <1>1 DEF CommandsAreKnown
<1>4. \A c : Plain(c) => Known(c) /\ Unborn(c) /\ \A e : Differ(c, e) /\ Differ(e, c)
  BY DEF Plain, Unborn, Differ
<1>5. /\ \A m, n \in 1..Len(queue) : m # n => Differ(queue[m], queue[n])
      /\ \A t, u \in Threads : t # u => Differ(call[t].command, call[u].command)
      /\ \A t \in Threads, n \in 1..Len(queue) : Differ(call[t].command, queue[n])
      /\ \A n \in 1..Len(queue) : Differ(held, queue[n])
      /\ \A t \in Threads : Differ(held, call[t].command)
  BY <1>1 DEF StartsOnce
<1>6. \A c, e : Differ(c, e) => Differ(e, c)
  BY DEF Differ
<1>7. /\ Known(d) /\ Unborn(d) /\ Differ(held, d)
      /\ \A n \in 1..Len(queue) : Differ(queue[n], d) /\ Differ(d, queue[n])
      /\ \A u \in Threads : Differ(call'[u].command, d)
  <2>1. CASE Plain(d)
    BY <1>4, <2>1
  <2>2. ASSUME NEW t \in Threads, d = call[t].command, Plain(call'[t].command)
        PROVE  /\ Known(d) /\ Unborn(d) /\ Differ(held, d)
               /\ \A n \in 1..Len(queue) : Differ(queue[n], d) /\ Differ(d, queue[n])
               /\ \A u \in Threads : Differ(call'[u].command, d)
    <3>1. Known(d) /\ Unborn(d) /\ Differ(held, d)
      BY <1>3, <1>5, <2>2
    <3>2. \A n \in 1..Len(queue) : Differ(queue[n], d) /\ Differ(d, queue[n])
      BY <1>5, <1>6, <2>2
    <3>3. \A u \in Threads : Differ(call'[u].command, d)
      BY <1>4, <1>5, <2>2 DEF Passes
    <3> QED BY <3>1, <3>2, <3>3
  <2> QED BY <2>1, <2>2 DEF Passes
<1>8. \A n \in 1..Len(queue') : Known(queue'[n]) /\ Unborn(queue'[n])
  BY <1>3, <1>7 DEF Passes
<1>9. \A u \in Threads : Known(call'[u].command) /\ Unborn(call'[u].command)
  BY <1>3, <1>4 DEF Passes
<1>10. CommandsAreKnown'
  <2>1. Known(held)' /\ Unborn(held)'
    BY <1>2, <1>3 DEF Known, Unborn, Creates
  <2>2. \A n \in 1..Len(queue') : Known(queue[n])' /\ Unborn(queue[n])'
    BY <1>2, <1>8 DEF Known, Unborn, Creates
  <2>3. \A t \in Threads : Known(call[t].command)' /\ Unborn(call[t].command)'
    BY <1>2, <1>9 DEF Known, Unborn, Creates
  <2> QED BY <2>1, <2>2, <2>3 DEF CommandsAreKnown
<1>11. \A m, n \in 1..Len(queue') : m # n => Differ(queue'[m], queue'[n])
  <2> SUFFICES ASSUME NEW m \in 1..Len(queue'), NEW n \in 1..Len(queue'), m # n
               PROVE  Differ(queue'[m], queue'[n])
    OBVIOUS
  <2>1. /\ \/ m \in 1..Len(queue) /\ queue'[m] = queue[m]
           \/ m = Len(queue) + 1 /\ queue'[m] = d
        /\ \/ n \in 1..Len(queue) /\ queue'[n] = queue[n]
           \/ n = Len(queue) + 1 /\ queue'[n] = d
    BY DEF Passes
  <2> QED BY <1>5, <1>7, <2>1
<1>12. \A t, u \in Threads : t # u => Differ(call'[t].command, call'[u].command)
  BY <1>4, <1>5 DEF Passes
<1>13. \A t \in Threads, n \in 1..Len(queue') : Differ(call'[t].command, queue'[n])
  <2> SUFFICES ASSUME NEW t \in Threads, NEW n \in 1..Len(queue')
               PROVE  Differ(call'[t].command, queue'[n])
    OBVIOUS
  <2>1. CASE n = Len(queue) + 1 /\ queue'[n] = d
    BY <1>7, <2>1
  <2>2. CASE n \in 1..Len(queue) /\ queue'[n] = queue[n]
    BY <1>4, <1>5, <2>2 DEF Passes
  <2> QED BY <2>1, <2>2 DEF Passes
<1>14. \A n \in 1..Len(queue') : Differ(held, queue'[n])
  BY <1>5, <1>7 DEF Passes
<1>15. \A t \in Threads : Differ(held, call'[t].command)
  BY <1>4, <1>5 DEF Passes
<1>16. StartsOnce'
  BY <1>2, <1>11, <1>12, <1>13, <1>14, <1>15 DEF StartsOnce, Differ, Creates
<1> QED BY <1>10, <1>16

LEMMA OthersKeep ==
  ASSUME IInv, WorkerRests, press' = press, NEW d, Passes(d), TypeOK'
  PROVE  IInv' /\ HoldsStay
<1>1. Good(seen, state) /\ Balanced /\ ExitEndsAll /\ HoldsCommand
  BY DEF IInv
<1>2. state' = state /\ seen' = seen /\ at' = at /\ held' = held
  BY DEF WorkerRests
<1>3. Good(seen, state)' /\ Balanced' /\ ExitEndsAll'
  BY <1>1, <1>2, SamePress, SilentStep
<1>4. CommandsAreKnown' /\ StartsOnce'
  BY CommandsPass
<1>5. HoldsCommand'
  BY <1>1, <1>2 DEF HoldsCommand
<1> QED BY <1>2, <1>3, <1>4, <1>5, TableStays DEF IInv

\* Only the call of thread t changes.
LEMMA CallPasses ==
  ASSUME IInv, queue' = queue, NEW t \in Threads, NEW r \in Calls, Plain(r.command),
         call' = [call EXCEPT ![t] = r]
  PROVE  Passes(NoCommand) /\ call' \in [Threads -> Calls]
<1>1. call \in [Threads -> Calls] /\ Len(queue) \in Nat
  BY InvFacts DEF TypeOK
<1>2. call'[t] = r /\ \A u \in Threads \ {t} : call'[u] = call[u]
  BY <1>1
<1>3. call' \in [Threads -> Calls]
  BY <1>1
<1>4. Plain(NoCommand)
  BY NoCommandFacts DEF Plain
<1> QED BY <1>1, <1>2, <1>3, <1>4 DEF Passes

LEMMA IdleFacts ==
  /\ Idle \in Calls /\ Idle.command = NoCommand /\ Plain(NoCommand)
  /\ [Idle EXCEPT !.at = "invalidating"] \in Calls
  /\ [Idle EXCEPT !.at = "invalidating"].command = NoCommand
<1>1. Plain(NoCommand)
  BY NoCommandFacts DEF Plain
<1> QED BY <1>1 DEF Idle, Calls

LEMMA AppendCommand ==
  ASSUME IInv, NEW c \in Commands, Len(queue) < Capacity, queue' = Append(queue, c)
  PROVE  /\ queue' \in Seq(Commands) /\ Len(queue') \in Nat /\ Len(queue') <= Capacity
         /\ \A n \in 1..Len(queue') : \/ n \in 1..Len(queue) /\ queue'[n] = queue[n]
                                      \/ n = Len(queue) + 1 /\ queue'[n] = c
<1>1. queue \in Seq(Commands) /\ Len(queue) \in Nat
  BY InvFacts
<1> QED BY <1>1

LEMMA SameQueue ==
  ASSUME IInv, queue' = queue, NEW c
  PROVE  /\ queue' \in Seq(Commands) /\ Len(queue') \in Nat /\ Len(queue') <= Capacity
         /\ \A n \in 1..Len(queue') : \/ n \in 1..Len(queue) /\ queue'[n] = queue[n]
                                      \/ n = Len(queue) + 1 /\ queue'[n] = c
BY InvFacts

\* A thread that puts nothing, or a wake, into the queue.
LEMMA WakePasses ==
  ASSUME IInv, PutWake, NEW r, r = call \/ \E t \in Threads : r = [call EXCEPT ![t] = Idle],
         call' = r
  PROVE  /\ Passes([kind |-> "wake"]) /\ call' \in [Threads -> Calls]
         /\ queue' \in Seq(Commands) /\ Len(queue') <= Capacity
<1>1. PICK w : w = [kind |-> "wake"]
  OBVIOUS
<1>2. w \in Commands
  BY <1>1 DEF Commands
<1>3. Plain(w)
  BY <1>1 DEF Plain, Known, Creates
<1>4. /\ queue' \in Seq(Commands) /\ Len(queue') \in Nat /\ Len(queue') <= Capacity
      /\ \A n \in 1..Len(queue') : \/ n \in 1..Len(queue) /\ queue'[n] = queue[n]
                                   \/ n = Len(queue) + 1 /\ queue'[n] = w
  <2>1. (queue' = Append(queue, w) /\ Len(queue) < Capacity) \/ queue' = queue
    BY <1>1 DEF PutWake
  <2> QED BY <1>2, <2>1, AppendCommand, SameQueue
<1>5. call \in [Threads -> Calls]
  BY InvFacts DEF TypeOK
<1>6. /\ call' \in [Threads -> Calls]
      /\ \A u \in Threads : call'[u].command = call[u].command \/ Plain(call'[u].command)
  BY <1>5, IdleFacts
<1> QED BY <1>1, <1>3, <1>4, <1>6 DEF Passes

LEMMA InvalidatePublishes ==
  ASSUME IInv, NEW t \in Threads, Invalidate(t)
  PROVE  IInv' /\ HoldsStay
<1>1. TypeOK /\ call \in [Threads -> Calls] /\ call[t].at = "invalidating"
  BY InvFacts DEF TypeOK, Invalidate
<1>2. PICK r : r = [call[t] EXCEPT !.at = "waking"]
  OBVIOUS
<1>3. call[t] \in Calls
  BY <1>1
<1>4. r \in Calls /\ r.command = NoCommand
  BY <1>1, <1>2, <1>3 DEF Calls
<1>5. call' = [call EXCEPT ![t] = r]
  BY <1>2 DEF Invalidate
<1>6. /\ press' = press /\ queue' = queue /\ WorkerRests /\ generation' = generation + 1
      /\ accepting' = accepting /\ calls' = calls /\ shutdown' = shutdown
      /\ asked' = asked /\ now' = now
  BY DEF Invalidate, WorkerRests, workerVars
<1>7. Passes(NoCommand) /\ call' \in [Threads -> Calls]
  BY <1>4, <1>5, <1>6, CallPasses, IdleFacts
<1>8. state.generation \in Nat
  BY InvFacts, WorkerFields
<1>9. TypeOK'
  BY <1>1, <1>6, <1>7, <1>8 DEF TypeOK, WorkerRests
<1> QED BY <1>6, <1>7, <1>9, OthersKeep

LEMMA WakeKeeps ==
  ASSUME IInv, NEW t \in Threads, Wake(t)
  PROVE  IInv' /\ HoldsStay
<1>1. TypeOK
  BY InvFacts
<1>2. /\ press' = press /\ PutWake /\ WorkerRests /\ generation' = generation
      /\ accepting' = accepting /\ calls' = calls /\ shutdown' = shutdown
      /\ asked' = asked /\ now' = now /\ call' = [call EXCEPT ![t] = Idle]
  BY DEF Wake, WorkerRests, workerVars
<1>3. /\ Passes([kind |-> "wake"]) /\ call' \in [Threads -> Calls]
      /\ queue' \in Seq(Commands) /\ Len(queue') <= Capacity
  BY <1>2, WakePasses
<1>4. TypeOK'
  BY <1>1, <1>2, <1>3 DEF TypeOK, WorkerRests
<1> QED BY <1>2, <1>3, <1>4, OthersKeep

LEMMA ShutdownKeeps ==
  ASSUME IInv, ShutdownStep
  PROVE  IInv' /\ HoldsStay
<1>1. TypeOK
  BY InvFacts
<1>2. CASE StopAccepting \/ SendRequest
  <2>1. /\ press' = press /\ queue' = queue /\ WorkerRests /\ generation' = generation
        /\ calls' = calls /\ now' = now /\ call' = call
        /\ accepting' \in {accepting, FALSE} /\ asked' \in {asked, TRUE}
        /\ shutdown' \in {"stopped", "requested"}
    BY <1>2 DEF StopAccepting, SendRequest, WorkerRests, workerVars
  <2>2. Passes(NoCommand)
    BY <2>1, IdleFacts, SameQueue DEF Passes
  <2>3. TypeOK'
    BY <1>1, <2>1 DEF TypeOK, WorkerRests
  <2> QED BY <2>1, <2>2, <2>3, OthersKeep
<1>3. CASE WakeForShutdown
  <2>1. /\ press' = press /\ PutWake /\ WorkerRests /\ generation' = generation
        /\ calls' = calls /\ now' = now /\ call' = call /\ accepting' = accepting
        /\ asked' = asked /\ shutdown' = "waiting"
    BY <1>3 DEF WakeForShutdown, WorkerRests, workerVars
  <2>2. /\ Passes([kind |-> "wake"])
        /\ queue' \in Seq(Commands) /\ Len(queue') <= Capacity
    BY <2>1, WakePasses
  <2>3. TypeOK'
    BY <1>1, <2>1, <2>2 DEF TypeOK, WorkerRests
  <2> QED BY <2>1, <2>2, <2>3, OthersKeep
<1> QED BY <1>2, <1>3 DEF ShutdownStep

LEMMA TickKeeps ==
  ASSUME IInv, Tick
  PROVE  IInv' /\ HoldsStay
<1>1. TypeOK
  BY InvFacts
<1>2. /\ press' = press /\ queue' = queue /\ WorkerRests /\ generation' = generation
      /\ calls' = calls /\ now < MaxNow /\ now' = now + 1 /\ call' = call
      /\ accepting' = accepting /\ asked' = asked /\ shutdown' = shutdown
  BY DEF Tick, WorkerRests, workerVars, producerVars
<1>3. Passes(NoCommand)
  BY <1>2, IdleFacts, SameQueue DEF Passes
<1>4. TypeOK'
  BY <1>1, <1>2 DEF TypeOK, WorkerRests
<1> QED BY <1>2, <1>3, <1>4, OthersKeep

LEMMA TrySendKeeps ==
  ASSUME IInv, NEW t \in Threads, TrySend(t)
  PROVE  IInv' /\ HoldsStay
<1>1. TypeOK /\ call \in [Threads -> Calls] /\ call[t].at = "sending"
  BY InvFacts DEF TypeOK, TrySend
<1>2. PICK r : r = IF at # "exited" /\ Len(queue) >= Capacity
                   THEN [Idle EXCEPT !.at = "invalidating"] ELSE Idle
  OBVIOUS
<1>3. PICK c : c = call[t].command
  OBVIOUS
<1>4. r \in Calls /\ r.command = NoCommand /\ c \in Commands
  <2>1. call[t] \in Calls
    BY <1>1
  <2>2. c \in Commands
    BY <1>1, <1>3, <2>1 DEF Calls
  <2> QED BY <1>2, <2>2, IdleFacts
<1>5. /\ press' = press /\ WorkerRests /\ generation' = generation
      /\ calls' = calls /\ now' = now /\ call' = [call EXCEPT ![t] = r]
      /\ accepting' = accepting /\ asked' = asked /\ shutdown' = shutdown
      /\ (queue' = Append(queue, c) /\ Len(queue) < Capacity) \/ queue' = queue
  BY <1>2, <1>3 DEF TrySend, WorkerRests, workerVars
<1>6. /\ queue' \in Seq(Commands) /\ Len(queue') \in Nat /\ Len(queue') <= Capacity
      /\ \A n \in 1..Len(queue') : \/ n \in 1..Len(queue) /\ queue'[n] = queue[n]
                                   \/ n = Len(queue) + 1 /\ queue'[n] = c
  BY <1>4, <1>5, AppendCommand, SameQueue
<1>7. /\ call' \in [Threads -> Calls] /\ call'[t].command = NoCommand
      /\ \A u \in Threads : call'[u].command = call[u].command \/ Plain(call'[u].command)
  BY <1>1, <1>4, <1>5, IdleFacts
<1>8. Passes(c)
  BY <1>3, <1>6, <1>7, IdleFacts DEF Passes
<1>9. TypeOK'
  BY <1>1, <1>5, <1>6, <1>7 DEF TypeOK, WorkerRests
<1> QED BY <1>5, <1>8, <1>9, OthersKeep

LEMMA InvalidateBegins ==
  ASSUME IInv, BeginInvalidate
  PROVE  IInv' /\ HoldsStay
<1>1. TypeOK
  BY InvFacts
<1>2. PICK r : r = [Idle EXCEPT !.at = "invalidating"]
  OBVIOUS
<1>3. r \in Calls /\ r.command = NoCommand /\ Controller \in Threads
  BY <1>2, IdleFacts DEF Threads
<1>4. /\ press' = press /\ queue' = queue /\ WorkerRests /\ generation' = generation
      /\ calls < MaxCalls /\ calls' = calls + 1 /\ now' = now
      /\ accepting' = accepting /\ asked' = asked /\ shutdown' = shutdown
      /\ call' = [call EXCEPT ![Controller] = r]
  BY <1>2 DEF BeginInvalidate, WorkerRests, workerVars
<1>5. Passes(NoCommand) /\ call' \in [Threads -> Calls]
  BY <1>3, <1>4, CallPasses, IdleFacts
<1>6. TypeOK'
  BY <1>1, <1>4, <1>5 DEF TypeOK, WorkerRests
<1> QED BY <1>4, <1>5, <1>6, OthersKeep

\* A call for a command that starts no press.
LEMMA BeginKeeps ==
  ASSUME IInv, NEW t \in Threads, NEW c \in Commands, Plain(c), Begin(t, c), press' = press
  PROVE  IInv' /\ HoldsStay
<1>1. TypeOK /\ call \in [Threads -> Calls]
  BY InvFacts DEF TypeOK
<1>2. PICK r : r = [at |-> "sending", command |-> c]
  OBVIOUS
<1>3. r \in Calls /\ r.command = c
  BY <1>2 DEF Calls
<1>4. /\ queue' = queue /\ WorkerRests /\ generation' = generation
      /\ calls < MaxCalls /\ calls' = calls + 1 /\ now' = now
      /\ accepting' = accepting /\ asked' = asked /\ shutdown' = shutdown
      /\ call' = call \/ call' = [call EXCEPT ![t] = r]
  BY <1>2 DEF Begin, WorkerRests, workerVars
<1>5. Passes(NoCommand) /\ call' \in [Threads -> Calls]
  <2>1. CASE call' = call
    BY <1>1, <1>4, <2>1, IdleFacts, SameQueue DEF Passes
  <2>2. CASE call' = [call EXCEPT ![t] = r]
    BY <1>3, <1>4, <2>2, CallPasses
  <2> QED BY <1>4, <2>1, <2>2
<1>6. TypeOK'
  BY <1>1, <1>4, <1>5 DEF TypeOK, WorkerRests
<1> QED BY <1>4, <1>5, <1>6, OthersKeep

LEMMA InputFacts ==
  ASSUME IInv, NEW kind \in InputKinds, NEW i \in 0..MaxCalls, NEW k \in Keys
  PROVE  /\ Input(kind, i, k) \in Commands /\ Input(kind, i, k).kind = kind
         /\ Input(kind, i, k).id = i /\ Input(kind, i, k).key = k
<1>1. generation \in Nat /\ now \in Nat
  BY InvFacts DEF TypeOK
<1>2. PICK c : c = Input(kind, i, k)
  OBVIOUS
<1>3. c = [kind |-> kind, generation |-> generation, id |-> i, key |-> k, time |-> now]
  BY <1>2 DEF Input
<1>4. c \in [kind : InputKinds, generation : Nat, id : 0..MaxCalls, key : Keys, time : Nat]
      /\ c.kind = kind /\ c.id = i /\ c.key = k
  BY <1>1, <1>3
<1>5. c \in Commands
  BY <1>4 DEF Commands
<1> QED BY <1>2, <1>4, <1>5

LEMMA EmptyParts ==
  ASSUME NEW l \in Tales, NEW s \in WorkerStates, NEW i \in Ids, Tale(l, s, i) = <<>>
  PROVE  l[i] = <<>>
<1>1. l[i] \in Seq(Tellings) /\ Settled(s, i) \in Seq(Tellings)
  BY TaleType
<1>2. Len(l[i] \o Settled(s, i)) = Len(l[i]) + Len(Settled(s, i))
  BY <1>1, ConcatProperties
<1>3. Len(<<>>) = 0 /\ Len(l[i]) \in Nat /\ Len(Settled(s, i)) \in Nat
  BY <1>1
<1>4. Len(l[i]) + Len(Settled(s, i)) = 0
  BY <1>2, <1>3, Zenon DEF Tale
<1>5. Len(l[i]) = 0
  BY <1>3, <1>4
<1> QED BY <1>1, <1>5

\* A new press: nothing is known of it but the command that starts it.
LEMMA BeginPressKeeps ==
  ASSUME IInv, NEW k \in Keys, NEW b \in Bindings, NEW w \in Windows \cup {NoWindow},
         NEW kind \in {"down", "pulse"}, BeginPress(k, b, w, kind)
  PROVE  IInv' /\ HoldsStay
<1>1. /\ TypeOK /\ call \in [Threads -> Calls] /\ Good(seen, state) /\ Balanced /\ ExitEndsAll
      /\ CommandsAreKnown /\ StartsOnce /\ HoldsCommand
  BY DEF IInv, TypeOK
<1>2. /\ press \in Seq(Presses) /\ Len(press) \in Nat /\ Len(press) <= calls
      /\ DOMAIN press = 1..Len(press) /\ DOMAIN press \subseteq Ids
      /\ calls \in 0..MaxCalls /\ generation \in Nat /\ now \in Nat
  BY <1>1, PressFacts DEF TypeOK
<1>3. PICK new : new = Len(press) + 1
  OBVIOUS
<1>4. PICK t : t = SourceOf[k]
  OBVIOUS
<1>5. PICK c : c = Input(kind, new, k)
  OBVIOUS
<1>6. PICK r : r = [at |-> "sending", command |-> c]
  OBVIOUS
<1>7. PICK p : p = [key |-> k, binding |-> b, window |-> w, generation |-> generation,
                    deadline |-> now + Threshold]
  OBVIOUS
<1>8. /\ queue' = queue /\ WorkerRests /\ generation' = generation
      /\ calls < MaxCalls /\ calls' = calls + 1 /\ now' = now
      /\ accepting' = accepting /\ asked' = asked /\ shutdown' = shutdown
      /\ call' = call \/ call' = [call EXCEPT ![t] = r]
      /\ press' = Append(press, p)
  BY <1>3, <1>4, <1>5, <1>6, <1>7 DEF BeginPress, Begin, WorkerRests, workerVars
<1>9. p \in Presses /\ p.key = k
  BY <1>2, <1>7 DEF Presses
<1>10. /\ press' \in Seq(Presses) /\ Len(press') = new /\ press'[new].key = k
       /\ DOMAIN press' = 1..new /\ \A i \in DOMAIN press : press'[i] = press[i]
       /\ DOMAIN press' = DOMAIN press \cup {new}
  BY <1>2, <1>3, <1>8, <1>9
<1>11. new \in Ids /\ new \notin DOMAIN press /\ Len(press') <= calls' /\ calls' \in 0..MaxCalls
  BY <1>2, <1>3, <1>8, <1>10 DEF Ids
<1>12. t \in Threads /\ r \in Calls /\ r.command = c /\ c.id = new /\ c.key = k /\ c.kind = kind
  <2>1. t \in Threads
    BY <1>4 DEF Threads
  <2>2. c \in Commands /\ c.id = new /\ c.key = k /\ c.kind = kind
    BY <1>5, <1>11, InputFacts DEF Ids, InputKinds
  <2> QED BY <1>6, <2>1, <2>2 DEF Calls
<1>13. state' = state /\ seen' = seen /\ held' = held /\ at' = at
  BY <1>8 DEF WorkerRests
<1>14. /\ seen \in Tales /\ state \in WorkerStates /\ Active(state) \subseteq DOMAIN press
       /\ Tale(seen, state, new) = <<>> /\ seen[new] = <<>>
  <2>1. seen \in Tales /\ state \in WorkerStates /\ Active(state) \subseteq DOMAIN press
    BY <1>1, GoodFacts
  <2>2. Tale(seen, state, new) = <<>>
    BY <1>1, <1>11 DEF Good, Story
  <2> QED BY <1>11, <2>1, <2>2, EmptyParts
<1>15. call' \in [Threads -> Calls]
  BY <1>1, <1>8, <1>12
<1>16. TypeOK'
  BY <1>1, <1>8, <1>10, <1>11, <1>15 DEF TypeOK, WorkerRests
<1>17. Good(seen, state)'
  <2>1. OwnKeys(state)'
    BY <1>1, <1>10, <1>13 DEF Good, OwnKeys
  <2>2. ASSUME NEW i \in Ids PROVE Story(seen, state, i)'
    <3>1. Story(seen, state, i)
      BY <1>1 DEF Good
    <3>2. i \in Active(state) => press'[i] = press[i]
      BY <1>10, <1>14
    <3>3. i \notin DOMAIN press' => i \notin DOMAIN press
      BY <1>10
    <3> QED BY <1>13, <3>1, <3>2, <3>3 DEF Story
  <2>3. Len(press') <= MaxCalls
    BY <1>2, <1>10, <1>11
  <2> QED BY <1>10, <1>13, <1>14, <2>1, <2>2, <2>3 DEF Good
<1>18. Balanced'
  <2>1. \A i \in Ids : BalancedLifecycle(seen[i])
    BY <1>1 DEF Balanced
  <2>2. \A i \in DOMAIN press' : seen[i] # <<>> => i \in DOMAIN press
    BY <1>10, <1>14
  <2>3. \A i, j \in DOMAIN press :
          i # j /\ Started(i) /\ ~Ended(i) /\ Started(j) /\ ~Ended(j)
            => press[i].key # press[j].key
    BY <1>1 DEF Balanced
  <2> QED BY <1>10, <1>13, <2>1, <2>2, <2>3 DEF Balanced, Started, Ended
<1>19. ExitEndsAll' /\ HoldsCommand'
  BY <1>1, <1>13 DEF ExitEndsAll, Started, Ended, HoldsCommand
<1>20. \A d : Known(d) /\ Unborn(d) => Differ(c, d) /\ Differ(d, c)
  BY <1>11, <1>12 DEF Known, Differ, Creates
<1>21. /\ Known(held) /\ Unborn(held)
       /\ \A n \in 1..Len(queue) : Known(queue[n]) /\ Unborn(queue[n])
       /\ \A u \in Threads : Known(call[u].command) /\ Unborn(call[u].command)
  BY <1>1 DEF CommandsAreKnown
<1>22. \A u \in Threads : call'[u].command = call[u].command \/ (u = t /\ call'[u].command = c)
  BY <1>1, <1>8, <1>12
<1>23. StartsOnce'
  <2>1. \A u, v \in Threads : u # v => Differ(call'[u].command, call'[v].command)
    BY <1>1, <1>20, <1>21, <1>22 DEF StartsOnce
  <2>2. \A u \in Threads, n \in 1..Len(queue) : Differ(call'[u].command, queue[n])
    BY <1>1, <1>20, <1>21, <1>22 DEF StartsOnce
  <2>3. \A u \in Threads : Differ(held, call'[u].command)
    BY <1>1, <1>20, <1>21, <1>22 DEF StartsOnce
  <2>4. /\ \A m, n \in 1..Len(queue) : m # n => Differ(queue[m], queue[n])
        /\ \A n \in 1..Len(queue) : Differ(held, queue[n])
    BY <1>1 DEF StartsOnce
  <2> QED BY <1>8, <1>13, <2>1, <2>2, <2>3, <2>4 DEF StartsOnce, Differ, Creates
<1>24. CommandsAreKnown'
  <2>1. Known(held)' /\ Unborn(held)'
    BY <1>10, <1>13, <1>21 DEF Known, Unborn, Creates
  <2>2. \A n \in 1..Len(queue') : Known(queue[n])' /\ Unborn(queue[n])'
    BY <1>8, <1>10, <1>13, <1>21 DEF Known, Unborn, Creates
  <2>3. ASSUME NEW u \in Threads PROVE Known(call[u].command)' /\ Unborn(call[u].command)'
    <3>1. CASE call'[u].command = call[u].command
      <4>1. Known(call[u].command) /\ Unborn(call[u].command)
        BY <1>21
      <4>2. PICK d : d = call[u].command
        OBVIOUS
      <4>3. Known(d) /\ Unborn(d) /\ call'[u].command = d
        BY <3>1, <4>1, <4>2
      <4> QED BY <1>10, <1>13, <4>3 DEF Known, Unborn, Creates
    <3>2. CASE call'[u].command = c
      BY <1>10, <1>12, <1>13, <1>14, <3>2 DEF Known, Unborn, Creates
    <3> QED BY <1>22, <3>1, <3>2
  <2> QED BY <2>1, <2>2, <2>3 DEF CommandsAreKnown
<1>25. IInv'
  BY <1>16, <1>17, <1>18, <1>19, <1>23, <1>24 DEF IInv
<1> QED BY <1>13, <1>25, TableStays

LEMMA SourceKeeps ==
  ASSUME IInv, SourceStep
  PROVE  IInv' /\ HoldsStay
<1>0. /\ DOMAIN press \subseteq Ids /\ Ids \subseteq 0..MaxCalls /\ 0 \in 0..MaxCalls
      /\ \A i \in DOMAIN press : press[i].key \in Keys
      /\ \A k \in Keys : SourceOf[k] \in Threads
      /\ Sources \subseteq Threads
  <2>1. DOMAIN press \subseteq Ids /\ \A i \in DOMAIN press : press[i].key \in Keys
    BY InvFacts, GoodFacts
  <2> QED BY <2>1 DEF Ids, Threads
<1>1. CASE \E k \in Keys, b \in Bindings, w \in Windows \cup {NoWindow} :
             \/ BeginPress(k, b, w, "down")
             \/ SourceOf[k] \notin Hooks /\ BeginPress(k, b, w, "pulse")
  BY <1>1, BeginPressKeeps
<1>2. CASE \E k \in Keys : BeginUp(k)
  <2>1. PICK k \in Keys : BeginUp(k)
    BY <1>2
  <2>2. PICK c : c = Input("up", 0, k)
    OBVIOUS
  <2>3. c \in Commands /\ c.kind = "up"
    BY <1>0, <2>2, InputFacts DEF InputKinds
  <2>4. Plain(c)
    BY <2>3 DEF Plain, Known, Creates
  <2>5. Begin(SourceOf[k], c) /\ press' = press
    BY <2>1, <2>2 DEF BeginUp
  <2> QED BY <1>0, <2>3, <2>4, <2>5, BeginKeeps
<1>3. CASE \E i \in DOMAIN press, kind \in {"trigger", "wheel"} : BeginWhilePressed(i, kind)
  <2>1. PICK i \in DOMAIN press, kind \in {"trigger", "wheel"} : BeginWhilePressed(i, kind)
    BY <1>3
  <2>2. PICK c : c = Input(kind, i, press[i].key)
    OBVIOUS
  <2>3. c \in Commands /\ c.kind = kind /\ c.id = i
    <3>1. kind \in InputKinds /\ i \in 0..MaxCalls /\ press[i].key \in Keys
      BY <1>0, <2>1 DEF InputKinds
    <3>2. PICK k : k = press[i].key
      OBVIOUS
    <3>3. k \in Keys /\ c = Input(kind, i, k)
      BY <2>2, <3>1, <3>2
    <3> QED BY <3>1, <3>3, InputFacts
  <2>4. /\ press[i].binding = IF kind = "trigger" THEN "gesture" ELSE "wheelHold"
        /\ Begin(SourceOf[press[i].key], c) /\ press' = press
    BY <2>1, <2>2 DEF BeginWhilePressed
  <2>5. Plain(c)
    BY <2>1, <2>3, <2>4 DEF Plain, Known, Creates
  <2>6. SourceOf[press[i].key] \in Threads
    BY <1>0, <2>1
  <2> QED BY <2>3, <2>4, <2>5, <2>6, BeginKeeps
<1>4. CASE \E i \in DOMAIN press :
             /\ press[i].binding = "gesture"
             /\ BeginCancel(SourceOf[press[i].key], [kind |-> "stale", id |-> i])
  <2>1. PICK i \in DOMAIN press :
               BeginCancel(SourceOf[press[i].key], [kind |-> "stale", id |-> i])
    BY <1>4
  <2>2. PICK c : c = [kind |-> "stale", id |-> i]
    OBVIOUS
  <2>3. c \in Commands /\ c.kind = "stale" /\ c.id = i
    BY <1>0, <2>1, <2>2 DEF Commands
  <2>4. Plain(c)
    BY <2>1, <2>3 DEF Plain, Known, Creates
  <2>5. Begin(SourceOf[press[i].key], c) /\ press' = press
    BY <2>1, <2>2 DEF BeginCancel
  <2>6. SourceOf[press[i].key] \in Threads
    BY <1>0, <2>1
  <2> QED BY <2>3, <2>4, <2>5, <2>6, BeginKeeps
<1>5. CASE \E s \in Sources : BeginCancel(s, [kind |-> "source", source |-> s])
  <2>1. PICK s \in Sources : BeginCancel(s, [kind |-> "source", source |-> s])
    BY <1>5
  <2>2. PICK c : c = [kind |-> "source", source |-> s]
    OBVIOUS
  <2>3. c \in Commands /\ c.kind = "source"
    BY <2>1, <2>2 DEF Commands
  <2>4. Plain(c)
    BY <2>3 DEF Plain, Known, Creates
  <2>5. Begin(s, c) /\ press' = press /\ s \in Threads
    BY <1>0, <2>1, <2>2 DEF BeginCancel
  <2> QED BY <2>3, <2>4, <2>5, BeginKeeps
<1> QED BY <1>1, <1>2, <1>3, <1>4, <1>5 DEF SourceStep

LEMMA ControllerKeeps ==
  ASSUME IInv, ControllerStep
  PROVE  IInv' /\ HoldsStay
<1>0. Controller \in Threads
  BY DEF Threads
<1>1. ASSUME NEW c \in Commands, c.kind \in {"gkeys", "hooks", "pointer"},
             BeginCancel(Controller, c)
      PROVE  IInv' /\ HoldsStay
  <2>1. Plain(c)
    BY <1>1 DEF Plain, Known, Creates
  <2>2. Begin(Controller, c) /\ press' = press
    BY <1>1 DEF BeginCancel
  <2> QED BY <1>0, <1>1, <2>1, <2>2, BeginKeeps
<1>2. \A s \in Sources : /\ [kind |-> "gkeys", source |-> s] \in Commands
                         /\ [kind |-> "gkeys", source |-> s].kind = "gkeys"
  BY DEF Commands
<1>3. [kind |-> "hooks"] \in Commands /\ [kind |-> "hooks"].kind = "hooks"
  BY DEF Commands
<1>4. \A w \in Windows : /\ [kind |-> "pointer", window |-> w] \in Commands
                         /\ [kind |-> "pointer", window |-> w].kind = "pointer"
  BY DEF Commands
<1>5. CASE \E s \in Sources \ Hooks :
             BeginCancel(Controller, [kind |-> "gkeys", source |-> s])
  <2>1. PICK s \in Sources : BeginCancel(Controller, [kind |-> "gkeys", source |-> s])
    BY <1>5
  <2> QED BY <1>1, <1>2, <2>1
<1>6. CASE BeginCancel(Controller, [kind |-> "hooks"])
  BY <1>1, <1>3, <1>6
<1>7. CASE \E w \in Windows : BeginCancel(Controller, [kind |-> "pointer", window |-> w])
  <2>1. PICK w \in Windows : BeginCancel(Controller, [kind |-> "pointer", window |-> w])
    BY <1>7
  <2> QED BY <1>1, <1>4, <2>1
<1>8. CASE BeginInvalidate
  BY <1>8, InvalidateBegins
<1> QED BY <1>5, <1>6, <1>7, <1>8 DEF ControllerStep

LEMMA UnchangedKeeps ==
  ASSUME IInv, UNCHANGED vars
  PROVE  IInv'
<1>1. /\ press' = press /\ queue' = queue /\ WorkerRests /\ generation' = generation
      /\ calls' = calls /\ now' = now /\ call' = call
      /\ accepting' = accepting /\ asked' = asked /\ shutdown' = shutdown
  BY DEF vars, producerVars, workerVars, WorkerRests
<1>2. Passes(NoCommand)
  BY <1>1, IdleFacts, SameQueue DEF Passes
<1>3. TypeOK'
  BY <1>1, InvFacts DEF TypeOK, WorkerRests
<1> QED BY <1>1, <1>2, <1>3, OthersKeep
-----------------------------------------------------------------------------
(* Theorems.                                                               *)

LEMMA InitHolds == Init => IInv
<1> SUFFICES ASSUME Init PROVE IInv
  OBVIOUS
<1>1. /\ press = <<>> /\ queue = <<>> /\ generation = 0 /\ accepting = TRUE
      /\ call = [t \in Threads |-> Idle] /\ calls = 0
      /\ at = "top" /\ held = NoCommand /\ limit = 0 /\ unread = 0
      /\ shutdown = "no" /\ asked = FALSE /\ now = 0 /\ seen = NoEvents
  BY DEF Init
<1>2. NoEvents \in Tales /\ \A i \in Ids : NoEvents[i] = <<>>
  BY DEF NoEvents, Tales
<1>3. /\ state \in WorkerStates /\ state.generation = 0 /\ state.due = {}
      /\ state.first = NoEvents /\ state.rest = NoEvents
      /\ \A k \in Keys : state.active[k] = 0
  BY <1>2 DEF Init, WorkerStates, Behaviors
<1>4. \A t \in Threads : call[t] = Idle
  BY <1>1
<1>5. TypeOK
  <2>1. call \in [Threads -> Calls]
    BY <1>1, IdleFacts
  <2>2. press \in Seq(Presses) /\ Len(press) = 0 /\ queue \in Seq(Commands) /\ Len(queue) = 0
    BY <1>1
  <2>3. accepting \in BOOLEAN /\ asked \in BOOLEAN
    BY <1>1, Zenon
  <2>4. /\ Len(press) <= calls /\ calls \in 0..MaxCalls /\ Len(queue) <= Capacity
        /\ generation \in Nat /\ now \in 0..MaxNow /\ state.generation <= generation
        /\ limit \in 0..Capacity /\ unread \in 0..Capacity
    BY ONLY <1>1, <1>3, <2>2, ButtonAssumption
  <2> QED BY <1>1, <1>2, <1>3, <2>1, <2>2, <2>3, <2>4 DEF TypeOK
<1>6. Active(state) = {} /\ OwnKeys(state) /\ DOMAIN press = {}
  BY <1>1, <1>3 DEF Active, OwnKeys
<1>7. \A i \in Ids : Tale(seen, state, i) = <<>>
  <2> SUFFICES ASSUME NEW i \in Ids PROVE Tale(seen, state, i) = <<>>
    OBVIOUS
  <2>1. seen[i] = <<>> /\ state.first[i] = <<>> /\ state.rest[i] = <<>>
    BY <1>1, <1>2, <1>3
  <2>2. <<>> \o <<>> = <<>>
    OBVIOUS
  <2> QED BY <2>1, <2>2, Zenon DEF Tale, Settled
<1>8. Good(seen, state)
  <2>1. \A i \in Ids : Story(seen, state, i)
    BY <1>3, <1>6, <1>7, BeginsTale DEF Story
  <2>2. press \in Seq(Presses) /\ Len(press) <= MaxCalls
    BY <1>1
  <2> QED BY <1>1, <1>2, <1>3, <1>6, <2>1, <2>2 DEF Good
<1>9. Balanced /\ ExitEndsAll /\ HoldsCommand
  <2>1. \A i \in Ids : seen[i] = <<>>
    BY <1>1, <1>2
  <2>2. Balanced
    BY <1>6, <2>1, BeginsTale DEF Balanced
  <2> QED BY <1>1, <2>2 DEF ExitEndsAll, HoldsCommand
<1>10. Len(queue) = 0
  BY <1>1
<1>11. CommandsAreKnown /\ StartsOnce
  <2>1. \A n \in 1..Len(queue) : FALSE
    BY <1>10
  <2>2. \A t \in Threads : call[t].command = NoCommand
    BY <1>4, IdleFacts
  <2> QED BY <1>1, <2>1, <2>2, NoCommandFacts DEF CommandsAreKnown, StartsOnce, Unborn
<1> QED BY <1>5, <1>8, <1>9, <1>11 DEF IInv

LEMMA NextKeeps ==
  ASSUME IInv, Next
  PROVE  IInv' /\ (HoldsStay \/ UNCHANGED vars)
<1>1. CASE SourceStep
  BY <1>1, SourceKeeps
<1>2. CASE ControllerStep
  BY <1>2, ControllerKeeps
<1>3. CASE \E t \in Threads : CallStep(t)
  BY <1>3, TrySendKeeps, InvalidatePublishes, WakeKeeps DEF CallStep
<1>4. CASE ShutdownStep
  BY <1>4, ShutdownKeeps
<1>5. CASE WorkerStep
  BY <1>5, TopKeeps, ReceiveKeeps, TimesOutKeeps, ReceivedKeeps, ProcessKeeps,
     SettleKeeps, DrainKeeps, DrainOneKeeps, FireDueKeeps DEF WorkerStep
<1>6. CASE Tick
  BY <1>6, TickKeeps
<1>7. CASE Rest
  <2>1. UNCHANGED vars
    BY <1>7 DEF Rest
  <2> QED BY <2>1, UnchangedKeeps
<1> QED BY <1>1, <1>2, <1>3, <1>4, <1>5, <1>6, <1>7 DEF Next

LEMMA Invariance == Spec => []IInv
<1>1. IInv /\ [Next]_vars => IInv'
  BY NextKeeps, UnchangedKeeps
<1> QED BY InitHolds, <1>1, PTL DEF Spec

\* Every variable has its type, and the queue never exceeds its capacity.
THEOREM TypeCorrect == Spec => []TypeOK
<1>1. IInv => TypeOK
  BY DEF IInv
<1> QED BY Invariance, <1>1, PTL

\* For any controls, bindings, queue capacity and threshold, and any number of
\* presses, the handler sees a balanced lifecycle of every press, and no control is
\* held by two presses (process_command, settle_due_long_presses and
\* emit_settled_events together).
THEOREM LifecyclesBalanced == Spec => []Balanced
<1>1. IInv => Balanced
  BY DEF IInv
<1> QED BY Invariance, <1>1, PTL

\* A worker that exits, from whatever place it sees the request at, has ended every
\* press it started (shutdown_worker).
THEOREM ExitLeavesNone == Spec => []ExitEndsAll
<1>1. IInv => ExitEndsAll
  BY DEF IInv
<1> QED BY Invariance, <1>1, PTL

\* A gesture hold is not ended by the pointer entering another window, whether the
\* command is processed on its own or by the settling loop.
THEOREM HoldsFollowPointer == Spec => HoldFollowsPointer
<1>1. IInv /\ [Next]_vars =>
        [\A i \in Active(state) \ Active(state') :
           press[i].binding = "gesture" =>
             \/ asked
             \/ state.generation # generation
             \/ Current.kind \in CancelKinds \ {"pointer"}
             \/ Current.kind \in {"up", "down", "pulse"} /\ Current.key = press[i].key]_vars
  BY NextKeeps DEF HoldsStay, MayEnd
<1> QED BY Invariance, <1>1, PTL DEF Spec, HoldFollowsPointer
=============================================================================
