-------------------------- MODULE DisableKeysProofs --------------------------
(***************************************************************************)
(* Proofs about DisableKeys, for every set of masks and workers, for any   *)
(* number of intents and for every bound of the recovery's retries.        *)
(***************************************************************************)
EXTENDS DisableKeys, SequenceTheorems, WellFoundedInduction, TLAPS

USE DisableKeysAssumption

Owned(j) == job[j].requester # "none"

Background(j) == job[j].at # "free" /\ job[j].requester = "none"

InOrder(j) == \E i \in 1..Len(order) : order[i] = j

\* The workers that have not returned stand in the queue once each, and only
\* the first one writes; a background worker leaves nothing behind.
QueueHoldsWorkers ==
  /\ \A i, k \in 1..Len(order) : order[i] = order[k] => i = k
  /\ \A j \in Jobs :
       /\ job[j].at \in {"queued", "writing", "written"} <=> InOrder(j)
       /\ job[j].at \in {"writing", "written"} => order[1] = j
       /\ job[j].at = "free" => ~Owned(j)
       /\ job[j].at \in {"succeeded", "errored"} => Owned(j)
       /\ job[j].at # "free" => job[j].value \in Masks

\* PendingHasOwner, in both directions.
OwnersPend ==
  /\ \A j \in Jobs : Owned(j) => job[j].number \in st.pending
  /\ \A n \in st.pending : \E j \in Jobs : Owned(j) /\ job[j].number = n

\* A number is given once: to a pending request or to an intent that was never
\* pending or is not any more.
NumbersAreUnique ==
  /\ st.committed.number <= st.next /\ st.committed.number \notin st.pending
  /\ st.policy.number <= st.next /\ st.policy.number \notin st.pending
  /\ \A j, k \in Jobs : Owned(j) /\ Owned(k) /\ job[j].number = job[k].number => j = k
  /\ \A j \in Jobs :
       /\ Owned(j) => job[j].number \in 1..st.next
       /\ Background(j) => job[j].number <= st.next /\ job[j].number \notin st.pending

\* The saved policy is what was published last, and a number stands for one
\* value: an attempt under the number in force writes the accepted choice.
NumbersMeanValues ==
  /\ st.policy = NoIntent =>
       /\ st.committed = NoIntent \/ st.committed.number > 0
       /\ \A j \in Jobs : ~Background(j)
  /\ st.policy # NoIntent =>
       /\ st.committed # NoIntent /\ st.policy.value = saved
       /\ st.policy.number = st.committed.number => st.policy.value = st.committed.value
  /\ \A j \in Jobs : Background(j) /\ job[j].number = st.committed.number
                       => job[j].value = st.committed.value
  /\ st.recovery = "scheduled" => budget > 0

\* A client that waits for each answer: the request it waits for is the newest.
NewestWaits ==
  \A j, k \in Jobs : job[k].requester = "waiting" /\ Owned(j) => job[j].number <= job[k].number

\* An answer that may still be accepted is still true of the keyboard.
AnswerStands ==
  \A k \in Jobs :
    /\ job[k].requester = "waiting" /\ job[k].at = "succeeded"
    /\ st.committed.number < job[k].number
    => device = job[k].value /\ \A j \in Jobs : job[j].at # "writing"

\* Something that will write the accepted choice again or replace it.
RepairDue ==
  \/ st.recovery # "none"
  \/ \E j \in Jobs : Owned(j) /\ st.committed.number < job[j].number
  \/ \E j \in Jobs : Background(j) /\ job[j].number = st.committed.number

\* The keyboard has the accepted choice and no write on its way changes it.
AcceptedHolds ==
  /\ device = st.committed.value
  /\ \A j \in Jobs : job[j].at = "writing" => job[j].value = st.committed.value

ChoiceIsKept ==
  ~failed /\ st.committed.value \in Masks => RepairDue \/ AcceptedHolds

\* What holds whatever the clients do, and what holds while they take turns.
Core ==
  /\ TypeOK
  /\ QueueHoldsWorkers
  /\ ReadbackIsOwn
  /\ OwnersPend
  /\ NumbersAreUnique
  /\ NumbersMeanValues

InTurn ==
  /\ NewestWaits
  /\ AnswerStands
  /\ ChoiceIsKept

IInv == Core /\ (~overlapped => InTurn)

-----------------------------------------------------------------------------
(* The operators of the model.                                             *)

\* A set of numbers has a maximum.
LEMMA MaxIsGreatest ==
  ASSUME NEW N \in Nat, NEW S \in SUBSET (0..N), S # {}
  PROVE  Max(S) \in S /\ \A y \in S : Max(S) >= y
<1> DEFINE T == {N - x : x \in S}
<1>1. T \subseteq Nat
  OBVIOUS
<1>2. T # {}
  OBVIOUS
<1>3. PICK n \in T : \A m \in T : ~(<<m, n>> \in OpToRel(<, Nat))
  <2> HIDE DEF T
  <2> QED BY <1>1, <1>2, WFMin, NatLessThanWellFounded, Zenon
<1>4. \A m \in T : n <= m
  <2> TAKE m \in T
  <2>1. m \in Nat /\ n \in Nat /\ <<m, n>> \in Nat \X Nat
    BY <1>1
  <2>2. ~(<<m, n>>[1] < <<m, n>>[2])
    BY <1>3, <2>1 DEF OpToRel
  <2> QED BY <2>1, <2>2
<1>5. PICK x \in S : n = N - x
  OBVIOUS
<1>6. \A y \in S : x >= y
  <2> TAKE y \in S
  <2>1. N - y \in T
    OBVIOUS
  <2>2. x \in 0..N /\ y \in 0..N /\ n <= N - y
    BY <1>4, <2>1
  <2> QED BY <1>5, <2>2
<1> QED BY <1>6 DEF Max

\* The newest of the pending intents and the accepted one.
LEMMA LatestIsGreatest ==
  ASSUME NEW s \in States
  PROVE  /\ Latest(s) \in s.pending \cup {s.committed.number}
         /\ \A n \in s.pending : Latest(s) >= n
         /\ Latest(s) >= s.committed.number
         /\ Latest(s) \in 0..MaxNumber
<1> DEFINE S == s.pending \cup {s.committed.number}
<1>1. S \in SUBSET (0..MaxNumber) /\ S # {}
  BY DEF States, Intents, NoIntent
<1>2. Max(S) \in S /\ \A y \in S : Max(S) >= y
  <2> HIDE DEF S
  <2> QED BY <1>1, MaxIsGreatest
<1> QED BY <1>1, <1>2 DEF Latest

\* What giving up a turn does to the queue.
LEMMA RemoveAtShifts ==
  ASSUME NEW s \in Seq(Jobs), NEW i \in 1..Len(s)
  PROVE  /\ RemoveAt(s, i) \in Seq(Jobs)
         /\ Len(RemoveAt(s, i)) = Len(s) - 1
         /\ \A k \in 1..Len(s) - 1 : RemoveAt(s, i)[k] = IF k < i THEN s[k] ELSE s[k + 1]
<1> DEFINE a == SubSeq(s, 1, i - 1)
           b == SubSeq(s, i + 1, Len(s))
<1>0. Len(s) \in Nat
  OBVIOUS
<1>1. /\ a \in Seq(Jobs) /\ Len(a) = i - 1
      /\ \A k \in 1..i - 1 : a[k] = s[k]
  BY <1>0, SubSeqProperties
<1>2. /\ b \in Seq(Jobs) /\ Len(b) = Len(s) - i
      /\ \A k \in 1..Len(s) - i : b[k] = s[i + k]
  BY <1>0, SubSeqProperties
<1>3. RemoveAt(s, i) = a \o b
  BY DEF RemoveAt
<1> HIDE DEF a, b
<1>4. /\ a \o b \in Seq(Jobs)
      /\ Len(a \o b) = Len(s) - 1
      /\ \A k \in 1..Len(s) - 1 : (a \o b)[k] = IF k <= i - 1 THEN a[k] ELSE b[k - (i - 1)]
  <2>1. /\ a \o b \in Seq(Jobs) /\ Len(a \o b) = Len(a) + Len(b)
        /\ \A k \in 1..Len(a) + Len(b) : (a \o b)[k] = IF k <= Len(a) THEN a[k] ELSE b[k - Len(a)]
    BY <1>1, <1>2, ConcatProperties
  <2>2. Len(a) + Len(b) = Len(s) - 1
    BY <1>0, <1>1, <1>2
  <2> QED BY <1>1, <2>1, <2>2
<1>5. ASSUME NEW k \in 1..Len(s) - 1
      PROVE  (a \o b)[k] = IF k < i THEN s[k] ELSE s[k + 1]
  <2>1. CASE k < i
    BY <1>0, <1>1, <1>4, <2>1
  <2>2. CASE ~(k < i)
    <3>1. k - (i - 1) \in 1..Len(s) - i /\ i + (k - (i - 1)) = k + 1 /\ ~(k <= i - 1)
      BY <1>0, <2>2
    <3> QED BY <1>2, <1>4, <2>2, <3>1
  <2> QED BY <2>1, <2>2
<1> QED BY <1>3, <1>4, <1>5

LEMMA BegunFields ==
  ASSUME NEW s \in States, s.next < MaxNumber
  PROVE  /\ Begun(s) \in States
         /\ Begun(s).next = s.next + 1 /\ Begun(s).pending = s.pending \cup {s.next + 1}
         /\ Begun(s).committed = s.committed /\ Begun(s).policy = s.policy
         /\ Begun(s).recovery = s.recovery
<1> DEFINE u == [s EXCEPT !.next = s.next + 1]
           v == [u EXCEPT !.pending = s.pending \cup {s.next + 1}]
<1>1. Begun(s) = v
  BY DEF Begun, States
<1>2. u \in States /\ u.next = s.next + 1 /\ u.pending = s.pending /\ u.committed = s.committed
      /\ u.policy = s.policy /\ u.recovery = s.recovery
  BY DEF States
<1>3. s.pending \cup {s.next + 1} \in SUBSET (1..MaxNumber)
  BY DEF States
<1> HIDE DEF u
<1> QED BY <1>1, <1>2, <1>3 DEF States

LEMMA DroppedFields ==
  ASSUME NEW s \in States, NEW n
  PROVE  /\ Dropped(s, n) \in States
         /\ Dropped(s, n).next = s.next /\ Dropped(s, n).pending = s.pending \ {n}
         /\ Dropped(s, n).committed = s.committed /\ Dropped(s, n).policy = s.policy
         /\ Dropped(s, n).recovery = IF s.committed.number < n THEN "requested" ELSE s.recovery
<1> DEFINE r == IF s.committed.number < n THEN "requested" ELSE s.recovery
           u == [s EXCEPT !.pending = s.pending \ {n}]
           v == [u EXCEPT !.recovery = r]
<1>1. Dropped(s, n) = v
  BY DEF Dropped, States
<1>2. u \in States /\ u.next = s.next /\ u.pending = s.pending \ {n}
      /\ u.committed = s.committed /\ u.policy = s.policy /\ u.recovery = s.recovery
  BY DEF States
<1>3. r \in {"none", "requested", "scheduled"}
  BY DEF States
<1> HIDE DEF u, r
<1>4. v \in States /\ v.next = u.next /\ v.pending = u.pending /\ v.committed = u.committed
      /\ v.policy = u.policy /\ v.recovery = r
  BY <1>2, <1>3 DEF States
<1> QED BY <1>1, <1>2, <1>4 DEF r

LEMMA ConfirmedFields ==
  ASSUME NEW s \in States, NEW n \in 1..MaxNumber, NEW v \in Masks, Latest(s) = n
  PROVE  /\ Confirmed(s, n, v) \in States
         /\ Confirmed(s, n, v).next = s.next /\ Confirmed(s, n, v).pending = s.pending \ {n}
         /\ Confirmed(s, n, v).committed = [number |-> n, value |-> v]
         /\ Confirmed(s, n, v).policy = s.policy
         /\ Confirmed(s, n, v).recovery = "none"
<1> DEFINE c == [number |-> n, value |-> v]
           u == [s EXCEPT !.committed = c]
           w == [u EXCEPT !.recovery = "none"]
<1>1. Confirmed(s, n, v) = Dropped(w, n)
  BY DEF Confirmed, States
<1>2. c \in Intents /\ c.number = n
  BY DEF Intents, Settings
<1> HIDE DEF c
<1>3. u \in States /\ u.next = s.next /\ u.pending = s.pending
      /\ u.committed = c /\ u.policy = s.policy
  BY <1>2 DEF States
<1> HIDE DEF u
<1>4. w \in States /\ w.next = s.next /\ w.pending = s.pending
      /\ w.committed = c /\ w.policy = s.policy /\ w.recovery = "none"
  BY <1>3 DEF States
<1> HIDE DEF w
<1>5. ~(w.committed.number < n)
  BY <1>2, <1>4
<1> QED BY <1>1, <1>4, <1>5, DroppedFields DEF c

LEMMA SyncedAcknowledges ==
  ASSUME NEW s \in States, NEW v, s.committed.value = v
  PROVE  /\ Synced(s, v) \in States
         /\ Synced(s, v).next = s.next /\ Synced(s, v).pending = s.pending
         /\ Synced(s, v).committed = s.committed /\ Synced(s, v).policy = s.committed
         /\ Synced(s, v).recovery = s.recovery
<1>1. Synced(s, v) = [s EXCEPT !.policy = s.committed]
  BY DEF Synced, Publishes
<1> QED BY <1>1 DEF States

LEMMA SyncedIgnores ==
  ASSUME NEW s, NEW v, s.committed.value # v, s.policy.value = v
  PROVE  Synced(s, v) = s
BY DEF Synced, Publishes

LEMMA SyncedIsBaseline ==
  ASSUME NEW s \in States, NEW v \in Settings, Publishes(s, v), s.policy = NoIntent
  PROVE  /\ Synced(s, v) \in States
         /\ Synced(s, v).next = s.next /\ Synced(s, v).pending = s.pending
         /\ Synced(s, v).policy = [number |-> 0, value |-> v]
         /\ Synced(s, v).committed = IF s.committed = NoIntent THEN [number |-> 0, value |-> v]
                                     ELSE s.committed
         /\ Synced(s, v).recovery = s.recovery
<1> DEFINE b == [number |-> 0, value |-> v]
           c == IF s.committed = NoIntent THEN b ELSE s.committed
           u == [s EXCEPT !.policy = b]
           w == [u EXCEPT !.committed = c]
<1>1. Synced(s, v) = w
  BY DEF Synced, Publishes, States
<1>2. b \in Intents
  BY DEF Intents
<1>3. c \in Intents
  BY <1>2 DEF States
<1> HIDE DEF b, c
<1>4. u \in States /\ u.next = s.next /\ u.pending = s.pending
      /\ u.policy = b /\ u.recovery = s.recovery
  BY <1>2 DEF States
<1> HIDE DEF u
<1>5. w \in States /\ w.next = s.next /\ w.pending = s.pending
      /\ w.policy = b /\ w.committed = c /\ w.recovery = s.recovery
  BY <1>3, <1>4 DEF States
<1> QED BY <1>1, <1>5 DEF b, c

LEMMA SyncedPublishes ==
  ASSUME NEW s \in States, NEW v \in Settings, Publishes(s, v), s.policy # NoIntent
  PROVE  /\ Synced(s, v).next = s.next + 1
         /\ s.next < MaxNumber =>
              /\ Synced(s, v) \in States
              /\ Synced(s, v).pending = s.pending
              /\ Synced(s, v).policy = [number |-> s.next + 1, value |-> v]
              /\ Synced(s, v).committed = [number |-> s.next + 1, value |-> v]
              /\ Synced(s, v).recovery = "none"
<1> DEFINE b == [number |-> s.next + 1, value |-> v]
           u == [s EXCEPT !.next = s.next + 1]
           w == [u EXCEPT !.policy = b]
           x == [w EXCEPT !.committed = b]
           y == [x EXCEPT !.recovery = "none"]
<1>1. Synced(s, v) = y
  BY DEF Synced, Publishes, States
<1>2. Synced(s, v).next = s.next + 1
  BY <1>1 DEF States
<1>3. SUFFICES ASSUME s.next < MaxNumber
               PROVE  y \in States /\ y.pending = s.pending /\ y.policy = b
                      /\ y.committed = b /\ y.recovery = "none"
  BY <1>1, <1>2
<1>4. b \in Intents
  BY <1>3 DEF Intents, States
<1> HIDE DEF b
<1>5. u \in States /\ u.pending = s.pending
  BY <1>3 DEF States
<1> HIDE DEF u
<1>6. w \in States /\ w.pending = s.pending /\ w.policy = b
  BY <1>4, <1>5 DEF States
<1> HIDE DEF w
<1>7. x \in States /\ x.pending = s.pending /\ x.policy = b /\ x.committed = b
  BY <1>4, <1>6 DEF States
<1> HIDE DEF x
<1> QED BY <1>7 DEF States

\* A new worker goes to the end of the queue.
LEMMA SpawnQueues ==
  ASSUME TypeOK, QueueHoldsWorkers, NEW j \in Jobs, NEW n \in 0..MaxNumber, NEW v \in Masks,
         NEW who \in {"none", "waiting"}, Spawn(j, n, v, who)
  PROVE  /\ job' \in [Jobs -> Workers]
         /\ order' \in Seq(Jobs)
         /\ QueueHoldsWorkers'
         /\ job[j].at = "free" /\ job[j].requester = "none"
         /\ job'[j] = [at |-> "queued", number |-> n, value |-> v, requester |-> who]
         /\ \A k \in Jobs : k # j => job'[k] = job[k]
<1> DEFINE r == [at |-> "queued", number |-> n, value |-> v, requester |-> who]
<1>1. r \in Workers
  BY DEF Workers
<1>2. job' = [job EXCEPT ![j] = r] /\ order' = Append(order, j) /\ job[j].at = "free"
  BY DEF Spawn
<1>3. r.at = "queued" /\ r.value \in Masks
  OBVIOUS
<1>4. job[j].requester = "none"
  BY <1>2 DEF QueueHoldsWorkers, Owned
<1> HIDE DEF r
<1>5. /\ job' \in [Jobs -> Workers] /\ job'[j] = r
      /\ \A k \in Jobs : k # j => job'[k] = job[k]
  BY <1>1, <1>2 DEF TypeOK
<1>6. /\ order' \in Seq(Jobs) /\ Len(order') = Len(order) + 1 /\ Len(order) \in Nat
      /\ order'[Len(order) + 1] = j
      /\ \A i \in 1..Len(order) : order'[i] = order[i]
  BY <1>2 DEF TypeOK
<1>7. ~InOrder(j)
  BY <1>2 DEF QueueHoldsWorkers
<1>8. \A i, k \in 1..Len(order') : order'[i] = order'[k] => i = k
  BY <1>6, <1>7 DEF QueueHoldsWorkers, InOrder
<1>9. \A k \in Jobs : InOrder(k)' <=> InOrder(k) \/ k = j
  BY <1>6 DEF InOrder
<1>10. ASSUME NEW k \in Jobs
       PROVE  /\ job'[k].at \in {"queued", "writing", "written"} <=> InOrder(k)'
              /\ job'[k].at \in {"writing", "written"} => order'[1] = k
              /\ job'[k].at = "free" => ~Owned(k)'
              /\ job'[k].at \in {"succeeded", "errored"} => Owned(k)'
              /\ job'[k].at # "free" => job'[k].value \in Masks
  <2>1. CASE k = j
    BY <1>3, <1>5, <1>9, <2>1
  <2>2. CASE k # j
    <3>1. job'[k] = job[k] /\ (InOrder(k)' <=> InOrder(k)) /\ (Owned(k)' <=> Owned(k))
      BY <1>5, <1>9, <2>2 DEF Owned
    <3>2. InOrder(k) => 1 \in 1..Len(order)
      BY <1>6 DEF InOrder
    <3> QED BY <1>6, <3>1, <3>2 DEF QueueHoldsWorkers
  <2> QED BY <2>1, <2>2
<1>11. QueueHoldsWorkers'
  BY <1>8, <1>10 DEF QueueHoldsWorkers
<1> QED BY <1>2, <1>4, <1>5, <1>6, <1>11 DEF r

\* A worker that returns leaves the queue; the others keep their places.
LEMMA ReturnLeavesQueue ==
  ASSUME TypeOK, QueueHoldsWorkers, NEW j \in Jobs, NEW result \in {"succeeded", "errored"},
         Return(j, result)
  PROVE  /\ job' \in [Jobs -> Workers]
         /\ order' \in Seq(Jobs)
         /\ QueueHoldsWorkers'
         /\ job[j].at \in {"queued", "writing", "written"}
         /\ job[j].requester = "none" => job'[j] = FreeJob
         /\ job[j].requester # "none" =>
              /\ job'[j].at = result /\ job'[j].number = job[j].number
              /\ job'[j].value = job[j].value /\ job'[j].requester = job[j].requester
         /\ \A k \in Jobs : k # j => job'[k] = job[k]
<1> DEFINE r == IF job[j].requester = "none" THEN FreeJob ELSE [job[j] EXCEPT !.at = result]
<1>1. PICK p \in 1..Len(order) : order[p] = j /\ order' = RemoveAt(order, p)
  BY DEF Return
<1>2. job' = [job EXCEPT ![j] = r]
  BY DEF Return
<1>3. job[j] \in Workers
  BY DEF TypeOK
<1>4. r \in Workers
  BY <1>3 DEF Workers, FreeJob
<1>5. /\ job[j].requester = "none" => r = FreeJob
      /\ job[j].requester # "none" =>
           /\ r.at = result /\ r.number = job[j].number
           /\ r.value = job[j].value /\ r.requester = job[j].requester
  BY <1>3 DEF Workers
<1>6. job[j].at \in {"queued", "writing", "written"}
  BY <1>1 DEF QueueHoldsWorkers, InOrder
<1> HIDE DEF r
<1>7. /\ job' \in [Jobs -> Workers] /\ job'[j] = r
      /\ \A k \in Jobs : k # j => job'[k] = job[k]
  BY <1>2, <1>4 DEF TypeOK
<1>8. /\ order' \in Seq(Jobs) /\ Len(order') = Len(order) - 1 /\ Len(order) \in Nat
      /\ \A k \in 1..Len(order) - 1 : order'[k] = IF k < p THEN order[k] ELSE order[k + 1]
  <2>1. order \in Seq(Jobs)
    BY DEF TypeOK
  <2>2. /\ RemoveAt(order, p) \in Seq(Jobs)
        /\ Len(RemoveAt(order, p)) = Len(order) - 1
        /\ \A k \in 1..Len(order) - 1 :
             RemoveAt(order, p)[k] = IF k < p THEN order[k] ELSE order[k + 1]
    BY <2>1, RemoveAtShifts
  <2>3. Len(order) \in Nat
    BY <2>1
  <2> QED BY <1>1, <2>2, <2>3
<1>9. \A i \in 1..Len(order') : order'[i] # j
  BY <1>1, <1>8 DEF QueueHoldsWorkers
<1>10. \A i, k \in 1..Len(order') : order'[i] = order'[k] => i = k
  BY <1>8 DEF QueueHoldsWorkers
<1>11. ASSUME NEW k \in Jobs, k # j
       PROVE  /\ InOrder(k)' <=> InOrder(k)
              /\ InOrder(k) /\ order[1] = k => order'[1] = k
  <2>1. ASSUME NEW i \in 1..Len(order), order[i] = k
        PROVE  \/ i < p /\ i \in 1..Len(order') /\ order'[i] = k
               \/ i > p /\ i - 1 \in 1..Len(order') /\ order'[i - 1] = k
    <3>1. i # p
      BY <1>1, <1>11, <2>1
    <3>2. CASE i < p
      BY <1>8, <2>1, <3>2
    <3>3. CASE i > p
      <4>1. i - 1 \in 1..Len(order) - 1 /\ ~(i - 1 < p) /\ (i - 1) + 1 = i
        BY <1>8, <3>3
      <4>2. order'[i - 1] = order[(i - 1) + 1]
        BY <1>8, <4>1
      <4> QED BY <1>8, <2>1, <3>3, <4>1, <4>2
    <3> QED BY <1>8, <3>1, <3>2, <3>3
  <2>2. InOrder(k) => InOrder(k)'
    BY <2>1 DEF InOrder
  <2>3. InOrder(k)' => InOrder(k)
    BY <1>8 DEF InOrder
  <2>4. InOrder(k) /\ order[1] = k => order'[1] = k
    <3>1. InOrder(k) => 1 \in 1..Len(order)
      BY <1>8 DEF InOrder
    <3> QED BY <1>1, <2>1, <3>1
  <2> QED BY <2>2, <2>3, <2>4
<1>12. ASSUME NEW k \in Jobs
       PROVE  /\ job'[k].at \in {"queued", "writing", "written"} <=> InOrder(k)'
              /\ job'[k].at \in {"writing", "written"} => order'[1] = k
              /\ job'[k].at = "free" => ~Owned(k)'
              /\ job'[k].at \in {"succeeded", "errored"} => Owned(k)'
              /\ job'[k].at # "free" => job'[k].value \in Masks
  <2>1. CASE k = j
    <3>1. ~InOrder(k)'
      BY <1>9, <2>1 DEF InOrder
    <3>2. job[j].value \in Masks
      BY <1>6 DEF QueueHoldsWorkers
    <3> QED BY <1>5, <1>7, <2>1, <3>1, <3>2 DEF FreeJob, Owned
  <2>2. CASE k # j
    <3>1. job'[k] = job[k] /\ (Owned(k)' <=> Owned(k))
      BY <1>7, <2>2 DEF Owned
    <3> QED BY <1>11, <2>2, <3>1 DEF QueueHoldsWorkers
  <2> QED BY <2>1, <2>2
<1>13. QueueHoldsWorkers'
  BY <1>10, <1>12 DEF QueueHoldsWorkers
<1> QED BY <1>5, <1>6, <1>7, <1>8, <1>13

LEMMA StateFacts ==
  ASSUME NEW s \in States
  PROVE  /\ s.next \in 0..MaxNumber /\ s.pending \in SUBSET (1..MaxNumber)
         /\ s.committed \in Intents /\ s.policy \in Intents
         /\ s.committed.number \in 0..MaxNumber /\ s.policy.number \in 0..MaxNumber
         /\ s.recovery \in {"none", "requested", "scheduled"}
BY DEF States, Intents, NoIntent

LEMMA WorkerFacts ==
  ASSUME NEW w \in Workers
  PROVE  /\ w.at \in {"free", "queued", "writing", "written", "succeeded", "errored"}
         /\ w.number \in 0..MaxNumber /\ w.value \in Masks \cup {Absent}
         /\ w.requester \in {"none", "waiting", "gone"}
BY DEF Workers

-----------------------------------------------------------------------------
(* Core: what holds whatever the clients do.                               *)

\* A step that leaves the intents alone and gives no worker another number.
LEMMA IntentsKept ==
  ASSUME Core, st' = st, saved' = saved, budget' = budget,
         \A k \in Jobs :
           /\ Owned(k)' <=> Owned(k)
           /\ Background(k)' => Background(k)
           /\ Owned(k) \/ Background(k)' =>
                job'[k].number = job[k].number /\ job'[k].value = job[k].value
  PROVE  OwnersPend' /\ NumbersAreUnique' /\ NumbersMeanValues'
<1>1. OwnersPend'
  BY DEF Core, OwnersPend
<1>2. NumbersAreUnique'
  BY DEF Core, NumbersAreUnique
<1>3. NumbersMeanValues'
  BY DEF Core, NumbersMeanValues
<1> QED BY <1>1, <1>2, <1>3

\* A worker that goes on, and stays in the queue or out of it.
LEMMA WorkerGoesOn ==
  ASSUME Core, NEW j \in Jobs, NEW r \in Workers, job' = [job EXCEPT ![j] = r], order' = order,
         r.number = job[j].number, r.value = job[j].value,
         r.requester = "none" <=> job[j].requester = "none",
         r.at \in {"queued", "writing", "written"} <=> job[j].at \in {"queued", "writing", "written"},
         r.at = "free" <=> job[j].at = "free",
         r.at \in {"writing", "written"} => order[1] = j
  PROVE  /\ job' \in [Jobs -> Workers]
         /\ QueueHoldsWorkers'
         /\ job'[j] = r /\ \A k \in Jobs : k # j => job'[k] = job[k]
         /\ \A k \in Jobs :
              /\ Owned(k)' <=> Owned(k)
              /\ Background(k)' <=> Background(k)
              /\ job'[k].number = job[k].number /\ job'[k].value = job[k].value
<1>1. /\ job' \in [Jobs -> Workers] /\ job'[j] = r
      /\ \A k \in Jobs : k # j => job'[k] = job[k]
  BY DEF Core, TypeOK
<1>2. ASSUME NEW k \in Jobs
      PROVE  /\ Owned(k)' <=> Owned(k)
             /\ Background(k)' <=> Background(k)
             /\ job'[k].number = job[k].number /\ job'[k].value = job[k].value
             /\ job'[k].at \in {"queued", "writing", "written"}
                  <=> job[k].at \in {"queued", "writing", "written"}
             /\ job'[k].at = "free" <=> job[k].at = "free"
             /\ job'[k].at \in {"writing", "written"} =>
                  order[1] = k \/ job[k].at \in {"writing", "written"}
  BY <1>1 DEF Owned, Background
<1>3. \A k \in Jobs : InOrder(k)' <=> InOrder(k)
  BY DEF InOrder
<1>4. \A k \in Jobs : job'[k] \in Workers /\ job[k] \in Workers
  BY <1>1 DEF Core, TypeOK
<1>5. QueueHoldsWorkers'
  <2>1. \A i, k \in 1..Len(order') : order'[i] = order'[k] => i = k
    BY DEF Core, QueueHoldsWorkers
  <2>2. ASSUME NEW k \in Jobs
        PROVE  /\ job'[k].at \in {"queued", "writing", "written"} <=> InOrder(k)'
               /\ job'[k].at \in {"writing", "written"} => order'[1] = k
               /\ job'[k].at = "free" => ~Owned(k)'
               /\ job'[k].at \in {"succeeded", "errored"} => Owned(k)'
               /\ job'[k].at # "free" => job'[k].value \in Masks
    <3>1. job'[k].at \in {"succeeded", "errored"} => job[k].at \in {"succeeded", "errored"}
      BY <1>2, <1>4, WorkerFacts
    <3> QED BY <1>2, <1>3, <3>1 DEF Core, QueueHoldsWorkers
  <2> QED BY <2>1, <2>2 DEF QueueHoldsWorkers
<1> QED BY <1>1, <1>2, <1>5

\* The first worker of the queue is the only one that writes.
LEMMA OneWriter ==
  ASSUME Core, NEW j \in Jobs, NEW k \in Jobs, j # k, job[j].at \in {"writing", "written"}
  PROVE  job[k].at \notin {"writing", "written"}
BY DEF Core, QueueHoldsWorkers

LEMMA StartWriteKeepsCore ==
  ASSUME Core, NEW j \in Jobs, StartWrite(j)
  PROVE  Core'
<1> DEFINE r == [job[j] EXCEPT !.at = "writing"]
<1>1. /\ job[j].at = "queued" /\ order # <<>> /\ Head(order) = j
      /\ job' = [job EXCEPT ![j] = r] /\ order' = order
      /\ st' = st /\ device' = device /\ saved' = saved /\ budget' = budget
      /\ failed' = failed /\ overlapped' = overlapped
  BY DEF StartWrite, HasTurn
<1>2. order[1] = j
  BY <1>1 DEF Core, TypeOK
<1>3. job[j] \in Workers
  BY DEF Core, TypeOK
<1>4. /\ r \in Workers /\ r.at = "writing" /\ r.number = job[j].number
      /\ r.value = job[j].value /\ r.requester = job[j].requester
  BY <1>3 DEF Workers
<1> HIDE DEF r
<1>5. /\ job' \in [Jobs -> Workers]
      /\ QueueHoldsWorkers'
      /\ job'[j] = r /\ \A k \in Jobs : k # j => job'[k] = job[k]
      /\ \A k \in Jobs :
           /\ Owned(k)' <=> Owned(k)
           /\ Background(k)' <=> Background(k)
           /\ job'[k].number = job[k].number /\ job'[k].value = job[k].value
  BY <1>1, <1>2, <1>4, WorkerGoesOn
<1>6. OwnersPend' /\ NumbersAreUnique' /\ NumbersMeanValues'
  BY <1>1, <1>5, IntentsKept
<1>7. ReadbackIsOwn'
  BY <1>1, <1>4, <1>5 DEF Core, ReadbackIsOwn
<1>8. TypeOK'
  BY <1>1, <1>5 DEF Core, TypeOK
<1> QED BY <1>5, <1>6, <1>7, <1>8 DEF Core

LEMMA ApplyKeepsCore ==
  ASSUME Core, NEW j \in Jobs, Apply(j)
  PROVE  Core'
<1> DEFINE r == [job[j] EXCEPT !.at = "written"]
<1>1. /\ job[j].at = "writing" /\ device' = job[j].value
      /\ job' = [job EXCEPT ![j] = r] /\ order' = order
      /\ st' = st /\ saved' = saved /\ budget' = budget
      /\ failed' = failed /\ overlapped' = overlapped
  BY DEF Apply
<1>2. order[1] = j /\ job[j].value \in Masks
  BY <1>1 DEF Core, QueueHoldsWorkers
<1>3. job[j] \in Workers
  BY DEF Core, TypeOK
<1>4. /\ r \in Workers /\ r.at = "written" /\ r.number = job[j].number
      /\ r.value = job[j].value /\ r.requester = job[j].requester
  BY <1>3 DEF Workers
<1> HIDE DEF r
<1>5. /\ job' \in [Jobs -> Workers]
      /\ QueueHoldsWorkers'
      /\ job'[j] = r /\ \A k \in Jobs : k # j => job'[k] = job[k]
      /\ \A k \in Jobs :
           /\ Owned(k)' <=> Owned(k)
           /\ Background(k)' <=> Background(k)
           /\ job'[k].number = job[k].number /\ job'[k].value = job[k].value
  BY <1>1, <1>2, <1>4, WorkerGoesOn
<1>6. OwnersPend' /\ NumbersAreUnique' /\ NumbersMeanValues'
  BY <1>1, <1>5, IntentsKept
<1>7. ReadbackIsOwn'
  BY <1>1, <1>4, <1>5, OneWriter DEF ReadbackIsOwn
<1>8. TypeOK'
  BY <1>1, <1>2, <1>5 DEF Core, TypeOK
<1> QED BY <1>5, <1>6, <1>7, <1>8 DEF Core

LEMMA CancelKeepsCore ==
  ASSUME Core, NEW j \in Jobs, Cancel(j)
  PROVE  Core'
<1> DEFINE r == [job[j] EXCEPT !.requester = "gone"]
<1>1. /\ job[j].requester = "waiting"
      /\ job' = [job EXCEPT ![j] = r] /\ order' = order
      /\ st' = st /\ device' = device /\ saved' = saved /\ budget' = budget
      /\ failed' = failed /\ overlapped' = overlapped
  BY DEF Cancel
<1>2. job[j].at \in {"writing", "written"} => order[1] = j
  BY DEF Core, QueueHoldsWorkers
<1>3. job[j] \in Workers
  BY DEF Core, TypeOK
<1>4. /\ r \in Workers /\ r.at = job[j].at /\ r.number = job[j].number
      /\ r.value = job[j].value /\ r.requester = "gone"
  BY <1>3 DEF Workers
<1> HIDE DEF r
<1>5. /\ job' \in [Jobs -> Workers]
      /\ QueueHoldsWorkers'
      /\ job'[j] = r /\ \A k \in Jobs : k # j => job'[k] = job[k]
      /\ \A k \in Jobs :
           /\ Owned(k)' <=> Owned(k)
           /\ Background(k)' <=> Background(k)
           /\ job'[k].number = job[k].number /\ job'[k].value = job[k].value
  BY <1>1, <1>2, <1>4, WorkerGoesOn
<1>6. OwnersPend' /\ NumbersAreUnique' /\ NumbersMeanValues'
  BY <1>1, <1>5, IntentsKept
<1>7. ReadbackIsOwn'
  BY <1>1, <1>4, <1>5 DEF Core, ReadbackIsOwn
<1>8. TypeOK'
  BY <1>1, <1>5 DEF Core, TypeOK
<1> QED BY <1>5, <1>6, <1>7, <1>8 DEF Core

\* The three ways run_disable_keys returns.
LEMMA ReturnKeepsCore ==
  ASSUME Core, NEW j \in Jobs, NEW result \in {"succeeded", "errored"}, Return(j, result),
         st' = st, device' = device, saved' = saved, budget' = budget,
         failed' \in BOOLEAN, overlapped' = overlapped
  PROVE  /\ Core'
         /\ \A k \in Jobs : k # j => job'[k] = job[k]
         /\ \A k \in Jobs :
              /\ Owned(k)' <=> Owned(k)
              /\ Background(k) /\ k # j <=> Background(k)'
              /\ Owned(k) \/ Background(k)' =>
                   job'[k].number = job[k].number /\ job'[k].value = job[k].value
         /\ Owned(j) => job'[j].at = result /\ job'[j].requester = job[j].requester
         /\ job'[j].at \notin {"writing", "written"}
<1>1. /\ job' \in [Jobs -> Workers]
      /\ order' \in Seq(Jobs)
      /\ QueueHoldsWorkers'
      /\ job[j].at \in {"queued", "writing", "written"}
      /\ job[j].requester = "none" => job'[j] = FreeJob
      /\ job[j].requester # "none" =>
           /\ job'[j].at = result /\ job'[j].number = job[j].number
           /\ job'[j].value = job[j].value /\ job'[j].requester = job[j].requester
      /\ \A k \in Jobs : k # j => job'[k] = job[k]
  BY ReturnLeavesQueue DEF Core
<1>2. FreeJob.at = "free" /\ FreeJob.requester = "none"
  BY DEF FreeJob
<1>3. ASSUME NEW k \in Jobs
      PROVE  /\ Owned(k)' <=> Owned(k)
             /\ Background(k) /\ k # j <=> Background(k)'
             /\ Owned(k) \/ Background(k)' =>
                  job'[k].number = job[k].number /\ job'[k].value = job[k].value
  BY <1>1, <1>2 DEF Owned, Background
<1>4. job'[j].at \notin {"writing", "written"}
  BY <1>1, <1>2
<1>5. OwnersPend' /\ NumbersAreUnique' /\ NumbersMeanValues'
  BY <1>3, IntentsKept
<1>6. ReadbackIsOwn'
  BY <1>1, <1>4 DEF Core, ReadbackIsOwn
<1>7. TypeOK'
  BY <1>1 DEF Core, TypeOK
<1> QED BY <1>1, <1>3, <1>4, <1>5, <1>6, <1>7 DEF Core, Owned

\* A completion is consumed: its number is pending no more, and is the accepted
\* one or nobody's.
LEMMA CompletionKeepsCore ==
  ASSUME Core, NEW j \in Jobs, Answered(j), Owned(j),
         st' \in States, st'.next = st.next, st'.pending = st.pending \ {job[j].number},
         st'.policy = st.policy,
         \/ st'.committed = st.committed
         \/ st'.committed = [number |-> job[j].number, value |-> job[j].value],
         st'.recovery = "scheduled" => st.recovery = "scheduled",
         job' = [job EXCEPT ![j] = FreeJob],
         UNCHANGED <<order, device, saved, budget, failed, overlapped>>
  PROVE  /\ Core'
         /\ \A k \in Jobs : k # j => job'[k] = job[k]
         /\ ~Owned(j)' /\ ~Background(j)' /\ job'[j].at = "free"
<1>1. FreeJob \in Workers /\ FreeJob.at = "free" /\ FreeJob.requester = "none"
  BY DEF FreeJob, Workers
<1>2. /\ job' \in [Jobs -> Workers] /\ job'[j] = FreeJob
      /\ \A k \in Jobs : k # j => job'[k] = job[k]
  BY <1>1 DEF Core, TypeOK
<1>3. TypeOK'
  BY <1>2 DEF Core, TypeOK
<1>4. /\ ~Owned(j)' /\ ~Background(j)' /\ ~Background(j)
      /\ \A k \in Jobs : k # j => (Owned(k)' <=> Owned(k)) /\ (Background(k)' <=> Background(k))
  BY <1>1, <1>2 DEF Owned, Background
<1>5. QueueHoldsWorkers'
  <2>1. \A k \in Jobs : InOrder(k)' <=> InOrder(k)
    BY DEF InOrder
  <2>2. job[j].at \in {"succeeded", "errored"}
    BY DEF Answered
  <2>3. ASSUME NEW k \in Jobs
        PROVE  /\ job'[k].at \in {"queued", "writing", "written"} <=> InOrder(k)'
               /\ job'[k].at \in {"writing", "written"} => order'[1] = k
               /\ job'[k].at = "free" => ~Owned(k)'
               /\ job'[k].at \in {"succeeded", "errored"} => Owned(k)'
               /\ job'[k].at # "free" => job'[k].value \in Masks
    BY <1>1, <1>2, <1>4, <2>1, <2>2 DEF Core, QueueHoldsWorkers
  <2> QED BY <2>3 DEF Core, QueueHoldsWorkers
<1>6. ReadbackIsOwn'
  BY <1>1, <1>2 DEF Core, ReadbackIsOwn
<1>7. job[j].number \in st.pending /\ job[j].number \in 1..st.next /\ job[j].value \in Masks
  BY DEF Core, OwnersPend, NumbersAreUnique, QueueHoldsWorkers, Owned
<1>8. OwnersPend'
  <2>1. ASSUME NEW k \in Jobs, Owned(k)'
        PROVE  job'[k].number \in st'.pending
    BY <1>2, <1>4, <2>1 DEF Core, OwnersPend, NumbersAreUnique
  <2>2. ASSUME NEW n \in st'.pending
        PROVE  \E k \in Jobs : Owned(k)' /\ job'[k].number = n
    <3>1. PICK k \in Jobs : Owned(k) /\ job[k].number = n
      BY <2>2 DEF Core, OwnersPend
    <3>2. k # j
      BY <2>2, <3>1
    <3> QED BY <1>2, <1>4, <3>1, <3>2
  <2> QED BY <2>1, <2>2 DEF OwnersPend
<1>9. st.next \in 0..MaxNumber /\ st.committed.number \in 0..MaxNumber
  BY StateFacts DEF Core, TypeOK
<1>10. NumbersAreUnique'
  <2>1. /\ st'.committed.number <= st'.next /\ st'.committed.number \notin st'.pending
        /\ st'.policy.number <= st'.next /\ st'.policy.number \notin st'.pending
    BY <1>7, <1>9 DEF Core, NumbersAreUnique
  <2>2. ASSUME NEW k \in Jobs
        PROVE  /\ Owned(k)' => job'[k].number \in 1..st'.next
               /\ Background(k)' => job'[k].number <= st'.next /\ job'[k].number \notin st'.pending
    BY <1>2, <1>4 DEF Core, NumbersAreUnique
  <2>3. \A i, k \in Jobs : Owned(i)' /\ Owned(k)' /\ job'[i].number = job'[k].number => i = k
    BY <1>2, <1>4 DEF Core, NumbersAreUnique
  <2> QED BY <2>1, <2>2, <2>3 DEF NumbersAreUnique
<1>11. NumbersMeanValues'
  <2>1. \A k \in Jobs : Background(k)' => Background(k) /\ job'[k] = job[k]
    BY <1>2, <1>4
  <2>2. CASE st'.committed = st.committed
    BY <2>1, <2>2 DEF Core, NumbersMeanValues
  <2>3. CASE st'.committed = [number |-> job[j].number, value |-> job[j].value]
    <3>1. st'.committed.number = job[j].number /\ st'.committed.value = job[j].value
      BY <2>3
    <3>2. st'.committed.number > 0 /\ st'.committed # NoIntent
      BY <1>7, <1>9, <3>1 DEF NoIntent
    <3>3. st.policy.number # job[j].number
      BY <1>7 DEF Core, NumbersAreUnique
    <3>4. \A k \in Jobs : Background(k) => job[k].number # job[j].number
      BY <1>7 DEF Core, NumbersAreUnique
    <3> QED BY <2>1, <3>1, <3>2, <3>3, <3>4 DEF Core, NumbersMeanValues
  <2> QED BY <2>2, <2>3
<1> QED BY <1>1, <1>2, <1>3, <1>4, <1>5, <1>6, <1>8, <1>10, <1>11 DEF Core

\* What Accept and DropCompletion do to the intents.
LEMMA CompletionFields ==
  ASSUME Core, NEW j \in Jobs, Accept(j) \/ DropCompletion(j)
  PROVE  /\ Answered(j) /\ Owned(j)
         /\ job[j].number \in st.pending /\ job[j].value \in Masks
         /\ st' \in States /\ st'.next = st.next /\ st'.pending = st.pending \ {job[j].number}
         /\ st'.policy = st.policy
         /\ \/ /\ st'.committed = st.committed
               /\ st'.recovery = IF st.committed.number < job[j].number THEN "requested"
                                 ELSE st.recovery
            \/ /\ Latest(st) = job[j].number
               /\ job[j].requester = "waiting" /\ job[j].at = "succeeded"
               /\ st'.committed = [number |-> job[j].number, value |-> job[j].value]
               /\ st'.recovery = "none"
         /\ job' = [job EXCEPT ![j] = FreeJob]
         /\ UNCHANGED <<order, device, saved, budget, failed, overlapped>>
<1>1. Answered(j) /\ Owned(j)
  BY DEF Accept, DropCompletion, Owned, Cancelled
<1>2. job[j].number \in st.pending /\ job[j].value \in Masks
  BY <1>1 DEF Core, OwnersPend, QueueHoldsWorkers, Owned
<1>3. st \in States
  BY DEF Core, TypeOK
<1>4. job[j].number \in 1..MaxNumber
  BY <1>2, <1>3, StateFacts
<1>5. \/ st' = Dropped(st, job[j].number)
      \/ /\ job[j].requester = "waiting" /\ job[j].at = "succeeded"
         /\ st' = Confirmed(st, job[j].number, job[j].value)
  BY DEF Accept, DropCompletion
<1>6. CASE st' = Dropped(st, job[j].number)
  BY <1>1, <1>2, <1>3, <1>6, DroppedFields DEF Accept, DropCompletion
<1>7. CASE /\ job[j].requester = "waiting" /\ job[j].at = "succeeded"
           /\ st' = Confirmed(st, job[j].number, job[j].value)
  <2>1. CASE Latest(st) = job[j].number
    <3>1. /\ st' \in States /\ st'.next = st.next /\ st'.pending = st.pending \ {job[j].number}
          /\ st'.policy = st.policy
          /\ st'.committed = [number |-> job[j].number, value |-> job[j].value]
          /\ st'.recovery = "none"
      BY <1>2, <1>3, <1>4, <1>7, <2>1, ConfirmedFields
    <3> QED BY <1>1, <1>2, <1>7, <2>1, <3>1 DEF Accept, DropCompletion
  <2>2. CASE Latest(st) # job[j].number
    <3>1. st' = Dropped(st, job[j].number)
      BY <1>7, <2>2 DEF Confirmed
    <3> QED BY <1>6, <3>1
  <2> QED BY <2>1, <2>2
<1> QED BY <1>5, <1>6, <1>7

LEMMA CompletionsKeepCore ==
  ASSUME Core, NEW j \in Jobs, Accept(j) \/ DropCompletion(j)
  PROVE  Core'
BY CompletionFields, CompletionKeepsCore

\* A request reserves the next number and its turn.
LEMMA SetKeepsCore ==
  ASSUME Core, NEW v \in Masks, SetDisableKeys(v)
  PROVE  Core'
<1>1. st \in States /\ st.next < MaxNumber /\ st.next \in 0..MaxNumber
  BY StateFacts DEF Core, TypeOK, SetDisableKeys
<1>2. /\ st' \in States /\ st'.next = st.next + 1 /\ st'.pending = st.pending \cup {st.next + 1}
      /\ st'.committed = st.committed /\ st'.policy = st.policy /\ st'.recovery = st.recovery
  BY <1>1, BegunFields DEF SetDisableKeys
<1>3. PICK j \in Jobs : Spawn(j, st.next + 1, v, "waiting")
  BY <1>2 DEF SetDisableKeys
<1>4. /\ job' \in [Jobs -> Workers]
      /\ order' \in Seq(Jobs)
      /\ QueueHoldsWorkers'
      /\ job[j].at = "free" /\ job[j].requester = "none"
      /\ job'[j] = [at |-> "queued", number |-> st.next + 1, value |-> v, requester |-> "waiting"]
      /\ \A k \in Jobs : k # j => job'[k] = job[k]
  <2>1. st.next + 1 \in 0..MaxNumber
    BY <1>1
  <2> QED BY <1>3, <2>1, SpawnQueues DEF Core
<1>5. /\ Owned(j)' /\ job'[j].number = st.next + 1 /\ ~Background(j)' /\ ~Owned(j)
      /\ job'[j].at = "queued"
      /\ \A k \in Jobs : k # j => (Owned(k)' <=> Owned(k)) /\ (Background(k)' <=> Background(k))
  BY <1>4 DEF Owned, Background
<1>6. TypeOK'
  <2>1. overlapped' \in BOOLEAN
    BY DEF SetDisableKeys, NoteOverlap, Core, TypeOK
  <2> QED BY <1>2, <1>4, <2>1 DEF Core, TypeOK, SetDisableKeys
<1>7. ReadbackIsOwn'
  BY <1>4, <1>5 DEF Core, ReadbackIsOwn, SetDisableKeys
<1>8. OwnersPend'
  BY <1>2, <1>4, <1>5 DEF Core, OwnersPend
<1>9. /\ st.committed.number \in 0..MaxNumber /\ st.policy.number \in 0..MaxNumber
      /\ \A k \in Jobs : job[k].number \in 0..MaxNumber
  BY StateFacts, WorkerFacts DEF Core, TypeOK
<1>10. NumbersAreUnique'
  <2>1. /\ st'.committed.number <= st'.next /\ st'.committed.number \notin st'.pending
        /\ st'.policy.number <= st'.next /\ st'.policy.number \notin st'.pending
    BY <1>1, <1>2, <1>9 DEF Core, NumbersAreUnique
  <2>2. ASSUME NEW k \in Jobs
        PROVE  /\ Owned(k)' => job'[k].number \in 1..st'.next
               /\ Background(k)' => job'[k].number <= st'.next /\ job'[k].number \notin st'.pending
    BY <1>1, <1>2, <1>4, <1>5, <1>9 DEF Core, NumbersAreUnique
  <2>3. \A i, k \in Jobs : Owned(i)' /\ Owned(k)' /\ job'[i].number = job'[k].number => i = k
    BY <1>1, <1>4, <1>5, <1>9 DEF Core, NumbersAreUnique
  <2> QED BY <2>1, <2>2, <2>3 DEF NumbersAreUnique
<1>11. NumbersMeanValues'
  BY <1>2, <1>4, <1>5 DEF Core, NumbersMeanValues, SetDisableKeys
<1> QED BY <1>4, <1>6, <1>7, <1>8, <1>10, <1>11 DEF Core

LEMMA RejectedFields ==
  ASSUME Core, SetRejected
  PROVE  /\ st' \in States /\ st'.next = st.next + 1 /\ st'.pending = st.pending
         /\ st'.committed = st.committed /\ st'.policy = st.policy
         /\ st'.recovery = "requested"
<1>1. st \in States /\ st.next < MaxNumber /\ st.next \in 0..MaxNumber
      /\ st.committed.number \in 0..MaxNumber
  BY StateFacts DEF Core, TypeOK, SetRejected
<1>2. st.committed.number < st.next + 1
  BY <1>1 DEF Core, NumbersAreUnique
<1>3. st.next + 1 \notin st.pending
  BY <1>1 DEF Core, OwnersPend, NumbersAreUnique
<1> DEFINE b == Begun(st)
<1>4. /\ b \in States /\ b.next = st.next + 1 /\ b.pending = st.pending \cup {st.next + 1}
      /\ b.committed = st.committed /\ b.policy = st.policy /\ b.recovery = st.recovery
  BY <1>1, BegunFields
<1>5. st' = Dropped(b, st.next + 1)
  BY DEF SetRejected
<1> HIDE DEF b
<1>6. (st.pending \cup {st.next + 1}) \ {st.next + 1} = st.pending
  BY <1>3
<1> QED BY <1>2, <1>4, <1>5, <1>6, DroppedFields

LEMMA RejectedKeepsCore ==
  ASSUME Core, SetRejected
  PROVE  Core'
<1>1. /\ st' \in States /\ st'.next = st.next + 1 /\ st'.pending = st.pending
      /\ st'.committed = st.committed /\ st'.policy = st.policy
      /\ st'.recovery = "requested"
  BY RejectedFields
<1>2. /\ job' = job /\ order' = order /\ device' = device /\ saved' = saved /\ budget' = budget
      /\ failed' = failed
  BY DEF SetRejected
<1>3. /\ st.next \in 0..MaxNumber /\ st.committed.number \in 0..MaxNumber
      /\ st.policy.number \in 0..MaxNumber /\ \A k \in Jobs : job[k].number \in 0..MaxNumber
  BY StateFacts, WorkerFacts DEF Core, TypeOK
<1>4. \A k \in Jobs : (Owned(k)' <=> Owned(k)) /\ (Background(k)' <=> Background(k))
                      /\ (InOrder(k)' <=> InOrder(k))
  BY <1>2 DEF Owned, Background, InOrder
<1>5. TypeOK'
  <2>1. overlapped' \in BOOLEAN
    BY DEF SetRejected, NoteOverlap, Core, TypeOK
  <2> QED BY <1>1, <1>2, <2>1 DEF Core, TypeOK
<1>6. QueueHoldsWorkers'
  BY <1>2, <1>4 DEF Core, QueueHoldsWorkers
<1>7. ReadbackIsOwn' /\ OwnersPend'
  BY <1>1, <1>2, <1>4 DEF Core, ReadbackIsOwn, OwnersPend
<1>8. NumbersAreUnique'
  BY <1>1, <1>2, <1>3, <1>4 DEF Core, NumbersAreUnique
<1>9. NumbersMeanValues'
  BY <1>1, <1>2, <1>4 DEF Core, NumbersMeanValues
<1> QED BY <1>5, <1>6, <1>7, <1>8, <1>9 DEF Core

\* A step of the orchestrator: the intents it leaves are accounted for, and it
\* may spawn an attempt at one of them.
LEMMA OrchestratorKeepsCore ==
  ASSUME Core, NEW intent \in Intents, Reapply(intent) \/ UNCHANGED <<job, order>>,
         intent.number <= st'.next, intent.number \notin st.pending,
         intent.number = st'.committed.number => intent.value = st'.committed.value,
         st' \in States, st'.pending = st.pending, st'.next >= st.next,
         st'.committed.number <= st'.next, st'.committed.number \notin st.pending,
         st'.policy.number <= st'.next, st'.policy.number \notin st.pending,
         st'.committed # NoIntent, st'.policy # NoIntent, st'.policy.value = saved',
         st'.policy.number = st'.committed.number => st'.policy.value = st'.committed.value,
         \A k \in Jobs : Background(k) /\ job[k].number = st'.committed.number
                           => job[k].value = st'.committed.value,
         st'.recovery = "scheduled" => budget' > 0,
         saved' \in Settings, budget' \in 0..Retries,
         UNCHANGED <<device, failed, overlapped>>
  PROVE  /\ Core'
         /\ \A k \in Jobs :
              /\ Owned(k)' <=> Owned(k)
              /\ Background(k) => Background(k)'
              /\ Owned(k) \/ Background(k) \/ job'[k].at # "queued" => job'[k] = job[k]
         /\ Reapply(intent) /\ intent.value \in Masks =>
              \E k \in Jobs : Background(k)' /\ job'[k].number = intent.number
<1>1. intent.number \in 0..MaxNumber
  BY DEF Intents, NoIntent
<1>2. CASE UNCHANGED <<job, order>> /\ ~(Reapply(intent) /\ intent.value \in Masks)
  <2>1. job' = job /\ order' = order
    BY <1>2
  <2>2. \A k \in Jobs : (Owned(k)' <=> Owned(k)) /\ (Background(k)' <=> Background(k))
                        /\ (InOrder(k)' <=> InOrder(k))
    BY <2>1 DEF Owned, Background, InOrder
  <2>3. TypeOK'
    BY <2>1 DEF Core, TypeOK
  <2>4. QueueHoldsWorkers'
    BY <2>1, <2>2 DEF Core, QueueHoldsWorkers
  <2>5. ReadbackIsOwn' /\ OwnersPend'
    BY <2>1, <2>2 DEF Core, ReadbackIsOwn, OwnersPend
  <2>6. /\ st.next \in 0..MaxNumber /\ st'.next \in 0..MaxNumber
        /\ \A k \in Jobs : job[k].number \in 0..MaxNumber
    BY StateFacts, WorkerFacts DEF Core, TypeOK
  <2>7. NumbersAreUnique'
    <3>1. ASSUME NEW k \in Jobs
          PROVE  /\ Owned(k)' => job'[k].number \in 1..st'.next
                 /\ Background(k)' => job'[k].number <= st'.next /\ job'[k].number \notin st'.pending
      BY <2>1, <2>2, <2>6 DEF Core, NumbersAreUnique
    <3> QED BY <2>1, <2>2, <3>1 DEF Core, NumbersAreUnique
  <2>8. NumbersMeanValues'
    BY <2>1, <2>2 DEF NumbersMeanValues
  <2> QED BY <1>2, <2>1, <2>2, <2>3, <2>4, <2>5, <2>7, <2>8 DEF Core
<1>3. CASE Reapply(intent) /\ intent.value \in Masks
  <2>1. PICK j \in Jobs : Spawn(j, intent.number, intent.value, "none")
    BY <1>3 DEF Reapply
  <2>2. /\ job' \in [Jobs -> Workers]
        /\ order' \in Seq(Jobs)
        /\ QueueHoldsWorkers'
        /\ job[j].at = "free" /\ job[j].requester = "none"
        /\ job'[j] = [at |-> "queued", number |-> intent.number, value |-> intent.value,
                      requester |-> "none"]
        /\ \A k \in Jobs : k # j => job'[k] = job[k]
    BY <1>1, <1>3, <2>1, SpawnQueues DEF Core
  <2>3. /\ Background(j)' /\ ~Owned(j)' /\ ~Owned(j) /\ ~Background(j)
        /\ job'[j].number = intent.number /\ job'[j].value = intent.value
        /\ job'[j].at = "queued"
        /\ \A k \in Jobs : k # j => (Owned(k)' <=> Owned(k)) /\ (Background(k)' <=> Background(k))
    BY <2>2 DEF Owned, Background
  <2>4. TypeOK'
    BY <2>2 DEF Core, TypeOK
  <2>5. ReadbackIsOwn'
    BY <2>2, <2>3 DEF Core, ReadbackIsOwn
  <2>6. OwnersPend'
    <3>1. \A k \in Jobs : Owned(k)' => job'[k].number \in st'.pending
      BY <2>2, <2>3 DEF Core, OwnersPend
    <3>2. ASSUME NEW n \in st'.pending
          PROVE  \E k \in Jobs : Owned(k)' /\ job'[k].number = n
      <4>1. PICK k \in Jobs : Owned(k) /\ job[k].number = n
        BY <3>2 DEF Core, OwnersPend
      <4> QED BY <2>2, <2>3, <4>1
    <3> QED BY <3>1, <3>2 DEF OwnersPend
  <2>7. /\ st.next \in 0..MaxNumber /\ st'.next \in 0..MaxNumber
        /\ \A k \in Jobs : job[k].number \in 0..MaxNumber
    BY StateFacts, WorkerFacts DEF Core, TypeOK
  <2>8. NumbersAreUnique'
    <3>1. ASSUME NEW k \in Jobs
          PROVE  /\ Owned(k)' => job'[k].number \in 1..st'.next
                 /\ Background(k)' => job'[k].number <= st'.next /\ job'[k].number \notin st'.pending
      BY <2>2, <2>3, <2>7 DEF Core, NumbersAreUnique
    <3>2. \A i, k \in Jobs : Owned(i)' /\ Owned(k)' /\ job'[i].number = job'[k].number => i = k
      BY <2>2, <2>3 DEF Core, NumbersAreUnique
    <3> QED BY <3>1, <3>2 DEF NumbersAreUnique
  <2>9. NumbersMeanValues'
    BY <2>2, <2>3 DEF NumbersMeanValues
  <2> QED BY <1>3, <2>2, <2>3, <2>4, <2>5, <2>6, <2>8, <2>9 DEF Core
<1>4. Reapply(intent) /\ intent.value \notin Masks => UNCHANGED <<job, order>>
  BY DEF Reapply
<1> QED BY <1>2, <1>3, <1>4

\* What a pass makes of the saved policy: the first one publishes it or
\* acknowledges a request for it, a later one never changes what is accepted.
LEMMA PassSyncs ==
  ASSUME Core, NEW y, y = Synced(st, saved)
  PROVE  /\ y \in States /\ y.next = st.next /\ y.pending = st.pending
         /\ y.recovery = st.recovery
         /\ y.committed # NoIntent /\ y.policy # NoIntent /\ y.policy.value = saved
         /\ y.committed.number <= st.next /\ y.committed.number \notin st.pending
         /\ y.policy.number <= st.next /\ y.policy.number \notin st.pending
         /\ y.policy.number = y.committed.number => y.policy.value = y.committed.value
         /\ y.committed.number = st.committed.number
         /\ \/ y.committed = st.committed
            \/ /\ st.policy = NoIntent /\ st.committed = NoIntent
               /\ y.committed = y.policy
<1>1. st \in States /\ saved \in Settings /\ saved # Absent
  BY DEF Core, TypeOK, Settings
<1>2. /\ st.next \in 0..MaxNumber /\ st.pending \in SUBSET (1..MaxNumber)
      /\ st.committed.number \in 0..MaxNumber
  BY <1>1, StateFacts
<1>3. /\ st.committed.number <= st.next /\ st.committed.number \notin st.pending
      /\ st.policy.number <= st.next /\ st.policy.number \notin st.pending
      /\ 0 <= st.next /\ 0 \notin st.pending
  BY <1>2 DEF Core, NumbersAreUnique
<1>4. NoIntent.value = Absent /\ NoIntent.number = 0
  BY DEF NoIntent
<1>5. CASE st.committed.value = saved
  <2>1. /\ y \in States /\ y.next = st.next /\ y.pending = st.pending
        /\ y.committed = st.committed /\ y.policy = st.committed
        /\ y.recovery = st.recovery
    BY <1>1, <1>5, SyncedAcknowledges
  <2>2. st.committed # NoIntent
    BY <1>1, <1>4, <1>5
  <2> QED BY <1>3, <1>5, <2>1, <2>2
<1>6. CASE st.committed.value # saved /\ st.policy # NoIntent
  <2>1. st.policy.value = saved /\ st.committed # NoIntent
        /\ (st.policy.number = st.committed.number => st.policy.value = st.committed.value)
    BY <1>6 DEF Core, NumbersMeanValues
  <2>2. y = st
    BY <1>6, <2>1, SyncedIgnores
  <2> QED BY <1>1, <1>3, <1>6, <2>1, <2>2
<1>7. CASE st.committed.value # saved /\ st.policy = NoIntent
  <2>1. Publishes(st, saved)
    BY <1>1, <1>4, <1>7 DEF Publishes
  <2> DEFINE b == [number |-> 0, value |-> saved]
  <2>2. /\ y \in States /\ y.next = st.next /\ y.pending = st.pending
        /\ y.policy = b /\ y.recovery = st.recovery
        /\ y.committed = IF st.committed = NoIntent THEN b ELSE st.committed
    BY <1>1, <1>7, <2>1, SyncedIsBaseline
  <2>3. b.number = 0 /\ b.value = saved /\ b # NoIntent
    BY <1>1 DEF NoIntent
  <2>4. st.committed = NoIntent \/ st.committed.number > 0
    BY <1>7 DEF Core, NumbersMeanValues
  <2> HIDE DEF b
  <2>5. CASE st.committed = NoIntent
    BY <1>3, <1>4, <1>7, <2>2, <2>3, <2>5
  <2>6. CASE st.committed # NoIntent
    BY <1>2, <1>3, <1>7, <2>2, <2>3, <2>4, <2>6
  <2> QED BY <2>5, <2>6
<1> QED BY <1>5, <1>6, <1>7

\* A config reload acknowledges, ignores or publishes, and what it publishes is
\* attempted at once.
LEMMA ReloadOutcome ==
  ASSUME Core, NEW v \in Settings, ReloadConfig(v)
  PROVE  /\ Core'
         /\ \A k \in Jobs :
              /\ Owned(k)' <=> Owned(k)
              /\ Background(k) => Background(k)'
              /\ Owned(k) \/ Background(k) \/ job'[k].at # "queued" => job'[k] = job[k]
         /\ \/ st'.committed = st.committed /\ st'.recovery = st.recovery
            \/ /\ st'.committed.number > st.committed.number
               /\ st'.committed.value \in Masks =>
                    \E k \in Jobs : Background(k)' /\ job'[k].number = st'.committed.number
<1>1. st \in States /\ v # Absent /\ st.policy # NoIntent
  BY DEF Core, TypeOK, Settings, ReloadConfig, Sighted
<1>2. /\ st.next \in 0..MaxNumber /\ st.pending \in SUBSET (1..MaxNumber)
      /\ st.committed.number \in 0..MaxNumber /\ st.policy \in Intents
      /\ \A k \in Jobs : job[k].number \in 0..MaxNumber
  BY <1>1, StateFacts, WorkerFacts DEF Core, TypeOK
<1>3. /\ st.committed.number <= st.next /\ st.committed.number \notin st.pending
      /\ st.policy.number <= st.next /\ st.policy.number \notin st.pending
  BY DEF Core, NumbersAreUnique
<1>4. /\ saved' = v /\ st' = Synced(st, v) /\ st'.next <= MaxNumber
      /\ UNCHANGED <<device, budget, failed, overlapped>>
      /\ ~Publishes(st, v) => UNCHANGED <<job, order>>
      /\ Publishes(st, v) => Reapply(PolicyOf(st'))
  BY DEF ReloadConfig
<1>5. budget \in 0..Retries /\ (st.recovery = "scheduled" => budget > 0)
  BY DEF Core, TypeOK, NumbersMeanValues
<1>6. st.committed # NoIntent
      /\ (st.policy.number = st.committed.number => st.policy.value = st.committed.value)
      /\ \A k \in Jobs : Background(k) /\ job[k].number = st.committed.number
                            => job[k].value = st.committed.value
  BY <1>1 DEF Core, NumbersMeanValues
<1>7. CASE ~Publishes(st, v)
  <2>1. /\ st' \in States /\ st'.next = st.next /\ st'.pending = st.pending
        /\ st'.committed = st.committed /\ st'.recovery = st.recovery
        /\ \/ st'.policy = st.committed /\ st.committed.value = v
           \/ st'.policy = st.policy /\ st.policy.value = v
    <3>1. CASE st.committed.value = v
      BY <1>1, <1>4, <3>1, SyncedAcknowledges
    <3>2. CASE st.committed.value # v /\ st.policy.value = v
      <4>1. st' = st
        BY <1>4, <3>2, SyncedIgnores
      <4> QED BY <1>1, <3>2, <4>1
    <3> QED BY <1>7, <3>1, <3>2 DEF Publishes
  <2>2. /\ st'.committed.number <= st'.next /\ st'.committed.number \notin st.pending
        /\ st'.policy.number <= st'.next /\ st'.policy.number \notin st.pending
        /\ st'.committed # NoIntent /\ st'.policy # NoIntent /\ st'.policy.value = saved'
        /\ st'.policy.number = st'.committed.number => st'.policy.value = st'.committed.value
    BY <1>1, <1>3, <1>4, <1>6, <2>1
  <2>3. /\ st.policy.number <= st'.next /\ st'.next >= st.next
        /\ st.policy.number = st'.committed.number => st.policy.value = st'.committed.value
        /\ st'.recovery = "scheduled" => budget' > 0
        /\ saved' \in Settings /\ budget' \in 0..Retries
    BY <1>2, <1>3, <1>4, <1>5, <1>6, <2>1
  <2>4. UNCHANGED <<job, order>>
    BY <1>4, <1>7
  <2>5. /\ Core'
        /\ \A k \in Jobs :
             /\ Owned(k)' <=> Owned(k)
             /\ Background(k) => Background(k)'
             /\ Owned(k) \/ Background(k) \/ job'[k].at # "queued" => job'[k] = job[k]
    <3> DEFINE i == st.policy
    <3>1. i \in Intents /\ i.number <= st'.next /\ i.number \notin st.pending
          /\ (i.number = st'.committed.number => i.value = st'.committed.value)
      BY <1>2, <1>3, <2>3
    <3> HIDE DEF i
    <3> QED BY <1>4, <1>6, <2>1, <2>2, <2>3, <2>4, <3>1, OrchestratorKeepsCore
  <2> QED BY <2>1, <2>5
<1>8. CASE Publishes(st, v)
  <2> DEFINE b == [number |-> st.next + 1, value |-> v]
  <2>1. st'.next = st.next + 1 /\ st.next < MaxNumber
    <3>1. Synced(st, v).next = st.next + 1
      BY <1>1, <1>8, SyncedPublishes
    <3> QED BY <1>2, <1>4, <3>1
  <2>2. /\ st' \in States /\ st'.pending = st.pending
        /\ st'.policy = b /\ st'.committed = b /\ st'.recovery = "none"
    BY <1>1, <1>4, <1>8, <2>1, SyncedPublishes
  <2>3. b \in Intents /\ b.number = st.next + 1 /\ b.value = v /\ b # NoIntent
    BY <1>1, <1>2, <2>1 DEF Intents, NoIntent
  <2> HIDE DEF b
  <2>4. st.next + 1 \notin st.pending
    BY <1>2 DEF Core, OwnersPend, NumbersAreUnique
  <2>5. \A k \in Jobs : Background(k) => job[k].number # st.next + 1
    BY <1>2 DEF Core, NumbersAreUnique
  <2>6. PolicyOf(st') = b
    BY <2>2 DEF PolicyOf
  <2>7. Reapply(b)
    BY <1>4, <1>8, <2>6
  <2>8. /\ b.number <= st'.next /\ st'.next >= st.next /\ b.number \notin st.pending
        /\ saved' \in Settings /\ budget' \in 0..Retries /\ b.value = saved'
        /\ \A k \in Jobs : Background(k) /\ job[k].number = b.number => job[k].value = b.value
    BY <1>2, <1>4, <1>5, <2>1, <2>3, <2>4, <2>5
  <2>9. /\ Core'
        /\ \A k \in Jobs :
             /\ Owned(k)' <=> Owned(k)
             /\ Background(k) => Background(k)'
             /\ Owned(k) \/ Background(k) \/ job'[k].at # "queued" => job'[k] = job[k]
        /\ Reapply(b) /\ b.value \in Masks =>
             \E k \in Jobs : Background(k)' /\ job'[k].number = b.number
    BY <1>4, <2>2, <2>3, <2>7, <2>8, OrchestratorKeepsCore
  <2>10. st'.committed.number > st.committed.number
    BY <1>2, <1>3, <2>2, <2>3
  <2> QED BY <2>2, <2>7, <2>9, <2>10
<1> QED BY <1>7, <1>8

\* An inventory pass: an accepted choice it publishes, and the last attempt of a
\* recovery, is attempted at once.
LEMMA PassOutcome ==
  ASSUME Core, NEW volatile \in BOOLEAN, NEW confirm \in BOOLEAN, InventoryPass(volatile, confirm)
  PROVE  /\ Core'
         /\ \A k \in Jobs :
              /\ Owned(k)' <=> Owned(k)
              /\ Background(k) => Background(k)'
              /\ Owned(k) \/ Background(k) \/ job'[k].at # "queued" => job'[k] = job[k]
         /\ st'.committed.number = st.committed.number
         /\ \/ /\ st'.committed = st.committed
               /\ st'.recovery # "none" \/ st.recovery = "none"
            \/ st'.committed.value \in Masks =>
                 \E k \in Jobs : Background(k)' /\ job'[k].number = st'.committed.number
<1> DEFINE y         == Synced(st, saved)
           schedule  == RecoveryDue(y)
           z         == IF schedule THEN [y EXCEPT !.recovery = "scheduled"] ELSE y
           remaining == IF schedule THEN Max({budget, Retries}) ELSE budget
           attempt   == confirm /\ remaining > 0
<1>1. /\ Sighted \/ volatile
      /\ budget' = IF attempt THEN remaining - 1 ELSE remaining
      /\ st' = FinishRecovery(z, budget')
      /\ attempt \/ volatile => Reapply(PolicyOf(z))
      /\ ~(attempt \/ volatile) => UNCHANGED <<job, order>>
      /\ UNCHANGED <<device, saved, failed, overlapped>>
  BY DEF InventoryPass
<1>2. /\ y \in States /\ y.next = st.next /\ y.pending = st.pending
      /\ y.recovery = st.recovery
      /\ y.committed # NoIntent /\ y.policy # NoIntent /\ y.policy.value = saved
      /\ y.committed.number <= st.next /\ y.committed.number \notin st.pending
      /\ y.policy.number <= st.next /\ y.policy.number \notin st.pending
      /\ y.policy.number = y.committed.number => y.policy.value = y.committed.value
      /\ y.committed.number = st.committed.number
      /\ \/ y.committed = st.committed
         \/ /\ st.policy = NoIntent /\ st.committed = NoIntent
            /\ y.committed = y.policy
  BY PassSyncs
<1>3. budget \in 0..Retries /\ Retries \in Nat /\ Retries > 0
      /\ (st.recovery = "scheduled" => budget > 0)
  BY DEF Core, TypeOK, NumbersMeanValues
<1> HIDE DEF y
<1>4. schedule => y.recovery = "requested"
  BY DEF RecoveryDue
<1> HIDE DEF schedule
<1>5. /\ z \in States /\ z.next = y.next /\ z.pending = y.pending
      /\ z.committed = y.committed /\ z.policy = y.policy
      /\ z.recovery = IF schedule THEN "scheduled" ELSE y.recovery
  BY <1>2 DEF States
<1>6. remaining \in 0..Retries /\ (z.recovery = "scheduled" => remaining > 0)
  <2>1. Max({budget, Retries}) = Retries
    <3> DEFINE S == {budget, Retries}
    <3>1. S \in SUBSET (0..Retries) /\ S # {} /\ Retries \in S
      BY <1>3
    <3>2. \A y1 \in S : y1 \in 0..Retries
      BY <3>1
    <3> HIDE DEF S
    <3>3. Max(S) \in S /\ \A y1 \in S : Max(S) >= y1
      BY <1>3, <3>1, MaxIsGreatest
    <3>4. Max(S) \in 0..Retries /\ Max(S) >= Retries
      BY <3>1, <3>2, <3>3
    <3>5. Max(S) = Retries
      BY <1>3, <3>4
    <3> QED BY <3>5 DEF S
  <2> QED BY <1>2, <1>3, <1>5, <2>1
<1> HIDE DEF z, remaining
<1>7. /\ budget' \in 0..Retries
      /\ budget' = 0 /\ z.recovery = "scheduled" => attempt
  BY <1>1, <1>3, <1>6
<1>8. /\ st' \in States /\ st'.next = z.next /\ st'.pending = z.pending
      /\ st'.committed = z.committed /\ st'.policy = z.policy
      /\ st'.recovery = IF budget' = 0 /\ z.recovery = "scheduled" THEN "none" ELSE z.recovery
  BY <1>1, <1>5 DEF FinishRecovery, States
<1> HIDE DEF attempt
<1> DEFINE i == PolicyOf(z)
<1>9. /\ i = IF z.recovery = "scheduled" THEN y.committed ELSE y.policy
      /\ i \in Intents /\ i.number <= st.next /\ i.number \notin st.pending
      /\ i.number = y.committed.number => i.value = y.committed.value
  BY <1>2, <1>5, StateFacts DEF PolicyOf
<1> HIDE DEF i
<1>10. st'.recovery = "scheduled" => budget' > 0
  BY <1>7, <1>8
<1>11. \A k \in Jobs : Background(k) /\ job[k].number = st'.committed.number
                          => job[k].value = st'.committed.value
  BY <1>2, <1>5, <1>8 DEF Core, NumbersMeanValues
<1>12. Reapply(i) \/ UNCHANGED <<job, order>>
  BY <1>1 DEF i
<1>13. st'.next = st.next /\ st.next \in Nat /\ st'.next >= st.next /\ st'.pending = st.pending
       /\ saved' = saved /\ saved' \in Settings
  BY <1>1, <1>2, <1>5, <1>8, StateFacts DEF Core, TypeOK
<1>14. /\ Core'
       /\ \A k \in Jobs :
            /\ Owned(k)' <=> Owned(k)
            /\ Background(k) => Background(k)'
            /\ Owned(k) \/ Background(k) \/ job'[k].at # "queued" => job'[k] = job[k]
       /\ Reapply(i) /\ i.value \in Masks =>
            \E k \in Jobs : Background(k)' /\ job'[k].number = i.number
  BY <1>1, <1>2, <1>5, <1>7, <1>8, <1>9, <1>10, <1>11, <1>12, <1>13, OrchestratorKeepsCore
<1>15. st'.committed.number = st.committed.number
  BY <1>2, <1>5, <1>8
<1>16. CASE y.committed # st.committed
  <2>1. volatile /\ i = y.committed
    BY <1>1, <1>2, <1>9, <1>16 DEF Sighted
  <2>2. Reapply(i)
    BY <1>1, <2>1 DEF i
  <2> QED BY <1>5, <1>8, <1>14, <1>15, <2>1, <2>2
<1>17. CASE y.committed = st.committed
  <2>1. CASE st'.recovery # "none" \/ st.recovery = "none"
    BY <1>5, <1>8, <1>14, <1>15, <1>17, <2>1
  <2>2. CASE st'.recovery = "none" /\ st.recovery # "none"
    <3>1. budget' = 0 /\ z.recovery = "scheduled"
      BY <1>2, <1>5, <1>8, <2>2
    <3>2. attempt /\ i = y.committed
      BY <1>7, <1>9, <3>1
    <3>3. Reapply(i)
      BY <1>1, <3>2 DEF i
    <3> QED BY <1>5, <1>8, <1>14, <1>15, <3>2, <3>3
  <2> QED BY <2>1, <2>2
<1> QED BY <1>16, <1>17

-----------------------------------------------------------------------------
(* InTurn: what holds while no request is made before the last is answered.*)

\* A worker that passes its checkpoint is of a request newer than what was
\* accepted, or attempts the accepted choice.
LEMMA CurrentWorker ==
  ASSUME Core, NEW j \in Jobs, job[j].at # "free", IsCurrent(job[j].number)
  PROVE  /\ Owned(j) => st.committed.number < job[j].number
         /\ ~Owned(j) => /\ Background(j) /\ job[j].number = st.committed.number
                         /\ job[j].value = st.committed.value
         /\ \A n \in st.pending : n <= job[j].number
<1>1. /\ Latest(st) = job[j].number
      /\ Latest(st) \in st.pending \cup {st.committed.number}
      /\ \A n \in st.pending : Latest(st) >= n
      /\ Latest(st) >= st.committed.number
      /\ Latest(st) \in 0..MaxNumber
  BY LatestIsGreatest DEF Core, TypeOK, IsCurrent
<1>2. /\ st.committed.number \in 0..MaxNumber /\ st.pending \in SUBSET (1..MaxNumber)
  BY StateFacts DEF Core, TypeOK
<1>3. Owned(j) => job[j].number \in st.pending /\ st.committed.number \notin st.pending
  BY DEF Core, OwnersPend, NumbersAreUnique
<1>4. ~Owned(j) => Background(j) /\ job[j].number \notin st.pending
  BY DEF Core, NumbersAreUnique, Owned, Background
<1>5. Background(j) /\ job[j].number = st.committed.number => job[j].value = st.committed.value
  BY DEF Core, NumbersMeanValues
<1> QED BY <1>1, <1>2, <1>3, <1>4, <1>5

\* A repair that is due stays due while its worker goes on.
LEMMA RepairPersists ==
  ASSUME RepairDue, st'.committed = st.committed,
         st'.recovery # "none" \/ st.recovery = "none",
         \A k \in Jobs :
           /\ Owned(k) => Owned(k)' /\ job'[k].number = job[k].number
           /\ Background(k) => Background(k)' /\ job'[k].number = job[k].number
  PROVE  RepairDue'
<1>1. CASE st.recovery # "none"
  BY <1>1 DEF RepairDue
<1>2. CASE \E j \in Jobs : Owned(j) /\ st.committed.number < job[j].number
  BY <1>2 DEF RepairDue
<1>3. CASE \E j \in Jobs : Background(j) /\ job[j].number = st.committed.number
  BY <1>3 DEF RepairDue
<1> QED BY <1>1, <1>2, <1>3 DEF RepairDue

LEMMA StartWriteKeepsTurn ==
  ASSUME Core, Core', InTurn, NEW j \in Jobs, StartWrite(j)
  PROVE  InTurn'
<1>1. /\ job[j].at = "queued" /\ IsCurrent(job[j].number)
      /\ job' = [job EXCEPT ![j] = [job[j] EXCEPT !.at = "writing"]]
      /\ st' = st /\ device' = device /\ failed' = failed
  BY DEF StartWrite
<1>2. job \in [Jobs -> Workers] /\ job[j] \in Workers
  BY DEF Core, TypeOK
<1>3. /\ job'[j].at = "writing" /\ job'[j].number = job[j].number
      /\ job'[j].value = job[j].value /\ job'[j].requester = job[j].requester
      /\ \A k \in Jobs : k # j => job'[k] = job[k]
  BY <1>1, <1>2 DEF Workers
<1>4. \A k \in Jobs : (Owned(k)' <=> Owned(k)) /\ (Background(k)' <=> Background(k))
                      /\ job'[k].number = job[k].number
  BY <1>1, <1>3 DEF Owned, Background
<1>5. /\ Owned(j) => st.committed.number < job[j].number
      /\ ~Owned(j) => Background(j) /\ job[j].number = st.committed.number
      /\ \A n \in st.pending : n <= job[j].number
  BY <1>1, CurrentWorker
<1>6. NewestWaits'
  BY <1>3, <1>4 DEF InTurn, NewestWaits
<1>7. AnswerStands'
  <2>1. ASSUME NEW k \in Jobs, job'[k].requester = "waiting", job'[k].at = "succeeded",
               st'.committed.number < job'[k].number
        PROVE  FALSE
    <3>1. k # j /\ job[k].requester = "waiting" /\ st.committed.number < job[k].number
      BY <1>1, <1>3, <2>1
    <3>2. Owned(k) /\ job[k].number \in st.pending
      BY <3>1 DEF Owned, Core, OwnersPend
    <3>3. st.committed.number \in Nat /\ job[k].number \in Nat /\ job[j].number \in Nat
      BY StateFacts, WorkerFacts DEF Core, TypeOK
    <3>4. Owned(j)
      BY <1>5, <3>1, <3>2, <3>3
    <3>5. job[j].number <= job[k].number
      BY <3>1, <3>4 DEF InTurn, NewestWaits
    <3>6. job[j].number = job[k].number
      BY <1>5, <3>2, <3>3, <3>5
    <3> QED BY <3>1, <3>2, <3>4, <3>6 DEF Core, NumbersAreUnique
  <2> QED BY <2>1 DEF AnswerStands
<1>8. RepairDue
  BY <1>5 DEF RepairDue
<1>9. RepairDue'
  BY <1>1, <1>4, <1>8, RepairPersists
<1> QED BY <1>6, <1>7, <1>9 DEF InTurn, ChoiceIsKept

LEMMA ApplyKeepsTurn ==
  ASSUME Core, Core', InTurn, NEW j \in Jobs, Apply(j)
  PROVE  InTurn'
<1>1. /\ job[j].at = "writing" /\ device' = job[j].value
      /\ job' = [job EXCEPT ![j] = [job[j] EXCEPT !.at = "written"]]
      /\ st' = st /\ failed' = failed
  BY DEF Apply
<1>2. job \in [Jobs -> Workers] /\ job[j] \in Workers
  BY DEF Core, TypeOK
<1>3. /\ job'[j].at = "written" /\ job'[j].number = job[j].number
      /\ job'[j].value = job[j].value /\ job'[j].requester = job[j].requester
      /\ \A k \in Jobs : k # j => job'[k] = job[k]
  BY <1>1, <1>2 DEF Workers
<1>4. \A k \in Jobs : (Owned(k)' <=> Owned(k)) /\ (Background(k)' <=> Background(k))
                      /\ job'[k].number = job[k].number
  BY <1>1, <1>3 DEF Owned, Background
<1>5. NewestWaits'
  BY <1>3, <1>4 DEF InTurn, NewestWaits
<1>6. AnswerStands'
  BY <1>1, <1>3 DEF InTurn, AnswerStands
<1>7. RepairDue => RepairDue'
  BY <1>1, <1>4, RepairPersists
<1>8. AcceptedHolds => AcceptedHolds'
  BY <1>1, <1>3 DEF AcceptedHolds
<1> QED BY <1>1, <1>5, <1>6, <1>7, <1>8 DEF InTurn, ChoiceIsKept

LEMMA CancelKeepsTurn ==
  ASSUME Core, Core', InTurn, NEW j \in Jobs, Cancel(j)
  PROVE  InTurn'
<1>1. /\ job[j].requester = "waiting"
      /\ job' = [job EXCEPT ![j] = [job[j] EXCEPT !.requester = "gone"]]
      /\ st' = st /\ device' = device /\ failed' = failed
  BY DEF Cancel
<1>2. job \in [Jobs -> Workers] /\ job[j] \in Workers
  BY DEF Core, TypeOK
<1>3. /\ job'[j].at = job[j].at /\ job'[j].number = job[j].number
      /\ job'[j].value = job[j].value /\ job'[j].requester = "gone"
      /\ \A k \in Jobs : k # j => job'[k] = job[k]
  BY <1>1, <1>2 DEF Workers
<1>4. \A k \in Jobs : (Owned(k)' <=> Owned(k)) /\ (Background(k)' <=> Background(k))
                      /\ job'[k].number = job[k].number
  BY <1>1, <1>3 DEF Owned, Background
<1>5. NewestWaits'
  BY <1>3, <1>4 DEF InTurn, NewestWaits
<1>6. AnswerStands'
  BY <1>1, <1>3 DEF InTurn, AnswerStands
<1>7. RepairDue => RepairDue'
  BY <1>1, <1>4, RepairPersists
<1>8. AcceptedHolds => AcceptedHolds'
  BY <1>1, <1>3 DEF AcceptedHolds
<1> QED BY <1>1, <1>5, <1>6, <1>7, <1>8 DEF InTurn, ChoiceIsKept

\* The ways to return differ in what they say of the keyboard.
LEMMA ReturnsKeepTurn ==
  ASSUME Core, InTurn, NEW j \in Jobs, ReturnOk(j) \/ Refused(j) \/ IoError(j)
  PROVE  Core' /\ InTurn'
<1>1. PICK result \in {"succeeded", "errored"} :
        /\ Return(j, result)
        /\ result = "succeeded" => /\ job[j].at = "written" /\ IsCurrent(job[j].number)
                                   /\ failed' = FALSE
        /\ result # "succeeded" =>
             \/ failed' = failed /\ (job[j].requester = "gone" \/ ~IsCurrent(job[j].number))
             \/ failed' = (failed \/ job[j].requester = "none")
  BY DEF ReturnOk, Refused, IoError, Cancelled
<1>2. /\ st' = st /\ device' = device /\ saved' = saved /\ budget' = budget
      /\ overlapped' = overlapped
  BY DEF ReturnOk, Refused, IoError
<1>3. failed' \in BOOLEAN
  BY DEF ReturnOk, Refused, IoError, Core, TypeOK
<1>4. /\ Core'
      /\ \A k \in Jobs : k # j => job'[k] = job[k]
      /\ \A k \in Jobs :
           /\ Owned(k)' <=> Owned(k)
           /\ Background(k) /\ k # j <=> Background(k)'
           /\ Owned(k) \/ Background(k)' =>
                job'[k].number = job[k].number /\ job'[k].value = job[k].value
      /\ Owned(j) => job'[j].at = result /\ job'[j].requester = job[j].requester
      /\ job'[j].at \notin {"writing", "written"}
  BY <1>1, <1>2, <1>3, ReturnKeepsCore
<1>5. \A k \in Jobs : job'[k].requester = "waiting" => Owned(k) /\ job[k].requester = "waiting"
  BY <1>4 DEF Owned
<1>6. NewestWaits'
  <2>1. ASSUME NEW i \in Jobs, NEW k \in Jobs, job'[k].requester = "waiting", Owned(i)'
        PROVE  job'[i].number <= job'[k].number
    <3>1. Owned(i) /\ Owned(k) /\ job[k].requester = "waiting"
      BY <1>4, <1>5, <2>1
    <3> QED BY <1>4, <3>1 DEF InTurn, NewestWaits
  <2> QED BY <2>1 DEF NewestWaits
<1>7. job[j].at = "written" => \A k \in Jobs : job'[k].at # "writing"
  BY <1>4, OneWriter
<1>8. job[j].at = "written" => device = job[j].value
  BY DEF Core, ReadbackIsOwn
<1>9. AnswerStands'
  <2>1. ASSUME NEW k \in Jobs, job'[k].requester = "waiting", job'[k].at = "succeeded",
               st'.committed.number < job'[k].number
        PROVE  device' = job'[k].value /\ \A i \in Jobs : job'[i].at # "writing"
    <3>1. CASE k = j
      <4>1. job[j].at = "written" /\ job'[j].value = job[j].value
        BY <1>1, <1>4, <1>5, <2>1, <3>1
      <4> QED BY <1>2, <1>7, <1>8, <3>1, <4>1
    <3>2. CASE k # j
      <4>1. device = job[k].value /\ \A i \in Jobs : job[i].at # "writing"
        BY <1>2, <1>4, <2>1, <3>2 DEF InTurn, AnswerStands
      <4> QED BY <1>2, <1>4, <3>2, <4>1
    <3> QED BY <3>1, <3>2
  <2> QED BY <2>1 DEF AnswerStands
<1>10. AcceptedHolds => AcceptedHolds'
  BY <1>2, <1>4 DEF AcceptedHolds
<1>11. CASE result = "succeeded"
  <2>1. /\ Owned(j) => st.committed.number < job[j].number
        /\ ~Owned(j) => job[j].value = st.committed.value
    BY <1>1, <1>11, CurrentWorker
  <2>2. Owned(j) => RepairDue'
    BY <1>2, <1>4, <2>1 DEF RepairDue
  <2>3. ~Owned(j) => AcceptedHolds'
    BY <1>1, <1>2, <1>7, <1>8, <1>11, <2>1 DEF AcceptedHolds
  <2> QED BY <1>4, <1>6, <1>9, <2>2, <2>3 DEF InTurn, ChoiceIsKept
<1>12. CASE result = "errored"
  <2>1. ~Background(j) => (RepairDue => RepairDue')
    BY <1>2, <1>4, RepairPersists
  <2>2. CASE Background(j) /\ ~failed'
    <3>1. ~IsCurrent(job[j].number) /\ failed' = failed
      BY <1>1, <1>12, <2>2 DEF Background
    <3>2. CASE job[j].number # st.committed.number
      <4>1. RepairDue => RepairDue'
        BY <1>2, <1>4, <3>2 DEF RepairDue
      <4> QED BY <1>2, <1>4, <1>6, <1>9, <1>10, <3>1, <4>1 DEF InTurn, ChoiceIsKept
    <3>3. CASE job[j].number = st.committed.number
      <4>1. /\ Latest(st) # st.committed.number
            /\ Latest(st) \in st.pending \cup {st.committed.number}
            /\ Latest(st) >= st.committed.number
            /\ Latest(st) \in 0..MaxNumber /\ st.committed.number \in 0..MaxNumber
        BY <3>1, <3>3, LatestIsGreatest, StateFacts DEF IsCurrent, Core, TypeOK
      <4>2. PICK k \in Jobs : Owned(k) /\ job[k].number = Latest(st)
        BY <4>1 DEF Core, OwnersPend
      <4>3. RepairDue'
        BY <1>2, <1>4, <4>1, <4>2 DEF RepairDue
      <4> QED BY <1>4, <1>6, <1>9, <4>3 DEF InTurn, ChoiceIsKept
    <3> QED BY <3>2, <3>3
  <2>3. CASE ~Background(j) \/ failed'
    <3>1. failed => failed'
      BY <1>1, <1>12
    <3> QED BY <1>2, <1>4, <1>6, <1>9, <1>10, <2>1, <2>3, <3>1 DEF InTurn, ChoiceIsKept
  <2> QED BY <2>2, <2>3
<1> QED BY <1>11, <1>12

\* What is accepted is true of the keyboard; what is dropped is owed a recovery.
LEMMA CompletionsKeepTurn ==
  ASSUME Core, InTurn, NEW j \in Jobs, Accept(j) \/ DropCompletion(j)
  PROVE  InTurn'
<1>1. /\ Answered(j) /\ Owned(j)
      /\ job[j].number \in st.pending /\ job[j].value \in Masks
      /\ st' \in States
      /\ \/ /\ st'.committed = st.committed
            /\ st'.recovery = IF st.committed.number < job[j].number THEN "requested"
                              ELSE st.recovery
         \/ /\ Latest(st) = job[j].number
            /\ job[j].requester = "waiting" /\ job[j].at = "succeeded"
            /\ st'.committed = [number |-> job[j].number, value |-> job[j].value]
            /\ st'.recovery = "none"
      /\ device' = device /\ failed' = failed
  BY CompletionFields
<1>2. /\ \A k \in Jobs : k # j => job'[k] = job[k]
      /\ ~Owned(j)' /\ ~Background(j)' /\ job'[j].at = "free"
  BY CompletionFields, CompletionKeepsCore
<1>3. \A k \in Jobs : k # j => (Owned(k)' <=> Owned(k)) /\ (Background(k)' <=> Background(k))
  BY <1>2 DEF Owned, Background
<1>4. ~Background(j)
  BY <1>1 DEF Owned, Background
<1>5. /\ st.committed.number \in 0..MaxNumber /\ st.committed.number \notin st.pending
      /\ \A k \in Jobs : job[k].number \in 0..MaxNumber
  BY StateFacts, WorkerFacts DEF Core, TypeOK, NumbersAreUnique
<1>6. Latest(st) = job[j].number => st.committed.number < job[j].number
  BY <1>1, <1>5, LatestIsGreatest DEF Core, TypeOK
<1>7. NewestWaits'
  <2>1. ASSUME NEW i \in Jobs, NEW k \in Jobs, job'[k].requester = "waiting", Owned(i)'
        PROVE  job'[i].number <= job'[k].number
    <3>1. Owned(k)'
      BY <2>1 DEF Owned
    <3>2. i # j /\ k # j
      BY <1>2, <2>1, <3>1
    <3> QED BY <1>2, <1>3, <2>1, <3>2 DEF InTurn, NewestWaits
  <2> QED BY <2>1 DEF NewestWaits
<1>8. AnswerStands'
  <2>1. ASSUME NEW k \in Jobs, job'[k].requester = "waiting", job'[k].at = "succeeded",
               st'.committed.number < job'[k].number
        PROVE  device' = job'[k].value /\ \A i \in Jobs : job'[i].at # "writing"
    <3>1. k # j /\ job'[k] = job[k]
      BY <1>2, <2>1
    <3>2. st.committed.number < job[k].number
      BY <1>1, <1>5, <1>6, <2>1, <3>1
    <3>3. device = job[k].value /\ \A i \in Jobs : job[i].at # "writing"
      BY <2>1, <3>1, <3>2 DEF InTurn, AnswerStands
    <3> QED BY <1>1, <1>2, <3>1, <3>3
  <2> QED BY <2>1 DEF AnswerStands
<1>9. CASE /\ st'.committed = st.committed
           /\ st'.recovery = IF st.committed.number < job[j].number THEN "requested"
                             ELSE st.recovery
  <2>1. CASE st.committed.number < job[j].number
    BY <1>7, <1>8, <1>9, <2>1 DEF InTurn, ChoiceIsKept, RepairDue
  <2>2. CASE ~(st.committed.number < job[j].number)
    <3>1. RepairDue => RepairDue'
      BY <1>2, <1>3, <1>4, <1>9, <2>2 DEF RepairDue
    <3>2. AcceptedHolds => AcceptedHolds'
      BY <1>1, <1>2, <1>9 DEF AcceptedHolds
    <3> QED BY <1>1, <1>7, <1>8, <1>9, <3>1, <3>2 DEF InTurn, ChoiceIsKept
  <2> QED BY <2>1, <2>2
<1>10. CASE /\ Latest(st) = job[j].number
            /\ job[j].requester = "waiting" /\ job[j].at = "succeeded"
            /\ st'.committed = [number |-> job[j].number, value |-> job[j].value]
  <2>1. device = job[j].value /\ \A i \in Jobs : job[i].at # "writing"
    BY <1>6, <1>10 DEF InTurn, AnswerStands
  <2>2. AcceptedHolds'
    BY <1>1, <1>2, <1>10, <2>1 DEF AcceptedHolds
  <2> QED BY <1>7, <1>8, <2>2 DEF InTurn, ChoiceIsKept
<1> QED BY <1>1, <1>9, <1>10

\* A request made when nobody waits becomes the newest.
LEMMA SetKeepsTurn ==
  ASSUME Core, InTurn, ~overlapped', NEW v \in Masks, SetDisableKeys(v)
  PROVE  InTurn'
<1>1. st \in States /\ st.next < MaxNumber /\ st.next \in 0..MaxNumber
  BY StateFacts DEF Core, TypeOK, SetDisableKeys
<1>2. st'.committed = st.committed /\ st'.recovery = st.recovery /\ st'.next = st.next + 1
  BY <1>1, BegunFields DEF SetDisableKeys
<1>3. PICK j \in Jobs : Spawn(j, st.next + 1, v, "waiting")
  BY <1>2 DEF SetDisableKeys
<1>4. /\ job[j].at = "free" /\ job[j].requester = "none"
      /\ job'[j] = [at |-> "queued", number |-> st.next + 1, value |-> v, requester |-> "waiting"]
      /\ \A k \in Jobs : k # j => job'[k] = job[k]
  <2>1. st.next + 1 \in 0..MaxNumber
    BY <1>1
  <2> QED BY <1>3, <2>1, SpawnQueues DEF Core
<1>5. \A k \in Jobs : job[k].requester # "waiting"
  BY DEF SetDisableKeys, NoteOverlap
<1>6. ~Owned(j) /\ ~Background(j) /\ job'[j].at = "queued" /\ job'[j].number = st.next + 1
  BY <1>4 DEF Owned, Background
<1>7. \A k \in Jobs : k # j => (Owned(k)' <=> Owned(k)) /\ (Background(k)' <=> Background(k))
  BY <1>4 DEF Owned, Background
<1>8. NewestWaits'
  <2>1. ASSUME NEW i \in Jobs, NEW k \in Jobs, job'[k].requester = "waiting", Owned(i)'
        PROVE  job'[i].number <= job'[k].number
    <3>1. k = j
      BY <1>4, <1>5, <2>1
    <3>2. CASE i = j
      BY <1>1, <1>6, <3>1, <3>2
    <3>3. CASE i # j
      <4>1. job[i].number \in 1..st.next /\ job'[i] = job[i]
        BY <1>4, <1>7, <2>1, <3>3 DEF Core, NumbersAreUnique
      <4> QED BY <1>1, <1>6, <3>1, <4>1
    <3> QED BY <3>2, <3>3
  <2> QED BY <2>1 DEF NewestWaits
<1>9. AnswerStands'
  BY <1>4, <1>5, <1>6 DEF AnswerStands
<1>10. RepairDue => RepairDue'
  BY <1>2, <1>4, <1>6, <1>7, RepairPersists
<1>11. AcceptedHolds => AcceptedHolds'
  BY <1>2, <1>4, <1>6 DEF AcceptedHolds, SetDisableKeys
<1> QED BY <1>2, <1>8, <1>9, <1>10, <1>11 DEF InTurn, ChoiceIsKept, SetDisableKeys

LEMMA RejectedKeepsTurn ==
  ASSUME Core, InTurn, SetRejected
  PROVE  InTurn'
<1>1. st'.committed = st.committed /\ st'.recovery = "requested"
  BY RejectedFields
<1>2. job' = job /\ device' = device
  BY DEF SetRejected
<1>3. \A k \in Jobs : Owned(k)' <=> Owned(k)
  BY <1>2 DEF Owned
<1>4. NewestWaits' /\ AnswerStands'
  BY <1>1, <1>2, <1>3 DEF InTurn, NewestWaits, AnswerStands
<1>5. RepairDue'
  BY <1>1 DEF RepairDue
<1> QED BY <1>4, <1>5 DEF InTurn, ChoiceIsKept

\* The orchestrator writes nothing itself; what it changes is repaired by the
\* attempt it spawns.
LEMMA OrchestratorKeepsTurn ==
  ASSUME Core, InTurn, device' = device, failed' = failed,
         \A k \in Jobs :
           /\ Owned(k)' <=> Owned(k)
           /\ Background(k) => Background(k)'
           /\ Owned(k) \/ Background(k) \/ job'[k].at # "queued" => job'[k] = job[k],
         st'.committed.number >= st.committed.number, st'.committed.number \in Nat,
         \/ /\ st'.committed = st.committed
            /\ st'.recovery # "none" \/ st.recovery = "none"
         \/ st'.committed.value \in Masks =>
              \E k \in Jobs : Background(k)' /\ job'[k].number = st'.committed.number
  PROVE  InTurn'
<1>1. st.committed.number \in Nat /\ \A k \in Jobs : job[k].number \in Nat
  BY StateFacts, WorkerFacts DEF Core, TypeOK
<1>2. NewestWaits'
  <2>1. ASSUME NEW i \in Jobs, NEW k \in Jobs, job'[k].requester = "waiting", Owned(i)'
        PROVE  job'[i].number <= job'[k].number
    <3>1. Owned(k)'
      BY <2>1 DEF Owned
    <3>2. Owned(i) /\ job'[i] = job[i] /\ job'[k] = job[k]
      BY <2>1, <3>1
    <3> QED BY <2>1, <3>2 DEF InTurn, NewestWaits
  <2> QED BY <2>1 DEF NewestWaits
<1>3. AnswerStands'
  <2>1. ASSUME NEW k \in Jobs, job'[k].requester = "waiting", job'[k].at = "succeeded",
               st'.committed.number < job'[k].number
        PROVE  device' = job'[k].value /\ \A i \in Jobs : job'[i].at # "writing"
    <3>1. job'[k] = job[k]
      BY <2>1
    <3>2. st.committed.number < job[k].number
      BY <1>1, <2>1, <3>1
    <3>3. device = job[k].value /\ \A i \in Jobs : job[i].at # "writing"
      BY <2>1, <3>1, <3>2 DEF InTurn, AnswerStands
    <3>4. \A i \in Jobs : job'[i].at = "writing" => job'[i] = job[i]
      OBVIOUS
    <3> QED BY <3>1, <3>3, <3>4
  <2> QED BY <2>1 DEF AnswerStands
<1>4. CASE /\ st'.committed = st.committed
           /\ st'.recovery # "none" \/ st.recovery = "none"
  <2>1. RepairDue => RepairDue'
    BY <1>4, RepairPersists
  <2>2. \A i \in Jobs : job'[i].at = "writing" => job'[i] = job[i]
    OBVIOUS
  <2>3. AcceptedHolds => AcceptedHolds'
    BY <1>4, <2>2 DEF AcceptedHolds
  <2> QED BY <1>2, <1>3, <1>4, <2>1, <2>3 DEF InTurn, ChoiceIsKept
<1>5. CASE st'.committed.value \in Masks =>
             \E k \in Jobs : Background(k)' /\ job'[k].number = st'.committed.number
  BY <1>2, <1>3, <1>5 DEF InTurn, ChoiceIsKept, RepairDue
<1> QED BY <1>4, <1>5

-----------------------------------------------------------------------------
(* The inductive invariant.                                                *)

LEMMA InitEstablishes == Init => IInv
<1> SUFFICES ASSUME Init PROVE IInv
  OBVIOUS
<1>1. /\ st.next = 0 /\ st.committed = NoIntent /\ st.policy = NoIntent
      /\ st.pending = {} /\ st.recovery = "none"
      /\ NoIntent.number = 0 /\ NoIntent.value = Absent /\ NoIntent \in Intents
      /\ order = <<>> /\ budget = 0
  BY DEF Init, NoIntent, Intents
<1>2. FreeJob \in Workers /\ FreeJob.at = "free" /\ FreeJob.requester = "none"
  BY DEF FreeJob, Workers
<1>3. \A j \in Jobs : job[j] = FreeJob
  BY DEF Init
<1>4. \A j \in Jobs : ~Owned(j) /\ ~Background(j) /\ job[j].at = "free"
  BY <1>2, <1>3 DEF Owned, Background
<1>5. TypeOK
  <2>1. st \in States
    BY <1>1 DEF Init, States
  <2>2. job \in [Jobs -> Workers]
    BY <1>2 DEF Init
  <2>3. failed \in BOOLEAN /\ overlapped \in BOOLEAN
    BY DEF Init
  <2> QED BY <2>1, <2>2, <2>3 DEF Init, TypeOK
<1>6. QueueHoldsWorkers
  BY <1>1, <1>4 DEF QueueHoldsWorkers, InOrder
<1>7. ReadbackIsOwn /\ OwnersPend
  BY <1>1, <1>4 DEF ReadbackIsOwn, OwnersPend
<1>8. NumbersAreUnique
  BY <1>1, <1>4 DEF NumbersAreUnique
<1>9. NumbersMeanValues
  BY <1>1, <1>4 DEF NumbersMeanValues
<1>10. NewestWaits /\ AnswerStands
  BY <1>4 DEF NewestWaits, AnswerStands
<1>11. ChoiceIsKept
  BY <1>1 DEF ChoiceIsKept
<1> QED BY <1>5, <1>6, <1>7, <1>8, <1>9, <1>10, <1>11 DEF IInv, Core, InTurn

LEMMA StutterKeeps ==
  ASSUME IInv, UNCHANGED vars
  PROVE  IInv'
<1>1. \A j \in Jobs : (Owned(j)' <=> Owned(j)) /\ (Background(j)' <=> Background(j))
                      /\ (InOrder(j)' <=> InOrder(j))
  BY DEF vars, Owned, Background, InOrder
<1>2. TypeOK' <=> TypeOK
  BY DEF vars, TypeOK
<1>3. (QueueHoldsWorkers' <=> QueueHoldsWorkers) /\ (ReadbackIsOwn' <=> ReadbackIsOwn)
      /\ (OwnersPend' <=> OwnersPend)
  BY <1>1 DEF vars, QueueHoldsWorkers, ReadbackIsOwn, OwnersPend
<1>4. (NumbersAreUnique' <=> NumbersAreUnique) /\ (NumbersMeanValues' <=> NumbersMeanValues)
  BY <1>1 DEF vars, NumbersAreUnique, NumbersMeanValues
<1>5. InTurn' <=> InTurn
  BY <1>1 DEF vars, InTurn, NewestWaits, AnswerStands, ChoiceIsKept, RepairDue, AcceptedHolds
<1> QED BY <1>2, <1>3, <1>4, <1>5 DEF vars, IInv, Core

LEMMA NextKeeps == IInv /\ [Next]_vars => IInv'
<1> SUFFICES ASSUME IInv, [Next]_vars PROVE IInv'
  OBVIOUS
<1> USE DEF IInv
<1>1. ASSUME NEW v \in Masks, SetDisableKeys(v) PROVE IInv'
  <2>1. ~overlapped' => ~overlapped
    BY <1>1 DEF SetDisableKeys, NoteOverlap
  <2> QED BY <1>1, <2>1, SetKeepsCore, SetKeepsTurn
<1>2. CASE SetRejected
  <2>1. ~overlapped' => ~overlapped
    BY <1>2 DEF SetRejected, NoteOverlap
  <2> QED BY <1>2, <2>1, RejectedKeepsCore, RejectedKeepsTurn
<1>3. ASSUME NEW j \in Jobs, StartWrite(j) PROVE IInv'
  BY <1>3, StartWriteKeepsCore, StartWriteKeepsTurn DEF StartWrite
<1>4. ASSUME NEW j \in Jobs, Apply(j) PROVE IInv'
  BY <1>4, ApplyKeepsCore, ApplyKeepsTurn DEF Apply
<1>5. ASSUME NEW j \in Jobs, Cancel(j) PROVE IInv'
  BY <1>5, CancelKeepsCore, CancelKeepsTurn DEF Cancel
<1>6. ASSUME NEW j \in Jobs, ReturnOk(j) \/ Refused(j) \/ IoError(j) PROVE IInv'
  <2>1. overlapped' = overlapped
    BY <1>6 DEF ReturnOk, Refused, IoError
  <2>2. Core'
    <3>1. /\ st' = st /\ device' = device /\ saved' = saved /\ budget' = budget
      BY <1>6 DEF ReturnOk, Refused, IoError
    <3>2. failed' \in BOOLEAN
      BY <1>6 DEF ReturnOk, Refused, IoError, Core, TypeOK
    <3>3. Return(j, "succeeded") \/ Return(j, "errored")
      BY <1>6 DEF ReturnOk, Refused, IoError
    <3> QED BY <2>1, <3>1, <3>2, <3>3, ReturnKeepsCore
  <2> QED BY <1>6, <2>1, <2>2, ReturnsKeepTurn
<1>7. ASSUME NEW j \in Jobs, Accept(j) \/ DropCompletion(j) PROVE IInv'
  <2>1. overlapped' = overlapped
    BY <1>7 DEF Accept, DropCompletion
  <2> QED BY <1>7, <2>1, CompletionsKeepCore, CompletionsKeepTurn
<1>8. ASSUME NEW v \in Settings, ReloadConfig(v) PROVE IInv'
  <2>1. device' = device /\ failed' = failed /\ overlapped' = overlapped
    BY <1>8 DEF ReloadConfig
  <2>2. Core'
    BY <1>8, ReloadOutcome
  <2>3. /\ st.committed.number \in 0..MaxNumber /\ st'.committed.number \in 0..MaxNumber
    BY <2>2, StateFacts DEF Core, TypeOK
  <2>4. ~overlapped => InTurn'
    <3>1. /\ \A k \in Jobs :
                /\ Owned(k)' <=> Owned(k)
                /\ Background(k) => Background(k)'
                /\ Owned(k) \/ Background(k) \/ job'[k].at # "queued" => job'[k] = job[k]
          /\ \/ st'.committed = st.committed /\ st'.recovery = st.recovery
             \/ /\ st'.committed.number > st.committed.number
                /\ st'.committed.value \in Masks =>
                     \E k \in Jobs : Background(k)' /\ job'[k].number = st'.committed.number
      BY <1>8, ReloadOutcome
    <3>2. st'.committed.number >= st.committed.number /\ st'.committed.number \in Nat
      BY <2>3, <3>1
    <3> QED BY <2>1, <3>1, <3>2, OrchestratorKeepsTurn
  <2> QED BY <2>1, <2>2, <2>4
<1>9. ASSUME NEW volatile \in BOOLEAN, NEW confirm \in BOOLEAN, InventoryPass(volatile, confirm)
      PROVE  IInv'
  <2>1. device' = device /\ failed' = failed /\ overlapped' = overlapped
    BY <1>9 DEF InventoryPass
  <2>2. Core'
    BY <1>9, PassOutcome
  <2>3. st.committed.number \in 0..MaxNumber
    BY StateFacts DEF Core, TypeOK
  <2>4. ~overlapped => InTurn'
    <3>1. /\ \A k \in Jobs :
                /\ Owned(k)' <=> Owned(k)
                /\ Background(k) => Background(k)'
                /\ Owned(k) \/ Background(k) \/ job'[k].at # "queued" => job'[k] = job[k]
          /\ st'.committed.number = st.committed.number
          /\ \/ /\ st'.committed = st.committed
                /\ st'.recovery # "none" \/ st.recovery = "none"
             \/ st'.committed.value \in Masks =>
                  \E k \in Jobs : Background(k)' /\ job'[k].number = st'.committed.number
      BY <1>9, PassOutcome
    <3>2. st'.committed.number >= st.committed.number /\ st'.committed.number \in Nat
      BY <2>3, <3>1
    <3> QED BY <2>1, <3>1, <3>2, OrchestratorKeepsTurn
  <2> QED BY <2>1, <2>2, <2>4
<1>10. CASE UNCHANGED vars
  BY <1>10, StutterKeeps
<1> QED BY <1>1, <1>2, <1>3, <1>4, <1>5, <1>6, <1>7, <1>8, <1>9, <1>10 DEF Next

LEMMA IInvHolds == Spec => []IInv
BY InitEstablishes, NextKeeps, PTL DEF Spec

\* A worker passes its last checkpoint in StartWrite and nowhere else.
LEMMA OnlyStartWriteStarts ==
  ASSUME Core, Next, NEW j \in Jobs, job[j].at = "queued", job'[j].at = "writing"
  PROVE  StartWrite(j)
<1>1. job \in [Jobs -> Workers] /\ \A k \in Jobs : job[k] \in Workers
  BY DEF Core, TypeOK
<1>2. ASSUME NEW k \in Jobs, NEW r \in Workers, job' = [job EXCEPT ![k] = r]
      PROVE  k = j /\ r.at = "writing"
  BY <1>1, <1>2
<1>3. ASSUME NEW k \in Jobs, NEW n, NEW v, NEW who, Spawn(k, n, v, who) PROVE FALSE
  BY <1>1, <1>3 DEF Spawn
<1>4. FreeJob \in Workers /\ FreeJob.at = "free"
  BY DEF FreeJob, Workers
<1>5. ~\E v \in Masks : SetDisableKeys(v)
  BY <1>3 DEF SetDisableKeys
<1>6. ~SetRejected
  BY DEF SetRejected
<1>7. ASSUME NEW k \in Jobs, Accept(k) \/ DropCompletion(k) PROVE FALSE
  BY <1>2, <1>4, <1>7 DEF Accept, DropCompletion
<1>8. ASSUME NEW k \in Jobs, Cancel(k) PROVE FALSE
  <2>1. job' = [job EXCEPT ![k] = [job[k] EXCEPT !.requester = "gone"]]
    BY <1>8 DEF Cancel
  <2>2. [job[k] EXCEPT !.requester = "gone"] \in Workers
        /\ [job[k] EXCEPT !.requester = "gone"].at = job[k].at
    BY <1>1 DEF Workers
  <2> QED BY <1>2, <2>1, <2>2
<1>9. ASSUME NEW k \in Jobs, Apply(k) PROVE FALSE
  BY <1>1, <1>9 DEF Apply, Workers
<1>10. ASSUME NEW k \in Jobs, ReturnOk(k) \/ Refused(k) \/ IoError(k) PROVE FALSE
  <2>1. Return(k, "succeeded") \/ Return(k, "errored")
    BY <1>10 DEF ReturnOk, Refused, IoError
  <2>2. /\ job[k].requester = "none" => job'[k] = FreeJob
        /\ job[k].requester # "none" => job'[k].at \in {"succeeded", "errored"}
        /\ k # j => job'[j] = job[j]
    BY <2>1, ReturnLeavesQueue DEF Core
  <2> QED BY <1>4, <2>2
<1>11. ASSUME NEW i, Reapply(i) PROVE FALSE
  BY <1>3, <1>11 DEF Reapply
<1>12. ~\E v \in Settings : ReloadConfig(v)
  BY <1>11 DEF ReloadConfig
<1>13. ~\E volatile, confirm \in BOOLEAN : InventoryPass(volatile, confirm)
  BY <1>11 DEF InventoryPass
<1>14. PICK k \in Jobs : StartWrite(k)
  BY <1>5, <1>6, <1>7, <1>8, <1>9, <1>10, <1>12, <1>13 DEF Next
<1> QED BY <1>1, <1>14 DEF StartWrite, Workers

-----------------------------------------------------------------------------
(* The results.                                                            *)

\* Every variable keeps its type: no number passes the bound and no worker is
\* given a setting that leaves the keys alone.
THEOREM TypeCorrect == Spec => []TypeOK
<1>1. IInv => TypeOK
  BY DEF IInv, Core
<1> QED BY <1>1, IInvHolds, PTL

\* For any number of workers and of retries: what a worker reads back after its
\* write is what it wrote.
THEOREM ReadbacksAreOwn == Spec => []ReadbackIsOwn
<1>1. IInv => ReadbackIsOwn
  BY DEF IInv, Core
<1> QED BY <1>1, IInvHolds, PTL

\* For any number of requests: the pending intents are exactly those of the
\* requests whose completion has not been consumed.
THEOREM PendingOwned == Spec => []PendingHasOwner
<1>1. IInv => PendingHasOwner
  <2> SUFFICES ASSUME IInv PROVE PendingHasOwner
    OBVIOUS
  <2>1. OwnersPend
    BY DEF IInv, Core
  <2> QED BY <2>1 DEF OwnersPend, PendingHasOwner, Owned
<1> QED BY <1>1, IInvHolds, PTL

\* An attempt that starts to write in the background writes the accepted choice
\* under its number, whatever was accepted or published since it was spawned.
THEOREM NoStaleWrites == Spec => NoStaleWrite
<1> DEFINE A == \A j \in Jobs : job[j].at = "queued" /\ job'[j].at = "writing"
                  => \/ job[j].requester # "none"
                     \/ job[j].number = st.committed.number /\ job[j].value = st.committed.value
<1>1. ASSUME IInv, Next, NEW j \in Jobs, job[j].at = "queued", job'[j].at = "writing",
             job[j].requester = "none"
      PROVE  job[j].number = st.committed.number /\ job[j].value = st.committed.value
  <2>1. IsCurrent(job[j].number)
    BY <1>1, OnlyStartWriteStarts DEF IInv, StartWrite
  <2> QED BY <1>1, <2>1, CurrentWorker DEF IInv, Owned
<1>2. IInv /\ [Next]_vars => [A]_vars
  BY <1>1
<1> QED BY <1>2, IInvHolds, PTL DEF Spec, NoStaleWrite

\* While each request waits for the answer to the one before, the keyboard has
\* the accepted choice whenever nothing is under way or owed.
THEOREM AcceptedKept == Spec => []AcceptedStaysInTurn
<1>1. IInv => AcceptedStaysInTurn
  <2> SUFFICES ASSUME IInv, ~overlapped, Idle, st.committed.value \in Masks, ~failed
               PROVE  device = st.committed.value
    BY DEF AcceptedStaysInTurn, AcceptedStays
  <2>1. Core /\ ChoiceIsKept
    BY DEF IInv, InTurn
  <2>2. order = <<>> /\ st.pending = {} /\ st.recovery = "none"
    BY DEF Idle
  <2>3. \A j \in Jobs : ~Owned(j)
    BY <2>1, <2>2 DEF Core, OwnersPend
  <2>4. \A j \in Jobs : job[j].at \notin {"queued", "writing", "written", "succeeded", "errored"}
    BY <2>1, <2>2, <2>3 DEF Core, QueueHoldsWorkers, InOrder
  <2>5. \A j \in Jobs : ~Background(j)
    BY <2>1, <2>4, WorkerFacts DEF Background, Core, TypeOK
  <2> QED BY <2>1, <2>2, <2>3, <2>5 DEF ChoiceIsKept, RepairDue, AcceptedHolds
<1> QED BY <1>1, IInvHolds, PTL

=============================================================================
