------------------------- MODULE HidppChannelProofs -------------------------
(***************************************************************************)
(* Proofs about HidppChannel, for every set of requests, keys and bodies   *)
(* and every grace.  The first part proves the queue invariant IInv; the   *)
(* second adds the accounting of the replies that may still come, which    *)
(* IInv does not need.                                                     *)
(***************************************************************************)
EXTENDS HidppChannel, FiniteSetTheorems, TLAPS

\* The sum try_register takes over an empty set of stale keys.
LEMMA SumOverNone ==
  ASSUME NEW f
  PROVE  SumFunctionOnSet(f, {}) = 0
<1> DEFINE body(g) == [s \in SUBSET {} |->
                         IF s = {} THEN 0
                         ELSE f[CHOOSE x \in s : TRUE] + g[s \ {CHOOSE x \in s : TRUE}]]
           sum == CHOOSE g : g = body(g)
<1>1. \E g : g = body(g)
  <2> DEFINE w == [s \in SUBSET {} |-> 0]
  <2>1. w = body(w)
    OBVIOUS
  <2> QED BY <2>1
<1>2. sum = body(sum)
  <2> HIDE DEF body
  <2> QED BY <1>1
<1>3. sum[{}] = 0
  <2> HIDE DEF sum
  <2> QED BY <1>2
<1> QED BY <1>3 DEF SumFunctionOnSet, FoldFunctionOnSet, MapThenFoldSet

\* The sum try_register takes over a single stale key.
LEMMA SumOverOne ==
  ASSUME NEW f, NEW a, f[a] \in Nat
  PROVE  SumFunctionOnSet(f, {a}) = f[a]
<1> DEFINE body(g) == [s \in SUBSET {a} |->
                         IF s = {} THEN 0
                         ELSE f[CHOOSE x \in s : TRUE] + g[s \ {CHOOSE x \in s : TRUE}]]
           sum == CHOOSE g : g = body(g)
<1>0. /\ (CHOOSE x \in {a} : TRUE) = a
      /\ \A s \in SUBSET {a} : s = {} \/ s = {a}
  OBVIOUS
<1>1. \E g : g = body(g)
  <2> DEFINE w == [s \in SUBSET {a} |-> IF s = {} THEN 0 ELSE f[a]]
  <2>1. \A s \in SUBSET {a} : s # {} => w[s] = f[CHOOSE x \in s : TRUE] + w[s \ {CHOOSE x \in s : TRUE}]
    <3> SUFFICES ASSUME NEW s \in SUBSET {a}, s # {}
                 PROVE  w[s] = f[CHOOSE x \in s : TRUE] + w[s \ {CHOOSE x \in s : TRUE}]
      OBVIOUS
    <3>1. s = {a} BY <1>0
    <3>2. (CHOOSE x \in s : TRUE) = a BY <3>1, <1>0
    <3>3. s \ {a} = {} BY <3>1
    <3>4. w[{}] = 0 OBVIOUS
    <3>5. w[s] = f[a] OBVIOUS
    <3> QED BY <3>2, <3>3, <3>4, <3>5
  <2>2. w = body(w)
    BY <2>1
  <2> QED BY <2>2
<1>2. sum = body(sum)
  <2> HIDE DEF body
  <2> QED BY <1>1
<1>3. sum[{a}] = f[a]
  <2> HIDE DEF sum
  <2>1. sum[{}] = 0 BY <1>2
  <2>2. sum[{a}] = f[CHOOSE x \in {a} : TRUE] + sum[{a} \ {CHOOSE x \in {a} : TRUE}] BY <1>2
  <2>3. {a} \ {a} = {} OBVIOUS
  <2> QED BY <2>1, <2>2, <2>3, <1>0
<1> QED BY <1>3 DEF SumFunctionOnSet, FoldFunctionOnSet, MapThenFoldSet

-----------------------------------------------------------------------------
USE RequestsAssumption, GraceAssumption

\* A sum of counters of a set with at most one member is a counter.
LEMMA SumIsNat ==
  ASSUME NEW f \in [Requests -> Nat], NEW S \in SUBSET Requests,
         \A a, b \in S : a = b
  PROVE  SumFunctionOnSet(f, S) \in Nat
<1>1. CASE S = {} BY <1>1, SumOverNone
<1>2. CASE S # {}
  <2> PICK a \in S : S = {a} BY <1>2
  <2> QED BY SumOverOne
<1> QED BY <1>1, <1>2

\* The inductive invariant of the queue and the futures.
IInv ==
  /\ TypeOK
  /\ OneHolderPerKey
  /\ QueueAgreesWithFutures

\* An open channel has nothing registered.
LEMMA InitIInv == Init => IInv
BY DEF Init, IInv, TypeOK, Phases, OneHolderPerKey, QueueAgreesWithFutures

\* Every step of a request, the link, the read loop and the clock keeps it.
LEMMA NextIInv == IInv /\ [Next]_vars => IInv'
<1> SUFFICES ASSUME IInv, [Next]_vars PROVE IInv'
  OBVIOUS
<1> USE DEF IInv, Goto
<1>1. ASSUME NEW r \in Requests, Send(r) \/ Recheck(r) PROVE IInv'
  BY <1>1 DEF Send, Recheck, ReadClock, queueVars, linkVars, Woken, Parked,
     TypeOK, Phases, OneHolderPerKey, QueueAgreesWithFutures
<1>2. ASSUME NEW r \in Requests, ParkInFlight(r) PROVE IInv'
  BY <1>2 DEF ParkInFlight, Prune, Live, DropClock, linkVars,
     TypeOK, Phases, OneHolderPerKey, QueueAgreesWithFutures
<1>3. ASSUME NEW r \in Requests, ParkStale(r) PROVE IInv'
  <2>1. PICK s \in Blocking(r) : until' = [until EXCEPT ![r] = expires[s] + (now - clock[r])]
    BY <1>3 DEF ParkStale
  <2>2. expires[s] + (now - clock[r]) \in Nat
    BY <2>1 DEF Blocking, HoldingKey, Live, TypeOK
  <2>3. TypeOK'
    BY <1>3, <2>1, <2>2 DEF ParkStale, Prune, Live, DropClock, linkVars, TypeOK, Phases
  <2>4. OneHolderPerKey' /\ QueueAgreesWithFutures'
    BY <1>3 DEF ParkStale, Live, linkVars, TypeOK, OneHolderPerKey, QueueAgreesWithFutures
  <2> QED BY <2>3, <2>4
<1>4. ASSUME NEW r \in Requests, Register(r) PROVE IInv'
  <2>1. AdoptedReplies(r) \in Nat
    BY SumIsNat DEF AdoptedReplies, HoldingKey, Live, TypeOK, OneHolderPerKey
  <2>2. TypeOK'
    BY <1>4, <2>1 DEF Register, Prune, Live, HoldingKey, DropClock, TypeOK, Phases
  <2>3. OneHolderPerKey'
    BY <1>4 DEF Register, KeyInFlight, Live, HoldingKey, TypeOK, OneHolderPerKey,
        QueueAgreesWithFutures
  <2>4. QueueAgreesWithFutures'
    BY <1>4 DEF Register, Live, HoldingKey, TypeOK, Phases, QueueAgreesWithFutures
  <2> QED BY <2>2, <2>3, <2>4
<1>5. ASSUME NEW r \in Requests, WriteReturns(r) \/ Respond(r) PROVE IInv'
  BY <1>5 DEF WriteReturns, Respond, queueVars, linkVars,
     TypeOK, Phases, OneHolderPerKey, QueueAgreesWithFutures
<1>6. ASSUME NEW r \in Requests, WriteFails(r) \/ GiveUp(r) PROVE IInv'
  <2>1. TypeOK'
    BY <1>6 DEF WriteFails, GiveUp, Parked, Abandon, OweReplies, linkVars, TypeOK, Phases
  <2>2. OneHolderPerKey'
    BY <1>6 DEF WriteFails, GiveUp, Abandon, OneHolderPerKey
  <2>3. QueueAgreesWithFutures'
    BY <1>6 DEF WriteFails, GiveUp, Parked, Abandon, OweReplies, linkVars, TypeOK, Phases,
        QueueAgreesWithFutures, OneHolderPerKey
  <2> QED BY <2>1, <2>2, <2>3
<1>7. ASSUME NEW r \in Requests, DeviceAnswers(r) \/ Lose(r) PROVE IInv'
  BY <1>7 DEF DeviceAnswers, Lose, queueVars, TypeOK, OneHolderPerKey, QueueAgreesWithFutures
<1>8. ASSUME NEW r \in Requests, ReadReport(r) PROVE IInv'
  <2>1. CASE AnswerPending(r)
    BY <1>8, <2>1 DEF ReadReport, AnswerPending, OweReplies, TypeOK, OneHolderPerKey,
        QueueAgreesWithFutures
  <2>2. CASE DiscardStaleReply(r)
    BY <1>8, <2>2 DEF ReadReport, DiscardStaleReply, TypeOK, OneHolderPerKey, QueueAgreesWithFutures
  <2>3. CASE Unclaimed(r)
    BY <1>8, <2>3 DEF ReadReport, Unclaimed, TypeOK, OneHolderPerKey, QueueAgreesWithFutures
  <2> QED BY <1>8, <2>1, <2>2, <2>3 DEF ReadReport
<1>9. ASSUME Tick PROVE IInv'
  BY <1>9 DEF Tick, queueVars, linkVars, TypeOK, OneHolderPerKey, QueueAgreesWithFutures
<1>10. ASSUME UNCHANGED vars PROVE IInv'
  BY <1>10 DEF vars, queueVars, linkVars, TypeOK, OneHolderPerKey, QueueAgreesWithFutures
<1> QED
  BY <1>1, <1>2, <1>3, <1>4, <1>5, <1>6, <1>7, <1>8, <1>9, <1>10
     DEF Next, RequestStep, LinkStep, Finished

\* The type invariant holds for every set of requests and every grace.
THEOREM TypeCorrect == Spec => []TypeOK
<1>1. IInv => TypeOK BY DEF IInv
<1> QED BY InitIInv, NextIInv, <1>1, PTL DEF Spec

\* A header has one holder at any time, for every set of requests and any grace.
THEOREM KeysExclusive == Spec => []OneHolderPerKey
<1>1. IInv => OneHolderPerKey BY DEF IInv
<1> QED BY InitIInv, NextIInv, <1>1, PTL DEF Spec

-----------------------------------------------------------------------------
(* Reply accounting.                                                       *)

\* Finitely many requests have finitely many replies to come, before a step ...
LEMMA ComingFinite ==
  ASSUME TypeOK, NEW k
  PROVE  /\ IsFiniteSet(Coming(k))
         /\ Cardinality(Coming(k)) \in Nat
         /\ Coming(k) = {} <=> Cardinality(Coming(k)) = 0
<1>1. Coming(k) \subseteq Requests BY DEF TypeOK, Coming
<1>2. IsFiniteSet(Coming(k)) BY <1>1, FS_Subset
<1> QED BY <1>2, FS_CardinalityType, FS_EmptySet

\* ... and after it.
LEMMA ComingFiniteAfter ==
  ASSUME TypeOK', NEW k
  PROVE  /\ Cardinality(Coming(k)') \in Nat
         /\ Coming(k)' = {} <=> Cardinality(Coming(k)') = 0
<1>1. Coming(k)' \subseteq Requests BY DEF TypeOK, Coming
<1>2. IsFiniteSet(Coming(k)') BY <1>1, FS_Subset
<1> QED BY <1>2, FS_CardinalityType, FS_EmptySet

\* A holder goes on covering its key while no reply joins and none of its
\* places is lost, be it pending or, after being abandoned, stale.
LEMMA CoverKept ==
  ASSUME TypeOK, TypeOK', NEW k, NEW r \in Requests, CoveredBy(k, r),
         Coming(k)' \subseteq Coming(k),
         Credit(r)' = Credit(r),
         r \in messages' => r \in messages
  PROVE  CoveredBy(k, r)'
<1>1. Cardinality(Coming(k)') <= Cardinality(Coming(k)) /\ Cardinality(Coming(k)') \in Nat
  BY ComingFinite, FS_Subset, FS_CardinalityType
<1>2. Credit(r) \in Nat BY DEF Credit, TypeOK
<1> QED BY <1>1, <1>2, ComingFinite DEF CoveredBy

\* One reply arriving takes one place.
LEMMA ComingAfterReply ==
  ASSUME TypeOK, NEW o \in wire, wire' = wire \ {o}, UNCHANGED native, o \notin native
  PROVE  /\ \A k : Coming(k)' \subseteq Coming(k)
         /\ Cardinality(Coming(KeyOf[o])') = Cardinality(Coming(KeyOf[o])) - 1
<1>1. \A k : Coming(k)' = Coming(k) \ {o} BY DEF Coming
<1>2. o \in Coming(KeyOf[o]) BY DEF Coming
<1> QED BY <1>1, <1>2, ComingFinite, FS_RemoveElement

\* What holds of replies: they are accounted for, and none went astray.
Accounting == RepliesAreOwed /\ NoMisattributedReply

\* No reply is on its way on an open channel.
LEMMA InitAccounting == Init => Accounting
BY DEF Init, Accounting, RepliesAreOwed, NoMisattributedReply, Coming

\* A step that leaves every holder and its places alone, adds no reply and hands
\* none over preserves the accounting.
LEMMA AccountingKept ==
  ASSUME IInv, TypeOK', Accounting,
         \A k : Coming(k)' \subseteq Coming(k),
         lapsed \subseteq lapsed',
         \A r \in messages \cup stale :
           KeyOf[r] \notin lapsed' =>
             /\ r \in messages' \cup stale'
             /\ Credit(r)' = Credit(r)
             /\ r \in messages' => r \in messages,
         UNCHANGED delivered
  PROVE  Accounting'
<1>1. RepliesAreOwed'
  <2> SUFFICES ASSUME NEW k \in Keys \ lapsed', Coming(k)' # {}
               PROVE  \E r \in messages' \cup stale' : CoveredBy(k, r)'
    BY DEF RepliesAreOwed
  <2>1. k \in Keys \ lapsed /\ Coming(k) # {}
    OBVIOUS
  <2>2. PICK r \in messages \cup stale : CoveredBy(k, r)
    BY <2>1 DEF Accounting, RepliesAreOwed
  <2>3. r \in Requests /\ KeyOf[r] = k BY <2>2 DEF CoveredBy, IInv, TypeOK
  <2>4. CoveredBy(k, r)' BY <2>2, <2>3, CoverKept DEF IInv
  <2> QED BY <2>3, <2>4
<1>2. NoMisattributedReply' BY DEF Accounting, NoMisattributedReply
<1> QED BY <1>1, <1>2 DEF Accounting

\* Every step keeps the accounting; the steps that register, abandon and answer
\* are the ones that move it from one holder to the next.
LEMMA NextAccounting == IInv /\ Accounting /\ [Next]_vars => Accounting'
<1> SUFFICES ASSUME IInv, Accounting, [Next]_vars PROVE Accounting'
  OBVIOUS
<1>0. TypeOK /\ IInv'
  BY NextIInv DEF IInv
<1> USE DEF Goto
<1>1. ASSUME NEW r \in Requests,
             \/ Send(r) \/ Recheck(r) \/ WriteReturns(r) \/ Respond(r)
      PROVE  Accounting'
  <2>1. UNCHANGED <<queueVars, linkVars, delivered, lapsed>>
    BY <1>1 DEF Send, Recheck, ReadClock, WriteReturns, Respond
  <2> QED BY <1>0, <2>1, AccountingKept DEF queueVars, linkVars, Coming, Credit, IInv
<1>2. ASSUME NEW r \in Requests, ParkInFlight(r) \/ ParkStale(r) PROVE Accounting'
  <2>1. /\ UNCHANGED <<messages, extra, outstanding, native, wire, delivered>>
        /\ stale' = Live(r) /\ Prune(r)
    BY <1>2 DEF ParkInFlight, ParkStale, linkVars
  <2>2. \A s \in stale : KeyOf[s] \notin lapsed' => s \in stale'
    BY <2>1 DEF Prune
  <2> QED BY <1>0, <2>1, <2>2, AccountingKept DEF Prune, Coming, Credit, IInv
<1>3. ASSUME NEW r \in Requests, Register(r) PROVE Accounting'
  <2> DEFINE k0 == KeyOf[r]
  <2>1. /\ r \notin messages \cup stale \cup native \cup wire
        /\ messages' = messages \cup {r} /\ native' = native \cup {r}
        /\ stale' = Live(r) \ HoldingKey(r)
        /\ extra' = [extra EXCEPT ![r] = AdoptedReplies(r)]
        /\ Blocking(r) = {} /\ ~KeyInFlight(r) /\ Prune(r)
        /\ UNCHANGED <<outstanding, wire, delivered>>
    BY <1>3, <1>0 DEF Register, IInv, QueueAgreesWithFutures
  <2>2. NoMisattributedReply'
    BY <2>1 DEF Accounting, NoMisattributedReply, Prune
  <2>3. ASSUME NEW k \in Keys \ lapsed', Coming(k)' # {}, k # k0
        PROVE  \E s \in messages' \cup stale' : CoveredBy(k, s)'
    <3>1. Coming(k)' = Coming(k) BY <2>1, <2>3 DEF Coming
    <3>2. PICK s \in messages \cup stale : CoveredBy(k, s)
      BY <2>1, <2>3, <3>1 DEF Prune, Accounting, RepliesAreOwed
    <3>3. s \in messages' \cup stale' /\ s # r /\ s \in Requests
      BY <2>1, <2>3, <3>2, <1>0 DEF Prune, HoldingKey, CoveredBy, TypeOK
    <3>4. Credit(s)' = Credit(s)
      BY <2>1, <3>3, <1>0 DEF Credit, TypeOK
    <3>5. CoveredBy(k, s)' BY <1>0, <2>1, <3>1, <3>2, <3>3, <3>4, CoverKept DEF IInv
    <3> QED BY <3>3, <3>5
  <2>4. ASSUME k0 \in Keys \ lapsed'
        PROVE  CoveredBy(k0, r)'
    <3>1. Coming(k0)' = Coming(k0) \cup {r} BY <2>1 DEF Coming
    <3>2. \A s \in stale : KeyOf[s] = k0 => s \in HoldingKey(r)
      BY <2>1, <2>4 DEF Prune, HoldingKey
    <3>3. Cardinality(Coming(k0)') = Cardinality(Coming(k0)) + 1
      BY <1>0, <2>1, <3>1, ComingFinite, FS_AddElement DEF Coming
    <3>4. Credit(r)' = AdoptedReplies(r) + 1
      BY <1>0, <2>1 DEF Credit, TypeOK
    <3>5. CASE HoldingKey(r) = {}
      <4>1. AdoptedReplies(r) = 0 BY <3>5, SumOverNone DEF AdoptedReplies
      <4>2. Coming(k0) = {}
        BY <2>1, <2>4, <3>2, <3>5 DEF KeyInFlight, Prune, Accounting, RepliesAreOwed, CoveredBy
      <4>3. Cardinality(Coming(k0)) = 0 BY <1>0, <4>2, ComingFinite
      <4> QED BY <3>1, <3>3, <3>4, <4>1, <4>2, <4>3 DEF CoveredBy
    <3>6. CASE HoldingKey(r) # {}
      <4>1. PICK s \in HoldingKey(r) : HoldingKey(r) = {s}
        BY <3>6, <1>0 DEF HoldingKey, Live, IInv, OneHolderPerKey
      <4>2. s \in stale /\ s \in Requests /\ KeyOf[s] = k0 /\ s \notin messages
        BY <4>1, <1>0 DEF HoldingKey, Live, TypeOK, IInv, OneHolderPerKey
      <4>3. r \in Adopting /\ BodyOf[s] = BodyOf[r]
        BY <2>1, <4>1 DEF Blocking, Adopts
      <4>4. AdoptedReplies(r) = outstanding[s] /\ outstanding[s] \in Nat
        BY <1>0, <4>1, <4>2, SumOverOne DEF AdoptedReplies, TypeOK
      <4>5. CASE Coming(k0) = {}
        <5>1. Cardinality(Coming(k0)) = 0 BY <1>0, <4>5, ComingFinite
        <5> QED BY <3>1, <3>3, <3>4, <4>3, <4>4, <4>5, <5>1 DEF CoveredBy
      <4>6. CASE Coming(k0) # {}
        <5>1. PICK t \in messages \cup stale : CoveredBy(k0, t)
          BY <2>1, <2>4, <4>6 DEF Prune, Accounting, RepliesAreOwed
        <5>2. t = s BY <5>1, <4>2 DEF CoveredBy, IInv, OneHolderPerKey
        <5>3. Cardinality(Coming(k0)) <= outstanding[s] /\ Cardinality(Coming(k0)) \in Nat
          BY <1>0, <5>1, <5>2, <4>2, ComingFinite DEF CoveredBy, Credit
        <5> QED BY <3>1, <3>3, <3>4, <4>3, <4>4, <5>1, <5>2, <5>3 DEF CoveredBy
      <4> QED BY <4>5, <4>6
    <3> QED BY <3>5, <3>6
  <2>5. k0 \in Keys /\ r \in messages' BY <2>1
  <2>6. RepliesAreOwed'
    <3> SUFFICES ASSUME NEW k \in Keys \ lapsed', Coming(k)' # {}
                 PROVE  \E s \in messages' \cup stale' : CoveredBy(k, s)'
      BY DEF RepliesAreOwed
    <3> QED BY <2>3, <2>4, <2>5
  <2> QED BY <2>2, <2>6 DEF Accounting
<1>4. ASSUME NEW r \in Requests, WriteFails(r) \/ GiveUp(r) PROVE Accounting'
  <2>1. /\ native' \subseteq native /\ wire' = wire /\ UNCHANGED <<delivered, lapsed, extra>>
        /\ Abandon(r)
    BY <1>4 DEF WriteFails, GiveUp, linkVars
  <2>2. \A s \in messages \cup stale :
             /\ s \in messages' \cup stale'
             /\ Credit(s)' = Credit(s)
             /\ s \in messages' => s \in messages
    <3>1. CASE r \in messages
      BY <1>0, <2>1, <3>1 DEF Abandon, OweReplies, Credit, TypeOK, IInv, OneHolderPerKey
    <3>2. CASE r \notin messages
      BY <1>0, <2>1, <3>2 DEF Abandon, Credit
    <3> QED BY <3>1, <3>2
  <2>3. \A k : Coming(k)' \subseteq Coming(k) BY <2>1 DEF Coming
  <2> QED BY <1>0, <2>1, <2>2, <2>3, AccountingKept DEF IInv
<1>5. ASSUME NEW r \in Requests, DeviceAnswers(r) \/ Lose(r) PROVE Accounting'
  <2>1. /\ native' \cup wire' \subseteq native \cup wire
        /\ UNCHANGED <<messages, extra, stale, outstanding, delivered, lapsed>>
    BY <1>5 DEF DeviceAnswers, Lose, queueVars
  <2>2. \A k : Coming(k)' \subseteq Coming(k) BY <2>1 DEF Coming
  <2> QED BY <1>0, <2>1, <2>2, AccountingKept DEF Credit, IInv
<1>6. ASSUME NEW o \in Requests, ReadReport(o) PROVE Accounting'
  <2> DEFINE k0 == KeyOf[o]
  <2>0. /\ o \in wire /\ o \notin native /\ wire' = wire \ {o}
        /\ UNCHANGED <<extra, native, lapsed>>
    BY <1>6, <1>0 DEF ReadReport, IInv, QueueAgreesWithFutures
  <2>1. /\ \A k : Coming(k)' \subseteq Coming(k)
        /\ Cardinality(Coming(k0)') = Cardinality(Coming(k0)) - 1
    BY <1>0, <2>0, ComingAfterReply
  <2>2. o \in Coming(k0) BY <2>0 DEF Coming
  <2>3. CASE AnswerPending(o)
    <3>1. PICK r \in messages :
            /\ KeyOf[r] = k0
            /\ delivered' = [delivered EXCEPT ![r] = o]
            /\ messages' = messages \ {r}
            /\ IF extra[r] > 0
               THEN stale' = stale \cup {r} /\ OweReplies(r, extra[r])
               ELSE UNCHANGED <<stale, outstanding, expires>>
      BY <2>3 DEF AnswerPending, Accepts
    <3>2. r \in Requests /\ r \notin stale /\ extra[r] \in Nat
      BY <1>0, <3>1 DEF TypeOK, IInv, OneHolderPerKey
    <3>3. ASSUME k0 \notin lapsed PROVE CoveredBy(k0, r)
      BY <1>0, <2>2, <3>1, <3>3 DEF TypeOK, Accounting, RepliesAreOwed, CoveredBy, IInv,
          OneHolderPerKey
    <3>4. NoMisattributedReply'
      <4>1. \/ k0 \in lapsed
            \/ o = r
            \/ r \in Adopting /\ BodyOf[o] = BodyOf[r]
        BY <3>1, <3>3, <2>2 DEF CoveredBy
      <4> QED BY <1>0, <2>0, <3>1, <3>2, <4>1 DEF Accounting, NoMisattributedReply, TypeOK
    <3>5. RepliesAreOwed'
      <4> SUFFICES ASSUME NEW k \in Keys \ lapsed, Coming(k)' # {}
                   PROVE  \E s \in messages' \cup stale' : CoveredBy(k, s)'
        BY <2>0 DEF RepliesAreOwed
      <4>1. CASE k = k0
        <5>1. CoveredBy(k0, r) BY <3>3, <4>1
        <5>2. Cardinality(Coming(k0)') <= extra[r] /\ Cardinality(Coming(k0)') \in Nat \ {0}
          BY <1>0, <2>1, <3>1, <3>2, <4>1, <5>1, ComingFinite, ComingFiniteAfter
             DEF CoveredBy, Credit, IInv
        <5>3. extra[r] > 0 BY <3>2, <5>2
        <5>4. r \in stale' /\ r \notin messages' /\ Credit(r)' = extra[r]
          BY <1>0, <3>1, <3>2, <5>3 DEF OweReplies, Credit, TypeOK
        <5>5. CoveredBy(k0, r)'
          BY <2>1, <3>1, <5>1, <5>2, <5>4 DEF CoveredBy
        <5> QED BY <4>1, <5>4, <5>5
      <4>2. CASE k # k0
        <5>1. PICK s \in messages \cup stale : CoveredBy(k, s)
          BY <2>1 DEF Accounting, RepliesAreOwed
        <5>2. s # r /\ s \in Requests BY <1>0, <3>1, <4>2, <5>1 DEF CoveredBy, TypeOK
        <5>3. s \in messages' \cup stale' /\ Credit(s)' = Credit(s) /\ (s \in messages' => s \in messages)
          BY <1>0, <2>0, <3>1, <5>1, <5>2 DEF OweReplies, Credit, TypeOK
        <5>4. CoveredBy(k, s)' BY <1>0, <2>1, <5>1, <5>2, <5>3, CoverKept DEF IInv
        <5> QED BY <5>3, <5>4
      <4> QED BY <4>1, <4>2
    <3> QED BY <3>4, <3>5 DEF Accounting
  <2>4. CASE DiscardStaleReply(o)
    <3>1. PICK r \in stale :
            /\ KeyOf[r] = k0
            /\ outstanding' = [outstanding EXCEPT ![r] = @ - 1]
            /\ IF outstanding[r] = 1 THEN stale' = stale \ {r} ELSE stale' = stale
      BY <2>4 DEF DiscardStaleReply, Accepts
    <3>2. UNCHANGED <<messages, delivered>> BY <2>4 DEF DiscardStaleReply
    <3>3. r \in Requests /\ r \notin messages /\ outstanding[r] \in Nat /\ outstanding[r] > 0
      BY <1>0, <3>1 DEF TypeOK, IInv, OneHolderPerKey, QueueAgreesWithFutures
    <3>4. NoMisattributedReply'
      BY <2>0, <3>2 DEF Accounting, NoMisattributedReply
    <3>5. RepliesAreOwed'
      <4> SUFFICES ASSUME NEW k \in Keys \ lapsed, Coming(k)' # {}
                   PROVE  \E s \in messages' \cup stale' : CoveredBy(k, s)'
        BY <2>0 DEF RepliesAreOwed
      <4>1. CASE k = k0
        <5>1. CoveredBy(k0, r)
          BY <1>0, <2>2, <3>1, <4>1 DEF TypeOK, Accounting, RepliesAreOwed, CoveredBy, IInv,
              OneHolderPerKey
        <5>2. /\ Cardinality(Coming(k0)') <= outstanding[r] - 1
              /\ Cardinality(Coming(k0)') \in Nat \ {0}
          BY <1>0, <2>1, <3>3, <4>1, <5>1, ComingFinite, ComingFiniteAfter DEF CoveredBy, Credit,
              IInv
        <5>3. r \in stale' /\ r \notin messages' /\ Credit(r)' = outstanding[r] - 1
          BY <1>0, <3>1, <3>2, <3>3, <5>2 DEF Credit, TypeOK
        <5>4. CoveredBy(k0, r)'
          BY <2>1, <3>1, <5>1, <5>2, <5>3 DEF CoveredBy
        <5> QED BY <4>1, <5>3, <5>4
      <4>2. CASE k # k0
        <5>1. PICK s \in messages \cup stale : CoveredBy(k, s)
          BY <2>1 DEF Accounting, RepliesAreOwed
        <5>2. s # r /\ s \in Requests BY <1>0, <3>1, <4>2, <5>1 DEF CoveredBy, TypeOK
        <5>3. s \in messages' \cup stale' /\ Credit(s)' = Credit(s) /\ (s \in messages' => s \in messages)
          BY <1>0, <2>0, <3>1, <3>2, <5>1, <5>2 DEF Credit, TypeOK
        <5>4. CoveredBy(k, s)' BY <1>0, <2>1, <5>1, <5>2, <5>3, CoverKept DEF IInv
        <5> QED BY <5>3, <5>4
      <4> QED BY <4>1, <4>2
    <3> QED BY <3>4, <3>5 DEF Accounting
  <2>5. CASE Unclaimed(o)
    <3>1. UNCHANGED <<messages, stale, outstanding, delivered>> BY <2>5 DEF Unclaimed
    <3> QED BY <1>0, <2>0, <2>1, <3>1, AccountingKept DEF Credit, IInv
  <2> QED BY <1>6, <2>3, <2>4, <2>5 DEF ReadReport
<1>7. ASSUME Tick \/ UNCHANGED vars PROVE Accounting'
  <2>1. UNCHANGED <<queueVars, linkVars, delivered, lapsed>>
    BY <1>7 DEF Tick, vars
  <2> QED BY <1>0, <2>1, AccountingKept DEF queueVars, linkVars, Coming, Credit, IInv
<1> QED
  BY <1>1, <1>2, <1>3, <1>4, <1>5, <1>6, <1>7 DEF Next, RequestStep, LinkStep, Finished

\* Unless the grace ran out on a key, every reply that may still come with that
\* key is covered by the holder of the key: for any number of requests.
THEOREM RepliesAccounted == Spec => []RepliesAreOwed
<1>1. IInv /\ Accounting => RepliesAreOwed BY DEF Accounting
<1> QED BY InitIInv, NextIInv, InitAccounting, NextAccounting, <1>1, PTL DEF Spec

\* No request is answered with somebody else's reply, for any number of requests
\* and headers and any grace, as long as the grace outlasts the late replies.
THEOREM NoMisattribution == Spec => []NoMisattributedReply
<1>1. IInv /\ Accounting => NoMisattributedReply BY DEF Accounting
<1> QED BY InitIInv, NextIInv, InitAccounting, NextAccounting, <1>1, PTL DEF Spec
=============================================================================
