------------------------- MODULE FlowHandoffProofs -------------------------
(***************************************************************************)
(* Proofs about FlowHandoff, for any set of devices, any windows and any   *)
(* number of transfers and faults.                                         *)
(***************************************************************************)
EXTENDS FlowHandoff, FiniteSetTheorems, TLAPS

USE FlowAssumption

-----------------------------------------------------------------------------
(* Hosts, entries and records.                                             *)

LEMMA PeerFacts ==
  ASSUME NEW h \in Hosts
  PROVE  /\ Peer(h) \in Hosts /\ Peer(h) # h /\ Peer(Peer(h)) = h
         /\ \A k \in Hosts : k = h \/ k = Peer(h)
<1>1. \E p \in Hosts : p # h
  OBVIOUS
<1>2. Peer(h) \in Hosts /\ Peer(h) # h
  BY <1>1 DEF Peer
<1>3. \E p \in Hosts : p # Peer(h)
  BY <1>2
<1>4. Peer(Peer(h)) \in Hosts /\ Peer(Peer(h)) # Peer(h)
  BY <1>3 DEF Peer
<1> QED BY <1>2, <1>4

LEMMA MinOfFacts ==
  ASSUME NEW a \in Nat, NEW b \in Nat
  PROVE  MinOf(a, b) \in Nat /\ MinOf(a, b) <= a /\ MinOf(a, b) <= b
         /\ (a <= b => MinOf(a, b) = a)
BY DEF MinOf

LEMMA DownFacts ==
  ASSUME NEW n \in Nat
  PROVE  Down(n) \in Nat /\ Down(n) <= n /\ n <= Down(n) + 1 /\ (n > 0 => Down(n) = n - 1)
BY DEF Down

\* What a ledger remembers, without its order.
Entries(h) == {completed[h][i] : i \in 1..Len(completed[h])}

LEMMA NoIncomingFacts ==
  /\ NoIncoming \in Incomings /\ NoIncoming.id = 0 /\ NoIncoming.devices = {}
  /\ NoIncoming.left = 0
BY DEF NoIncoming, Incomings, Ids

LEMMA IdleSenderFacts ==
  /\ IdleSender \in Senders /\ IdleSender.phase = "idle" /\ IdleSender.result = NoResult
  /\ NoResult \in Results /\ NoResult.id = 0
<1>1. NoResult \in Results /\ NoResult.id = 0
  BY DEF NoResult, Results, Ids
<1>2. <<>> \in Seq(Devices)
  OBVIOUS
<1> QED BY <1>1, <1>2 DEF IdleSender, Senders, Ids

LEMMA RememberedEntries ==
  ASSUME TypeOK, NEW h \in Hosts, NEW i
  PROVE  /\ Remembered(h, i) # {} <=> \E e \in Entries(h) : e.id = i
         /\ \A n \in Remembered(h, i) : completed[h][n] \in Entries(h) /\ completed[h][n].id = i
         /\ \A e \in Entries(h) : e.id = i => \E n \in Remembered(h, i) : completed[h][n] = e
         /\ Entries(h) \subseteq Results
<1>1. completed[h] \in Seq(Results)
  BY DEF TypeOK
<1>2. DOMAIN completed[h] = 1..Len(completed[h])
  BY <1>1
<1> QED BY <1>1, <1>2 DEF Remembered, Entries

\* record: the new entry is kept, and only the evicted one is dropped.
LEMMA RecordFacts ==
  ASSUME TypeOK, NEW h \in Hosts, NEW outcome, NEW arrived,
         Record(h, outcome, arrived),
         outcome \in {"none", "arrived", "partial", "timeout", "cancelled"},
         arrived \subseteq Devices,
         NEW new, new = [id |-> pending[h].id, outcome |-> outcome, arrived |-> arrived]
  PROVE  /\ completed' \in [Hosts -> Seq(Results)]
         /\ \A k \in Hosts : Len(completed'[k]) <= CompletedLimit
         /\ \A k \in Hosts \ {h} : Entries(k)' = Entries(k)
         /\ Entries(h)' \subseteq Entries(h) \cup {new}
         /\ new \in Entries(h)' /\ new \in Results /\ Evicted(h) \subseteq Ids
         /\ \A e \in Entries(h) : e \in Entries(h)' \/ e.id \in Evicted(h)
<1> DEFINE q == completed[h]
           all == Append(q, new)
<1>1. new \in Results
  BY DEF TypeOK, Results, Incomings
<1>2. q \in Seq(Results) /\ Len(q) \in Nat /\ Len(q) <= CompletedLimit
  BY DEF TypeOK
<1>3. /\ all \in Seq(Results) /\ Len(all) = Len(q) + 1 /\ all[Len(q) + 1] = new
      /\ \A i \in 1..Len(q) : all[i] = q[i]
  BY <1>1, <1>2
<1>4. completed' = [completed EXCEPT ![h] = IF Len(all) > CompletedLimit THEN Tail(all) ELSE all]
  BY DEF Record
<1> HIDE DEF all
<1>5. \A k \in Hosts \ {h} : completed'[k] = completed[k]
  BY <1>4 DEF TypeOK
<1>6. \A k \in Hosts \ {h} : Entries(k)' = Entries(k)
  BY <1>5 DEF Entries
<1>7. CASE Len(all) > CompletedLimit
  <2>1. completed'[h] = Tail(all) /\ completed' = [completed EXCEPT ![h] = Tail(all)]
    BY <1>4, <1>7 DEF TypeOK
  <2>2. Len(q) = CompletedLimit
    BY <1>2, <1>3, <1>7
  <2>3. /\ Tail(all) \in Seq(Results) /\ Len(Tail(all)) = Len(q)
        /\ \A i \in 1..Len(q) : Tail(all)[i] = all[i + 1]
    BY <1>2, <1>3, <2>2
  <2>4. Head(q) = q[1] /\ Evicted(h) = {q[1].id} /\ q[1] \in Results
    BY <1>2, <2>2 DEF Evicted
  <2>5. Entries(h)' \subseteq Entries(h) \cup {new}
    <3>1. ASSUME NEW i \in 1..Len(q)
          PROVE  all[i + 1] \in Entries(h) \cup {new}
      <4>1. CASE i = Len(q)
        BY <1>3, <4>1
      <4>2. CASE i # Len(q)
        <5>1. i + 1 \in 1..Len(q) /\ all[i + 1] = q[i + 1]
          BY <1>2, <1>3, <4>2
        <5> QED BY <5>1 DEF Entries
      <4> QED BY <4>1, <4>2
    <3>2. Entries(h)' = {completed'[h][i] : i \in 1..Len(q)}
      BY <2>1, <2>3 DEF Entries
    <3>3. \A i \in 1..Len(q) : completed'[h][i] = all[i + 1]
      BY <2>1, <2>3
    <3> QED BY <3>1, <3>2, <3>3
  <2>6. new \in Entries(h)'
    BY <1>2, <1>3, <2>1, <2>2, <2>3 DEF Entries
  <2>7. \A e \in Entries(h) : e \in Entries(h)' \/ e.id \in Evicted(h)
    <3> SUFFICES ASSUME NEW i \in 1..Len(q), i # 1
                 PROVE  q[i] \in Entries(h)'
      BY <2>4 DEF Entries
    <3>1. i - 1 \in 1..Len(q) /\ (i - 1) + 1 = i
      BY <1>2
    <3>2. Tail(all)[i - 1] = q[i]
      BY <1>3, <2>3, <3>1
    <3> QED BY <2>1, <2>3, <3>1, <3>2 DEF Entries
  <2>8. /\ completed' \in [Hosts -> Seq(Results)]
        /\ \A k \in Hosts : Len(completed'[k]) <= CompletedLimit
    BY <1>5, <2>1, <2>2, <2>3 DEF TypeOK
  <2> QED BY <1>1, <1>6, <2>4, <2>5, <2>6, <2>7, <2>8 DEF Results
<1>8. CASE ~(Len(all) > CompletedLimit)
  <2>1. completed'[h] = all /\ completed' = [completed EXCEPT ![h] = all]
    BY <1>4, <1>8 DEF TypeOK
  <2>2. Len(q) # CompletedLimit /\ Len(all) <= CompletedLimit
    BY <1>2, <1>3, <1>8
  <2>3. Evicted(h) = {}
    BY <2>2 DEF Evicted
  <2>4. Entries(h)' \subseteq Entries(h) \cup {new}
    <3> SUFFICES ASSUME NEW i \in 1..(Len(q) + 1)
                 PROVE  all[i] \in Entries(h) \cup {new}
      BY <1>3, <2>1 DEF Entries
    <3>1. CASE i = Len(q) + 1
      BY <1>3, <3>1
    <3>2. CASE i \in 1..Len(q)
      <4>1. all[i] = q[i]
        BY <1>3, <3>2
      <4> QED BY <3>2, <4>1 DEF Entries
    <3> QED BY <1>2, <3>1, <3>2
  <2>5. new \in Entries(h)' /\ \A e \in Entries(h) : e \in Entries(h)'
    BY <1>2, <1>3, <2>1 DEF Entries
  <2>6. /\ completed' \in [Hosts -> Seq(Results)]
        /\ \A k \in Hosts : Len(completed'[k]) <= CompletedLimit
    BY <1>3, <1>5, <2>1, <2>2 DEF TypeOK
  <2> QED BY <1>1, <1>6, <2>3, <2>4, <2>5, <2>6
<1> QED BY <1>7, <1>8

LEMMA HandoffOrderType ==
  ASSUME NEW S \in SUBSET Devices, NEW q \in HandoffOrders(S)
  PROVE  q \in Seq(Devices)
<1>1. IsFiniteSet(S)
  BY FS_Subset
<1>2. Cardinality(S) \in Nat
  BY <1>1, FS_CardinalityType
<1>3. q \in [1..Cardinality(S) -> Devices]
  BY DEF HandoffOrders
<1> QED BY <1>2, <1>3

LEMMA ElementsType ==
  ASSUME NEW q \in Seq(Devices)
  PROVE  Elements(q) \subseteq Devices
BY DEF Elements
-----------------------------------------------------------------------------
(* What the steps of a sender task do to its record.                       *)

OthersSend(h) == \A k \in Hosts \ {h} : send'[k] = send[k]

LEMMA SendAt ==
  ASSUME TypeOK, NEW h \in Hosts, NEW t \in Senders, send' = [send EXCEPT ![h] = t]
  PROVE  send' \in [Hosts -> Senders] /\ send'[h] = t /\ OthersSend(h)
BY DEF TypeOK, OthersSend

LEMMA SenderFields ==
  ASSUME NEW s \in Senders
  PROVE  /\ s.id \in Ids /\ s.switches \in Seq(Devices) /\ s.age \in 0..MaxArmTimeout
         /\ s.window \in 0..MaxArmTimeout /\ s.wait \in 0..(MaxArmTimeout + NetworkSlack)
         /\ s.result \in Results
         /\ s.phase \in {"idle", "preparing", "calling", "writing", "applying", "awaiting",
                          "reported"}
BY DEF Senders

LEMMA CrossedSend ==
  ASSUME TypeOK, NEW h \in Hosts, Crossed(h)
  PROVE  /\ send' \in [Hosts -> Senders] /\ OthersSend(h)
         /\ send'[h].phase = "preparing" /\ send'[h].id = issued + 1
         /\ send'[h].result = NoResult
<1>1. PICK q \in HandoffOrders(seen[h]) :
        send' = [send EXCEPT ![h] = [IdleSender EXCEPT !.phase = "preparing",
                                                       !.id = issued + 1, !.switches = q]]
  BY DEF Crossed
<1>2. q \in Seq(Devices) /\ issued + 1 \in Ids
  <2>1. seen[h] \in SUBSET Devices /\ issued \in 0..MaxTransfers /\ issued < MaxTransfers
    BY DEF TypeOK, Crossed, Ids
  <2> QED BY <2>1, HandoffOrderType DEF Ids
<1> DEFINE t == [IdleSender EXCEPT !.phase = "preparing", !.id = issued + 1, !.switches = q]
<1>3. t \in Senders /\ t.phase = "preparing" /\ t.id = issued + 1 /\ t.result = NoResult
  BY <1>2, IdleSenderFacts DEF Senders
<1> HIDE DEF t
<1> QED BY <1>1, <1>3, SendAt DEF t

LEMMA ReportSend ==
  ASSUME TypeOK, NEW h \in Hosts, NEW r, Report(h, r),
         r \in {"not_started", "rejected", "cancelled", "no_result", "finished"}
  PROVE  /\ send' \in [Hosts -> Senders] /\ OthersSend(h)
         /\ send'[h].phase = "reported" /\ send'[h].id = send[h].id
         /\ send'[h].result = send[h].result /\ send'[h].report = r
<1> DEFINE t == [IdleSender EXCEPT !.phase = "reported", !.id = send[h].id,
                                   !.result = send[h].result, !.report = r]
<1>1. send' = [send EXCEPT ![h] = t]
  BY DEF Report
<1>2. send[h].id \in Ids /\ send[h].result \in Results
  BY DEF TypeOK, Senders
<1>3. /\ t \in Senders /\ t.phase = "reported" /\ t.id = send[h].id
      /\ t.result = send[h].result /\ t.report = r
  BY <1>2, IdleSenderFacts DEF Senders
<1> HIDE DEF t
<1> QED BY <1>1, <1>3, SendAt

\* The task goes on: what a step leaves of its record.
Continues(h) ==
  /\ send' \in [Hosts -> Senders] /\ OthersSend(h)
  /\ send'[h].id = send[h].id /\ send'[h].result = send[h].result

LEMMA PreparedSend ==
  ASSUME TypeOK, NEW h \in Hosts, Prepared(h)
  PROVE  Continues(h) /\ send'[h].phase = "calling"
<1> DEFINE s == send[h]
           t == [s EXCEPT !.phase = "calling"]
<1>1. send' = [send EXCEPT ![h] = t]
  BY DEF Prepared
<1>2. s \in Senders
  BY DEF TypeOK
<1> HIDE DEF s
<1>3. t \in Senders /\ t.phase = "calling" /\ t.id = s.id /\ t.result = s.result
  BY <1>2 DEF Senders
<1> HIDE DEF t
<1> QED BY <1>1, <1>3, SendAt DEF Continues, s

LEMMA AcceptedSend ==
  ASSUME TypeOK, NEW h \in Hosts, NEW w \in 0..ArmTimeout,
         send' = [send EXCEPT ![h].phase = IF w = 0 THEN "awaiting" ELSE "writing",
                              ![h].switches = IF w = 0 THEN <<>> ELSE @,
                              ![h].age = IF w = 0 THEN 0 ELSE @,
                              ![h].window = MinOf(w, MaxArmTimeout),
                              ![h].wait = GiveUp(w)]
  PROVE  /\ Continues(h)
         /\ send'[h].phase = IF w = 0 THEN "awaiting" ELSE "writing"
         /\ w # 0 => send'[h].age = send[h].age
         /\ send'[h].window = MinOf(w, MaxArmTimeout)
         /\ send'[h].wait = MinOf(w, MaxArmTimeout) + NetworkSlack
         /\ send'[h].started = send[h].started
<1> DEFINE s == send[h]
           ph == IF w = 0 THEN "awaiting" ELSE "writing"
           sw == IF w = 0 THEN <<>> ELSE s.switches
           ag == IF w = 0 THEN 0 ELSE s.age
           t == [s EXCEPT !.phase = ph, !.switches = sw, !.age = ag,
                          !.window = MinOf(w, MaxArmTimeout), !.wait = GiveUp(w)]
<1>1. s \in Senders
  BY DEF TypeOK
<1>2. send' = [send EXCEPT ![h] = t]
  BY <1>1 DEF TypeOK
<1>3. w \in Nat /\ w <= MaxArmTimeout /\ MinOf(w, MaxArmTimeout) \in 0..MaxArmTimeout
  BY MinOfFacts
<1>4. GiveUp(w) = MinOf(w, MaxArmTimeout) + NetworkSlack
      /\ GiveUp(w) \in 0..(MaxArmTimeout + NetworkSlack)
  BY <1>3 DEF GiveUp
<1>5. ph \in {"awaiting", "writing"} /\ sw \in Seq(Devices) /\ ag \in 0..MaxArmTimeout
  BY <1>1 DEF Senders
<1> HIDE DEF s, ph, sw, ag
<1>6. t \in Senders
  BY <1>1, <1>3, <1>4, <1>5 DEF Senders
<1>7. /\ t.phase = ph /\ t.id = s.id /\ t.result = s.result /\ t.age = ag
      /\ t.window = MinOf(w, MaxArmTimeout)
      /\ t.wait = MinOf(w, MaxArmTimeout) + NetworkSlack /\ t.started = s.started
  BY <1>1, <1>4 DEF Senders
<1> HIDE DEF t
<1> QED BY <1>2, <1>6, <1>7, SendAt DEF Continues, s, ph, ag

LEMMA BeginWriteSend ==
  ASSUME TypeOK, NEW h \in Hosts, BeginWrite(h)
  PROVE  /\ Continues(h) /\ send'[h].phase = "applying" /\ send'[h].started = TRUE
         /\ send'[h].age = send[h].age /\ send'[h].window = send[h].window
         /\ send'[h].wait = send[h].wait /\ send'[h].switches = send[h].switches
<1> DEFINE s == send[h]
           t == [s EXCEPT !.phase = "applying", !.started = TRUE]
<1>2. s \in Senders
  BY DEF TypeOK
<1>1. send' = [send EXCEPT ![h] = t]
  BY <1>2 DEF BeginWrite, TypeOK
<1> HIDE DEF s
<1>3. /\ t \in Senders /\ t.phase = "applying" /\ t.started = TRUE /\ t.id = s.id
      /\ t.result = s.result /\ t.age = s.age /\ t.window = s.window /\ t.wait = s.wait
      /\ t.switches = s.switches
  BY <1>2 DEF Senders
<1> HIDE DEF t
<1> QED BY <1>1, <1>3, SendAt DEF Continues, s

LEMMA SkipWriteSend ==
  ASSUME TypeOK, NEW h \in Hosts, SkipWrite(h)
  PROVE  /\ Continues(h) /\ send'[h].phase = "writing"
         /\ send'[h].started = send[h].started /\ send'[h].age = send[h].age
         /\ send'[h].window = send[h].window /\ send'[h].wait = send[h].wait
<1> DEFINE s == send[h]
           b == s.stopping \/ ~running[h]
           t == [s EXCEPT !.switches = Tail(@), !.stopping = b]
<1>2. s \in Senders
  BY DEF TypeOK
<1>1. send' = [send EXCEPT ![h] = t]
  BY <1>2 DEF SkipWrite, TypeOK
<1>3. b \in BOOLEAN
  BY Zenon
<1>4. s.switches \in Seq(Devices) /\ s.switches # <<>> /\ s.phase = "writing"
  BY <1>2 DEF SkipWrite, Senders
<1> HIDE DEF s, b
<1>5. Tail(s.switches) \in Seq(Devices)
  BY <1>4
<1>6. /\ t \in Senders /\ t.phase = "writing" /\ t.started = s.started /\ t.id = s.id
      /\ t.result = s.result /\ t.age = s.age /\ t.window = s.window /\ t.wait = s.wait
  BY <1>2, <1>3, <1>4, <1>5 DEF Senders
<1> HIDE DEF t
<1> QED BY <1>1, <1>6, SendAt DEF Continues, s

LEMMA EndWriteSend ==
  ASSUME TypeOK, NEW h \in Hosts, EndWrite(h), send[h].switches # <<>>
  PROVE  /\ Continues(h) /\ send'[h].phase = "writing"
         /\ send'[h].started = send[h].started /\ send'[h].age = send[h].age
         /\ send'[h].window = send[h].window /\ send'[h].wait = send[h].wait
<1> DEFINE s == send[h]
           t == [s EXCEPT !.phase = "writing", !.switches = Tail(@)]
<1>1. s \in Senders
  BY DEF TypeOK
<1>2. send' = [send EXCEPT ![h] = t]
  BY <1>1 DEF EndWrite, TypeOK
<1>3. s.switches \in Seq(Devices) /\ s.switches # <<>>
  BY <1>1 DEF Senders
<1> HIDE DEF s
<1>4. Tail(s.switches) \in Seq(Devices)
  BY <1>3
<1>5. /\ t \in Senders /\ t.phase = "writing" /\ t.started = s.started /\ t.id = s.id
      /\ t.result = s.result /\ t.age = s.age /\ t.window = s.window /\ t.wait = s.wait
  BY <1>1, <1>4 DEF Senders
<1> HIDE DEF t
<1> QED BY <1>2, <1>5, SendAt DEF Continues, s

\* The loop is done and the task waits for the result.
LEMMA AwaitSend ==
  ASSUME TypeOK, NEW h \in Hosts,
         send' = [send EXCEPT ![h].phase = "awaiting", ![h].age = 0, ![h].window = 0]
  PROVE  /\ Continues(h) /\ send'[h].phase = "awaiting"
         /\ send'[h].started = send[h].started /\ send'[h].wait = send[h].wait
<1> DEFINE s == send[h]
           t == [s EXCEPT !.phase = "awaiting", !.age = 0, !.window = 0]
<1>1. s \in Senders
  BY DEF TypeOK
<1>2. send' = [send EXCEPT ![h] = t]
  BY <1>1 DEF TypeOK
<1> HIDE DEF s
<1>3. 0 \in 0..MaxArmTimeout
  OBVIOUS
<1>4. t \in Senders
  BY <1>1, <1>3 DEF Senders
<1>5. /\ t.phase = "awaiting" /\ t.started = s.started /\ t.id = s.id
      /\ t.result = s.result /\ t.wait = s.wait
  BY <1>1 DEF Senders
<1> HIDE DEF t
<1> QED BY <1>2, <1>4, <1>5, SendAt DEF Continues, s

LEMMA IdleSend ==
  ASSUME TypeOK, NEW h \in Hosts, send' = [send EXCEPT ![h] = IdleSender]
  PROVE  send' \in [Hosts -> Senders] /\ OthersSend(h) /\ send'[h] = IdleSender
BY IdleSenderFacts, SendAt

LEMMA ResultSend ==
  ASSUME TypeOK, NEW h \in Hosts, NEW r \in Results, send' = [send EXCEPT ![h].result = r]
  PROVE  /\ send' \in [Hosts -> Senders] /\ OthersSend(h)
         /\ send'[h].phase = send[h].phase /\ send'[h].id = send[h].id
         /\ send'[h].result = r /\ send'[h].report = send[h].report
         /\ send'[h].started = send[h].started /\ send'[h].age = send[h].age
         /\ send'[h].window = send[h].window /\ send'[h].wait = send[h].wait
         /\ send'[h].switches = send[h].switches
<1> DEFINE s == send[h]
           t == [s EXCEPT !.result = r]
<1>1. s \in Senders
  BY DEF TypeOK
<1>2. send' = [send EXCEPT ![h] = t]
  OBVIOUS
<1> HIDE DEF s
<1>3. /\ t \in Senders /\ t.phase = s.phase /\ t.started = s.started /\ t.id = s.id
      /\ t.result = r /\ t.age = s.age /\ t.window = s.window /\ t.wait = s.wait
      /\ t.report = s.report /\ t.switches = s.switches
  BY <1>1 DEF Senders
<1> HIDE DEF t
<1> QED BY <1>2, <1>3, SendAt DEF s

\* Tick moves the timers and nothing else.
LEMMA TickFields ==
  ASSUME TypeOK, Tick
  PROVE  /\ send' \in [Hosts -> Senders] /\ pending' \in [Hosts -> Incomings]
         /\ \A h \in Hosts :
              /\ send'[h].phase = send[h].phase /\ send'[h].id = send[h].id
              /\ send'[h].result = send[h].result /\ send'[h].report = send[h].report
              /\ send'[h].started = send[h].started /\ send'[h].window = send[h].window
              /\ send'[h].switches = send[h].switches
              /\ send'[h].wait = Down(send[h].wait)
              /\ send'[h].age = IF send[h].phase \in {"calling", "writing", "applying"}
                                  THEN MinOf(send[h].age + 1, MaxArmTimeout) ELSE send[h].age
         /\ \A h \in Hosts :
              /\ pending'[h].id = pending[h].id /\ pending'[h].devices = pending[h].devices
              /\ pending'[h].arrived = pending[h].arrived
              /\ pending'[h].placed = pending[h].placed
              /\ pending'[h].left = Down(pending[h].left)
<1> DEFINE P(p) == [p EXCEPT !.left = Down(@)]
           A(s) == IF s.phase \in {"calling", "writing", "applying"}
                     THEN MinOf(s.age + 1, MaxArmTimeout) ELSE s.age
           S(s) == [s EXCEPT !.age = A(s), !.wait = Down(@)]
<1>1. /\ pending' = [h \in Hosts |-> P(pending[h])]
      /\ send' = [h \in Hosts |-> S(send[h])]
  BY DEF Tick
<1>2. \A p \in Incomings :
        /\ P(p) \in Incomings /\ P(p).id = p.id /\ P(p).devices = p.devices
        /\ P(p).arrived = p.arrived /\ P(p).placed = p.placed /\ P(p).left = Down(p.left)
  BY DEF Incomings, Down
<1>3. \A s \in Senders : A(s) \in 0..MaxArmTimeout
  BY DEF Senders, MinOf
<1>4. \A s \in Senders : Down(s.wait) \in 0..(MaxArmTimeout + NetworkSlack)
  BY DEF Senders, Down
<1> HIDE DEF A
<1>5. \A s \in Senders :
        /\ S(s) \in Senders /\ S(s).phase = s.phase /\ S(s).id = s.id
        /\ S(s).result = s.result /\ S(s).report = s.report /\ S(s).started = s.started
        /\ S(s).window = s.window /\ S(s).switches = s.switches
        /\ S(s).wait = Down(s.wait) /\ S(s).age = A(s)
  BY <1>3, <1>4 DEF Senders
<1>6. \A h \in Hosts : send[h] \in Senders /\ pending[h] \in Incomings
  BY DEF TypeOK
<1> HIDE DEF P, S
<1> QED BY <1>1, <1>2, <1>5, <1>6 DEF A

-----------------------------------------------------------------------------
(* Messages, the record of what happened, and an inventory change.         *)

LEMMA MessageTypes ==
  ASSUME NEW h \in Hosts, NEW i \in Ids
  PROVE  /\ \A D \in SUBSET Devices : Request(h, i, D) \in Messages
         /\ \A w \in 0..ArmTimeout : Accept(h, i, w) \in Messages
         /\ Reject(h, i) \in Messages /\ Cancel(h, i) \in Messages
         /\ \A r \in Results : Result(h, r) \in Messages
BY PeerFacts DEF Request, Accept, Reject, Cancel, Result, Messages

LEMMA MessageFields ==
  ASSUME NEW m \in Messages
  PROVE  /\ m.to \in Hosts /\ m.kind \in {"request", "accept", "reject", "cancel", "result"}
         /\ m.kind # "result" => m.id \in Ids
         /\ m.kind = "request" => m.devices \in SUBSET Devices
         /\ m.kind = "accept" => m.window \in 0..ArmTimeout
         /\ m.kind = "result" => m.result \in Results
BY DEF Messages

LEMMA MadeFields ==
  ASSUME NEW h, NEW i, NEW x
  PROVE  /\ Request(h, i, x).kind = "request" /\ Request(h, i, x).id = i
         /\ Request(h, i, x).to = Peer(h)
         /\ Accept(h, i, x).kind = "accept" /\ Accept(h, i, x).id = i
         /\ Accept(h, i, x).to = h /\ Accept(h, i, x).window = x
         /\ Reject(h, i).kind = "reject" /\ Reject(h, i).id = i /\ Reject(h, i).to = h
         /\ Cancel(h, i).kind = "cancel" /\ Cancel(h, i).id = i /\ Cancel(h, i).to = Peer(h)
         /\ Result(h, x).kind = "result" /\ Result(h, x).result = x /\ Result(h, x).to = h
BY DEF Request, Accept, Reject, Cancel, Result

LEMMA ArmedHistory ==
  ASSUME TypeOK, NEW i \in Ids, history' = [history EXCEPT !.armed = @ \cup {i}]
  PROVE  /\ history' \in Histories /\ history'.armed = history.armed \cup {i}
         /\ history'.forgotten = history.forgotten /\ history'.written = history.written
         /\ history'.placed = history.placed
BY DEF TypeOK, Histories

LEMMA ForgottenHistory ==
  ASSUME TypeOK, NEW S \in SUBSET Ids, history' = [history EXCEPT !.forgotten = @ \cup S]
  PROVE  /\ history' \in Histories /\ history'.armed = history.armed
         /\ history'.forgotten = history.forgotten \cup S
         /\ history'.written = history.written /\ history'.placed = history.placed
BY DEF TypeOK, Histories

LEMMA WrittenHistory ==
  ASSUME TypeOK, NEW i \in Ids, NEW d \in Devices,
         history' = [history EXCEPT !.written = @ \cup {<<i, d>>}]
  PROVE  /\ history' \in Histories /\ history'.armed = history.armed
         /\ history'.forgotten = history.forgotten /\ history'.placed = history.placed
         /\ history'.written = history.written \cup {<<i, d>>}
<1> DEFINE w == <<i, d>>
<1>1. w \in Ids \X Devices
  OBVIOUS
<1> HIDE DEF w
<1>2. history' = [history EXCEPT !.written = @ \cup {w}] /\ history \in Histories
  BY DEF TypeOK, w
<1>3. /\ history' \in Histories /\ history'.armed = history.armed
      /\ history'.forgotten = history.forgotten /\ history'.placed = history.placed
      /\ history'.written = history.written \cup {w}
  BY <1>1, <1>2 DEF Histories
<1> QED BY <1>3 DEF w

LEMMA PendingFields ==
  ASSUME TypeOK, NEW h \in Hosts
  PROVE  /\ pending[h] \in Incomings /\ pending[h].id \in Ids
         /\ pending[h].devices \subseteq Devices /\ pending[h].arrived \subseteq Devices
         /\ pending[h].left \in 0..ArmTimeout
BY DEF TypeOK, Incomings

\* The inventory's change may place the cursor, and may complete the transfer.
LEMMA InventoryFacts ==
  ASSUME TypeOK, NEW h \in Hosts, InventoryChanged(h)
  PROVE  \E arrived \in SUBSET Devices, places \in BOOLEAN :
           /\ places => pending[h].devices # {} /\ ~pending[h].placed
           /\ history' \in Histories
           /\ history'.armed = history.armed /\ history'.written = history.written
           /\ history'.placed = IF places THEN Append(history.placed, pending[h].id)
                                          ELSE history.placed
           /\ pending' \in [Hosts -> Incomings]
           /\ \A k \in Hosts \ {h} : pending'[k] = pending[k]
           /\ \/ /\ pending[h].id # 0 /\ pending'[h] = NoIncoming
                 /\ Record(h, "arrived", arrived)
                 /\ msgs' = msgs \cup {Result(Peer(h), [id |-> pending[h].id,
                                          outcome |-> "arrived", arrived |-> arrived])}
                 /\ history'.forgotten = history.forgotten \cup Evicted(h)
              \/ /\ pending'[h].id = pending[h].id /\ pending'[h].left = pending[h].left
                 /\ pending'[h].devices = pending[h].devices
                 /\ ~pending'[h].placed => ~pending[h].placed /\ ~places
                 /\ UNCHANGED <<completed, msgs>>
                 /\ history'.forgotten = history.forgotten
<1> DEFINE p == pending[h]
           online == {d \in Devices : Here(h, d)}
           arriving == (p.devices \ p.arrived) \cap online
           arrived == p.arrived \cup arriving
           places == PlacesCursor(p, arriving)
           done == p.id # 0 /\ arrived = p.devices
           q == [p EXCEPT !.arrived = arrived, !.placed = @ \/ places]
           pl == IF places THEN Append(history.placed, p.id) ELSE history.placed
           fo == IF done THEN history.forgotten \cup Evicted(h) ELSE history.forgotten
<1>A. pending' = [pending EXCEPT ![h] = IF done THEN NoIncoming ELSE q]
  BY Zenon DEF InventoryChanged
<1>B. history' = [history EXCEPT !.placed = pl, !.forgotten = fo]
  BY Zenon DEF InventoryChanged
<1>C. IF done
        THEN /\ Record(h, "arrived", arrived)
             /\ msgs' = msgs \cup {Result(Peer(h), [id |-> p.id, outcome |-> "arrived",
                                                    arrived |-> arrived])}
        ELSE UNCHANGED <<completed, msgs>>
  BY Zenon DEF InventoryChanged
<1>2. /\ p \in Incomings /\ p.id \in Ids /\ p.devices \subseteq Devices
      /\ p.arrived \subseteq Devices /\ p.left \in 0..ArmTimeout
  BY PendingFields
<1>3. arrived \in SUBSET Devices
  BY <1>2
<1>4. places \in BOOLEAN /\ done \in BOOLEAN /\ (p.placed \/ places) \in BOOLEAN
  BY Zenon DEF PlacesCursor
<1>5. places => p.devices # {} /\ ~p.placed
  BY DEF PlacesCursor
<1>6. (~(p.placed \/ places)) => ~p.placed /\ ~places
  OBVIOUS
<1>7. done => p.id # 0
  OBVIOUS
<1> DEFINE b == p.placed \/ places
<1>8. b \in BOOLEAN /\ (~b => ~p.placed /\ ~places)
  BY <1>4, <1>6
<1>9. q = [p EXCEPT !.arrived = arrived, !.placed = b]
  BY <1>2 DEF Incomings
<1> HIDE DEF b, arrived, done, places
<1>10. /\ q \in Incomings /\ q.id = p.id /\ q.left = p.left /\ q.devices = p.devices
       /\ q.placed = b
  BY <1>2, <1>3, <1>8, <1>9 DEF Incomings
<1> HIDE DEF q
<1>11. Evicted(h) \subseteq Ids
  <2>1. completed[h] \in Seq(Results)
    BY DEF TypeOK
  <2>2. Len(completed[h]) = CompletedLimit => Head(completed[h]) \in Results
    BY <2>1
  <2> QED BY <2>2 DEF Evicted, Results
<1>12. pl \in Seq(Ids) /\ fo \in SUBSET Ids /\ history \in Histories
  BY <1>2, <1>4, <1>11 DEF TypeOK, Histories
<1> HIDE DEF pl, fo
<1>13. /\ history' \in Histories /\ history'.armed = history.armed
       /\ history'.written = history.written /\ history'.placed = pl
       /\ history'.forgotten = fo
  BY <1>B, <1>12 DEF Histories
<1>14. /\ pending' \in [Hosts -> Incomings] /\ \A k \in Hosts \ {h} : pending'[k] = pending[k]
       /\ pending'[h] = IF done THEN NoIncoming ELSE q
  BY <1>A, <1>10, NoIncomingFacts DEF TypeOK
<1>15. CASE done
  <2>1. fo = history.forgotten \cup Evicted(h)
    BY <1>15 DEF fo
  <2>2. pending'[h] = NoIncoming /\ p.id # 0
    BY <1>7, <1>14, <1>15
  <2> USE <1>3, <1>4
  <2> WITNESS arrived \in SUBSET Devices, places \in BOOLEAN
  <2> QED BY <1>C, <1>5, <1>13, <1>14, <1>15, <2>1, <2>2 DEF pl
<1>16. CASE ~done
  <2>1. fo = history.forgotten
    BY <1>16 DEF fo
  <2>2. pending'[h] = q
    BY <1>14, <1>16
  <2> USE <1>3, <1>4
  <2> WITNESS arrived \in SUBSET Devices, places \in BOOLEAN
  <2> QED BY <1>C, <1>5, <1>8, <1>10, <1>13, <1>14, <1>16, <2>1, <2>2 DEF pl
<1> QED BY <1>15, <1>16
LEMMA AcceptedFacts ==
  ASSUME TypeOK, NEW h \in Hosts, CallAccepted(h)
  PROVE  \E m \in msgs :
           /\ m.kind = "accept" /\ m.id = send[h].id /\ m.window \in 0..ArmTimeout
           /\ msgs' = msgs \ Answers(send[h].id)
           /\ Continues(h)
           /\ send'[h].phase = IF m.window = 0 THEN "awaiting" ELSE "writing"
           /\ m.window # 0 => send'[h].age = send[h].age
           /\ send'[h].window = MinOf(m.window, MaxArmTimeout)
           /\ send'[h].wait = MinOf(m.window, MaxArmTimeout) + NetworkSlack
           /\ send'[h].started = send[h].started
<1>1. PICK m \in msgs :
        /\ m.kind = "accept" /\ m.id = send[h].id /\ msgs' = msgs \ Answers(m.id)
        /\ send' = [send EXCEPT ![h].phase = IF m.window = 0 THEN "awaiting" ELSE "writing",
                                ![h].switches = IF m.window = 0 THEN <<>> ELSE @,
                                ![h].age = IF m.window = 0 THEN 0 ELSE @,
                                ![h].window = MinOf(m.window, MaxArmTimeout),
                                ![h].wait = GiveUp(m.window)]
  BY DEF CallAccepted
<1> DEFINE w == m.window
<1>2. w \in 0..ArmTimeout
  BY <1>1, MessageFields DEF TypeOK
<1>3. send' = [send EXCEPT ![h].phase = IF w = 0 THEN "awaiting" ELSE "writing",
                           ![h].switches = IF w = 0 THEN <<>> ELSE @,
                           ![h].age = IF w = 0 THEN 0 ELSE @,
                           ![h].window = MinOf(w, MaxArmTimeout),
                           ![h].wait = GiveUp(w)]
  BY <1>1
<1> HIDE DEF w
<1>4. /\ Continues(h)
      /\ send'[h].phase = IF w = 0 THEN "awaiting" ELSE "writing"
      /\ w # 0 => send'[h].age = send[h].age
      /\ send'[h].window = MinOf(w, MaxArmTimeout)
      /\ send'[h].wait = MinOf(w, MaxArmTimeout) + NetworkSlack
      /\ send'[h].started = send[h].started
  BY <1>2, <1>3, AcceptedSend
<1> QED BY <1>1, <1>2, <1>4 DEF w

-----------------------------------------------------------------------------
(* Types.                                                                  *)

\* A write in progress is that of the first switch.
ApplyingHasSwitch ==
  \A h \in Hosts : send[h].phase = "applying" => send[h].switches # <<>>

Typed == TypeOK /\ ApplyingHasSwitch

\* Steps that change the sender tasks and the messages only.
LEMMA SenderFrame ==
  ASSUME TypeOK, send' \in [Hosts -> Senders], msgs' \subseteq Messages,
         UNCHANGED <<at, ordered, seen, running, pending, completed, outgoing, issued, faults,
                     history>>
  PROVE  TypeOK'
BY DEF TypeOK

LEMMA ApplyingKept ==
  ASSUME Typed, NEW h \in Hosts, OthersSend(h), send'[h].phase # "applying"
  PROVE  ApplyingHasSwitch'
BY DEF Typed, ApplyingHasSwitch, OthersSend

LEMMA InitTyped ==
  ASSUME Init
  PROVE  Typed
<1>1. TypeOK
  <2>1. seen \in [Hosts -> SUBSET Devices] /\ running \in [Hosts -> BOOLEAN]
    BY DEF Init
  <2>2. pending \in [Hosts -> Incomings] /\ send \in [Hosts -> Senders]
    BY NoIncomingFacts, IdleSenderFacts DEF Init
  <2>3. completed \in [Hosts -> Seq(Results)] /\ \A h \in Hosts : completed[h] = <<>>
    BY DEF Init
  <2>4. \A h \in Hosts : Len(completed[h]) <= CompletedLimit
    BY <2>3
  <2>5. outgoing \in [Hosts -> [id : Ids, taken : BOOLEAN]]
    BY DEF Init, NoOutgoing, Ids
  <2>6. issued \in Ids /\ faults \in 0..MaxFaults /\ history \in Histories
    BY DEF Init, Ids, Histories
  <2> QED BY <2>1, <2>2, <2>3, <2>4, <2>5, <2>6 DEF Init, TypeOK
<1>2. ApplyingHasSwitch
  BY IdleSenderFacts DEF Init, ApplyingHasSwitch
<1> QED BY <1>1, <1>2 DEF Typed

LEMMA TypedCrossed ==
  ASSUME Typed, NEW h \in Hosts, Crossed(h)
  PROVE  Typed'
<1>1. TypeOK
  BY DEF Typed
<1>2. /\ send' \in [Hosts -> Senders] /\ OthersSend(h) /\ send'[h].phase = "preparing"
  BY <1>1, CrossedSend
<1>3. issued' \in Ids /\ issued' = issued + 1
  BY <1>1 DEF TypeOK, Crossed, Ids
<1>4. outgoing' \in [Hosts -> [id : Ids, taken : BOOLEAN]]
  BY <1>1, <1>3 DEF TypeOK, Crossed
<1>5. TypeOK'
  BY <1>1, <1>2, <1>3, <1>4 DEF TypeOK, Crossed
<1> QED BY <1>2, <1>5, ApplyingKept DEF Typed

LEMMA TypedReport ==
  ASSUME Typed, NEW h \in Hosts, NEW r, Report(h, r),
         r \in {"not_started", "rejected", "cancelled", "no_result", "finished"},
         msgs' \subseteq Messages,
         UNCHANGED <<at, ordered, seen, running, pending, completed, outgoing, issued, faults,
                     history>>
  PROVE  Typed'
BY ReportSend, SenderFrame, ApplyingKept DEF Typed

\* The steps that end the task with a report.
LEMMA TypedReports ==
  ASSUME Typed, NEW h \in Hosts,
         NotStarted(h) \/ CallRejected(h) \/ CallFails(h) \/ AwaitEnds(h)
  PROVE  Typed'
<1>1. msgs \subseteq Messages /\ send[h].id \in Ids
  BY DEF Typed, TypeOK, Senders
<1>2. Cancel(h, send[h].id) \in Messages
  BY <1>1, MessageTypes
<1>3. CASE NotStarted(h)
  BY <1>1, <1>3, TypedReport DEF NotStarted
<1>4. CASE CallRejected(h)
  BY <1>1, <1>4, TypedReport DEF CallRejected
<1>5. CASE CallFails(h)
  BY <1>1, <1>2, <1>5, TypedReport DEF CallFails
<1>6. CASE AwaitEnds(h)
  BY <1>1, <1>6, TypedReport DEF AwaitEnds
<1> QED BY <1>3, <1>4, <1>5, <1>6

LEMMA TypedSender ==
  ASSUME Typed, NEW h \in Hosts,
         \/ Prepared(h) \/ CallAccepted(h) \/ SkipWrite(h) \/ EndWrite(h) \/ Settle(h)
         \/ Sent(h) \/ SenderAborted(h)
  PROVE  Typed'
<1>1. TypeOK /\ msgs \subseteq Messages /\ send[h] \in Senders /\ send[h].id \in Ids
  BY DEF Typed, TypeOK, Senders
<1>2. CASE Prepared(h)
  <2>1. Elements(send[h].switches) \in SUBSET Devices
    BY <1>1, ElementsType DEF Senders
  <2>2. Request(h, send[h].id, Elements(send[h].switches)) \in Messages
    BY <1>1, <2>1, MessageTypes
  <2>3. msgs' \subseteq Messages
    BY <1>1, <1>2, <2>2 DEF Prepared
  <2> QED BY <1>1, <1>2, <2>3, PreparedSend, SenderFrame, ApplyingKept
        DEF Typed, Prepared, Continues
<1>3. CASE CallAccepted(h)
  <2>1. PICK m \in msgs :
          /\ msgs' = msgs \ Answers(send[h].id) /\ Continues(h)
          /\ send'[h].phase = IF m.window = 0 THEN "awaiting" ELSE "writing"
    BY <1>1, <1>3, AcceptedFacts
  <2>2. msgs' \subseteq Messages /\ send'[h].phase # "applying"
    BY <1>1, <2>1
  <2> QED BY <1>1, <1>3, <2>1, <2>2, SenderFrame, ApplyingKept
        DEF Typed, CallAccepted, Continues
<1>4. CASE SkipWrite(h)
  BY <1>1, <1>4, SkipWriteSend, SenderFrame, ApplyingKept DEF Typed, SkipWrite, Continues
<1>5. CASE EndWrite(h)
  <2>1. send[h].switches # <<>>
    BY <1>5 DEF Typed, ApplyingHasSwitch, EndWrite
  <2> QED BY <1>1, <1>5, <2>1, EndWriteSend, SenderFrame, ApplyingKept
        DEF Typed, EndWrite, Continues
<1>6. CASE Settle(h)
  <2>1. CASE Report(h, "cancelled") /\ msgs' = msgs \cup {Cancel(h, send[h].id)}
    BY <1>1, <1>6, <2>1, TypedReport, MessageTypes DEF Settle
  <2>2. CASE Report(h, "no_result") /\ UNCHANGED msgs
    BY <1>1, <1>6, <2>2, TypedReport DEF Settle
  <2>3. CASE /\ send' = [send EXCEPT ![h].phase = "awaiting", ![h].age = 0, ![h].window = 0]
             /\ UNCHANGED msgs
    BY <1>1, <1>6, <2>3, AwaitSend, SenderFrame, ApplyingKept DEF Typed, Settle, Continues
  <2> QED BY <1>6, <2>1, <2>2, <2>3 DEF Settle
<1>7. CASE Sent(h)
  <2>1. /\ send' \in [Hosts -> Senders] /\ OthersSend(h) /\ send'[h].phase = "idle"
    BY <1>1, <1>7, IdleSend, IdleSenderFacts DEF Sent
  <2>2. outgoing' \in [Hosts -> [id : Ids, taken : BOOLEAN]]
    BY <1>1, <1>7 DEF TypeOK, Sent, NoOutgoing, Ids
  <2>3. TypeOK'
    BY <1>1, <1>7, <2>1, <2>2 DEF TypeOK, Sent
  <2> QED BY <2>1, <2>3, ApplyingKept DEF Typed
<1>8. CASE SenderAborted(h)
  BY <1>1, <1>8, IdleSend, IdleSenderFacts, SenderFrame, ApplyingKept DEF Typed, SenderAborted
<1> QED BY <1>2, <1>3, <1>4, <1>5, <1>6, <1>7, <1>8

LEMMA TypedBeginWrite ==
  ASSUME Typed, NEW h \in Hosts, BeginWrite(h)
  PROVE  /\ Typed' /\ Head(send[h].switches) \in Devices
         /\ history'.armed = history.armed /\ history'.forgotten = history.forgotten
         /\ history'.placed = history.placed
         /\ history'.written = history.written \cup {<<send[h].id, Head(send[h].switches)>>}
<1> DEFINE d == Head(send[h].switches)
<1>1. TypeOK /\ send[h].id \in Ids /\ send[h].switches \in Seq(Devices)
  BY DEF Typed, TypeOK, Senders
<1>2. d \in Devices /\ send[h].switches # <<>>
  BY <1>1 DEF BeginWrite
<1>3. /\ history' = [history EXCEPT !.written = @ \cup {<<send[h].id, d>>}]
      /\ ordered' = IF Here(h, d) THEN ordered \cup {d} ELSE ordered
      /\ UNCHANGED <<at, seen, running, pending, completed, outgoing, msgs, issued, faults>>
  BY DEF BeginWrite
<1> HIDE DEF d
<1>4. /\ history' \in Histories /\ history'.armed = history.armed
      /\ history'.forgotten = history.forgotten /\ history'.placed = history.placed
      /\ history'.written = history.written \cup {<<send[h].id, d>>}
  BY <1>1, <1>2, <1>3, WrittenHistory
<1>5. /\ send' \in [Hosts -> Senders] /\ OthersSend(h)
      /\ send'[h].switches = send[h].switches
  BY <1>1, BeginWriteSend DEF Continues
<1>6. TypeOK'
  BY <1>1, <1>2, <1>3, <1>4, <1>5 DEF TypeOK
<1>7. ApplyingHasSwitch'
  BY <1>2, <1>5 DEF Typed, ApplyingHasSwitch, OthersSend
<1> QED BY <1>2, <1>4, <1>6, <1>7 DEF Typed, d
LEMMA PendingAt ==
  ASSUME TypeOK, NEW h \in Hosts, NEW p \in Incomings, pending' = [pending EXCEPT ![h] = p]
  PROVE  /\ pending' \in [Hosts -> Incomings] /\ pending'[h] = p
         /\ \A k \in Hosts \ {h} : pending'[k] = pending[k]
BY DEF TypeOK

\* IncomingLedger::arm arms a transfer that it neither remembers nor holds.
Arms(h, m) ==
  /\ Remembered(h, m.id) = {} /\ pending[h].id = 0
  /\ pending' \in [Hosts -> Incomings]
  /\ \A k \in Hosts \ {h} : pending'[k] = pending[k]
  /\ pending'[h].id = m.id /\ pending'[h].left = ArmTimeout /\ ~pending'[h].placed
  /\ msgs' = (msgs \ {m}) \cup {Accept(Peer(h), m.id, ArmTimeout)}
  /\ history' \in Histories /\ history'.armed = history.armed \cup {m.id}
  /\ history'.forgotten = history.forgotten /\ history'.written = history.written
  /\ history'.placed = history.placed

LEMMA RequestFacts ==
  ASSUME TypeOK, NEW h \in Hosts, RequestArrives(h)
  PROVE  /\ UNCHANGED <<at, ordered, seen, running, completed, outgoing, send, issued, faults>>
         /\ \E m \in msgs :
              /\ running[h] /\ m.kind = "request" /\ m.to = h /\ m.id \in Ids
              /\ \/ \E i \in Remembered(h, m.id) :
                      /\ msgs' = (msgs \ {m}) \cup {Accept(Peer(h), m.id, 0),
                                                    Result(Peer(h), completed[h][i])}
                      /\ UNCHANGED <<pending, history>>
                 \/ /\ pending[h].id = m.id
                    /\ msgs' = (msgs \ {m}) \cup {Accept(Peer(h), m.id, pending[h].left)}
                    /\ UNCHANGED <<pending, history>>
                 \/ /\ msgs' = (msgs \ {m}) \cup {Reject(Peer(h), m.id)}
                    /\ UNCHANGED <<pending, history>>
                 \/ Arms(h, m)
<1>1. UNCHANGED <<at, ordered, seen, running, completed, outgoing, send, issued, faults>>
  BY DEF RequestArrives
<1>2. PICK m \in msgs :
        /\ running[h] /\ m.kind = "request" /\ m.to = h
        /\ \/ \E i \in Remembered(h, m.id) :
                /\ msgs' = (msgs \ {m}) \cup {Accept(Peer(h), m.id, 0),
                                              Result(Peer(h), completed[h][i])}
                /\ UNCHANGED <<pending, history>>
           \/ /\ pending[h].id = m.id
              /\ msgs' = (msgs \ {m}) \cup {Accept(Peer(h), m.id, pending[h].left)}
              /\ UNCHANGED <<pending, history>>
           \/ /\ msgs' = (msgs \ {m}) \cup {Reject(Peer(h), m.id)}
              /\ UNCHANGED <<pending, history>>
           \/ /\ Remembered(h, m.id) = {} /\ pending[h].id = 0
              /\ pending' = [pending EXCEPT ![h] =
                   [id |-> m.id, devices |-> m.devices, arrived |-> {},
                    left |-> ArmTimeout, placed |-> FALSE]]
              /\ msgs' = (msgs \ {m}) \cup {Accept(Peer(h), m.id, ArmTimeout)}
              /\ history' = [history EXCEPT !.armed = @ \cup {m.id}]
  BY Zenon DEF RequestArrives
<1>3. m.id \in Ids /\ m.devices \in SUBSET Devices
  BY <1>2, MessageFields DEF TypeOK
<1>4. ASSUME Remembered(h, m.id) = {}, pending[h].id = 0,
             pending' = [pending EXCEPT ![h] =
               [id |-> m.id, devices |-> m.devices, arrived |-> {},
                left |-> ArmTimeout, placed |-> FALSE]],
             msgs' = (msgs \ {m}) \cup {Accept(Peer(h), m.id, ArmTimeout)},
             history' = [history EXCEPT !.armed = @ \cup {m.id}]
      PROVE  Arms(h, m)
  <2> DEFINE p == [id |-> m.id, devices |-> m.devices, arrived |-> {},
                   left |-> ArmTimeout, placed |-> FALSE]
  <2>1. p \in Incomings /\ p.id = m.id /\ p.left = ArmTimeout /\ p.placed = FALSE
    BY <1>3 DEF Incomings
  <2>2. pending' = [pending EXCEPT ![h] = p]
    BY <1>4
  <2> HIDE DEF p
  <2>3. /\ pending' \in [Hosts -> Incomings] /\ pending'[h] = p
        /\ \A k \in Hosts \ {h} : pending'[k] = pending[k]
    BY <2>1, <2>2, PendingAt
  <2>4. /\ history' \in Histories /\ history'.armed = history.armed \cup {m.id}
        /\ history'.forgotten = history.forgotten /\ history'.written = history.written
        /\ history'.placed = history.placed
    BY <1>3, <1>4, ArmedHistory
  <2> QED BY <1>4, <2>1, <2>3, <2>4 DEF Arms
<1> QED BY <1>1, <1>2, <1>3, <1>4

LEMMA TypedRequest ==
  ASSUME Typed, NEW h \in Hosts, RequestArrives(h)
  PROVE  Typed'
<1>1. TypeOK /\ Peer(h) \in Hosts
  BY PeerFacts DEF Typed
<1>2. /\ UNCHANGED <<at, ordered, seen, running, completed, outgoing, send, issued, faults>>
  BY <1>1, RequestFacts
<1>3. PICK m \in msgs :
        /\ m.id \in Ids
        /\ \/ \E i \in Remembered(h, m.id) :
                /\ msgs' = (msgs \ {m}) \cup {Accept(Peer(h), m.id, 0),
                                              Result(Peer(h), completed[h][i])}
                /\ UNCHANGED <<pending, history>>
           \/ /\ pending[h].id = m.id
              /\ msgs' = (msgs \ {m}) \cup {Accept(Peer(h), m.id, pending[h].left)}
              /\ UNCHANGED <<pending, history>>
           \/ /\ msgs' = (msgs \ {m}) \cup {Reject(Peer(h), m.id)}
              /\ UNCHANGED <<pending, history>>
           \/ Arms(h, m)
  BY <1>1, RequestFacts
<1>4. \A i \in Remembered(h, m.id) : completed[h][i] \in Results
  BY <1>1, RememberedEntries
<1>5. pending[h].left \in 0..ArmTimeout /\ 0 \in 0..ArmTimeout /\ ArmTimeout \in 0..ArmTimeout
  BY <1>1, PendingFields
<1>6. /\ \A w \in 0..ArmTimeout : Accept(Peer(h), m.id, w) \in Messages
      /\ \A r \in Results : Result(Peer(h), r) \in Messages
      /\ Reject(Peer(h), m.id) \in Messages /\ msgs \subseteq Messages
  BY <1>1, <1>3, MessageTypes DEF TypeOK
<1>7. msgs' \subseteq Messages
  BY <1>3, <1>4, <1>5, <1>6 DEF Arms
<1>8. pending' \in [Hosts -> Incomings] /\ history' \in Histories
  BY <1>1, <1>3 DEF Arms, TypeOK
<1>9. TypeOK'
  BY <1>1, <1>2, <1>7, <1>8 DEF TypeOK
<1> QED BY <1>2, <1>9 DEF Typed, ApplyingHasSwitch

\* The ledger drops the armed transfer and remembers its result.
Closes(h, outcome, new) ==
  /\ pending' \in [Hosts -> Incomings] /\ pending'[h] = NoIncoming
  /\ \A k \in Hosts \ {h} : pending'[k] = pending[k]
  /\ completed' \in [Hosts -> Seq(Results)]
  /\ \A k \in Hosts : Len(completed'[k]) <= CompletedLimit
  /\ new \in Results /\ new.id = pending[h].id /\ new.outcome = outcome
  /\ \A k \in Hosts \ {h} : Entries(k)' = Entries(k)
  /\ Entries(h)' \subseteq Entries(h) \cup {new} /\ new \in Entries(h)'
  /\ \A e \in Entries(h) : e \in Entries(h)' \/ e.id \in Evicted(h)
  /\ Evicted(h) \subseteq Ids
  /\ history' \in Histories
  /\ history'.armed = history.armed /\ history'.written = history.written
  /\ history'.forgotten = history.forgotten \cup Evicted(h)

LEMMA RecordCloses ==
  ASSUME TypeOK, NEW h \in Hosts, NEW outcome, NEW arrived, Record(h, outcome, arrived),
         outcome \in {"none", "arrived", "partial", "timeout", "cancelled"},
         arrived \subseteq Devices,
         pending' \in [Hosts -> Incomings], pending'[h] = NoIncoming,
         \A k \in Hosts \ {h} : pending'[k] = pending[k],
         Evicted(h) \subseteq Ids => history' \in Histories,
         Evicted(h) \subseteq Ids => history'.armed = history.armed,
         Evicted(h) \subseteq Ids => history'.written = history.written,
         Evicted(h) \subseteq Ids => history'.forgotten = history.forgotten \cup Evicted(h)
  PROVE  Closes(h, outcome, [id |-> pending[h].id, outcome |-> outcome, arrived |-> arrived])
<1> DEFINE new == [id |-> pending[h].id, outcome |-> outcome, arrived |-> arrived]
<1>1. new.id = pending[h].id /\ new.outcome = outcome
  OBVIOUS
<1> HIDE DEF new
<1>2. new = [id |-> pending[h].id, outcome |-> outcome, arrived |-> arrived]
  BY DEF new
<1>3. /\ completed' \in [Hosts -> Seq(Results)]
      /\ \A k \in Hosts : Len(completed'[k]) <= CompletedLimit
      /\ \A k \in Hosts \ {h} : Entries(k)' = Entries(k)
      /\ Entries(h)' \subseteq Entries(h) \cup {new}
      /\ new \in Entries(h)' /\ new \in Results /\ Evicted(h) \subseteq Ids
      /\ \A e \in Entries(h) : e \in Entries(h)' \/ e.id \in Evicted(h)
  BY <1>2, RecordFacts
<1>4. Closes(h, outcome, new)
  BY <1>1, <1>3 DEF Closes
<1> QED BY <1>4 DEF new

LEMMA CancelFacts ==
  ASSUME TypeOK, NEW h \in Hosts, CancelArrives(h)
  PROVE  /\ UNCHANGED <<at, ordered, seen, running, outgoing, send, issued, faults>>
         /\ \E m \in msgs :
              /\ m.kind = "cancel" /\ m.to = h /\ msgs' = msgs \ {m}
              /\ \/ /\ pending[h].id = m.id /\ history'.placed = history.placed
                    /\ \E new : Closes(h, "cancelled", new)
                 \/ UNCHANGED <<pending, completed, history>>
<1>1. UNCHANGED <<at, ordered, seen, running, outgoing, send, issued, faults>>
  BY DEF CancelArrives
<1>2. PICK m \in msgs :
        /\ m.kind = "cancel" /\ m.to = h /\ msgs' = msgs \ {m}
        /\ \/ /\ pending[h].id = m.id /\ Record(h, "cancelled", {})
              /\ history' = [history EXCEPT !.forgotten = @ \cup Evicted(h)]
              /\ pending' = [pending EXCEPT ![h] = NoIncoming]
           \/ UNCHANGED <<pending, completed, history>>
  BY Zenon DEF CancelArrives
<1>3. CASE /\ pending[h].id = m.id /\ Record(h, "cancelled", {})
           /\ history' = [history EXCEPT !.forgotten = @ \cup Evicted(h)]
           /\ pending' = [pending EXCEPT ![h] = NoIncoming]
  <2>1. /\ pending' \in [Hosts -> Incomings] /\ pending'[h] = NoIncoming
        /\ \A k \in Hosts \ {h} : pending'[k] = pending[k]
    BY <1>3, PendingAt, NoIncomingFacts
  <2>2. Evicted(h) \subseteq Ids =>
          /\ history' \in Histories /\ history'.armed = history.armed
          /\ history'.forgotten = history.forgotten \cup Evicted(h)
          /\ history'.written = history.written
    BY <1>3, ForgottenHistory
  <2>3. history'.placed = history.placed
    BY <1>3 DEF TypeOK, Histories
  <2>4. /\ {} \subseteq Devices
        /\ "cancelled" \in {"none", "arrived", "partial", "timeout", "cancelled"}
    OBVIOUS
  <2>5. Closes(h, "cancelled", [id |-> pending[h].id, outcome |-> "cancelled", arrived |-> {}])
    BY <1>3, <2>1, <2>2, <2>4, RecordCloses
  <2> QED BY <1>1, <1>2, <1>3, <2>3, <2>5
<1> QED BY <1>1, <1>2, <1>3

LEMMA ExpireFacts ==
  ASSUME TypeOK, NEW h \in Hosts, Expire(h)
  PROVE  /\ UNCHANGED <<at, ordered, seen, running, outgoing, send, issued, faults>>
         /\ pending[h].id # 0 /\ pending[h].left = 0 /\ history'.placed = history.placed
         /\ \E outcome \in {"timeout", "partial"}, new \in Results :
              /\ Closes(h, outcome, new)
              /\ msgs' = msgs \cup {Result(Peer(h), new)}
<1> DEFINE outcome == IF pending[h].arrived = {} THEN "timeout" ELSE "partial"
           new == [id |-> pending[h].id, outcome |-> outcome, arrived |-> pending[h].arrived]
<1>1. /\ UNCHANGED <<at, ordered, seen, running, outgoing, send, issued, faults>>
      /\ pending[h].id # 0 /\ pending[h].left = 0
      /\ Record(h, outcome, pending[h].arrived)
      /\ pending' = [pending EXCEPT ![h] = NoIncoming]
      /\ history' = [history EXCEPT !.forgotten = @ \cup Evicted(h)]
      /\ msgs' = msgs \cup {Result(Peer(h), new)}
  BY DEF Expire, Expired
<1>2. outcome \in {"timeout", "partial"}
  OBVIOUS
<1>3. outcome \in {"none", "arrived", "partial", "timeout", "cancelled"}
      /\ pending[h].arrived \subseteq Devices
  BY <1>2, PendingFields
<1>4. /\ pending' \in [Hosts -> Incomings] /\ pending'[h] = NoIncoming
      /\ \A k \in Hosts \ {h} : pending'[k] = pending[k]
  BY <1>1, PendingAt, NoIncomingFacts
<1>5. Evicted(h) \subseteq Ids =>
        /\ history' \in Histories /\ history'.armed = history.armed
        /\ history'.forgotten = history.forgotten \cup Evicted(h)
        /\ history'.written = history.written
  BY <1>1, ForgottenHistory
<1>6. history'.placed = history.placed
  BY <1>1 DEF TypeOK, Histories
<1> HIDE DEF outcome
<1>7. Closes(h, outcome, new)
  BY <1>1, <1>3, <1>4, <1>5, RecordCloses
<1>8. new \in Results
  BY <1>7 DEF Closes
<1> HIDE DEF new
<1> QED BY <1>1, <1>2, <1>6, <1>7, <1>8

\* The same as InventoryFacts, with what the ledger does summed up.
LEMMA ObserveFacts ==
  ASSUME TypeOK, NEW h \in Hosts, InventoryChanged(h)
  PROVE  /\ UNCHANGED <<at, ordered, running, outgoing, send, issued, faults>>
         /\ seen' \in [Hosts -> SUBSET Devices]
         /\ \E places \in BOOLEAN :
              /\ places => pending[h].devices # {} /\ ~pending[h].placed
              /\ history'.placed = IF places THEN Append(history.placed, pending[h].id)
                                             ELSE history.placed
              /\ \/ /\ pending[h].id # 0
                    /\ \E new \in Results :
                         /\ Closes(h, "arrived", new)
                         /\ msgs' = msgs \cup {Result(Peer(h), new)}
                 \/ /\ pending' \in [Hosts -> Incomings]
                    /\ \A k \in Hosts \ {h} : pending'[k] = pending[k]
                    /\ pending'[h].id = pending[h].id /\ pending'[h].left = pending[h].left
                    /\ pending'[h].devices = pending[h].devices
                    /\ ~pending'[h].placed => ~pending[h].placed /\ ~places
                    /\ UNCHANGED <<completed, msgs>>
                    /\ history' \in Histories
                    /\ history'.armed = history.armed /\ history'.written = history.written
                    /\ history'.forgotten = history.forgotten
<1>1. /\ UNCHANGED <<at, ordered, running, outgoing, send, issued, faults>>
      /\ seen' \in [Hosts -> SUBSET Devices]
  BY DEF InventoryChanged, TypeOK
<1>2. PICK arrived \in SUBSET Devices, places \in BOOLEAN :
        /\ places => pending[h].devices # {} /\ ~pending[h].placed
        /\ history' \in Histories
        /\ history'.armed = history.armed /\ history'.written = history.written
        /\ history'.placed = IF places THEN Append(history.placed, pending[h].id)
                                       ELSE history.placed
        /\ pending' \in [Hosts -> Incomings]
        /\ \A k \in Hosts \ {h} : pending'[k] = pending[k]
        /\ \/ /\ pending[h].id # 0 /\ pending'[h] = NoIncoming
              /\ Record(h, "arrived", arrived)
              /\ msgs' = msgs \cup {Result(Peer(h), [id |-> pending[h].id,
                                       outcome |-> "arrived", arrived |-> arrived])}
              /\ history'.forgotten = history.forgotten \cup Evicted(h)
           \/ /\ pending'[h].id = pending[h].id /\ pending'[h].left = pending[h].left
              /\ pending'[h].devices = pending[h].devices
              /\ ~pending'[h].placed => ~pending[h].placed /\ ~places
              /\ UNCHANGED <<completed, msgs>>
              /\ history'.forgotten = history.forgotten
  BY InventoryFacts
<1> DEFINE new == [id |-> pending[h].id, outcome |-> "arrived", arrived |-> arrived]
<1>3. ASSUME pending'[h] = NoIncoming, Record(h, "arrived", arrived),
             history'.forgotten = history.forgotten \cup Evicted(h)
      PROVE  Closes(h, "arrived", new) /\ new \in Results
  <2>1. "arrived" \in {"none", "arrived", "partial", "timeout", "cancelled"}
    OBVIOUS
  <2>2. Closes(h, "arrived", new)
    BY <1>2, <1>3, <2>1, RecordCloses
  <2> HIDE DEF new
  <2> QED BY <2>2 DEF Closes
<1> HIDE DEF new
<1>4. CASE /\ pending[h].id # 0 /\ pending'[h] = NoIncoming
           /\ Record(h, "arrived", arrived) /\ msgs' = msgs \cup {Result(Peer(h), new)}
           /\ history'.forgotten = history.forgotten \cup Evicted(h)
  BY <1>1, <1>2, <1>3, <1>4
<1>5. CASE /\ pending'[h].id = pending[h].id /\ pending'[h].left = pending[h].left
           /\ pending'[h].devices = pending[h].devices
           /\ ~pending'[h].placed => ~pending[h].placed /\ ~places
           /\ UNCHANGED <<completed, msgs>>
           /\ history'.forgotten = history.forgotten
  BY <1>1, <1>2, <1>5
<1> QED BY <1>2, <1>4, <1>5 DEF new

LEMMA ResultFacts ==
  ASSUME TypeOK, NEW h \in Hosts, ResultArrives(h)
  PROVE  /\ UNCHANGED <<at, ordered, seen, running, pending, completed, issued, faults, history>>
         /\ send' \in [Hosts -> Senders]
         /\ outgoing' \in [Hosts -> [id : Ids, taken : BOOLEAN]]
         /\ \A k \in Hosts : outgoing'[k].id = outgoing[k].id
         /\ \A k \in Hosts :
              /\ send'[k].phase = send[k].phase /\ send'[k].id = send[k].id
              /\ send'[k].report = send[k].report /\ send'[k].started = send[k].started
              /\ send'[k].age = send[k].age /\ send'[k].window = send[k].window
              /\ send'[k].wait = send[k].wait /\ send'[k].switches = send[k].switches
         /\ msgs' \subseteq msgs
         /\ \E m \in msgs :
              /\ m.kind = "result" /\ running[h]
              /\ \A k \in Hosts :
                   \/ send'[k].result = send[k].result
                   \/ k = h /\ outgoing[h].id = m.result.id /\ send'[h].result = m.result
<1>1. UNCHANGED <<at, ordered, seen, running, pending, completed, issued, faults, history>>
  BY DEF ResultArrives
<1>2. PICK m \in msgs :
        /\ running[h] /\ m.kind = "result" /\ msgs' = msgs \ {m}
        /\ \/ /\ outgoing[h].id = m.result.id
              /\ outgoing' = [outgoing EXCEPT ![h].taken = TRUE]
              /\ send' = [send EXCEPT ![h].result = m.result]
           \/ UNCHANGED <<outgoing, send>>
  BY Zenon DEF ResultArrives, Awaits
<1>3. m.result \in Results
  BY <1>2, MessageFields DEF TypeOK
<1>4. CASE /\ outgoing[h].id = m.result.id
           /\ outgoing' = [outgoing EXCEPT ![h].taken = TRUE]
           /\ send' = [send EXCEPT ![h].result = m.result]
  <2>1. /\ send' \in [Hosts -> Senders] /\ OthersSend(h)
        /\ send'[h].phase = send[h].phase /\ send'[h].id = send[h].id
        /\ send'[h].result = m.result /\ send'[h].report = send[h].report
        /\ send'[h].started = send[h].started /\ send'[h].age = send[h].age
        /\ send'[h].window = send[h].window /\ send'[h].wait = send[h].wait
        /\ send'[h].switches = send[h].switches
    BY <1>3, <1>4, ResultSend
  <2>2. outgoing' \in [Hosts -> [id : Ids, taken : BOOLEAN]]
        /\ \A k \in Hosts : outgoing'[k].id = outgoing[k].id
    <3> DEFINE q == outgoing[h]
               o == [q EXCEPT !.taken = TRUE]
    <3>1. q \in [id : Ids, taken : BOOLEAN]
      BY DEF TypeOK
    <3>2. outgoing' = [outgoing EXCEPT ![h] = o]
      BY <1>4
    <3> HIDE DEF q
    <3>3. o \in [id : Ids, taken : BOOLEAN] /\ o.id = q.id
      BY <3>1
    <3> HIDE DEF o
    <3> QED BY <3>2, <3>3 DEF TypeOK, q
  <2>3. \A k \in Hosts \ {h} : send'[k] = send[k]
    BY <2>1 DEF OthersSend
  <2> QED BY <1>1, <1>2, <1>4, <2>1, <2>2, <2>3
<1>5. CASE UNCHANGED <<outgoing, send>>
  BY <1>1, <1>2, <1>5 DEF TypeOK
<1> QED BY <1>2, <1>4, <1>5

LEMMA StopFacts ==
  ASSUME TypeOK, NEW h \in Hosts, StopGeneration(h)
  PROVE  /\ UNCHANGED <<at, ordered, seen, send, issued>> /\ msgs' \subseteq msgs
         /\ faults' \in 0..MaxFaults
         /\ running' \in [Hosts -> BOOLEAN] /\ ~running'[h]
         /\ pending' \in [Hosts -> Incomings] /\ pending'[h] = NoIncoming
         /\ completed' \in [Hosts -> Seq(Results)] /\ completed'[h] = <<>>
         /\ outgoing' \in [Hosts -> [id : Ids, taken : BOOLEAN]] /\ outgoing'[h].id = 0
         /\ \A k \in Hosts \ {h} :
              /\ running'[k] = running[k] /\ pending'[k] = pending[k]
              /\ completed'[k] = completed[k] /\ outgoing'[k] = outgoing[k]
         /\ history' \in Histories
         /\ history'.armed = history.armed /\ history'.written = history.written
         /\ history'.placed = history.placed
         /\ history'.forgotten =
              history.forgotten \cup {pending[h].id} \cup {e.id : e \in Entries(h)}
<1> DEFINE lost == {pending[h].id} \cup {completed[h][i].id : i \in DOMAIN completed[h]}
<1>1. completed[h] \in Seq(Results) /\ DOMAIN completed[h] = 1..Len(completed[h])
  BY DEF TypeOK
<1>2. \A i \in DOMAIN completed[h] : completed[h][i] \in Results
  BY <1>1
<1>3. {completed[h][i].id : i \in DOMAIN completed[h]} = {e.id : e \in Entries(h)}
  BY <1>1 DEF Entries
<1>4. lost \in SUBSET Ids
  BY <1>2, PendingFields DEF Results
<1>5. history' = [history EXCEPT !.forgotten = @ \cup lost]
  <2>1. history' = [history EXCEPT !.forgotten =
          history.forgotten \cup {pending[h].id} \cup {completed[h][i].id : i \in DOMAIN completed[h]}]
    BY DEF StopGeneration
  <2>2. history.forgotten \cup {pending[h].id} \cup {completed[h][i].id : i \in DOMAIN completed[h]}
          = history.forgotten \cup lost
    OBVIOUS
  <2> QED BY <2>1, <2>2
<1> HIDE DEF lost
<1>6. /\ history' \in Histories /\ history'.armed = history.armed
      /\ history'.forgotten = history.forgotten \cup lost
      /\ history'.written = history.written /\ history'.placed = history.placed
  BY <1>4, <1>5, ForgottenHistory
<1>7. /\ pending' \in [Hosts -> Incomings] /\ pending'[h] = NoIncoming
      /\ \A k \in Hosts \ {h} : pending'[k] = pending[k]
  BY PendingAt, NoIncomingFacts DEF StopGeneration
<1>8. /\ running' \in [Hosts -> BOOLEAN] /\ ~running'[h]
      /\ \A k \in Hosts \ {h} : running'[k] = running[k]
  BY DEF StopGeneration, TypeOK
<1>9. /\ completed' \in [Hosts -> Seq(Results)] /\ completed'[h] = <<>>
      /\ \A k \in Hosts \ {h} : completed'[k] = completed[k]
  BY DEF StopGeneration, TypeOK
<1>10. /\ outgoing' \in [Hosts -> [id : Ids, taken : BOOLEAN]] /\ outgoing'[h].id = 0
       /\ \A k \in Hosts \ {h} : outgoing'[k] = outgoing[k]
  BY DEF StopGeneration, TypeOK, NoOutgoing, Ids
<1>11. /\ UNCHANGED <<at, ordered, seen, send, issued>>
       /\ msgs' \subseteq msgs
       /\ faults' \in 0..MaxFaults
  BY DEF StopGeneration, InboundDropped, TypeOK
<1> QED BY <1>3, <1>6, <1>7, <1>8, <1>9, <1>10, <1>11 DEF lost

LEMMA TypedReceiver ==
  ASSUME Typed, NEW h \in Hosts,
         CancelArrives(h) \/ InventoryChanged(h) \/ Expire(h) \/ ResultArrives(h)
  PROVE  Typed'
<1>1. TypeOK /\ Peer(h) \in Hosts /\ msgs \subseteq Messages /\ 0 \in Ids
  BY PeerFacts DEF Typed, TypeOK, Ids
<1>2. \A r \in Results : Result(Peer(h), r) \in Messages
  BY <1>1, MessageTypes
<1>3. CASE CancelArrives(h)
  <2>1. UNCHANGED <<at, ordered, seen, running, outgoing, send, issued, faults>>
    BY <1>1, <1>3, CancelFacts
  <2>2. /\ msgs' \subseteq msgs /\ pending' \in [Hosts -> Incomings]
        /\ completed' \in [Hosts -> Seq(Results)]
        /\ \A k \in Hosts : Len(completed'[k]) <= CompletedLimit
        /\ history' \in Histories
    BY <1>1, <1>3, CancelFacts DEF Closes, TypeOK
  <2>3. TypeOK'
    BY <1>1, <2>1, <2>2 DEF TypeOK
  <2> QED BY <2>1, <2>3 DEF Typed, ApplyingHasSwitch
<1>4. CASE InventoryChanged(h)
  <2>1. /\ UNCHANGED <<at, ordered, running, outgoing, send, issued, faults>>
        /\ seen' \in [Hosts -> SUBSET Devices]
    BY <1>1, <1>4, ObserveFacts
  <2>2. \/ \E new \in Results : Closes(h, "arrived", new) /\ msgs' = msgs \cup {Result(Peer(h), new)}
        \/ /\ pending' \in [Hosts -> Incomings] /\ UNCHANGED <<completed, msgs>>
           /\ history' \in Histories
    BY <1>1, <1>4, ObserveFacts
  <2>3. /\ msgs' \subseteq Messages /\ pending' \in [Hosts -> Incomings]
        /\ completed' \in [Hosts -> Seq(Results)]
        /\ \A k \in Hosts : Len(completed'[k]) <= CompletedLimit
        /\ history' \in Histories
    BY <1>1, <1>2, <2>2 DEF Closes, TypeOK
  <2>4. TypeOK'
    BY <1>1, <2>1, <2>3 DEF TypeOK
  <2> QED BY <2>1, <2>4 DEF Typed, ApplyingHasSwitch
<1>5. CASE Expire(h)
  <2>1. UNCHANGED <<at, ordered, seen, running, outgoing, send, issued, faults>>
    BY <1>1, <1>5, ExpireFacts
  <2>2. PICK outcome \in {"timeout", "partial"}, new \in Results :
          Closes(h, outcome, new) /\ msgs' = msgs \cup {Result(Peer(h), new)}
    BY <1>1, <1>5, ExpireFacts
  <2>3. TypeOK'
    BY <1>1, <1>2, <2>1, <2>2 DEF Closes, TypeOK
  <2> QED BY <2>1, <2>3 DEF Typed, ApplyingHasSwitch
<1>6. CASE ResultArrives(h)
  <2>1. /\ UNCHANGED <<at, ordered, seen, running, pending, completed, issued, faults, history>>
        /\ send' \in [Hosts -> Senders]
        /\ outgoing' \in [Hosts -> [id : Ids, taken : BOOLEAN]]
        /\ \A k \in Hosts : send'[k].phase = send[k].phase /\ send'[k].switches = send[k].switches
        /\ msgs' \subseteq msgs
    BY <1>1, <1>6, ResultFacts
  <2>2. TypeOK'
    BY <1>1, <2>1 DEF TypeOK
  <2> QED BY <2>1, <2>2 DEF Typed, ApplyingHasSwitch
<1> QED BY <1>3, <1>4, <1>5, <1>6

LEMMA TypedGeneration ==
  ASSUME Typed, NEW h \in Hosts, StopGeneration(h) \/ StartGeneration(h) \/ Retransmit(h)
  PROVE  Typed'
<1>1. TypeOK /\ msgs \subseteq Messages /\ send[h] \in Senders /\ send[h].id \in Ids
  BY DEF Typed, TypeOK, Senders
<1>2. CASE StopGeneration(h)
  <2>1. /\ UNCHANGED <<at, ordered, seen, send, issued>> /\ msgs' \subseteq msgs
        /\ faults' \in 0..MaxFaults /\ running' \in [Hosts -> BOOLEAN]
        /\ pending' \in [Hosts -> Incomings] /\ completed' \in [Hosts -> Seq(Results)]
        /\ completed'[h] = <<>> /\ \A k \in Hosts \ {h} : completed'[k] = completed[k]
        /\ outgoing' \in [Hosts -> [id : Ids, taken : BOOLEAN]] /\ history' \in Histories
    BY <1>1, <1>2, StopFacts
  <2>2. Len(completed'[h]) = 0 /\ 0 <= CompletedLimit
    BY <2>1
  <2>3. \A k \in Hosts : Len(completed'[k]) <= CompletedLimit
    BY <1>1, <2>1, <2>2 DEF TypeOK
  <2>4. TypeOK'
    BY <1>1, <2>1, <2>3 DEF TypeOK
  <2> QED BY <2>1, <2>4 DEF Typed, ApplyingHasSwitch
<1>3. CASE StartGeneration(h)
  <2>1. TypeOK'
    BY <1>1, <1>3 DEF TypeOK, StartGeneration, InboundDropped
  <2> QED BY <1>3, <2>1 DEF Typed, ApplyingHasSwitch, StartGeneration
<1>4. CASE Retransmit(h)
  <2>1. Elements(send[h].switches) \in SUBSET Devices
    BY <1>1, ElementsType DEF Senders
  <2>2. Request(h, send[h].id, Elements(send[h].switches)) \in Messages
    BY <1>1, <2>1, MessageTypes
  <2>3. msgs' \subseteq Messages /\ faults' \in 0..MaxFaults
    BY <1>1, <1>4, <2>2 DEF Retransmit, TypeOK
  <2>4. TypeOK'
    BY <1>1, <1>4, <2>3 DEF TypeOK, Retransmit
  <2> QED BY <1>4, <2>4 DEF Typed, ApplyingHasSwitch, Retransmit
<1> QED BY <1>2, <1>3, <1>4

\* A device's own moves change only where it is.
DeviceStep == \E d \in Devices : DeviceLeaves(d) \/ DeviceStays(d) \/ UserMoves(d)

LEMMA DeviceFrame ==
  ASSUME DeviceStep
  PROVE  UNCHANGED <<seen, running, pending, completed, outgoing, send, msgs, issued, history>>
BY DEF DeviceStep, DeviceLeaves, DeviceStays, UserMoves

LEMMA TypedWorld ==
  ASSUME Typed, DeviceStep \/ Tick \/ UNCHANGED vars
  PROVE  Typed'
<1>1. TypeOK
  BY DEF Typed
<1>2. CASE DeviceStep
  <2>1. at' \in [Devices -> Hosts] /\ ordered' \subseteq Devices /\ faults' \in 0..MaxFaults
    BY <1>1, <1>2, PeerFacts DEF TypeOK, DeviceStep, DeviceLeaves, DeviceStays, UserMoves
  <2>2. TypeOK'
    BY <1>1, <1>2, <2>1, DeviceFrame DEF TypeOK
  <2> QED BY <1>2, <2>2, DeviceFrame DEF Typed, ApplyingHasSwitch
<1>3. CASE Tick
  <2>1. TypeOK'
    BY <1>1, <1>3, TickFields DEF TypeOK, Tick
  <2> QED BY <1>1, <1>3, <2>1, TickFields DEF Typed, ApplyingHasSwitch
<1>4. CASE UNCHANGED vars
  BY <1>4 DEF Typed, TypeOK, ApplyingHasSwitch, vars
<1> QED BY <1>2, <1>3, <1>4

LEMMA NextTyped ==
  ASSUME Typed, [Next]_vars
  PROVE  Typed'
<1>1. ASSUME NEW h \in Hosts, SenderStep(h)
      PROVE  Typed'
  BY <1>1, TypedReports, TypedSender, TypedBeginWrite DEF SenderStep
<1>2. ASSUME NEW h \in Hosts, ActorStep(h)
      PROVE  Typed'
  BY <1>2, TypedCrossed, TypedRequest, TypedReceiver DEF ActorStep
<1>3. ASSUME NEW h \in Hosts, StopGeneration(h) \/ StartGeneration(h) \/ Retransmit(h)
      PROVE  Typed'
  BY <1>3, TypedGeneration
<1>4. CASE DeviceStep \/ Tick \/ UNCHANGED vars
  BY <1>4, TypedWorld
<1> QED BY <1>1, <1>2, <1>3, <1>4 DEF Next, DeviceStep

\* Every variable keeps its type, whatever the hosts, the devices and the
\* network do: the timers stay within their windows (handoff.rs) and the
\* ledger within COMPLETED_LIMIT.
THEOREM TypeCorrect == Spec => []TypeOK
<1>1. Init => Typed
  BY InitTyped
<1>2. Typed /\ [Next]_vars => Typed'
  BY NextTyped
<1>3. Typed => TypeOK
  BY DEF Typed
<1> QED BY <1>1, <1>2, <1>3, PTL DEF Spec
-----------------------------------------------------------------------------
(* Transfer ids: each has one sender and one receiver.                     *)

Live(h) == send[h].phase # "idle"

\* What there is of transfer i at or on its way to the receiver h.
Traced(i, h) ==
  \/ \E m \in msgs : m.kind \in {"request", "cancel"} /\ m.id = i /\ m.to = h
  \/ pending[h].id = i
  \/ \E e \in Entries(h) : e.id = i
  \/ Live(Peer(h)) /\ send[Peer(h)].id = i

\* A number that was not given yet is nowhere.
IdsAreIssued ==
  /\ \A h \in Hosts : Live(h) => send[h].id \in 1..issued
  /\ \A m \in msgs : m.kind # "result" => m.id \in 1..issued
  /\ \A m \in msgs : m.kind = "result" => m.result.id \in 1..issued
  /\ \A h \in Hosts : pending[h].id \in 0..issued
  /\ \A h \in Hosts : \A e \in Entries(h) : e.id \in 1..issued
  /\ history.armed \subseteq 1..issued
  /\ \A w \in history.written : w[1] \in 1..issued

OneReceiver ==
  \A i \in 1..issued : \A h, k \in Hosts : Traced(i, h) /\ Traced(i, k) => h = k

SenderIsOutgoing ==
  \A h \in Hosts : outgoing[h].id = IF running[h] /\ Live(h) THEN send[h].id ELSE 0

ResultIsOwn ==
  \A h \in Hosts : send[h].result # NoResult => send[h].result.id = send[h].id

Numbered == Typed /\ IdsAreIssued /\ OneReceiver /\ SenderIsOutgoing /\ ResultIsOwn

\* The step names no transfer that was not at the same receiver before.
Copies ==
  /\ issued' = issued
  /\ \A h \in Hosts : send'[h].phase # "idle" => Live(h) /\ send'[h].id = send[h].id
  /\ \A m \in msgs' \ msgs :
       /\ m.kind \in {"request", "accept", "reject", "cancel", "result"}
       /\ m.kind \in {"request", "cancel"} =>
            \E h \in Hosts : Live(h) /\ m.id = send[h].id /\ m.to = Peer(h)
       /\ m.kind \in {"accept", "reject"} => m.id \in 1..issued
       /\ m.kind = "result" => m.result.id \in 1..issued
  /\ \A h \in Hosts :
       \/ pending'[h].id \in {0, pending[h].id}
       \/ \E m \in msgs : m.kind = "request" /\ m.to = h /\ m.id = pending'[h].id
  /\ \A h \in Hosts : \A e \in Entries(h)' :
       e \in Entries(h) \/ (e.id = pending[h].id /\ e.id # 0)
  /\ history'.armed \subseteq history.armed \cup (1..issued)
  /\ \A w \in history'.written : w \in history.written \/ w[1] \in 1..issued

LEMMA CopiesKeepsIds ==
  ASSUME Typed, IdsAreIssued, OneReceiver, Copies
  PROVE  IdsAreIssued' /\ OneReceiver'
<1>1. issued \in Nat /\ \A h \in Hosts : pending[h].id \in Nat /\ Peer(h) \in Hosts
  BY PendingFields, PeerFacts DEF Typed, TypeOK, Ids
<1>2. \A h \in Hosts : Live(h)' => send'[h].id \in 1..issued
  BY DEF Copies, IdsAreIssued, Live
<1>3. /\ \A m \in msgs' : m.kind # "result" => m.id \in 1..issued
      /\ \A m \in msgs' : m.kind = "result" => m.result.id \in 1..issued
  BY DEF Copies, IdsAreIssued
<1>4. \A h \in Hosts : pending'[h].id \in 0..issued
  BY <1>1 DEF Copies, IdsAreIssued
<1>5. \A h \in Hosts : \A e \in Entries(h)' : e.id \in 1..issued
  BY <1>1 DEF Copies, IdsAreIssued
<1>6. history'.armed \subseteq 1..issued /\ \A w \in history'.written : w[1] \in 1..issued
  BY DEF Copies, IdsAreIssued
<1>7. issued' = issued
  BY DEF Copies
<1>8. IdsAreIssued'
  BY <1>2, <1>3, <1>4, <1>5, <1>6, <1>7 DEF IdsAreIssued
<1>9. ASSUME NEW i \in 1..issued, NEW h \in Hosts, Traced(i, h)'
      PROVE  Traced(i, h)
  <2>1. CASE \E m \in msgs' : m.kind \in {"request", "cancel"} /\ m.id = i /\ m.to = h
    BY <2>1, PeerFacts DEF Copies, Traced
  <2>2. CASE pending'[h].id = i
    BY <2>2 DEF Copies, Traced
  <2>3. CASE \E e \in Entries(h)' : e.id = i
    BY <2>3 DEF Copies, Traced
  <2>4. CASE send'[Peer(h)].phase # "idle" /\ send'[Peer(h)].id = i
    BY <1>1, <2>4 DEF Copies, Traced
  <2> QED BY <1>9, <2>1, <2>2, <2>3, <2>4 DEF Traced, Live
<1> QED BY <1>7, <1>8, <1>9 DEF OneReceiver

\* Steps of a sender task.
LEMMA CopiesSend ==
  ASSUME UNCHANGED <<pending, completed, issued, history>>,
         \A h \in Hosts : send'[h].phase # "idle" => Live(h) /\ send'[h].id = send[h].id,
         msgs' \subseteq msgs
           \/ \E h \in Hosts : /\ Live(h)
                               /\ \A m \in msgs' \ msgs :
                                    \/ m = Cancel(h, send[h].id)
                                    \/ \E D : m = Request(h, send[h].id, D)
  PROVE  Copies
<1>1. \A h \in Hosts : Entries(h)' = Entries(h)
  BY DEF Entries
<1> QED BY <1>1, MadeFields DEF Copies
\* What the sender task at h does when it neither starts nor is removed.
LEMMA SenderStepFacts ==
  ASSUME Typed, NEW h \in Hosts, SenderStep(h)
  PROVE  /\ OthersSend(h) /\ UNCHANGED <<running, pending, completed, issued>>
         /\ Live(h)
         /\ \/ /\ send'[h] = IdleSender
               /\ Sent(h) \/ SenderAborted(h)
            \/ /\ send'[h].phase # "idle" /\ send'[h].id = send[h].id
               /\ send'[h].result = send[h].result /\ outgoing' = outgoing
         /\ msgs' \subseteq msgs
              \/ \A m \in msgs' \ msgs :
                   \/ m = Cancel(h, send[h].id)
                   \/ \E D : m = Request(h, send[h].id, D)
<1>1. TypeOK
  BY DEF Typed
<1>2. CASE NotStarted(h)
  BY <1>1, <1>2, ReportSend DEF NotStarted, Live
<1>3. CASE Prepared(h)
  BY <1>1, <1>3, PreparedSend DEF Prepared, Continues, Live
<1>4. CASE CallRejected(h)
  BY <1>1, <1>4, ReportSend DEF CallRejected, Live
<1>5. CASE CallAccepted(h)
  BY <1>1, <1>5, AcceptedFacts DEF CallAccepted, Continues, Live
<1>6. CASE CallFails(h)
  BY <1>1, <1>6, ReportSend DEF CallFails, Live
<1>7. CASE BeginWrite(h)
  BY <1>1, <1>7, BeginWriteSend DEF BeginWrite, Continues, Live
<1>8. CASE SkipWrite(h)
  BY <1>1, <1>8, SkipWriteSend DEF SkipWrite, Continues, Live
<1>9. CASE EndWrite(h)
  <2>1. send[h].switches # <<>>
    BY <1>9 DEF Typed, ApplyingHasSwitch, EndWrite
  <2> QED BY <1>1, <1>9, <2>1, EndWriteSend DEF EndWrite, Continues, Live
<1>10. CASE Settle(h)
  <2>1. CASE Report(h, "cancelled") /\ msgs' = msgs \cup {Cancel(h, send[h].id)}
    BY <1>1, <1>10, <2>1, ReportSend DEF Settle, Live
  <2>2. CASE Report(h, "no_result") /\ UNCHANGED msgs
    BY <1>1, <1>10, <2>2, ReportSend DEF Settle, Live
  <2>3. CASE /\ send' = [send EXCEPT ![h].phase = "awaiting", ![h].age = 0, ![h].window = 0]
             /\ UNCHANGED msgs
    BY <1>1, <1>10, <2>3, AwaitSend DEF Settle, Continues, Live
  <2> QED BY <1>10, <2>1, <2>2, <2>3 DEF Settle
<1>11. CASE AwaitEnds(h)
  BY <1>1, <1>11, ReportSend DEF AwaitEnds, Live
<1>12. CASE Sent(h)
  BY <1>1, <1>12, IdleSend DEF Sent, Live
<1>13. CASE SenderAborted(h)
  BY <1>1, <1>13, IdleSend DEF SenderAborted, Live
<1> QED BY <1>2, <1>3, <1>4, <1>5, <1>6, <1>7, <1>8, <1>9, <1>10, <1>11, <1>12, <1>13
      DEF SenderStep

LEMMA CopiesSender ==
  ASSUME Numbered, NEW h \in Hosts, SenderStep(h)
  PROVE  Copies
<1>1. Typed /\ Live(h) /\ send[h].id \in 1..issued
  BY SenderStepFacts DEF Numbered, IdsAreIssued
<1>2. UNCHANGED <<pending, completed, issued>>
  BY <1>1, SenderStepFacts
<1>3. \A k \in Hosts : send'[k].phase # "idle" => Live(k) /\ send'[k].id = send[k].id
  BY <1>1, SenderStepFacts, IdleSenderFacts DEF OthersSend, Live
<1>4. \A k \in Hosts : Entries(k)' = Entries(k)
  BY <1>2 DEF Entries
<1>5. \A m \in msgs' \ msgs :
        \/ m = Cancel(h, send[h].id)
        \/ \E D : m = Request(h, send[h].id, D)
  BY <1>1, SenderStepFacts
<1>6. /\ history'.armed = history.armed
      /\ \A w \in history'.written : w \in history.written \/ w[1] \in 1..issued
  <2>1. CASE BeginWrite(h)
    BY <1>1, <2>1, TypedBeginWrite
  <2>2. CASE ~BeginWrite(h)
    <3>1. history' = history
      BY <2>2 DEF SenderStep, NotStarted, Prepared, CallRejected, CallAccepted, CallFails,
                  SkipWrite, EndWrite, Settle, AwaitEnds, Sent, SenderAborted
    <3> QED BY <3>1
  <2> QED BY <2>1, <2>2
<1> QED BY <1>1, <1>2, <1>3, <1>4, <1>5, <1>6, MadeFields DEF Copies

LEMMA CopiesRequest ==
  ASSUME Numbered, NEW h \in Hosts, RequestArrives(h)
  PROVE  Copies
<1>1. TypeOK /\ IdsAreIssued /\ Peer(h) \in Hosts
  BY PeerFacts DEF Numbered, Typed
<1>2. UNCHANGED <<running, completed, outgoing, send, issued>>
  BY <1>1, RequestFacts
<1>3. PICK m \in msgs :
        /\ m.kind = "request" /\ m.to = h
        /\ \/ \E i \in Remembered(h, m.id) :
                /\ msgs' = (msgs \ {m}) \cup {Accept(Peer(h), m.id, 0),
                                              Result(Peer(h), completed[h][i])}
                /\ UNCHANGED <<pending, history>>
           \/ /\ pending[h].id = m.id
              /\ msgs' = (msgs \ {m}) \cup {Accept(Peer(h), m.id, pending[h].left)}
              /\ UNCHANGED <<pending, history>>
           \/ /\ msgs' = (msgs \ {m}) \cup {Reject(Peer(h), m.id)}
              /\ UNCHANGED <<pending, history>>
           \/ Arms(h, m)
  BY <1>1, RequestFacts
<1>4. m.id \in 1..issued
  BY <1>1, <1>3 DEF IdsAreIssued
<1>5. \A i \in Remembered(h, m.id) : completed[h][i].id = m.id
  BY DEF Remembered
<1>6. \A x \in msgs' \ msgs :
        /\ x.kind \in {"accept", "reject", "result"}
        /\ x.kind \in {"accept", "reject"} => x.id = m.id
        /\ x.kind = "result" => x.result.id = m.id
  BY <1>3, <1>5, MadeFields DEF Arms
<1>7. \A k \in Hosts : pending'[k].id = pending[k].id \/ (k = h /\ pending'[k].id = m.id)
  BY <1>3 DEF Arms
<1>8. history'.armed \subseteq history.armed \cup {m.id} /\ history'.written = history.written
  BY <1>3 DEF Arms
<1>9. \A k \in Hosts : Entries(k)' = Entries(k)
  BY <1>2 DEF Entries
<1> QED BY <1>2, <1>3, <1>4, <1>6, <1>7, <1>8, <1>9 DEF Copies, Live

\* Closing a transfer names it again in the ledger and in its result.
LEMMA CopiesCloses ==
  ASSUME Numbered, NEW h \in Hosts, NEW outcome, NEW new, Closes(h, outcome, new),
         pending[h].id # 0, UNCHANGED <<send, issued>>,
         \A m \in msgs' \ msgs : m = Result(Peer(h), new)
  PROVE  Copies
<1>1. TypeOK /\ IdsAreIssued /\ issued \in Nat
  BY DEF Numbered, Typed, TypeOK, Ids
<1>2. pending[h].id \in 1..issued /\ new.id = pending[h].id
  BY <1>1 DEF IdsAreIssued, Closes
<1>3. \A m \in msgs' \ msgs : m.kind = "result" /\ m.result = new
  BY MadeFields
<1>4. \A k \in Hosts : pending'[k].id \in {0, pending[k].id}
  BY NoIncomingFacts DEF Closes
<1>5. \A k \in Hosts : \A e \in Entries(k)' : e \in Entries(k) \/ (k = h /\ e = new)
  BY DEF Closes
<1>6. history'.armed = history.armed /\ history'.written = history.written
  BY DEF Closes
<1> QED BY <1>2, <1>3, <1>4, <1>5, <1>6 DEF Copies, Live

LEMMA CopiesReceiver ==
  ASSUME Numbered, NEW h \in Hosts,
         CancelArrives(h) \/ InventoryChanged(h) \/ Expire(h) \/ ResultArrives(h)
  PROVE  Copies
<1>1. TypeOK /\ IdsAreIssued /\ issued \in Nat
  BY DEF Numbered, Typed, TypeOK, Ids
<1>2. CASE CancelArrives(h)
  <2>1. /\ UNCHANGED <<send, issued>> /\ msgs' \subseteq msgs
        /\ \/ pending[h].id # 0 /\ \E new : Closes(h, "cancelled", new)
           \/ UNCHANGED <<pending, completed, history>>
    BY <1>1, <1>2, CancelFacts DEF IdsAreIssued
  <2>2. CASE UNCHANGED <<pending, completed, history>>
    BY <2>1, <2>2, CopiesSend DEF Live
  <2> QED BY <2>1, <2>2, CopiesCloses
<1>3. CASE InventoryChanged(h)
  <2>1. UNCHANGED <<send, issued>>
    BY <1>1, <1>3, ObserveFacts
  <2>2. CASE \E new : /\ pending[h].id # 0 /\ Closes(h, "arrived", new)
                      /\ msgs' = msgs \cup {Result(Peer(h), new)}
    BY <2>1, <2>2, CopiesCloses
  <2>3. CASE /\ \A k \in Hosts : pending'[k].id = pending[k].id
             /\ UNCHANGED <<completed, msgs>>
             /\ history'.armed = history.armed /\ history'.written = history.written
    <3>1. \A k \in Hosts : Entries(k)' = Entries(k)
      BY <2>3 DEF Entries
    <3> QED BY <2>1, <2>3, <3>1 DEF Copies, Live
  <2> QED BY <1>1, <1>3, <2>2, <2>3, ObserveFacts
<1>4. CASE Expire(h)
  <2>1. UNCHANGED <<send, issued>> /\ pending[h].id # 0
    BY <1>1, <1>4, ExpireFacts
  <2>2. PICK outcome \in {"timeout", "partial"}, new \in Results :
          Closes(h, outcome, new) /\ msgs' = msgs \cup {Result(Peer(h), new)}
    BY <1>1, <1>4, ExpireFacts
  <2> QED BY <2>1, <2>2, CopiesCloses
<1>5. CASE ResultArrives(h)
  <2>1. /\ UNCHANGED <<pending, completed, issued, history>> /\ msgs' \subseteq msgs
        /\ \A k \in Hosts : send'[k].phase = send[k].phase /\ send'[k].id = send[k].id
    BY <1>1, <1>5, ResultFacts
  <2> QED BY <2>1, CopiesSend DEF Live
<1> QED BY <1>2, <1>3, <1>4, <1>5

LEMMA CopiesRest ==
  ASSUME Numbered,
         \/ \E h \in Hosts : StopGeneration(h) \/ StartGeneration(h) \/ Retransmit(h)
         \/ DeviceStep \/ Tick \/ UNCHANGED vars
  PROVE  Copies
<1>1. TypeOK
  BY DEF Numbered, Typed
<1>2. ASSUME NEW h \in Hosts, StopGeneration(h)
      PROVE  Copies
  <2>1. /\ UNCHANGED <<send, issued>> /\ msgs' \subseteq msgs
        /\ pending'[h] = NoIncoming /\ completed'[h] = <<>>
        /\ \A k \in Hosts \ {h} : pending'[k] = pending[k] /\ completed'[k] = completed[k]
        /\ history'.armed = history.armed /\ history'.written = history.written
    BY <1>1, <1>2, StopFacts
  <2>2. \A k \in Hosts : Entries(k)' \subseteq Entries(k)
    <3>1. Entries(h)' = {}
      BY <2>1 DEF Entries
    <3>2. \A k \in Hosts \ {h} : Entries(k)' = Entries(k)
      BY <2>1 DEF Entries
    <3> QED BY <3>1, <3>2
  <2> QED BY <2>1, <2>2, NoIncomingFacts DEF Copies, Live
<1>3. ASSUME NEW h \in Hosts, StartGeneration(h)
      PROVE  Copies
  BY <1>3, CopiesSend DEF StartGeneration, InboundDropped, Live
<1>4. ASSUME NEW h \in Hosts, Retransmit(h)
      PROVE  Copies
  BY <1>4, CopiesSend DEF Retransmit, Live
<1>5. CASE DeviceStep
  BY <1>5, DeviceFrame, CopiesSend DEF Live
<1>6. CASE Tick
  <2>1. \A k \in Hosts : /\ send'[k].phase = send[k].phase /\ send'[k].id = send[k].id
                         /\ pending'[k].id = pending[k].id
    BY <1>1, <1>6, TickFields
  <2>2. UNCHANGED <<completed, msgs, issued, history>>
    BY <1>6 DEF Tick
  <2>3. \A k \in Hosts : Entries(k)' = Entries(k)
    BY <2>2 DEF Entries
  <2> QED BY <2>1, <2>2, <2>3 DEF Copies, Live
<1>7. CASE UNCHANGED vars
  BY <1>7, CopiesSend DEF vars, Live
<1> QED BY <1>2, <1>3, <1>4, <1>5, <1>6, <1>7
\* A crossing takes the next number, and sends with a task that was idle.
LEMMA CrossedFacts ==
  ASSUME Numbered, NEW h \in Hosts, Crossed(h)
  PROVE  /\ UNCHANGED <<running, pending, completed, msgs, history>>
         /\ issued \in Nat /\ issued' = issued + 1 /\ running[h] /\ ~Live(h)
         /\ OthersSend(h) /\ send'[h].phase = "preparing" /\ send'[h].id = issued + 1
         /\ send'[h].result = NoResult
         /\ outgoing'[h].id = issued + 1 /\ \A k \in Hosts \ {h} : outgoing'[k] = outgoing[k]
         /\ \A k \in Hosts : Entries(k)' = Entries(k)
<1>1. TypeOK /\ issued \in Nat
  BY DEF Numbered, Typed, TypeOK, Ids
<1>2. /\ UNCHANGED <<running, pending, completed, msgs, history>>
      /\ issued' = issued + 1 /\ running[h] /\ outgoing[h].id = 0
  BY DEF Crossed
<1>3. /\ outgoing'[h].id = issued + 1 /\ \A k \in Hosts \ {h} : outgoing'[k] = outgoing[k]
  BY <1>1 DEF Crossed, TypeOK
<1>4. ~Live(h)
  BY <1>1, <1>2 DEF Numbered, SenderIsOutgoing, IdsAreIssued
<1>5. \A k \in Hosts : Entries(k)' = Entries(k)
  BY <1>2 DEF Entries
<1> QED BY <1>1, <1>2, <1>3, <1>4, <1>5, CrossedSend

LEMMA NumberedCrossed ==
  ASSUME Numbered, NEW h \in Hosts, Crossed(h)
  PROVE  Numbered'
<1>1. Typed'
  BY TypedCrossed DEF Numbered
<1>2. /\ UNCHANGED <<running, pending, completed, msgs, history>>
      /\ issued \in Nat /\ issued' = issued + 1 /\ running[h] /\ ~Live(h)
      /\ OthersSend(h) /\ send'[h].phase = "preparing" /\ send'[h].id = issued + 1
      /\ send'[h].result = NoResult
      /\ outgoing'[h].id = issued + 1 /\ \A k \in Hosts \ {h} : outgoing'[k] = outgoing[k]
      /\ \A k \in Hosts : Entries(k)' = Entries(k)
  BY CrossedFacts
<1>3. IdsAreIssued'
  <2>1. \A k \in Hosts : Live(k)' => send'[k].id \in 1..issued'
    BY <1>2 DEF Numbered, IdsAreIssued, Live, OthersSend
  <2>2. 1..issued \subseteq 1..issued' /\ 0..issued \subseteq 0..issued'
    BY <1>2
  <2> QED BY <1>2, <2>1, <2>2 DEF Numbered, IdsAreIssued
<1>4. OneReceiver'
  <2>1. ASSUME NEW i \in 1..issued, NEW k \in Hosts, Traced(i, k)'
        PROVE  Traced(i, k)
    <3>1. Peer(k) = h => send'[Peer(k)].id # i
      BY <1>2
    <3>2. Peer(k) # h => send'[Peer(k)] = send[Peer(k)]
      BY <1>2, PeerFacts DEF OthersSend
    <3> QED BY <1>2, <2>1, <3>1, <3>2 DEF Traced, Live
  <2>2. ASSUME NEW n, n = issued + 1, NEW k \in Hosts, Traced(n, k)'
        PROVE  k = Peer(h)
    <3>1. n \notin 0..issued /\ n \notin 1..issued
      BY <1>2, <2>2
    <3>2. Peer(k) # h => send'[Peer(k)] = send[Peer(k)]
      BY <1>2, PeerFacts DEF OthersSend
    <3>3. Peer(k) = h
      <4>1. \A m \in msgs : m.kind \in {"request", "cancel"} => m.id # n
        BY <1>2, <3>1 DEF Numbered, IdsAreIssued
      <4>2. pending[k].id # n /\ \A e \in Entries(k) : e.id # n
        BY <1>2, <3>1 DEF Numbered, IdsAreIssued
      <4>3. Live(Peer(k)) => send[Peer(k)].id # n
        BY <1>2, <3>1, PeerFacts DEF Numbered, IdsAreIssued
      <4> QED BY <1>2, <2>2, <3>2, <4>1, <4>2, <4>3 DEF Traced, Live
    <3> QED BY <3>3, PeerFacts
  <2>3. \A i \in 1..issued' : i \in 1..issued \/ i = issued + 1
    BY <1>2
  <2> QED BY <2>1, <2>2, <2>3 DEF Numbered, OneReceiver
<1>5. SenderIsOutgoing' /\ ResultIsOwn'
  BY <1>2 DEF Numbered, SenderIsOutgoing, ResultIsOwn, Live, OthersSend
<1> QED BY <1>1, <1>3, <1>4, <1>5 DEF Numbered

\* Of the other steps: which sender a host waits for, and whose result it has.
LEMMA OwnKept ==
  ASSUME Numbered, [Next]_vars, \A h \in Hosts : ~Crossed(h)
  PROVE  SenderIsOutgoing' /\ ResultIsOwn'
<1>1. Typed /\ TypeOK
  BY DEF Numbered, Typed
<1>2. ASSUME NEW h \in Hosts, SenderStep(h)
      PROVE  SenderIsOutgoing' /\ ResultIsOwn'
  <2>1. /\ OthersSend(h) /\ running' = running /\ Live(h)
    BY <1>1, <1>2, SenderStepFacts
  <2>2. CASE Sent(h)
    <3>1. send'[h] = IdleSender
      BY <1>1, <2>2, IdleSend DEF Sent
    <3>2. \A k \in Hosts \ {h} : outgoing'[k] = outgoing[k]
      BY <1>1, <2>2 DEF Sent, TypeOK
    <3>3. outgoing'[h].id = 0
      BY <1>1, <2>1, <2>2 DEF Sent, TypeOK, Numbered, SenderIsOutgoing, NoOutgoing
    <3> QED BY <2>1, <3>1, <3>2, <3>3, IdleSenderFacts
          DEF Numbered, SenderIsOutgoing, ResultIsOwn, Live, OthersSend
  <2>3. CASE SenderAborted(h)
    <3>1. send'[h] = IdleSender
      BY <1>1, <2>3, IdleSend DEF SenderAborted
    <3>2. outgoing' = outgoing /\ ~running[h]
      BY <2>3 DEF SenderAborted
    <3> QED BY <2>1, <3>1, <3>2, IdleSenderFacts
          DEF Numbered, SenderIsOutgoing, ResultIsOwn, Live, OthersSend
  <2>4. CASE /\ send'[h].phase # "idle" /\ send'[h].id = send[h].id
             /\ send'[h].result = send[h].result /\ outgoing' = outgoing
    BY <2>1, <2>4 DEF Numbered, SenderIsOutgoing, ResultIsOwn, Live, OthersSend
  <2> QED BY <1>1, <1>2, <2>2, <2>3, <2>4, SenderStepFacts
<1>3. CASE UNCHANGED <<send, outgoing, running>>
  BY <1>3 DEF Numbered, SenderIsOutgoing, ResultIsOwn, Live
<1>4. ASSUME NEW h \in Hosts, ResultArrives(h)
      PROVE  SenderIsOutgoing' /\ ResultIsOwn'
  <2>1. /\ running' = running
        /\ \A k \in Hosts : /\ outgoing'[k].id = outgoing[k].id
                            /\ send'[k].phase = send[k].phase /\ send'[k].id = send[k].id
    BY <1>1, <1>4, ResultFacts
  <2>2. PICK m \in msgs :
          /\ m.kind = "result" /\ running[h]
          /\ \A k \in Hosts :
               \/ send'[k].result = send[k].result
               \/ k = h /\ outgoing[h].id = m.result.id /\ send'[h].result = m.result
    BY <1>1, <1>4, ResultFacts
  <2>3. m.result.id # 0
    BY <2>2 DEF Numbered, IdsAreIssued
  <2>4. outgoing[h].id = m.result.id => send[h].id = m.result.id
    BY <2>3 DEF Numbered, SenderIsOutgoing
  <2> QED BY <2>1, <2>2, <2>4 DEF Numbered, SenderIsOutgoing, ResultIsOwn, Live
<1>5. ASSUME NEW h \in Hosts, StopGeneration(h)
      PROVE  SenderIsOutgoing' /\ ResultIsOwn'
  <2>1. /\ send' = send /\ ~running'[h] /\ outgoing'[h].id = 0
        /\ \A k \in Hosts \ {h} : running'[k] = running[k] /\ outgoing'[k] = outgoing[k]
    BY <1>1, <1>5, StopFacts
  <2> QED BY <2>1 DEF Numbered, SenderIsOutgoing, ResultIsOwn, Live
<1>6. ASSUME NEW h \in Hosts, StartGeneration(h)
      PROVE  SenderIsOutgoing' /\ ResultIsOwn'
  <2>1. /\ UNCHANGED <<send, outgoing>> /\ ~running[h] /\ ~Live(h)
        /\ \A k \in Hosts \ {h} : running'[k] = running[k]
    BY <1>1, <1>6 DEF StartGeneration, Live, TypeOK
  <2> QED BY <2>1 DEF Numbered, SenderIsOutgoing, ResultIsOwn, Live
<1>7. CASE Tick
  <2>1. \A k \in Hosts : /\ send'[k].phase = send[k].phase /\ send'[k].id = send[k].id
                         /\ send'[k].result = send[k].result
    BY <1>1, <1>7, TickFields
  <2>2. UNCHANGED <<outgoing, running>> /\ \A k \in Hosts : Live(k)' <=> Live(k)
    BY <1>7, <2>1 DEF Tick, Live
  <2> QED BY <2>1, <2>2 DEF Numbered, SenderIsOutgoing, ResultIsOwn
<1>8. ASSUME NEW h \in Hosts,
             \/ RequestArrives(h) \/ CancelArrives(h) \/ InventoryChanged(h) \/ Expire(h)
             \/ Retransmit(h)
      PROVE  UNCHANGED <<send, outgoing, running>>
  BY <1>8 DEF RequestArrives, CancelArrives, InventoryChanged, Expire, Retransmit
<1>9. DeviceStep \/ UNCHANGED vars => UNCHANGED <<send, outgoing, running>>
  BY DeviceFrame DEF vars
<1> QED BY <1>2, <1>3, <1>4, <1>5, <1>6, <1>7, <1>8, <1>9 DEF Next, ActorStep, DeviceStep

LEMMA StepCopies ==
  ASSUME Numbered, [Next]_vars
  PROVE  Copies \/ \E h \in Hosts : Crossed(h)
BY CopiesSender, CopiesRequest, CopiesReceiver, CopiesRest
   DEF Next, ActorStep, DeviceStep

LEMMA InitNumbered ==
  ASSUME Init
  PROVE  Numbered
<1>1. /\ issued = 0 /\ msgs = {}
      /\ \A h \in Hosts : /\ send[h] = IdleSender /\ pending[h] = NoIncoming
                          /\ outgoing[h].id = 0 /\ completed[h] = <<>>
      /\ history.armed = {} /\ history.written = {}
  BY DEF Init, NoOutgoing
<1>2. \A h \in Hosts : Entries(h) = {}
  BY <1>1 DEF Entries
<1>3. IdsAreIssued
  BY <1>1, <1>2, NoIncomingFacts, IdleSenderFacts DEF IdsAreIssued, Live
<1>4. OneReceiver
  BY <1>1 DEF OneReceiver
<1>5. SenderIsOutgoing /\ ResultIsOwn
  BY <1>1, IdleSenderFacts DEF SenderIsOutgoing, ResultIsOwn, Live
<1> QED BY <1>3, <1>4, <1>5, InitTyped DEF Numbered

LEMMA NextNumbered ==
  ASSUME Numbered, [Next]_vars
  PROVE  Numbered'
<1>1. CASE \E h \in Hosts : Crossed(h)
  BY <1>1, NumberedCrossed
<1>2. CASE \A h \in Hosts : ~Crossed(h)
  <2>1. Copies /\ Typed /\ IdsAreIssued /\ OneReceiver
    BY <1>2, StepCopies DEF Numbered
  <2>2. IdsAreIssued' /\ OneReceiver'
    BY <2>1, CopiesKeepsIds
  <2>3. Typed'
    BY <2>1, NextTyped
  <2> QED BY <1>2, <2>2, <2>3, OwnKept DEF Numbered
<1> QED BY <1>1, <1>2

\* Two live senders have different transfers, and what is at a receiver of a
\* live transfer is at the sender's peer.
LEMMA SendersDiffer ==
  ASSUME Numbered, NEW h \in Hosts, Live(h)
  PROVE  /\ send[h].id \in 1..issued
         /\ \A k \in Hosts : Live(k) /\ send[k].id = send[h].id => k = h
         /\ \A k \in Hosts : Traced(send[h].id, k) => k = Peer(h)
<1>1. send[h].id \in 1..issued
  BY DEF Numbered, IdsAreIssued
<1>2. Traced(send[h].id, Peer(h))
  BY PeerFacts DEF Traced
<1>3. \A k \in Hosts : Traced(send[h].id, k) => k = Peer(h)
  BY <1>1, <1>2, PeerFacts DEF Numbered, OneReceiver
<1>4. ASSUME NEW k \in Hosts, Live(k), send[k].id = send[h].id
      PROVE  k = h
  <2>1. Traced(send[h].id, Peer(k)) /\ Peer(k) \in Hosts
    BY <1>4, PeerFacts DEF Traced
  <2>2. Peer(k) = Peer(h)
    BY <1>3, <2>1
  <2> QED BY <2>2, PeerFacts
<1> QED BY <1>1, <1>3, <1>4
-----------------------------------------------------------------------------
(* Writes and cancels.                                                     *)

\* The transfer's sender has not returned its report.
Unreported(h) ==
  send[h].phase \in {"preparing", "calling", "writing", "applying", "awaiting"}

\* The task has not started a write.
Unwritten(h) ==
  \/ send[h].phase \in {"preparing", "calling"}
  \/ send[h].phase \in {"writing", "applying"} /\ ~send[h].started

WritesFollowStart == \A h \in Hosts : Unwritten(h) => WritesOf(send[h].id) = {}

\* A transfer is cancelled only by its sender's last act.
NoCancelUnreported ==
  \A h \in Hosts : Unreported(h) =>
    /\ \A m \in msgs : m.kind = "cancel" => m.id # send[h].id
    /\ \A k \in Hosts : \A e \in Entries(k) : e.outcome = "cancelled" => e.id # send[h].id

\* NoCancelAfterWrite, without the order of the ledger.
CancelsMoveNothing ==
  /\ \A m \in msgs : m.kind = "cancel" => WritesOf(m.id) = {}
  /\ \A h \in Hosts : \A e \in Entries(h) : e.outcome = "cancelled" => WritesOf(e.id) = {}

Reporting ==
  Numbered /\ WritesFollowStart /\ NoCancelUnreported /\ CancelsMoveNothing /\ ReportIsHonest

\* A step other than the start of a write: cancels come from tasks that wrote
\* nothing and end, and reports say so.
Orderly ==
  /\ history'.written = history.written
  /\ \A h \in Hosts : Unwritten(h)' =>
       send'[h].id = issued + 1 \/ (Unwritten(h) /\ send'[h].id = send[h].id)
  /\ \A h \in Hosts : Unreported(h)' =>
       send'[h].id = issued + 1 \/ (Unreported(h) /\ send'[h].id = send[h].id)
  /\ \A m \in msgs' \ msgs : m.kind = "cancel" =>
       \E h \in Hosts : Unwritten(h) /\ m.id = send[h].id /\ send'[h].phase = "reported"
  /\ \A h \in Hosts : \A e \in Entries(h)' : e \notin Entries(h) /\ e.outcome = "cancelled" =>
       \E m \in msgs : m.kind = "cancel" /\ m.id = e.id
  /\ \A h \in Hosts : send'[h].phase = "reported" =>
       /\ send'[h].id = send[h].id
       /\ \/ /\ send[h].phase = "reported" /\ send'[h].report = send[h].report
             /\ send'[h].result = send[h].result \/ send'[h].result # NoResult
          \/ /\ send'[h].report \in {"not_started", "rejected", "cancelled"} => Unwritten(h)
             /\ send'[h].report = "finished" => send'[h].result # NoResult

LEMMA OrderlyKeeps ==
  ASSUME Reporting, Orderly, Numbered'
  PROVE  Reporting'
<1>1. \A i : WritesOf(i)' = WritesOf(i)
  BY DEF WritesOf, Orderly
<1>2. issued \in Nat /\ WritesOf(issued + 1) = {}
  <2>1. TypeOK /\ IdsAreIssued
    BY DEF Reporting, Numbered, Typed
  <2>2. issued \in Nat
    BY <2>1 DEF TypeOK, Ids
  <2>3. \A w \in history.written : w[1] # issued + 1
    BY <2>1, <2>2 DEF IdsAreIssued
  <2> QED BY <2>2, <2>3 DEF WritesOf
<1>3. WritesFollowStart'
  BY <1>1, <1>2 DEF Reporting, WritesFollowStart, Orderly
<1>4. CancelsMoveNothing'
  <2>1. \A m \in msgs' : m.kind = "cancel" => WritesOf(m.id) = {}
    BY DEF Reporting, CancelsMoveNothing, Orderly, WritesFollowStart
  <2>2. \A h \in Hosts : \A e \in Entries(h)' : e.outcome = "cancelled" => WritesOf(e.id) = {}
    BY DEF Reporting, CancelsMoveNothing, Orderly
  <2> QED BY <1>1, <2>1, <2>2 DEF CancelsMoveNothing
<1>5. NoCancelUnreported'
  <2> SUFFICES ASSUME NEW h \in Hosts, Unreported(h)'
               PROVE  /\ \A m \in msgs' : m.kind = "cancel" => m.id # send'[h].id
                      /\ \A k \in Hosts : \A e \in Entries(k)' :
                           e.outcome = "cancelled" => e.id # send'[h].id
    BY DEF NoCancelUnreported
  <2>1. /\ \A m \in msgs : m.kind = "cancel" => m.id \in 1..issued
        /\ \A k \in Hosts : \A e \in Entries(k) : e.id \in 1..issued
        /\ \A k \in Hosts : Unwritten(k) => Live(k) /\ send[k].id \in 1..issued
    BY DEF Reporting, Numbered, IdsAreIssued, Unwritten, Live
  <2>2. CASE send'[h].id = issued + 1
    <3>1. \A n \in 1..issued : n # send'[h].id
      BY <1>2, <2>2
    <3> QED BY <2>1, <3>1 DEF Orderly
  <2>3. CASE Unreported(h) /\ send'[h].id = send[h].id
    <3>1. Live(h) /\ send'[h].phase # "reported"
      BY <2>3 DEF Unreported, Live
    <3>2. \A k \in Hosts : Live(k) /\ send[k].id = send[h].id => k = h
      BY <3>1, SendersDiffer DEF Reporting
    <3>3. \A m \in msgs' : m.kind = "cancel" => m.id # send[h].id
      BY <2>1, <2>3, <3>1, <3>2 DEF Reporting, NoCancelUnreported, Orderly
    <3>4. \A k \in Hosts : \A e \in Entries(k)' : e.outcome = "cancelled" => e.id # send[h].id
      BY <2>3 DEF Reporting, NoCancelUnreported, Orderly
    <3> QED BY <2>3, <3>3, <3>4
  <2> QED BY <2>2, <2>3 DEF Orderly
<1>6. ReportIsHonest'
  <2> SUFFICES ASSUME NEW h \in Hosts, send'[h].phase = "reported"
               PROVE  /\ send'[h].report \in {"not_started", "rejected", "cancelled"}
                           => WritesOf(send'[h].id) = {}
                      /\ send'[h].report = "finished" => send'[h].result.id = send'[h].id
    BY <1>1 DEF ReportIsHonest
  <2>1. send'[h].id = send[h].id /\ (send'[h].result # NoResult => send'[h].result.id = send'[h].id)
    BY DEF Orderly, Numbered, ResultIsOwn
  <2> QED BY <2>1 DEF Orderly, Reporting, ReportIsHonest, WritesFollowStart
<1> QED BY <1>3, <1>4, <1>5, <1>6 DEF Reporting

LEMMA BeginWriteKeeps ==
  ASSUME Reporting, NEW h \in Hosts, BeginWrite(h), Numbered'
  PROVE  Reporting'
<1>1. Typed /\ TypeOK
  BY DEF Reporting, Numbered, Typed
<1>2. /\ UNCHANGED <<msgs, completed>> /\ send[h].phase = "writing" /\ Unreported(h) /\ Live(h)
  BY DEF BeginWrite, Unreported, Live
<1>3. /\ OthersSend(h) /\ send'[h].phase = "applying" /\ send'[h].id = send[h].id
      /\ send'[h].started = TRUE
  BY <1>1, BeginWriteSend DEF Continues
<1>4. \A k \in Hosts : Entries(k)' = Entries(k)
  BY <1>2 DEF Entries
<1>5. \A i : i # send[h].id => WritesOf(i)' = WritesOf(i)
  <2>1. history'.written = history.written \cup {<<send[h].id, Head(send[h].switches)>>}
    BY <1>1, TypedBeginWrite
  <2> QED BY <2>1 DEF WritesOf
<1>6. \A k \in Hosts \ {h} : Live(k) => send[k].id # send[h].id
  BY <1>2, SendersDiffer DEF Reporting
<1>7. WritesFollowStart'
  BY <1>3, <1>5, <1>6 DEF Reporting, WritesFollowStart, Unwritten, Live, OthersSend
<1>8. CancelsMoveNothing'
  BY <1>2, <1>4, <1>5 DEF Reporting, CancelsMoveNothing, NoCancelUnreported
<1>9. NoCancelUnreported'
  BY <1>2, <1>3, <1>4 DEF Reporting, NoCancelUnreported, Unreported, OthersSend
<1>10. ReportIsHonest'
  BY <1>3, <1>5, <1>6 DEF Reporting, ReportIsHonest, Live, OthersSend
<1> QED BY <1>7, <1>8, <1>9, <1>10 DEF Reporting

\* Senders that stay as they are, and no new cancel.
LEMMA OrderlyQuiet ==
  ASSUME history'.written = history.written,
         \A h \in Hosts : /\ send'[h].phase = send[h].phase /\ send'[h].id = send[h].id
                          /\ send'[h].started = send[h].started
                          /\ send'[h].report = send[h].report
                          /\ send'[h].result = send[h].result \/ send'[h].result # NoResult,
         \A m \in msgs' \ msgs : m.kind # "cancel",
         \A h \in Hosts : \A e \in Entries(h)' : e \notin Entries(h) /\ e.outcome = "cancelled" =>
           \E m \in msgs : m.kind = "cancel" /\ m.id = e.id
  PROVE  Orderly
BY DEF Orderly, Unwritten, Unreported
\* A task that returns its report.
LEMMA OrderlyReport ==
  ASSUME Numbered, NEW h \in Hosts, NEW r, Report(h, r),
         r \in {"not_started", "rejected", "cancelled", "no_result", "finished"},
         UNCHANGED <<completed, history>>,
         r \in {"not_started", "rejected", "cancelled"} => Unwritten(h),
         r = "finished" => send[h].result # NoResult,
         \A m \in msgs' \ msgs : m.kind = "cancel" => r = "cancelled" /\ m.id = send[h].id
  PROVE  Orderly
<1>1. /\ OthersSend(h)
      /\ send'[h].phase = "reported" /\ send'[h].id = send[h].id
      /\ send'[h].result = send[h].result /\ send'[h].report = r
  BY ReportSend DEF Numbered, Typed
<1>2. \A k \in Hosts : Entries(k)' = Entries(k)
  BY DEF Entries
<1> QED BY <1>1, <1>2 DEF Orderly, OthersSend, Unwritten, Unreported

\* A task that goes on without having started a write, or after it did.
LEMMA OrderlyContinues ==
  ASSUME NEW h \in Hosts, Continues(h), UNCHANGED <<completed, history>>,
         Unreported(h), send'[h].phase # "reported",
         Unwritten(h)' => Unwritten(h),
         \A m \in msgs' \ msgs : m.kind # "cancel"
  PROVE  Orderly
<1>1. \A k \in Hosts : Entries(k)' = Entries(k)
  BY DEF Entries
<1> QED BY <1>1 DEF Orderly, Continues, OthersSend, Unwritten, Unreported

LEMMA OrderlySender ==
  ASSUME Reporting, NEW h \in Hosts, SenderStep(h), ~BeginWrite(h)
  PROVE  Orderly
<1>1. Numbered /\ Typed /\ TypeOK
  BY DEF Reporting, Numbered, Typed
<1>2. CASE NotStarted(h)
  BY <1>1, <1>2, OrderlyReport DEF NotStarted, Unwritten
<1>3. CASE Prepared(h)
  <2>1. /\ UNCHANGED <<completed, history>> /\ send[h].phase = "preparing"
        /\ \A m \in msgs' \ msgs : m.kind # "cancel"
    BY <1>3, MadeFields DEF Prepared
  <2>2. Continues(h) /\ send'[h].phase = "calling"
    BY <1>1, <1>3, PreparedSend
  <2> QED BY <2>1, <2>2, OrderlyContinues DEF Unwritten, Unreported
<1>4. CASE CallRejected(h)
  BY <1>1, <1>4, OrderlyReport DEF CallRejected, Unwritten
<1>5. CASE CallAccepted(h)
  <2>1. /\ UNCHANGED <<completed, history>> /\ send[h].phase = "calling"
    BY <1>5 DEF CallAccepted
  <2>2. Continues(h) /\ msgs' \subseteq msgs /\ send'[h].phase \in {"awaiting", "writing"}
    BY <1>1, <1>5, AcceptedFacts
  <2> QED BY <2>1, <2>2, OrderlyContinues DEF Unwritten, Unreported
<1>6. CASE CallFails(h)
  BY <1>1, <1>6, OrderlyReport, MadeFields DEF CallFails, Unwritten
<1>7. CASE SkipWrite(h)
  BY <1>1, <1>7, SkipWriteSend, OrderlyContinues DEF SkipWrite, Unwritten, Unreported
<1>8. CASE EndWrite(h)
  <2>1. send[h].switches # <<>>
    BY <1>1, <1>8 DEF Typed, ApplyingHasSwitch, EndWrite
  <2> QED BY <1>1, <1>8, <2>1, EndWriteSend, OrderlyContinues DEF EndWrite, Unwritten, Unreported
<1>9. CASE Settle(h)
  <2>1. CASE /\ OwesCancel(send[h]) /\ Report(h, "cancelled")
             /\ msgs' = msgs \cup {Cancel(h, send[h].id)}
    BY <1>1, <1>9, <2>1, OrderlyReport, MadeFields DEF Settle, Unwritten, OwesCancel
  <2>2. CASE Report(h, "no_result") /\ UNCHANGED msgs
    BY <1>1, <1>9, <2>2, OrderlyReport DEF Settle
  <2>3. CASE /\ send' = [send EXCEPT ![h].phase = "awaiting", ![h].age = 0, ![h].window = 0]
             /\ UNCHANGED msgs
    BY <1>1, <1>9, <2>3, AwaitSend, OrderlyContinues DEF Settle, Unwritten, Unreported
  <2> QED BY <1>9, <2>1, <2>2, <2>3 DEF Settle
<1>10. CASE AwaitEnds(h)
  BY <1>1, <1>10, OrderlyReport DEF AwaitEnds
<1>11. CASE Sent(h) \/ SenderAborted(h)
  <2>1. /\ send'[h] = IdleSender /\ OthersSend(h) /\ UNCHANGED <<completed, history, msgs>>
    BY <1>1, <1>11, IdleSend DEF Sent, SenderAborted
  <2>2. \A k \in Hosts : Entries(k)' = Entries(k)
    BY <2>1 DEF Entries
  <2> QED BY <2>1, <2>2, IdleSenderFacts DEF Orderly, OthersSend, Unwritten, Unreported
<1> QED BY <1>2, <1>3, <1>4, <1>5, <1>6, <1>7, <1>8, <1>9, <1>10, <1>11 DEF SenderStep

LEMMA OrderlyActor ==
  ASSUME Reporting, NEW h \in Hosts, ActorStep(h)
  PROVE  Orderly
<1>1. Numbered /\ TypeOK
  BY DEF Reporting, Numbered, Typed
<1>2. CASE Crossed(h)
  BY <1>1, <1>2, CrossedFacts DEF Orderly, OthersSend, Unwritten, Unreported
<1>3. CASE RequestArrives(h)
  <2>1. UNCHANGED <<send, completed>>
    BY <1>1, <1>3, RequestFacts
  <2>2. PICK m \in msgs :
          /\ m.kind = "request"
          /\ \/ \E i \in Remembered(h, m.id) :
                  /\ msgs' = (msgs \ {m}) \cup {Accept(Peer(h), m.id, 0),
                                                Result(Peer(h), completed[h][i])}
                  /\ UNCHANGED <<pending, history>>
             \/ /\ msgs' = (msgs \ {m}) \cup {Accept(Peer(h), m.id, pending[h].left)}
                /\ UNCHANGED <<pending, history>>
             \/ /\ msgs' = (msgs \ {m}) \cup {Reject(Peer(h), m.id)}
                /\ UNCHANGED <<pending, history>>
             \/ Arms(h, m)
    BY <1>1, <1>3, RequestFacts
  <2>4. /\ history'.written = history.written
        /\ \A x \in msgs' \ msgs : x.kind # "cancel"
    BY <2>2, MadeFields DEF Arms
  <2>3. \A k \in Hosts : Entries(k)' = Entries(k)
    BY <2>1 DEF Entries
  <2> QED BY <2>1, <2>3, <2>4, OrderlyQuiet
<1>4. CASE CancelArrives(h)
  <2>1. UNCHANGED <<send>> /\ msgs' \subseteq msgs
    BY <1>1, <1>4, CancelFacts
  <2>2. PICK m \in msgs :
          /\ m.kind = "cancel"
          /\ \/ pending[h].id = m.id /\ \E new : Closes(h, "cancelled", new)
             \/ UNCHANGED <<pending, completed, history>>
    BY <1>1, <1>4, CancelFacts
  <2>3. CASE UNCHANGED <<pending, completed, history>>
    <3>1. \A k \in Hosts : Entries(k)' = Entries(k)
      BY <2>3 DEF Entries
    <3> QED BY <2>1, <2>3, <3>1, OrderlyQuiet
  <2>4. CASE pending[h].id = m.id /\ \E new : Closes(h, "cancelled", new)
    <3>1. /\ history'.written = history.written
          /\ \A k \in Hosts : \A e \in Entries(k)' : e \notin Entries(k) => e.id = m.id
      BY <2>4 DEF Closes
    <3> QED BY <2>1, <2>2, <3>1, OrderlyQuiet
  <2> QED BY <2>2, <2>3, <2>4
<1>5. ASSUME NEW outcome, outcome # "cancelled", NEW new, Closes(h, outcome, new),
             UNCHANGED send, msgs' = msgs \cup {Result(Peer(h), new)}
      PROVE  Orderly
  <2>1. /\ history'.written = history.written
        /\ \A k \in Hosts : \A e \in Entries(k)' : e \notin Entries(k) => e.outcome # "cancelled"
    BY <1>5 DEF Closes
  <2> QED BY <1>5, <2>1, OrderlyQuiet, MadeFields
<1>6. CASE InventoryChanged(h)
  <2>1. UNCHANGED send
    BY <1>1, <1>6, ObserveFacts
  <2>2. CASE \E new \in Results : Closes(h, "arrived", new) /\ msgs' = msgs \cup {Result(Peer(h), new)}
    BY <1>5, <2>1, <2>2
  <2>3. CASE UNCHANGED <<completed, msgs>> /\ history'.written = history.written
    <3>1. \A k \in Hosts : Entries(k)' = Entries(k)
      BY <2>3 DEF Entries
    <3> QED BY <2>1, <2>3, <3>1, OrderlyQuiet
  <2> QED BY <1>1, <1>6, <2>2, <2>3, ObserveFacts
<1>7. CASE Expire(h)
  BY <1>1, <1>5, <1>7, ExpireFacts
<1>8. CASE ResultArrives(h)
  <2>1. /\ UNCHANGED <<completed, history>> /\ msgs' \subseteq msgs
        /\ \A k \in Hosts :
              /\ send'[k].phase = send[k].phase /\ send'[k].id = send[k].id
              /\ send'[k].report = send[k].report /\ send'[k].started = send[k].started
    BY <1>1, <1>8, ResultFacts
  <2>2. \A k \in Hosts : send'[k].result = send[k].result \/ send'[k].result # NoResult
    BY <1>1, <1>8, ResultFacts, IdleSenderFacts DEF Numbered, IdsAreIssued
  <2>3. \A k \in Hosts : Entries(k)' = Entries(k)
    BY <2>1 DEF Entries
  <2> QED BY <2>1, <2>2, <2>3, OrderlyQuiet
<1> QED BY <1>2, <1>3, <1>4, <1>6, <1>7, <1>8 DEF ActorStep

LEMMA OrderlyRest ==
  ASSUME Reporting,
         \/ \E h \in Hosts : StopGeneration(h) \/ StartGeneration(h) \/ Retransmit(h)
         \/ DeviceStep \/ Tick \/ UNCHANGED vars
  PROVE  Orderly
<1>1. TypeOK
  BY DEF Reporting, Numbered, Typed
<1>2. ASSUME NEW h \in Hosts, StopGeneration(h)
      PROVE  Orderly
  <2>1. /\ UNCHANGED send /\ msgs' \subseteq msgs /\ completed'[h] = <<>>
        /\ \A k \in Hosts \ {h} : completed'[k] = completed[k]
        /\ history'.written = history.written
    BY <1>1, <1>2, StopFacts
  <2>2. Entries(h)' = {}
    BY <2>1 DEF Entries
  <2>3. \A k \in Hosts \ {h} : Entries(k)' = Entries(k)
    BY <2>1 DEF Entries
  <2> QED BY <2>1, <2>2, <2>3, OrderlyQuiet
<1>3. ASSUME NEW h \in Hosts, StartGeneration(h) \/ Retransmit(h)
      PROVE  Orderly
  <2>1. UNCHANGED <<send, completed, history>> /\ \A m \in msgs' \ msgs : m.kind # "cancel"
    BY <1>3, MadeFields DEF StartGeneration, Retransmit, InboundDropped
  <2>2. \A k \in Hosts : Entries(k)' = Entries(k)
    BY <2>1 DEF Entries
  <2> QED BY <2>1, <2>2, OrderlyQuiet
<1>4. CASE DeviceStep \/ UNCHANGED vars
  <2>1. UNCHANGED <<send, completed, history, msgs>>
    BY <1>4, DeviceFrame DEF vars
  <2>2. \A k \in Hosts : Entries(k)' = Entries(k)
    BY <2>1 DEF Entries
  <2> QED BY <2>1, <2>2, OrderlyQuiet
<1>5. CASE Tick
  <2>1. UNCHANGED <<completed, history, msgs>>
    BY <1>5 DEF Tick
  <2>2. \A k \in Hosts : Entries(k)' = Entries(k)
    BY <2>1 DEF Entries
  <2> QED BY <1>1, <1>5, <2>1, <2>2, TickFields, OrderlyQuiet
<1> QED BY <1>2, <1>3, <1>4, <1>5

LEMMA InitReporting ==
  ASSUME Init
  PROVE  Reporting
<1>1. /\ msgs = {} /\ \A h \in Hosts : send[h] = IdleSender /\ completed[h] = <<>>
  BY DEF Init
<1>2. \A h \in Hosts : Entries(h) = {}
  BY <1>1 DEF Entries
<1> QED BY <1>1, <1>2, InitNumbered, IdleSenderFacts
      DEF Reporting, WritesFollowStart, NoCancelUnreported, CancelsMoveNothing, ReportIsHonest,
          Unwritten, Unreported

LEMMA NextReporting ==
  ASSUME Reporting, [Next]_vars
  PROVE  Reporting'
<1>1. Numbered'
  BY NextNumbered DEF Reporting
<1>2. CASE \E h \in Hosts : BeginWrite(h)
  BY <1>1, <1>2, BeginWriteKeeps
<1>3. CASE \A h \in Hosts : ~BeginWrite(h)
  <2>1. Orderly
    BY <1>3, OrderlySender, OrderlyActor, OrderlyRest DEF Next, DeviceStep
  <2> QED BY <1>1, <2>1, OrderlyKeeps
<1> QED BY <1>2, <1>3

LEMMA ReportingHolds == Spec => []Reporting
<1>1. Init => Reporting
  BY InitReporting
<1>2. Reporting /\ [Next]_vars => Reporting'
  BY NextReporting
<1> QED BY <1>1, <1>2, PTL DEF Spec

\* "Once any write was attempted the sender must not cancel" (handoff.rs), for
\* any windows, devices and number of transfers, and whatever is lost, late or
\* repeated: no cancel is on its way, and no receiver disarmed, for a transfer
\* one of whose devices was told to leave.
THEOREM CancelsMovedNothing == Spec => []NoCancelAfterWrite
<1>1. Reporting => NoCancelAfterWrite
  <2> SUFFICES ASSUME Reporting
               PROVE  NoCancelAfterWrite
    OBVIOUS
  <2>1. \A h \in Hosts : \A i \in DOMAIN completed[h] : completed[h][i] \in Entries(h)
    <3> SUFFICES ASSUME NEW h \in Hosts
                 PROVE  \A i \in DOMAIN completed[h] : completed[h][i] \in Entries(h)
      OBVIOUS
    <3>1. completed[h] \in Seq(Results)
      BY DEF Reporting, Numbered, Typed, TypeOK
    <3>2. DOMAIN completed[h] = 1..Len(completed[h])
      BY <3>1
    <3> QED BY <3>2 DEF Entries
  <2> QED BY <2>1 DEF Reporting, CancelsMoveNothing, NoCancelAfterWrite
<1> QED BY <1>1, ReportingHolds, PTL

\* A sender task's report is true of its own transfer: not started, rejected or
\* cancelled means that no device was told to leave, and finished that the
\* peer's result is this transfer's (SendReport, runtime/sender.rs).
THEOREM ReportsAreHonest == Spec => []ReportIsHonest
<1>1. Reporting => ReportIsHonest
  BY DEF Reporting
<1> QED BY <1>1, ReportingHolds, PTL
-----------------------------------------------------------------------------
(* Arming.                                                                 *)

\* The peer has accepted.
Engaged(h) == send[h].phase \in {"writing", "applying", "awaiting"}

\* The transfers the ledger at h holds or remembers (0 for none).
Held(h) == {pending[h].id} \cup {e.id : e \in Entries(h)}

\* A ledger loses only what record evicts and what goes with its generation.
ArmedIsKept ==
  \A i \in history.armed \ history.forgotten : \E h \in Hosts : i \in Held(h)

HeldIsArmed ==
  \A h \in Hosts : /\ Held(h) \subseteq history.armed \cup {0}
                   /\ pending[h].id = 0 => pending[h].devices = {}

PreparingIsUnheard ==
  \A h \in Hosts : send[h].phase = "preparing" =>
    /\ send[h].id \notin history.armed
    /\ \A m \in msgs : m.kind = "request" => m.id # send[h].id

AcceptIsArmed ==
  /\ \A m \in msgs : m.kind = "accept" => m.id \in history.armed
  /\ \A h \in Hosts : Engaged(h) => send[h].id \in history.armed

ArmedInv ==
  Reporting /\ ArmedIsKept /\ HeldIsArmed /\ PreparingIsUnheard /\ AcceptIsArmed

ArmingStep ==
  /\ history.armed \subseteq history'.armed /\ history.forgotten \subseteq history'.forgotten
  /\ \A i \in history'.armed : i \notin history.armed =>
       \E h \in Hosts : i \in Held(h)' /\ \E m \in msgs : m.kind = "request" /\ m.id = i
  /\ \A h \in Hosts : \A i \in Held(h) : i = 0 \/ i \in Held(h)' \/ i \in history'.forgotten
  /\ \A h \in Hosts : \A i \in Held(h)' : i = 0 \/ i \in Held(h) \/ i \in history'.armed
  /\ \A h \in Hosts : pending'[h].id = 0 => pending'[h].devices = {}
  /\ \A h \in Hosts : send'[h].phase = "preparing" =>
       send'[h].id = issued + 1 \/ (send[h].phase = "preparing" /\ send'[h].id = send[h].id)
  /\ \A h \in Hosts : Engaged(h)' =>
       \/ Engaged(h) /\ send'[h].id = send[h].id
       \/ \E m \in msgs : m.kind = "accept" /\ m.id = send'[h].id
  /\ \A m \in msgs' \ msgs :
       /\ m.kind = "request" =>
            \E h \in Hosts : Live(h) /\ m.id = send[h].id /\ send'[h].phase = "calling"
       /\ m.kind = "accept" => m.id # 0 /\ \E h \in Hosts : m.id \in Held(h)'

LEMMA ArmingKeeps ==
  ASSUME ArmedInv, ArmingStep, Reporting'
  PROVE  ArmedInv'
<1>1. HeldIsArmed'
  BY DEF ArmedInv, ArmingStep, HeldIsArmed
<1>2. ArmedIsKept'
  <2> SUFFICES ASSUME NEW i \in history'.armed, i \notin history'.forgotten
               PROVE  \E h \in Hosts : i \in Held(h)'
    BY DEF ArmedIsKept
  <2>1. CASE i \in history.armed
    <3>1. i # 0
      BY <2>1 DEF ArmedInv, Reporting, Numbered, IdsAreIssued
    <3>2. PICK h \in Hosts : i \in Held(h)
      BY <2>1 DEF ArmedInv, ArmedIsKept, ArmingStep
    <3> QED BY <3>1, <3>2 DEF ArmingStep
  <2>2. CASE i \notin history.armed
    BY <2>2 DEF ArmingStep
  <2> QED BY <2>1, <2>2
<1>3. PreparingIsUnheard'
  <2> SUFFICES ASSUME NEW h \in Hosts, send'[h].phase = "preparing"
               PROVE  /\ send'[h].id \notin history'.armed
                      /\ \A m \in msgs' : m.kind = "request" => m.id # send'[h].id
    BY DEF PreparingIsUnheard
  <2>1. /\ issued \in Nat /\ history.armed \subseteq 1..issued
        /\ \A m \in msgs : m.kind = "request" => m.id \in 1..issued
        /\ \A k \in Hosts : Live(k) => send[k].id \in 1..issued
    <3>1. TypeOK /\ IdsAreIssued
      BY DEF ArmedInv, Reporting, Numbered, Typed
    <3>2. issued \in Nat
      BY <3>1 DEF TypeOK, Ids
    <3> QED BY <3>1, <3>2 DEF IdsAreIssued
  <2>2. CASE send'[h].id = issued + 1
    <3>1. send'[h].id \notin 1..issued
      BY <2>1, <2>2
    <3> QED BY <2>1, <3>1 DEF ArmingStep
  <2>3. CASE send[h].phase = "preparing" /\ send'[h].id = send[h].id
    <3>1. \A k \in Hosts : Live(k) /\ send[k].id = send[h].id => k = h
      BY <2>3, SendersDiffer DEF ArmedInv, Reporting, Live
    <3> QED BY <2>3, <3>1 DEF ArmedInv, PreparingIsUnheard, ArmingStep
  <2> QED BY <2>2, <2>3 DEF ArmingStep
<1>4. AcceptIsArmed'
  <2>1. \A m \in msgs' : m.kind = "accept" => m.id \in history'.armed
    BY <1>1 DEF ArmedInv, AcceptIsArmed, ArmingStep, HeldIsArmed
  <2>2. \A h \in Hosts : Engaged(h)' => send'[h].id \in history'.armed
    BY DEF ArmedInv, AcceptIsArmed, ArmingStep
  <2> QED BY <2>1, <2>2 DEF AcceptIsArmed
<1> QED BY <1>1, <1>2, <1>3, <1>4 DEF ArmedInv

LEMMA HeldKept ==
  ASSUME completed' = completed, \A h \in Hosts : pending'[h].id = pending[h].id
  PROVE  \A h \in Hosts : Held(h)' = Held(h)
<1>1. \A h \in Hosts : Entries(h)' = Entries(h)
  BY DEF Entries
<1> QED BY <1>1 DEF Held

\* Steps of the sender task at h.
LEMMA ArmingSend ==
  ASSUME ArmedInv, NEW h \in Hosts, OthersSend(h), UNCHANGED <<pending, completed>>,
         history'.armed = history.armed, history'.forgotten = history.forgotten,
         send'[h].phase = "preparing" => send'[h].id = issued + 1,
         Engaged(h)' => \/ Engaged(h) /\ send'[h].id = send[h].id
                        \/ \E m \in msgs : m.kind = "accept" /\ m.id = send'[h].id,
         \A m \in msgs' \ msgs :
           /\ m.kind = "request" => Live(h) /\ m.id = send[h].id /\ send'[h].phase = "calling"
           /\ m.kind # "accept"
  PROVE  ArmingStep
<1>1. \A k \in Hosts : Held(k)' = Held(k)
  BY HeldKept
<1> QED BY <1>1 DEF ArmingStep, ArmedInv, HeldIsArmed, OthersSend, Engaged

\* Steps that leave the sender tasks where they are and hold what was held.
LEMMA ArmingQuiet ==
  ASSUME ArmedInv, completed' = completed,
         \A k \in Hosts : /\ pending'[k].id = pending[k].id
                          /\ pending'[k].devices = pending[k].devices
                          /\ send'[k].phase = send[k].phase /\ send'[k].id = send[k].id,
         history'.armed = history.armed, history'.forgotten = history.forgotten,
         \A m \in msgs' \ msgs :
           /\ m.kind = "request" =>
                \E h \in Hosts : Live(h) /\ m.id = send[h].id /\ send'[h].phase = "calling"
           /\ m.kind = "accept" => m.id # 0 /\ \E h \in Hosts : m.id \in Held(h)
  PROVE  ArmingStep
<1>1. \A k \in Hosts : Held(k)' = Held(k)
  BY HeldKept
<1> QED BY <1>1 DEF ArmingStep, ArmedInv, HeldIsArmed, Engaged

LEMMA ArmingCloses ==
  ASSUME ArmedInv, NEW h \in Hosts, NEW outcome, NEW new, Closes(h, outcome, new),
         UNCHANGED send, \A m \in msgs' \ msgs : m.kind = "result"
  PROVE  ArmingStep
<1>1. /\ history'.armed = history.armed /\ history.forgotten \subseteq history'.forgotten
      /\ \A k \in Hosts \ {h} : Held(k)' = Held(k) /\ pending'[k] = pending[k]
      /\ pending'[h].id = 0 /\ pending'[h].devices = {}
  BY NoIncomingFacts DEF Closes, Held
<1>2. \A i \in Held(h) : i \in Held(h)' \/ i \in history'.forgotten
  BY DEF Closes, Held
<1>3. \A i \in Held(h)' : i = 0 \/ i \in Held(h)
  BY <1>1 DEF Closes, Held
<1> QED BY <1>1, <1>2, <1>3 DEF ArmingStep, ArmedInv, HeldIsArmed, Engaged
LEMMA ArmingSender ==
  ASSUME ArmedInv, NEW h \in Hosts, SenderStep(h)
  PROVE  ArmingStep
<1>1. Typed /\ TypeOK
  BY DEF ArmedInv, Reporting, Numbered, Typed
<1>2. OthersSend(h) /\ UNCHANGED <<pending, completed>>
  BY <1>1, SenderStepFacts
<1>3. history'.armed = history.armed /\ history'.forgotten = history.forgotten
  <2>1. CASE BeginWrite(h)
    BY <1>1, <2>1, TypedBeginWrite
  <2>2. CASE ~BeginWrite(h)
    BY <2>2 DEF SenderStep, NotStarted, Prepared, CallRejected, CallAccepted, CallFails,
                SkipWrite, EndWrite, Settle, AwaitEnds, Sent, SenderAborted
  <2> QED BY <2>1, <2>2
<1>4. ASSUME NEW r, Report(h, r),
             r \in {"not_started", "rejected", "cancelled", "no_result", "finished"},
             \A m \in msgs' \ msgs : m = Cancel(h, send[h].id)
      PROVE  ArmingStep
  <2>1. send'[h].phase = "reported" /\ \A m \in msgs' \ msgs : m.kind = "cancel"
    BY <1>1, <1>4, ReportSend, MadeFields
  <2> QED BY <1>2, <1>3, <2>1, ArmingSend DEF Engaged
<1>5. ASSUME Continues(h), Engaged(h), send'[h].phase \in {"writing", "applying", "awaiting"},
             msgs' \subseteq msgs
      PROVE  ArmingStep
  BY <1>2, <1>3, <1>5, ArmingSend DEF Continues
<1>6. CASE NotStarted(h)
  BY <1>4, <1>6 DEF NotStarted
<1>7. CASE Prepared(h)
  <2>1. send[h].phase = "preparing" /\ send'[h].phase = "calling"
    BY <1>1, <1>7, PreparedSend DEF Prepared
  <2>2. \A m \in msgs' \ msgs : m.kind = "request" /\ m.id = send[h].id
    BY <1>7, MadeFields DEF Prepared
  <2> QED BY <1>2, <1>3, <2>1, <2>2, ArmingSend DEF Engaged, Live
<1>8. CASE CallRejected(h)
  BY <1>4, <1>8 DEF CallRejected
<1>9. CASE CallAccepted(h)
  <2>1. PICK m \in msgs :
          /\ m.kind = "accept" /\ m.id = send[h].id /\ msgs' \subseteq msgs /\ Continues(h)
          /\ send'[h].phase = IF m.window = 0 THEN "awaiting" ELSE "writing"
    BY <1>1, <1>9, AcceptedFacts
  <2> QED BY <1>2, <1>3, <2>1, ArmingSend DEF Continues
<1>10. CASE CallFails(h)
  BY <1>4, <1>10 DEF CallFails
<1>11. CASE BeginWrite(h)
  BY <1>1, <1>5, <1>11, BeginWriteSend DEF BeginWrite, Engaged
<1>12. CASE SkipWrite(h)
  BY <1>1, <1>5, <1>12, SkipWriteSend DEF SkipWrite, Engaged
<1>13. CASE EndWrite(h)
  <2>1. send[h].switches # <<>>
    BY <1>1, <1>13 DEF Typed, ApplyingHasSwitch, EndWrite
  <2> QED BY <1>1, <1>5, <1>13, <2>1, EndWriteSend DEF EndWrite, Engaged
<1>14. CASE Settle(h)
  <2>1. CASE Report(h, "cancelled") /\ msgs' = msgs \cup {Cancel(h, send[h].id)}
    BY <1>4, <2>1
  <2>2. CASE Report(h, "no_result") /\ UNCHANGED msgs
    BY <1>4, <2>2
  <2>3. CASE /\ send' = [send EXCEPT ![h].phase = "awaiting", ![h].age = 0, ![h].window = 0]
             /\ UNCHANGED msgs
    BY <1>1, <1>5, <1>14, <2>3, AwaitSend DEF Settle, Engaged
  <2> QED BY <1>14, <2>1, <2>2, <2>3 DEF Settle
<1>15. CASE AwaitEnds(h)
  BY <1>4, <1>15 DEF AwaitEnds
<1>16. CASE Sent(h) \/ SenderAborted(h)
  <2>1. send'[h].phase = "idle" /\ UNCHANGED msgs
    BY <1>1, <1>16, IdleSend, IdleSenderFacts DEF Sent, SenderAborted
  <2> QED BY <1>2, <1>3, <2>1, ArmingSend DEF Engaged
<1> QED BY <1>6, <1>7, <1>8, <1>9, <1>10, <1>11, <1>12, <1>13, <1>14, <1>15, <1>16
      DEF SenderStep

\* A request that arms names a transfer that was not armed, or was forgotten.
LEMMA ArmsNew ==
  ASSUME ArmedInv, NEW h \in Hosts, NEW m \in msgs, m.kind = "request", m.to = h, Arms(h, m)
  PROVE  /\ m.id \in 1..issued
         /\ m.id \in history.armed => m.id \in history.forgotten
<1>1. TypeOK
  BY DEF ArmedInv, Reporting, Numbered, Typed
<1>2. m.id \in 1..issued
  BY DEF ArmedInv, Reporting, Numbered, IdsAreIssued
<1>3. m.id \notin Held(h)
  BY <1>1, <1>2, RememberedEntries DEF Arms, Held
<1>4. Traced(m.id, h)
  BY DEF Traced
<1>5. \A k \in Hosts : m.id \in Held(k) => k = h
  BY <1>2, <1>4 DEF Held, Traced, ArmedInv, Reporting, Numbered, OneReceiver
<1> QED BY <1>2, <1>3, <1>5 DEF ArmedInv, ArmedIsKept

LEMMA ArmingRequest ==
  ASSUME ArmedInv, NEW h \in Hosts, RequestArrives(h)
  PROVE  ArmingStep
<1>1. TypeOK
  BY DEF ArmedInv, Reporting, Numbered, Typed
<1>2. UNCHANGED <<completed, send>>
  BY <1>1, RequestFacts
<1>3. PICK m \in msgs :
        /\ m.kind = "request" /\ m.to = h
        /\ \/ \E i \in Remembered(h, m.id) :
                /\ msgs' = (msgs \ {m}) \cup {Accept(Peer(h), m.id, 0),
                                              Result(Peer(h), completed[h][i])}
                /\ UNCHANGED <<pending, history>>
           \/ /\ pending[h].id = m.id
              /\ msgs' = (msgs \ {m}) \cup {Accept(Peer(h), m.id, pending[h].left)}
              /\ UNCHANGED <<pending, history>>
           \/ /\ msgs' = (msgs \ {m}) \cup {Reject(Peer(h), m.id)}
              /\ UNCHANGED <<pending, history>>
           \/ Arms(h, m)
  BY <1>1, RequestFacts
<1>4. m.id # 0
  BY <1>3 DEF ArmedInv, Reporting, Numbered, IdsAreIssued
<1>5. CASE \E i \in Remembered(h, m.id) :
             /\ msgs' = (msgs \ {m}) \cup {Accept(Peer(h), m.id, 0),
                                           Result(Peer(h), completed[h][i])}
             /\ UNCHANGED <<pending, history>>
  <2>1. m.id \in Held(h)
    BY <1>1, <1>5, RememberedEntries DEF Held
  <2>2. \A x \in msgs' \ msgs : x.kind = "result" \/ (x.kind = "accept" /\ x.id = m.id)
    BY <1>5, MadeFields
  <2> QED BY <1>2, <1>4, <1>5, <2>1, <2>2, ArmingQuiet
<1>6. CASE /\ pending[h].id = m.id
           /\ msgs' = (msgs \ {m}) \cup {Accept(Peer(h), m.id, pending[h].left)}
           /\ UNCHANGED <<pending, history>>
  <2>1. m.id \in Held(h)
    BY <1>6 DEF Held
  <2>2. \A x \in msgs' \ msgs : x.kind = "accept" /\ x.id = m.id
    BY <1>6, MadeFields
  <2> QED BY <1>2, <1>4, <1>6, <2>1, <2>2, ArmingQuiet
<1>7. CASE /\ msgs' = (msgs \ {m}) \cup {Reject(Peer(h), m.id)}
           /\ UNCHANGED <<pending, history>>
  <2>1. \A x \in msgs' \ msgs : x.kind = "reject"
    BY <1>7, MadeFields
  <2> QED BY <1>2, <1>7, <2>1, ArmingQuiet
<1>8. CASE Arms(h, m)
  <2>1. \A k \in Hosts : Entries(k)' = Entries(k)
    BY <1>2 DEF Entries
  <2>2. /\ \A k \in Hosts \ {h} : Held(k)' = Held(k) /\ pending'[k] = pending[k]
        /\ Held(h)' \cup {0} = Held(h) \cup {m.id} /\ m.id \in Held(h)'
        /\ pending'[h].id = m.id
    BY <1>8, <2>1 DEF Held, Arms
  <2>3. /\ history'.armed = history.armed \cup {m.id}
        /\ history'.forgotten = history.forgotten
        /\ \A x \in msgs' \ msgs : x.kind = "accept" /\ x.id = m.id
    BY <1>8, MadeFields DEF Arms
  <2> QED BY <1>2, <1>3, <1>4, <2>2, <2>3 DEF ArmingStep, ArmedInv, HeldIsArmed, Engaged
<1> QED BY <1>3, <1>5, <1>6, <1>7, <1>8

LEMMA ArmingReceiver ==
  ASSUME ArmedInv, NEW h \in Hosts,
         CancelArrives(h) \/ InventoryChanged(h) \/ Expire(h) \/ ResultArrives(h) \/ Crossed(h)
  PROVE  ArmingStep
<1>1. Numbered /\ TypeOK
  BY DEF ArmedInv, Reporting, Numbered, Typed
<1>2. CASE CancelArrives(h)
  <2>1. /\ UNCHANGED send /\ msgs' \subseteq msgs
        /\ \/ \E new : Closes(h, "cancelled", new)
           \/ UNCHANGED <<pending, completed, history>>
    BY <1>1, <1>2, CancelFacts
  <2> QED BY <2>1, ArmingCloses, ArmingQuiet
<1>3. CASE InventoryChanged(h)
  <2>1. UNCHANGED send
    BY <1>1, <1>3, ObserveFacts
  <2>2. CASE \E new \in Results : Closes(h, "arrived", new) /\ msgs' = msgs \cup {Result(Peer(h), new)}
    BY <2>1, <2>2, ArmingCloses, MadeFields
  <2>3. CASE /\ \A k \in Hosts : /\ pending'[k].id = pending[k].id
                                 /\ pending'[k].devices = pending[k].devices
             /\ UNCHANGED <<completed, msgs>>
             /\ history'.armed = history.armed /\ history'.forgotten = history.forgotten
    BY <2>1, <2>3, ArmingQuiet
  <2> QED BY <1>1, <1>3, <2>2, <2>3, ObserveFacts
<1>4. CASE Expire(h)
  <2>1. UNCHANGED send
    BY <1>1, <1>4, ExpireFacts
  <2>2. PICK outcome \in {"timeout", "partial"}, new \in Results :
          Closes(h, outcome, new) /\ msgs' = msgs \cup {Result(Peer(h), new)}
    BY <1>1, <1>4, ExpireFacts
  <2> QED BY <2>1, <2>2, ArmingCloses, MadeFields
<1>5. CASE ResultArrives(h)
  <2>1. /\ UNCHANGED <<pending, completed, history>> /\ msgs' \subseteq msgs
        /\ \A k \in Hosts : send'[k].phase = send[k].phase /\ send'[k].id = send[k].id
    BY <1>1, <1>5, ResultFacts
  <2> QED BY <2>1, ArmingQuiet
<1>6. CASE Crossed(h)
  BY <1>1, <1>6, CrossedFacts, ArmingSend DEF Engaged
<1> QED BY <1>2, <1>3, <1>4, <1>5, <1>6

LEMMA ArmingRest ==
  ASSUME ArmedInv,
         \/ \E h \in Hosts : StopGeneration(h) \/ StartGeneration(h) \/ Retransmit(h)
         \/ DeviceStep \/ Tick \/ UNCHANGED vars
  PROVE  ArmingStep
<1>1. TypeOK
  BY DEF ArmedInv, Reporting, Numbered, Typed
<1>2. ASSUME NEW h \in Hosts, StopGeneration(h)
      PROVE  ArmingStep
  <2>1. /\ UNCHANGED send /\ msgs' \subseteq msgs
        /\ pending'[h] = NoIncoming /\ completed'[h] = <<>>
        /\ \A k \in Hosts \ {h} : pending'[k] = pending[k] /\ completed'[k] = completed[k]
        /\ history'.armed = history.armed
        /\ history'.forgotten = history.forgotten \cup {pending[h].id} \cup {e.id : e \in Entries(h)}
    BY <1>1, <1>2, StopFacts
  <2>2. Entries(h)' = {}
    BY <2>1 DEF Entries
  <2>3. \A k \in Hosts \ {h} : Entries(k)' = Entries(k)
    BY <2>1 DEF Entries
  <2>4. Held(h)' = {0} /\ Held(h) \subseteq history'.forgotten
        /\ \A k \in Hosts \ {h} : Held(k)' = Held(k)
    BY <2>1, <2>2, <2>3, NoIncomingFacts DEF Held
  <2> QED BY <2>1, <2>4, NoIncomingFacts DEF ArmingStep, ArmedInv, HeldIsArmed, Engaged
<1>3. ASSUME NEW h \in Hosts, StartGeneration(h)
      PROVE  ArmingStep
  BY <1>3, ArmingQuiet DEF StartGeneration, InboundDropped
<1>4. ASSUME NEW h \in Hosts, Retransmit(h)
      PROVE  ArmingStep
  <2>1. /\ UNCHANGED <<pending, completed, history, send>> /\ send[h].phase = "calling"
        /\ \A m \in msgs' \ msgs : m.kind = "request" /\ m.id = send[h].id
    BY <1>4, MadeFields DEF Retransmit
  <2> QED BY <2>1, ArmingQuiet DEF Live
<1>5. CASE DeviceStep \/ UNCHANGED vars
  <2>1. UNCHANGED <<pending, completed, history, send, msgs>>
    BY <1>5, DeviceFrame DEF vars
  <2> QED BY <2>1, ArmingQuiet
<1>6. CASE Tick
  BY <1>1, <1>6, TickFields, ArmingQuiet DEF Tick
<1> QED BY <1>2, <1>3, <1>4, <1>5, <1>6

LEMMA StepArms ==
  ASSUME ArmedInv, [Next]_vars
  PROVE  ArmingStep
BY ArmingSender, ArmingRequest, ArmingReceiver, ArmingRest DEF Next, ActorStep, DeviceStep

LEMMA NextArmedInv ==
  ASSUME ArmedInv, [Next]_vars
  PROVE  ArmedInv'
<1>1. Reporting'
  BY NextReporting DEF ArmedInv
<1> QED BY <1>1, StepArms, ArmingKeeps

LEMMA InitArmedInv ==
  ASSUME Init
  PROVE  ArmedInv
<1>1. /\ msgs = {} /\ history.armed = {}
      /\ \A h \in Hosts : /\ send[h] = IdleSender /\ completed[h] = <<>>
                          /\ pending[h] = NoIncoming
  BY DEF Init
<1>2. \A h \in Hosts : Entries(h) = {}
  BY <1>1 DEF Entries
<1> QED BY <1>1, <1>2, InitReporting, IdleSenderFacts, NoIncomingFacts
      DEF ArmedInv, ArmedIsKept, HeldIsArmed, PreparingIsUnheard, AcceptIsArmed, Held, Engaged

\* Only a request arms.
LEMMA OnlyRequestsArm ==
  ASSUME ArmedInv, [Next]_vars, NEW h \in Hosts, pending'[h].id \notin {0, pending[h].id}
  PROVE  \E m \in msgs : /\ m.kind = "request" /\ m.to = h /\ m.id = pending'[h].id
                         /\ RequestArrives(h) /\ Arms(h, m)
<1>1. Numbered /\ Typed /\ TypeOK
  BY DEF ArmedInv, Reporting, Numbered, Typed
<1>2. CASE RequestArrives(h)
  BY <1>1, <1>2, RequestFacts, SMTT(60) DEF Arms
<1>3. ASSUME NEW k \in Hosts, k # h, RequestArrives(k)
      PROVE  FALSE
  BY <1>1, <1>3, RequestFacts DEF Arms
<1>4. ASSUME NEW k \in Hosts, SenderStep(k)
      PROVE  FALSE
  BY <1>1, <1>4, SenderStepFacts
<1>5. ASSUME NEW k \in Hosts, NEW outcome, NEW new, Closes(k, outcome, new)
      PROVE  FALSE
  BY <1>5, NoIncomingFacts DEF Closes
<1>6. ASSUME NEW k \in Hosts, InventoryChanged(k)
      PROVE  FALSE
  <2>1. \/ \E new \in Results : Closes(k, "arrived", new)
        \/ pending'[k].id = pending[k].id /\ \A j \in Hosts \ {k} : pending'[j] = pending[j]
    BY <1>1, <1>6, ObserveFacts
  <2> QED BY <1>5, <2>1
<1>7. ASSUME NEW k \in Hosts, CancelArrives(k) \/ Expire(k)
      PROVE  FALSE
  BY <1>1, <1>5, <1>7, CancelFacts, ExpireFacts
<1>8. ASSUME NEW k \in Hosts, StopGeneration(k)
      PROVE  FALSE
  <2>1. pending'[k] = NoIncoming /\ \A j \in Hosts \ {k} : pending'[j] = pending[j]
    BY <1>1, <1>8, StopFacts
  <2> QED BY <2>1, NoIncomingFacts
<1>9. ASSUME NEW k \in Hosts,
             ResultArrives(k) \/ Crossed(k) \/ StartGeneration(k) \/ Retransmit(k)
      PROVE  FALSE
  BY <1>9 DEF ResultArrives, Crossed, StartGeneration, Retransmit
<1>10. CASE Tick
  BY <1>1, <1>10, TickFields
<1>11. CASE DeviceStep \/ UNCHANGED vars
  BY <1>11, DeviceFrame DEF vars
<1> QED BY <1>2, <1>3, <1>4, <1>6, <1>7, <1>8, <1>9, <1>10, <1>11
      DEF Next, ActorStep, DeviceStep

LEMMA ArmedInvHolds == Spec => []ArmedInv
<1>1. Init => ArmedInv
  BY InitArmedInv
<1>2. ArmedInv /\ [Next]_vars => ArmedInv'
  BY NextArmedInv
<1> QED BY <1>1, <1>2, PTL DEF Spec

\* A transfer id is the idempotency key (IncomingLedger::arm): whatever is
\* repeated, late or out of order, a request arms no transfer a second time,
\* except one the ledger dropped.
THEOREM ArmsOnce == Spec => ArmedOnce
<1>1. ArmedInv /\ [Next]_vars =>
        [\A h \in Hosts : pending'[h].id \notin {0, pending[h].id} =>
           pending'[h].id \notin history.armed \ history.forgotten]_vars
  <2> SUFFICES ASSUME ArmedInv, [Next]_vars, NEW h \in Hosts,
                      pending'[h].id \notin {0, pending[h].id}
               PROVE  pending'[h].id \notin history.armed \ history.forgotten
    OBVIOUS
  <2>1. PICK m \in msgs : /\ m.kind = "request" /\ m.to = h /\ m.id = pending'[h].id
                          /\ Arms(h, m)
    BY OnlyRequestsArm
  <2> QED BY <2>1, ArmsNew
<1> QED BY <1>1, ArmedInvHolds, PTL DEF Spec, ArmedOnce
-----------------------------------------------------------------------------
(* The cursor.                                                             *)

\* The transfer held at h stays, its cursor at most newly placed.
Holds(h) ==
  /\ pending'[h].id = pending[h].id /\ pending'[h].left = pending[h].left
  /\ ~pending'[h].placed => ~pending[h].placed

\* A step other than the passing of time drops the transfer a ledger holds,
\* keeps it, or arms another.
LEMMA PendingSteps ==
  ASSUME ArmedInv, [Next]_vars, NEW h \in Hosts, pending'[h].id = pending[h].id
  PROVE  pending'[h].id = 0 \/ Holds(h) \/ Tick
<1>1. Numbered /\ Typed /\ TypeOK
  BY DEF ArmedInv, Reporting, Numbered, Typed
<1>2. ASSUME NEW k \in Hosts, RequestArrives(k)
      PROVE  pending'[h].id = 0 \/ Holds(h)
  <2>1. pending' = pending \/ \E m \in msgs : Arms(k, m)
    BY <1>1, <1>2, RequestFacts
  <2> QED BY <2>1 DEF Holds, Arms
<1>3. ASSUME NEW k \in Hosts, SenderStep(k)
      PROVE  Holds(h)
  BY <1>1, <1>3, SenderStepFacts DEF Holds
<1>4. ASSUME NEW k \in Hosts, NEW outcome, NEW new, Closes(k, outcome, new)
      PROVE  pending'[h].id = 0 \/ Holds(h)
  BY <1>4, NoIncomingFacts DEF Closes, Holds
<1>5. ASSUME NEW k \in Hosts, InventoryChanged(k)
      PROVE  pending'[h].id = 0 \/ Holds(h)
  <2>1. \/ \E new \in Results : Closes(k, "arrived", new)
        \/ /\ pending'[k].id = pending[k].id /\ pending'[k].left = pending[k].left
           /\ ~pending'[k].placed => ~pending[k].placed
           /\ \A j \in Hosts \ {k} : pending'[j] = pending[j]
    BY <1>1, <1>5, ObserveFacts
  <2> QED BY <1>4, <2>1 DEF Holds
<1>6. ASSUME NEW k \in Hosts, CancelArrives(k) \/ Expire(k)
      PROVE  pending'[h].id = 0 \/ Holds(h)
  <2>1. \/ \E outcome, new : Closes(k, outcome, new)
        \/ pending' = pending
    BY <1>1, <1>6, CancelFacts, ExpireFacts
  <2> QED BY <1>4, <2>1 DEF Holds
<1>7. ASSUME NEW k \in Hosts, StopGeneration(k)
      PROVE  pending'[h].id = 0 \/ Holds(h)
  <2>1. pending'[k] = NoIncoming /\ \A j \in Hosts \ {k} : pending'[j] = pending[j]
    BY <1>1, <1>7, StopFacts
  <2> QED BY <2>1, NoIncomingFacts DEF Holds
<1>8. ASSUME NEW k \in Hosts,
             ResultArrives(k) \/ Crossed(k) \/ StartGeneration(k) \/ Retransmit(k)
      PROVE  Holds(h)
  BY <1>8 DEF ResultArrives, Crossed, StartGeneration, Retransmit, Holds
<1>9. CASE DeviceStep \/ UNCHANGED vars
  BY <1>9, DeviceFrame DEF vars, Holds
<1> QED BY <1>2, <1>3, <1>5, <1>6, <1>7, <1>8, <1>9 DEF Next, ActorStep, DeviceStep

\* A transfer whose cursor is still to be placed was not placed before.
CursorFollows ==
  /\ \A i \in 1..Len(history.placed) : history.placed[i] \in history.armed
  /\ \A h \in Hosts :
       pending[h].id # 0 /\ ~pending[h].placed /\ pending[h].id \notin history.forgotten
         => \A i \in 1..Len(history.placed) : history.placed[i] # pending[h].id

CursorInv == ArmedInv /\ CursorFollows /\ CursorPlacedOnce

LEMMA PlacedUnlessObserved ==
  ASSUME ArmedInv, [Next]_vars, \A h \in Hosts : ~InventoryChanged(h)
  PROVE  history'.placed = history.placed
<1>1. Numbered /\ Typed /\ TypeOK
  BY DEF ArmedInv, Reporting, Numbered, Typed
<1>2. ASSUME NEW h \in Hosts, SenderStep(h)
      PROVE  history'.placed = history.placed
  <2>1. CASE BeginWrite(h)
    BY <1>1, <2>1, TypedBeginWrite
  <2>2. CASE ~BeginWrite(h)
    BY <1>2, <2>2 DEF SenderStep, NotStarted, Prepared, CallRejected, CallAccepted, CallFails,
                      SkipWrite, EndWrite, Settle, AwaitEnds, Sent, SenderAborted
  <2> QED BY <2>1, <2>2
<1>3. ASSUME NEW h \in Hosts, RequestArrives(h)
      PROVE  history'.placed = history.placed
  BY <1>1, <1>3, RequestFacts DEF Arms
<1>4. ASSUME NEW h \in Hosts, CancelArrives(h) \/ Expire(h) \/ StopGeneration(h)
      PROVE  history'.placed = history.placed
  BY <1>1, <1>4, CancelFacts, ExpireFacts, StopFacts
<1>5. ASSUME NEW h \in Hosts,
             ResultArrives(h) \/ Crossed(h) \/ StartGeneration(h) \/ Retransmit(h)
      PROVE  history'.placed = history.placed
  BY <1>5 DEF ResultArrives, Crossed, StartGeneration, Retransmit
<1>6. CASE DeviceStep \/ Tick \/ UNCHANGED vars
  BY <1>6, DeviceFrame DEF vars, Tick
<1> QED BY <1>2, <1>3, <1>4, <1>5, <1>6 DEF Next, ActorStep, DeviceStep

LEMMA NextCursorInv ==
  ASSUME CursorInv, [Next]_vars
  PROVE  CursorInv'
<1>1. ArmedInv /\ ArmedInv' /\ ArmingStep
  BY NextArmedInv, StepArms DEF CursorInv
<1>2. /\ history.armed \subseteq history'.armed /\ history.forgotten \subseteq history'.forgotten
  BY <1>1 DEF ArmingStep
<1>3. TypeOK /\ Numbered
  BY <1>1 DEF ArmedInv, Reporting, Numbered, Typed
<1>4. history.placed \in Seq(Ids)
  BY <1>3 DEF TypeOK, Histories
<1> DEFINE q == history.placed
<1>5. DOMAIN q = 1..Len(q) /\ Len(q) \in Nat
  BY <1>4
<1>6. ASSUME NEW h \in Hosts, pending'[h].id # 0, ~pending'[h].placed,
             pending'[h].id \notin history'.forgotten
      PROVE  \A i \in 1..Len(q) : q[i] # pending'[h].id
  <2>1. CASE pending'[h].id = pending[h].id
    <3>1. ~pending[h].placed
      <4>1. CASE Tick
        BY <1>3, <1>6, <4>1, TickFields
      <4>2. CASE ~Tick
        BY <1>1, <1>6, <2>1, <4>2, PendingSteps DEF Holds
      <4> QED BY <4>1, <4>2
    <3> QED BY <1>2, <1>6, <2>1, <3>1 DEF CursorInv, CursorFollows
  <2>2. CASE pending'[h].id # pending[h].id
    <3>1. PICK m \in msgs : /\ m.kind = "request" /\ m.to = h /\ m.id = pending'[h].id
                            /\ Arms(h, m)
      BY <1>1, <1>6, <2>2, OnlyRequestsArm
    <3>2. m.id \notin history.armed
      BY <1>1, <1>2, <1>6, <3>1, ArmsNew
    <3> QED BY <3>1, <3>2 DEF CursorInv, CursorFollows
  <2> QED BY <2>1, <2>2
<1>7. CASE history'.placed = history.placed
  <2>1. CursorFollows'
    BY <1>2, <1>6, <1>7 DEF CursorInv, CursorFollows
  <2>2. CursorPlacedOnce'
    BY <1>2, <1>7 DEF CursorInv, CursorPlacedOnce
  <2> QED BY <1>1, <2>1, <2>2 DEF CursorInv
<1>8. CASE history'.placed # history.placed
  <2>1. PICK h \in Hosts : InventoryChanged(h)
    BY <1>1, <1>8, PlacedUnlessObserved
  <2> DEFINE n == pending[h].id
  <2>2. /\ pending[h].devices # {} /\ ~pending[h].placed
        /\ history'.placed = Append(q, n)
        /\ pending'[h] = NoIncoming \/ pending'[h].placed
        /\ \A k \in Hosts \ {h} : pending'[k] = pending[k]
    <3>1. PICK places \in BOOLEAN :
            /\ places => pending[h].devices # {} /\ ~pending[h].placed
            /\ history'.placed = IF places THEN Append(history.placed, pending[h].id)
                                           ELSE history.placed
            /\ \/ \E new \in Results : Closes(h, "arrived", new)
               \/ /\ \A k \in Hosts \ {h} : pending'[k] = pending[k]
                  /\ ~pending'[h].placed => ~pending[h].placed /\ ~places
      BY <1>3, <2>1, ObserveFacts
    <3>2. places
      BY <1>8, <3>1
    <3> QED BY <3>1, <3>2 DEF Closes
  <2>3. n # 0 /\ n \in Ids /\ n \in history.armed
    BY <1>1, <1>3, <2>2, PendingFields DEF ArmedInv, HeldIsArmed, Held
  <2>4. Traced(n, h) /\ n \in 1..issued
    BY <1>1, <2>3 DEF Traced, ArmedInv, Reporting, Numbered, IdsAreIssued
  <2>5. \A k \in Hosts : pending[k].id = n => k = h
    BY <1>3, <2>4 DEF Traced, Numbered, OneReceiver
  <2> HIDE DEF n
  <2>6. /\ Len(history'.placed) = Len(q) + 1 /\ history'.placed[Len(q) + 1] = n
        /\ \A i \in 1..Len(q) : history'.placed[i] = q[i]
        /\ DOMAIN history'.placed = 1..(Len(q) + 1)
    BY <1>4, <2>2, <2>3
  <2>7. \A i \in 1..(Len(q) + 1) : i \in 1..Len(q) \/ i = Len(q) + 1
    BY <1>5
  <2>8. n \in history.forgotten \/ \A i \in 1..Len(q) : q[i] # n
    BY <2>2, <2>3 DEF CursorInv, CursorFollows, n
  <2> HIDE DEF q
  <2>9. CursorPlacedOnce'
    <3> SUFFICES ASSUME NEW i \in 1..(Len(q) + 1), NEW j \in 1..(Len(q) + 1), i # j,
                        history'.placed[i] = history'.placed[j]
                 PROVE  history'.placed[i] \in history'.forgotten
      BY <2>6 DEF CursorPlacedOnce
    <3>1. CASE i \in 1..Len(q) /\ j \in 1..Len(q)
      BY <1>2, <1>5, <2>6, <3>1 DEF CursorInv, CursorPlacedOnce, q
    <3>2. CASE i = Len(q) + 1 \/ j = Len(q) + 1
      BY <1>2, <2>6, <2>7, <2>8, <3>2
    <3> QED BY <2>7, <3>1, <3>2
  <2>10. CursorFollows'
    <3>1. \A i \in 1..Len(history'.placed) : history'.placed[i] \in history'.armed
      BY <1>2, <2>3, <2>6, <2>7 DEF CursorInv, CursorFollows, q
    <3>2. ASSUME NEW k \in Hosts, pending'[k].id # 0, ~pending'[k].placed,
                 pending'[k].id \notin history'.forgotten
          PROVE  \A i \in 1..Len(history'.placed) : history'.placed[i] # pending'[k].id
      <4>1. k # h
        BY <2>2, <3>2, NoIncomingFacts
      <4>2. pending'[k].id # n
        BY <2>2, <2>5, <4>1
      <4> QED BY <1>6, <2>6, <2>7, <3>2, <4>2
    <3> QED BY <3>1, <3>2 DEF CursorFollows
  <2> QED BY <1>1, <2>9, <2>10 DEF CursorInv
<1> QED BY <1>7, <1>8

\* The cursor is placed once for a transfer (IncomingLedger::observe), however
\* many pointing devices arrive, in whichever order, and however often the
\* request is repeated, unless the ledger dropped the transfer.
THEOREM CursorOnce == Spec => []CursorPlacedOnce
<1>1. Init => CursorInv
  BY InitArmedInv, NoIncomingFacts DEF Init, CursorInv, CursorFollows, CursorPlacedOnce
<1>2. CursorInv /\ [Next]_vars => CursorInv'
  BY NextCursorInv
<1>3. CursorInv => CursorPlacedOnce
  BY DEF CursorInv
<1> QED BY <1>1, <1>2, <1>3, PTL DEF Spec
-----------------------------------------------------------------------------
(* Timers.                                                                 *)

PendingIsFresh ==
  \A h \in Hosts : pending[h].id # 0 => \A e \in Entries(h) : e.id # pending[h].id

\* An accepted window covers what the receiver has left.
WindowCovers ==
  \A m \in msgs : \A h \in Hosts :
    m.kind = "accept" /\ pending[h].id = m.id /\ m.id \notin history.forgotten
      => pending[h].left <= m.window

SenderWaits ==
  \A h, k \in Hosts :
    Engaged(h) /\ pending[k].id = send[h].id /\ send[h].id \notin history.forgotten
      /\ pending[k].left > 0
      => send[h].wait >= pending[k].left + NetworkSlack

\* A window the sender at h writes by, or may once it takes the answer.
Promised(h, w) ==
  \/ send[h].phase \in {"writing", "applying"} /\ w = send[h].window
  \/ /\ send[h].phase = "calling"
     /\ \E m \in msgs : /\ m.kind = "accept" /\ m.id = send[h].id
                        /\ w = MinOf(m.window, MaxArmTimeout)

\* The sender's clock, started with the request, is ahead of the receiver's.
AgeCovers ==
  \A h, k \in Hosts : \A w \in 0..MaxArmTimeout :
    Promised(h, w) /\ send[h].id \notin history.forgotten =>
      /\ pending[k].id = send[h].id => pending[k].left + send[h].age >= w
      /\ \A e \in Entries(k) :
           e.id = send[h].id /\ e.outcome \in {"partial", "timeout"} => send[h].age >= w

OutcomesKnown ==
  \A h \in Hosts : \A e \in Entries(h) : e.outcome \in {"arrived", "partial", "timeout", "cancelled"}

Timers == PendingIsFresh /\ WindowCovers /\ SenderWaits /\ AgeCovers /\ OutcomesKnown

TimerInv == ArmedInv /\ Timers

\* What a step leaves of the sender at k, for the timers.
SameClock(k) ==
  /\ send'[k].phase = send[k].phase /\ send'[k].id = send[k].id
  /\ send'[k].age = send[k].age /\ send'[k].window = send[k].window
  /\ send'[k].wait = send[k].wait

LEMMA LiveIds ==
  ASSUME ArmedInv, NEW h \in Hosts
  PROVE  /\ Engaged(h) => Live(h) /\ send[h].id # 0
         /\ \A w : Promised(h, w) => Live(h) /\ send[h].id # 0
         /\ send[h] \in Senders /\ send[h].age \in Nat /\ send[h].wait \in Nat
         /\ send[h].window \in Nat
         /\ pending[h].left \in Nat /\ pending[h].left <= ArmTimeout
<1>1. /\ send[h] \in Senders /\ send[h].age \in Nat /\ send[h].wait \in Nat
      /\ send[h].window \in Nat /\ pending[h].left \in Nat /\ pending[h].left <= ArmTimeout
  <2>1. TypeOK /\ send[h] \in Senders
    BY DEF ArmedInv, Reporting, Numbered, Typed, TypeOK
  <2>2. send[h].age \in Nat /\ send[h].wait \in Nat /\ send[h].window \in Nat
    BY <2>1, SenderFields
  <2>3. pending[h].left \in Nat /\ pending[h].left <= ArmTimeout
    BY <2>1, PendingFields
  <2> QED BY <2>1, <2>2, <2>3
<1> QED BY <1>1 DEF Engaged, Promised, Live, ArmedInv, Reporting, Numbered, IdsAreIssued

\* Ledgers that drop, keep or close what they hold; senders and answers as
\* they were.
LEMMA TimersKept ==
  ASSUME TimerInv,
         \A k \in Hosts : SameClock(k),
         \A k \in Hosts : \/ pending'[k].id = 0
                          \/ /\ pending'[k].id = pending[k].id
                             /\ pending'[k].left = pending[k].left,
         \A k \in Hosts : \A e \in Entries(k)' :
           \/ e \in Entries(k)
           \/ /\ e.id = pending[k].id /\ pending'[k].id = 0
              /\ e.outcome \in {"arrived", "partial", "timeout", "cancelled"}
              /\ e.outcome \in {"partial", "timeout"} => pending[k].left = 0,
         history.forgotten \subseteq history'.forgotten,
         \A m \in msgs' \ msgs : m.kind # "accept"
  PROVE  Timers'
<1>1. PendingIsFresh' /\ OutcomesKnown'
  BY DEF TimerInv, Timers, PendingIsFresh, OutcomesKnown
<1>2. \A m \in msgs : m.kind = "accept" => m.id # 0
  BY DEF TimerInv, ArmedInv, Reporting, Numbered, IdsAreIssued
<1>3. WindowCovers'
  BY <1>2 DEF TimerInv, Timers, WindowCovers
<1>4. \A h \in Hosts : Engaged(h) => send[h].id # 0
  BY LiveIds DEF TimerInv
<1>5. SenderWaits'
  BY <1>4 DEF TimerInv, Timers, SenderWaits, SameClock, Engaged
<1>6. AgeCovers'
  <2> SUFFICES ASSUME NEW h \in Hosts, NEW k \in Hosts, NEW w \in 0..MaxArmTimeout,
                      Promised(h, w)', send'[h].id \notin history'.forgotten
               PROVE  /\ pending'[k].id = send'[h].id => pending'[k].left + send'[h].age >= w
                      /\ \A e \in Entries(k)' :
                           e.id = send'[h].id /\ e.outcome \in {"partial", "timeout"}
                             => send'[h].age >= w
    BY DEF AgeCovers
  <2>1. Promised(h, w) /\ send[h].id \notin history.forgotten
    BY DEF Promised, SameClock
  <2>2. /\ pending[k].id = send[h].id => pending[k].left + send[h].age >= w
        /\ \A e \in Entries(k) :
             e.id = send[h].id /\ e.outcome \in {"partial", "timeout"} => send[h].age >= w
    BY <2>1 DEF TimerInv, Timers, AgeCovers
  <2>3. /\ send[h].id # 0
        /\ send[h].age \in Nat
        /\ send'[h].id = send[h].id
        /\ send'[h].age = send[h].age
    BY <2>1, LiveIds DEF TimerInv, SameClock
  <2> QED BY <2>2, <2>3
<1> QED BY <1>1, <1>3, <1>5, <1>6 DEF Timers

\* Steps of the sender task at h.
LEMMA TimersSend ==
  ASSUME TimerInv, NEW h \in Hosts, OthersSend(h), UNCHANGED <<pending, completed>>,
         history'.forgotten = history.forgotten,
         \A m \in msgs' \ msgs : m.kind # "accept",
         Engaged(h)' =>
           /\ send'[h].id = send[h].id
           /\ \/ Engaged(h) /\ send'[h].wait = send[h].wait
              \/ \E m \in msgs : /\ m.kind = "accept" /\ m.id = send[h].id
                                 /\ m.window \in 0..ArmTimeout
                                 /\ send'[h].wait = MinOf(m.window, MaxArmTimeout) + NetworkSlack,
         \A w \in 0..MaxArmTimeout : Promised(h, w)' =>
           Promised(h, w) /\ send'[h].id = send[h].id /\ send'[h].age = send[h].age
  PROVE  Timers'
<1>1. \A k \in Hosts : Entries(k)' = Entries(k)
  BY DEF Entries
<1>2. PendingIsFresh' /\ OutcomesKnown' /\ WindowCovers'
  BY <1>1 DEF TimerInv, Timers, PendingIsFresh, OutcomesKnown, WindowCovers
<1>3. SenderWaits'
  <2> SUFFICES ASSUME NEW k \in Hosts, NEW j \in Hosts, Engaged(k)',
                      pending[j].id = send'[k].id, send'[k].id \notin history.forgotten,
                      pending[j].left > 0
               PROVE  send'[k].wait >= pending[j].left + NetworkSlack
    BY DEF SenderWaits
  <2>1. CASE Engaged(k) /\ send'[k].wait = send[k].wait /\ send'[k].id = send[k].id
    BY <2>1 DEF TimerInv, Timers, SenderWaits
  <2>2. ASSUME k = h, NEW m \in msgs, m.kind = "accept", m.id = send[h].id,
               m.window \in 0..ArmTimeout,
               send'[h].wait = MinOf(m.window, MaxArmTimeout) + NetworkSlack,
               send'[h].id = send[h].id
        PROVE  send'[k].wait >= pending[j].left + NetworkSlack
    <3>1. pending[j].left <= m.window /\ pending[j].left \in Nat
      BY <2>2, LiveIds DEF TimerInv, Timers, WindowCovers
    <3>2. m.window \in Nat /\ m.window <= MaxArmTimeout
      BY <2>2
    <3>3. MinOf(m.window, MaxArmTimeout) = m.window
      BY <3>2, MinOfFacts
    <3> QED BY <2>2, <3>1, <3>2, <3>3
  <2>3. k # h => Engaged(k) /\ send'[k] = send[k]
    BY DEF OthersSend, Engaged
  <2> QED BY <2>1, <2>2, <2>3
<1>4. AgeCovers'
  <2> SUFFICES ASSUME NEW g \in Hosts, NEW k \in Hosts, NEW w \in 0..MaxArmTimeout,
                      Promised(g, w)', send'[g].id \notin history.forgotten
               PROVE  /\ pending[k].id = send'[g].id => pending[k].left + send'[g].age >= w
                      /\ \A e \in Entries(k) :
                           e.id = send'[g].id /\ e.outcome \in {"partial", "timeout"}
                             => send'[g].age >= w
    BY <1>1 DEF AgeCovers
  <2>1. Promised(g, w) /\ send'[g].id = send[g].id /\ send'[g].age = send[g].age
    <3>1. CASE g = h
      BY <3>1
    <3>2. CASE g # h
      BY <3>2 DEF Promised, OthersSend
    <3> QED BY <3>1, <3>2
  <2> QED BY <2>1 DEF TimerInv, Timers, AgeCovers
<1> QED BY <1>2, <1>3, <1>4 DEF Timers
LEMMA TimersSender ==
  ASSUME TimerInv, NEW h \in Hosts, SenderStep(h) \/ Crossed(h)
  PROVE  Timers'
<1>1. ArmedInv /\ Numbered /\ Typed /\ TypeOK
  BY DEF TimerInv, ArmedInv, Reporting, Numbered, Typed
<1>2. OthersSend(h) /\ UNCHANGED <<pending, completed>>
  BY <1>1, SenderStepFacts, CrossedFacts
<1>3. history'.forgotten = history.forgotten
  <2>1. CASE BeginWrite(h)
    BY <1>1, <2>1, TypedBeginWrite
  <2>2. CASE ~BeginWrite(h)
    BY <2>2 DEF SenderStep, NotStarted, Prepared, CallRejected, CallAccepted, CallFails, Crossed,
                SkipWrite, EndWrite, Settle, AwaitEnds, Sent, SenderAborted
  <2> QED BY <2>1, <2>2
<1>4. \A m \in msgs' \ msgs : m.kind # "accept"
  <2>1. CASE Crossed(h)
    BY <2>1 DEF Crossed
  <2>2. CASE SenderStep(h)
    <3>1. \A m \in msgs' \ msgs :
            m = Cancel(h, send[h].id) \/ \E D : m = Request(h, send[h].id, D)
      BY <1>1, <2>2, SenderStepFacts
    <3> QED BY <3>1, MadeFields
  <2> QED BY <2>1, <2>2
<1>5. ASSUME send'[h].phase \in {"idle", "preparing", "reported"}
      PROVE  Timers'
  BY <1>2, <1>3, <1>4, <1>5, TimersSend DEF Engaged, Promised
<1>6. ASSUME NEW r, Report(h, r),
             r \in {"not_started", "rejected", "cancelled", "no_result", "finished"}
      PROVE  Timers'
  BY <1>1, <1>5, <1>6, ReportSend
<1>7. ASSUME send[h].phase \in {"writing", "applying"}, send'[h].phase \in {"writing", "applying"},
             send'[h].id = send[h].id, send'[h].age = send[h].age,
             send'[h].window = send[h].window, send'[h].wait = send[h].wait
      PROVE  Timers'
  BY <1>2, <1>3, <1>4, <1>7, TimersSend DEF Engaged, Promised
<1>8. CASE NotStarted(h) \/ CallRejected(h) \/ CallFails(h) \/ AwaitEnds(h)
  BY <1>6, <1>8 DEF NotStarted, CallRejected, CallFails, AwaitEnds
<1>9. CASE Prepared(h)
  <2>1. send[h].phase = "preparing" /\ send'[h].phase = "calling" /\ send'[h].id = send[h].id
    BY <1>1, <1>9, PreparedSend DEF Prepared, Continues
  <2>2. \A m \in msgs : m.kind = "accept" => m.id # send[h].id
    BY <1>1, <2>1 DEF ArmedInv, AcceptIsArmed, PreparingIsUnheard
  <2>3. \A w : ~Promised(h, w)'
    BY <1>4, <2>1, <2>2 DEF Promised
  <2> QED BY <1>2, <1>3, <1>4, <2>1, <2>3, TimersSend DEF Engaged
<1>10. CASE CallAccepted(h)
  <2>1. PICK m \in msgs :
          /\ m.kind = "accept" /\ m.id = send[h].id /\ m.window \in 0..ArmTimeout
          /\ Continues(h)
          /\ send'[h].phase = IF m.window = 0 THEN "awaiting" ELSE "writing"
          /\ m.window # 0 => send'[h].age = send[h].age
          /\ send'[h].window = MinOf(m.window, MaxArmTimeout)
          /\ send'[h].wait = MinOf(m.window, MaxArmTimeout) + NetworkSlack
    BY <1>1, <1>10, AcceptedFacts
  <2>2. send[h].phase = "calling"
    BY <1>10 DEF CallAccepted
  <2>3. send'[h].id = send[h].id
    BY <2>1 DEF Continues
  <2>4. \A w : Promised(h, w)' => Promised(h, w) /\ send'[h].age = send[h].age
    BY <2>1, <2>2 DEF Promised
  <2> QED BY <1>2, <1>3, <1>4, <2>1, <2>3, <2>4, TimersSend
<1>11. CASE BeginWrite(h)
  BY <1>1, <1>7, <1>11, BeginWriteSend DEF BeginWrite, Continues
<1>12. CASE SkipWrite(h)
  BY <1>1, <1>7, <1>12, SkipWriteSend DEF SkipWrite, Continues
<1>13. CASE EndWrite(h)
  <2>1. send[h].switches # <<>> /\ send[h].phase = "applying"
    BY <1>1, <1>13 DEF Typed, ApplyingHasSwitch, EndWrite
  <2> QED BY <1>1, <1>7, <1>13, <2>1, EndWriteSend DEF Continues
<1>14. CASE Settle(h)
  <2>1. CASE Report(h, "cancelled") \/ Report(h, "no_result")
    BY <1>6, <2>1
  <2>2. CASE send' = [send EXCEPT ![h].phase = "awaiting", ![h].age = 0, ![h].window = 0]
    <3>1. /\ send[h].phase = "writing" /\ send'[h].phase = "awaiting"
          /\ send'[h].id = send[h].id /\ send'[h].wait = send[h].wait
      BY <1>1, <1>14, <2>2, AwaitSend DEF Settle, Continues
    <3> QED BY <1>2, <1>3, <1>4, <3>1, TimersSend DEF Engaged, Promised
  <2> QED BY <1>14, <2>1, <2>2 DEF Settle
<1>15. CASE Sent(h) \/ SenderAborted(h)
  BY <1>1, <1>5, <1>15, IdleSend, IdleSenderFacts DEF Sent, SenderAborted
<1>16. CASE Crossed(h)
  BY <1>1, <1>5, <1>16, CrossedFacts
<1> QED BY <1>8, <1>9, <1>10, <1>11, <1>12, <1>13, <1>14, <1>15, <1>16 DEF SenderStep

LEMMA TimersCloses ==
  ASSUME TimerInv, NEW h \in Hosts, NEW outcome, NEW new, Closes(h, outcome, new),
         outcome \in {"arrived", "partial", "timeout", "cancelled"},
         outcome \in {"partial", "timeout"} => pending[h].left = 0,
         UNCHANGED send, \A m \in msgs' \ msgs : m.kind = "result"
  PROVE  Timers'
<1>1. \A k \in Hosts : \/ pending'[k].id = 0
                       \/ pending'[k].id = pending[k].id /\ pending'[k].left = pending[k].left
  BY NoIncomingFacts DEF Closes
<1>2. \A k \in Hosts : \A e \in Entries(k)' :
        \/ e \in Entries(k)
        \/ /\ e.id = pending[k].id /\ pending'[k].id = 0
           /\ e.outcome \in {"arrived", "partial", "timeout", "cancelled"}
           /\ e.outcome \in {"partial", "timeout"} => pending[k].left = 0
  BY NoIncomingFacts DEF Closes
<1>3. history.forgotten \subseteq history'.forgotten /\ \A k \in Hosts : SameClock(k)
  BY DEF Closes, SameClock
<1> QED BY <1>1, <1>2, <1>3, TimersKept

LEMMA TimersQuiet ==
  ASSUME TimerInv, completed' = completed, history'.forgotten = history.forgotten,
         \A k \in Hosts : /\ pending'[k].id = pending[k].id
                          /\ pending'[k].left = pending[k].left /\ SameClock(k),
         \A m \in msgs' \ msgs : m.kind # "accept"
  PROVE  Timers'
<1>1. \A k \in Hosts : Entries(k)' = Entries(k)
  BY DEF Entries
<1> QED BY <1>1, TimersKept

LEMMA TimersReceiver ==
  ASSUME TimerInv, NEW h \in Hosts,
         \/ CancelArrives(h) \/ InventoryChanged(h) \/ Expire(h) \/ ResultArrives(h)
         \/ StopGeneration(h) \/ StartGeneration(h) \/ Retransmit(h)
  PROVE  Timers'
<1>1. TypeOK
  BY DEF TimerInv, ArmedInv, Reporting, Numbered, Typed
<1>2. CASE CancelArrives(h)
  <2>1. /\ UNCHANGED send /\ msgs' \subseteq msgs
        /\ \/ \E new : Closes(h, "cancelled", new)
           \/ UNCHANGED <<pending, completed, history>>
    BY <1>1, <1>2, CancelFacts
  <2> QED BY <2>1, TimersCloses, TimersQuiet DEF SameClock
<1>3. CASE InventoryChanged(h)
  <2>1. UNCHANGED send
    BY <1>1, <1>3, ObserveFacts
  <2>2. CASE \E new \in Results : Closes(h, "arrived", new) /\ msgs' = msgs \cup {Result(Peer(h), new)}
    BY <2>1, <2>2, TimersCloses, MadeFields
  <2>3. CASE /\ \A k \in Hosts : /\ pending'[k].id = pending[k].id
                                 /\ pending'[k].left = pending[k].left
             /\ UNCHANGED <<completed, msgs>> /\ history'.forgotten = history.forgotten
    BY <2>1, <2>3, TimersQuiet DEF SameClock
  <2> QED BY <1>1, <1>3, <2>2, <2>3, ObserveFacts
<1>4. CASE Expire(h)
  <2>1. UNCHANGED send /\ pending[h].left = 0
    BY <1>1, <1>4, ExpireFacts
  <2>2. PICK outcome \in {"timeout", "partial"}, new \in Results :
          Closes(h, outcome, new) /\ msgs' = msgs \cup {Result(Peer(h), new)}
    BY <1>1, <1>4, ExpireFacts
  <2>3. \A m \in msgs' \ msgs : m.kind = "result"
    BY <2>2, MadeFields
  <2> QED BY <2>1, <2>2, <2>3, TimersCloses
<1>5. CASE ResultArrives(h)
  BY <1>1, <1>5, ResultFacts, TimersQuiet DEF SameClock
<1>6. CASE StopGeneration(h)
  <2>1. /\ UNCHANGED send /\ msgs' \subseteq msgs
        /\ pending'[h] = NoIncoming /\ completed'[h] = <<>>
        /\ \A k \in Hosts \ {h} : pending'[k] = pending[k] /\ completed'[k] = completed[k]
        /\ history.forgotten \subseteq history'.forgotten
    BY <1>1, <1>6, StopFacts
  <2>2. Entries(h)' = {} /\ pending'[h].id = 0
    BY <2>1, NoIncomingFacts DEF Entries
  <2>3. \A k \in Hosts \ {h} : Entries(k)' = Entries(k)
    BY <2>1 DEF Entries
  <2> QED BY <2>1, <2>2, <2>3, TimersKept DEF SameClock
<1>7. CASE StartGeneration(h) \/ Retransmit(h)
  <2>1. /\ UNCHANGED <<send, pending, completed, history>>
        /\ \A m \in msgs' \ msgs : m.kind # "accept"
    BY <1>7, MadeFields DEF StartGeneration, Retransmit, InboundDropped
  <2> QED BY <2>1, TimersQuiet DEF SameClock
<1> QED BY <1>2, <1>3, <1>4, <1>5, <1>6, <1>7
\* While a request for a transfer is on its way, no other ledger holds it.
LEMMA OnlyAtReceiver ==
  ASSUME ArmedInv, NEW h \in Hosts, NEW m \in msgs, m.kind = "request", m.to = h
  PROVE  /\ m.id \in 1..issued
         /\ \A k \in Hosts : pending[k].id = m.id => k = h
         /\ \A k \in Hosts : \A e \in Entries(k) : e.id = m.id => k = h
<1>1. m.id \in 1..issued
  BY DEF ArmedInv, Reporting, Numbered, IdsAreIssued
<1>2. Traced(m.id, h)
  BY DEF Traced
<1>3. \A k \in Hosts : Traced(m.id, k) => k = h
  BY <1>1, <1>2 DEF ArmedInv, Reporting, Numbered, OneReceiver
<1> QED BY <1>1, <1>3 DEF Traced

\* An answer that arms nothing: the window is what is left, or zero.
LEMMA TimersAnswer ==
  ASSUME TimerInv, NEW h \in Hosts, NEW m \in msgs, m.kind = "request", m.to = h,
         UNCHANGED <<pending, completed, send, history>>,
         \A x \in msgs' \ msgs : x.kind = "accept" =>
           x.id = m.id /\ x.window = IF pending[h].id = m.id THEN pending[h].left ELSE 0
  PROVE  Timers'
<1>1. ArmedInv
  BY DEF TimerInv
<1>2. /\ m.id \in 1..issued
      /\ \A k \in Hosts : pending[k].id = m.id => k = h
      /\ \A k \in Hosts : \A e \in Entries(k) : e.id = m.id => k = h
  BY <1>1, OnlyAtReceiver
<1>3. \A k \in Hosts : Entries(k)' = Entries(k)
  BY DEF Entries
<1>4. PendingIsFresh' /\ OutcomesKnown' /\ SenderWaits'
  BY <1>3 DEF TimerInv, Timers, PendingIsFresh, OutcomesKnown, SenderWaits, Engaged
<1>5. \A k \in Hosts : pending[k].left \in Nat /\ pending[k].left <= ArmTimeout /\ send[k].age \in Nat
  BY <1>1, LiveIds
<1>6. WindowCovers'
  BY <1>2, <1>5 DEF TimerInv, Timers, WindowCovers
<1>7. AgeCovers'
  <2> SUFFICES ASSUME NEW g \in Hosts, NEW k \in Hosts, NEW w \in 0..MaxArmTimeout,
                      Promised(g, w)', send[g].id \notin history.forgotten
               PROVE  /\ pending[k].id = send[g].id => pending[k].left + send[g].age >= w
                      /\ \A e \in Entries(k) :
                           e.id = send[g].id /\ e.outcome \in {"partial", "timeout"}
                             => send[g].age >= w
    BY <1>3 DEF AgeCovers
  <2>1. CASE Promised(g, w)
    BY <2>1 DEF TimerInv, Timers, AgeCovers
  <2>2. CASE ~Promised(g, w)
    <3>1. PICK x \in msgs' \ msgs : /\ x.kind = "accept" /\ x.id = send[g].id
                                    /\ w = MinOf(x.window, MaxArmTimeout)
      BY <2>2 DEF Promised
    <3>2. send[g].id = m.id /\ x.window \in Nat
          /\ x.window = IF pending[h].id = m.id THEN pending[h].left ELSE 0
      BY <1>5, <3>1
    <3>3. w <= x.window
      BY <3>1, <3>2, MinOfFacts
    <3>4. CASE pending[h].id = m.id
      <4>1. \A e \in Entries(k) : e.id # m.id
        BY <1>2, <3>4 DEF TimerInv, Timers, PendingIsFresh
      <4> QED BY <1>2, <1>5, <3>2, <3>3, <3>4, <4>1
    <3>5. CASE pending[h].id # m.id
      BY <1>2, <1>5, <3>2, <3>3, <3>5
    <3> QED BY <3>4, <3>5
  <2> QED BY <2>1, <2>2
<1> QED BY <1>4, <1>6, <1>7 DEF Timers

LEMMA TimersArms ==
  ASSUME TimerInv, NEW h \in Hosts, NEW m \in msgs, m.kind = "request", m.to = h, Arms(h, m),
         UNCHANGED <<completed, send>>
  PROVE  Timers'
<1>1. ArmedInv /\ TypeOK
  BY DEF TimerInv, ArmedInv, Reporting, Numbered, Typed
<1>2. /\ m.id \in 1..issued
      /\ \A k \in Hosts : pending[k].id = m.id => k = h
      /\ \A k \in Hosts : \A e \in Entries(k) : e.id = m.id => k = h
      /\ m.id \in history.armed => m.id \in history.forgotten
  BY <1>1, OnlyAtReceiver, ArmsNew
<1>3. \A k \in Hosts : Entries(k)' = Entries(k)
  BY DEF Entries
<1>4. \A k \in Hosts : \A e \in Entries(k) : e.id # m.id
  BY <1>1, <1>2, RememberedEntries DEF Arms
<1>5. /\ pending'[h].id = m.id /\ pending'[h].left = ArmTimeout
      /\ \A k \in Hosts \ {h} : pending'[k] = pending[k]
      /\ \A k \in Hosts \ {h} : pending[k].id # m.id
      /\ history'.forgotten = history.forgotten
  BY <1>2 DEF Arms
<1>6. \A x \in msgs' \ msgs : x.kind = "accept" /\ x.id = m.id /\ x.window = ArmTimeout
  BY MadeFields DEF Arms
<1>7. PendingIsFresh' /\ OutcomesKnown'
  BY <1>3, <1>4, <1>5 DEF TimerInv, Timers, PendingIsFresh, OutcomesKnown
<1>8. WindowCovers'
  BY <1>1, <1>2, <1>5, <1>6 DEF TimerInv, Timers, WindowCovers, ArmedInv, AcceptIsArmed
<1>9. SenderWaits'
  BY <1>1, <1>2, <1>5 DEF TimerInv, Timers, SenderWaits, ArmedInv, AcceptIsArmed, Engaged
<1>10. AgeCovers'
  <2> SUFFICES ASSUME NEW g \in Hosts, NEW k \in Hosts, NEW w \in 0..MaxArmTimeout,
                      Promised(g, w)', send[g].id \notin history.forgotten
               PROVE  /\ pending'[k].id = send[g].id => pending'[k].left + send[g].age >= w
                      /\ \A e \in Entries(k) :
                           e.id = send[g].id /\ e.outcome \in {"partial", "timeout"}
                             => send[g].age >= w
    BY <1>3, <1>5 DEF AgeCovers
  <2>1. CASE Promised(g, w)
    <3>1. send[g].id \in history.armed
      BY <1>1, <2>1 DEF Promised, ArmedInv, AcceptIsArmed, Engaged
    <3>2. send[g].id # m.id
      BY <1>2, <3>1
    <3>3. pending'[k].id = send[g].id => pending'[k] = pending[k]
      BY <1>5, <3>2
    <3> QED BY <2>1, <3>3 DEF TimerInv, Timers, AgeCovers
  <2>2. CASE ~Promised(g, w)
    <3>1. PICK x \in msgs' \ msgs : /\ x.kind = "accept" /\ x.id = send[g].id
                                    /\ w = MinOf(x.window, MaxArmTimeout)
      BY <2>2 DEF Promised
    <3>2. send[g].id = m.id /\ x.window = ArmTimeout
      BY <1>6, <3>1
    <3>3. w <= ArmTimeout /\ w \in Nat
      BY <3>1, <3>2, MinOfFacts
    <3>4. pending'[k].id = m.id => pending'[k].left = ArmTimeout
      BY <1>5
    <3>5. send[g].age \in Nat
      BY <1>1, LiveIds
    <3> QED BY <1>4, <3>2, <3>3, <3>4, <3>5
  <2> QED BY <2>1, <2>2
<1> QED BY <1>7, <1>8, <1>9, <1>10 DEF Timers

LEMMA TimersRequest ==
  ASSUME TimerInv, NEW h \in Hosts, RequestArrives(h)
  PROVE  Timers'
<1>1. TypeOK /\ ArmedInv
  BY DEF TimerInv, ArmedInv, Reporting, Numbered, Typed
<1>2. UNCHANGED <<completed, send>>
  BY <1>1, RequestFacts
<1>3. PICK m \in msgs :
        /\ m.kind = "request" /\ m.to = h
        /\ \/ \E i \in Remembered(h, m.id) :
                /\ msgs' = (msgs \ {m}) \cup {Accept(Peer(h), m.id, 0),
                                              Result(Peer(h), completed[h][i])}
                /\ UNCHANGED <<pending, history>>
           \/ /\ pending[h].id = m.id
              /\ msgs' = (msgs \ {m}) \cup {Accept(Peer(h), m.id, pending[h].left)}
              /\ UNCHANGED <<pending, history>>
           \/ /\ msgs' = (msgs \ {m}) \cup {Reject(Peer(h), m.id)}
              /\ UNCHANGED <<pending, history>>
           \/ Arms(h, m)
  BY <1>1, RequestFacts
<1>4. CASE \E i \in Remembered(h, m.id) :
             /\ msgs' = (msgs \ {m}) \cup {Accept(Peer(h), m.id, 0),
                                           Result(Peer(h), completed[h][i])}
             /\ UNCHANGED <<pending, history>>
  <2>1. pending[h].id # m.id
    <3>1. m.id # 0
      BY <1>1, <1>3 DEF ArmedInv, Reporting, Numbered, IdsAreIssued
    <3>2. \E e \in Entries(h) : e.id = m.id
      BY <1>1, <1>4, RememberedEntries
    <3> QED BY <3>1, <3>2 DEF TimerInv, Timers, PendingIsFresh
  <2>2. \A x \in msgs' \ msgs : x.kind = "accept" => x.id = m.id /\ x.window = 0
    BY <1>4, MadeFields
  <2> QED BY <1>2, <1>3, <1>4, <2>1, <2>2, TimersAnswer
<1>5. CASE /\ pending[h].id = m.id
           /\ msgs' = (msgs \ {m}) \cup {Accept(Peer(h), m.id, pending[h].left)}
           /\ UNCHANGED <<pending, history>>
  <2>1. \A x \in msgs' \ msgs : x.id = m.id /\ x.window = pending[h].left
    BY <1>5, MadeFields
  <2> QED BY <1>2, <1>3, <1>5, <2>1, TimersAnswer
<1>6. CASE /\ msgs' = (msgs \ {m}) \cup {Reject(Peer(h), m.id)}
           /\ UNCHANGED <<pending, history>>
  <2>1. \A x \in msgs' \ msgs : x.kind # "accept"
    BY <1>6, MadeFields
  <2> QED BY <1>2, <1>3, <1>6, <2>1, TimersAnswer
<1>7. CASE Arms(h, m)
  BY <1>2, <1>3, <1>7, TimersArms
<1> QED BY <1>3, <1>4, <1>5, <1>6, <1>7

LEMMA TimersTick ==
  ASSUME TimerInv, Tick
  PROVE  Timers'
<1>1. ArmedInv /\ TypeOK
  BY DEF TimerInv, ArmedInv, Reporting, Numbered, Typed
<1>2. UNCHANGED <<completed, msgs, history>>
  BY DEF Tick
<1>3. \A k \in Hosts : Entries(k)' = Entries(k)
  BY <1>2 DEF Entries
<1>4. \A k \in Hosts :
        /\ send'[k].phase = send[k].phase /\ send'[k].id = send[k].id
        /\ send'[k].window = send[k].window /\ send'[k].wait = Down(send[k].wait)
        /\ send'[k].age = IF send[k].phase \in {"calling", "writing", "applying"}
                            THEN MinOf(send[k].age + 1, MaxArmTimeout) ELSE send[k].age
        /\ pending'[k].id = pending[k].id /\ pending'[k].left = Down(pending[k].left)
  BY <1>1, TickFields
<1>5. \A k \in Hosts :
        /\ send[k].age \in Nat /\ send[k].wait \in Nat /\ pending[k].left \in Nat
        /\ pending'[k].left \in Nat /\ pending'[k].left <= pending[k].left
        /\ pending[k].left <= pending'[k].left + 1
        /\ pending'[k].left > 0 => pending[k].left = pending'[k].left + 1
        /\ send[k].wait > 0 => send'[k].wait = send[k].wait - 1
  BY <1>1, <1>4, LiveIds DEF Down
<1>6. PendingIsFresh' /\ OutcomesKnown'
  BY <1>3, <1>4 DEF TimerInv, Timers, PendingIsFresh, OutcomesKnown
<1>7. WindowCovers'
  <2>1. \A m \in msgs : m.kind = "accept" => m.window \in Nat
    BY <1>1, MessageFields DEF TypeOK
  <2> QED BY <1>2, <1>4, <1>5, <2>1 DEF TimerInv, Timers, WindowCovers
<1>8. SenderWaits'
  BY <1>2, <1>4, <1>5 DEF TimerInv, Timers, SenderWaits, Engaged
<1>9. AgeCovers'
  <2> SUFFICES ASSUME NEW h \in Hosts, NEW k \in Hosts, NEW w \in 0..MaxArmTimeout,
                      Promised(h, w)', send[h].id \notin history.forgotten
               PROVE  /\ pending[k].id = send[h].id => pending'[k].left + send'[h].age >= w
                      /\ \A e \in Entries(k) :
                           e.id = send[h].id /\ e.outcome \in {"partial", "timeout"}
                             => send'[h].age >= w
    BY <1>2, <1>3, <1>4 DEF AgeCovers
  <2>1. Promised(h, w) /\ send[h].phase \in {"calling", "writing", "applying"}
    BY <1>2, <1>4 DEF Promised
  <2>2. /\ pending[k].id = send[h].id => pending[k].left + send[h].age >= w
        /\ \A e \in Entries(k) :
             e.id = send[h].id /\ e.outcome \in {"partial", "timeout"} => send[h].age >= w
    BY <2>1 DEF TimerInv, Timers, AgeCovers
  <2>3. send'[h].age = MinOf(send[h].age + 1, MaxArmTimeout)
    BY <1>4, <2>1
  <2>4. /\ send'[h].age \in Nat
        /\ send'[h].age = send[h].age + 1 \/ (send'[h].age = MaxArmTimeout /\ w <= send'[h].age)
    BY <1>5, <2>3 DEF MinOf
  <2> QED BY <1>5, <2>2, <2>4
<1> QED BY <1>6, <1>7, <1>8, <1>9 DEF Timers

LEMMA NextTimerInv ==
  ASSUME TimerInv, [Next]_vars
  PROVE  TimerInv'
<1>1. ArmedInv'
  BY NextArmedInv DEF TimerInv
<1>2. CASE DeviceStep \/ UNCHANGED vars
  <2>1. UNCHANGED <<send, pending, completed, history, msgs>>
    BY <1>2, DeviceFrame DEF vars
  <2> QED BY <1>1, <2>1, TimersQuiet DEF SameClock, TimerInv
<1>3. CASE ~(DeviceStep \/ UNCHANGED vars)
  <2>1. Timers'
    BY <1>3, TimersSender, TimersRequest, TimersReceiver, TimersTick DEF Next, ActorStep, DeviceStep
  <2> QED BY <1>1, <2>1 DEF TimerInv
<1> QED BY <1>2, <1>3

LEMMA TimerInvHolds == Spec => []TimerInv
<1>1. Init => TimerInv
  <2> SUFFICES ASSUME Init
               PROVE  TimerInv
    OBVIOUS
  <2>1. /\ msgs = {} /\ \A h \in Hosts : /\ send[h] = IdleSender /\ completed[h] = <<>>
                                         /\ pending[h] = NoIncoming
    BY DEF Init
  <2>2. \A h \in Hosts : Entries(h) = {}
    BY <2>1 DEF Entries
  <2> QED BY <2>1, <2>2, InitArmedInv, IdleSenderFacts, NoIncomingFacts
        DEF TimerInv, Timers, PendingIsFresh, WindowCovers, SenderWaits, AgeCovers, OutcomesKnown,
            Engaged, Promised
<1>2. TimerInv /\ [Next]_vars => TimerInv'
  BY NextTimerInv
<1> QED BY <1>1, <1>2, PTL DEF Spec

\* The sender does not give up before the receiver (SwitchSchedule.give_up):
\* while both wait for one transfer, the sender has the whole NETWORK_SLACK on
\* top of what the receiver has left, however late the answer was.
THEOREM SenderOutwaits == Spec => []SenderOutwaitsReceiver
<1>1. TimerInv => SenderOutwaitsReceiver
  BY PeerFacts DEF TimerInv, Timers, SenderWaits, SenderOutwaitsReceiver, Engaged
<1> QED BY <1>1, TimerInvHolds, PTL

\* Only the start of a write takes a sender task from writing to applying.
LEMMA OnlyBeginWriteApplies ==
  ASSUME ArmedInv, [Next]_vars, NEW h \in Hosts, send[h].phase = "writing",
         send'[h].phase = "applying"
  PROVE  BeginWrite(h)
<1>1. Numbered /\ Typed /\ TypeOK
  BY DEF ArmedInv, Reporting, Numbered, Typed
<1>2. ASSUME NEW k \in Hosts, k # h, SenderStep(k) \/ Crossed(k)
      PROVE  FALSE
  BY <1>1, <1>2, SenderStepFacts, CrossedFacts DEF OthersSend
<1>3. CASE SenderStep(h)
  <2>1. ~NotStarted(h) /\ ~Prepared(h) /\ ~CallRejected(h) /\ ~CallFails(h) /\ ~CallAccepted(h)
        /\ ~EndWrite(h) /\ ~AwaitEnds(h) /\ ~Sent(h)
    BY DEF NotStarted, Prepared, CallRejected, CallFails, CallAccepted, EndWrite, AwaitEnds, Sent
  <2>2. ~SkipWrite(h)
    BY <1>1, SkipWriteSend
  <2>3. ~SenderAborted(h)
    BY <1>1, IdleSend, IdleSenderFacts DEF SenderAborted
  <2>4. ~Settle(h)
    <3>1. ~Report(h, "cancelled") /\ ~Report(h, "no_result")
      BY <1>1, ReportSend
    <3>2. send' # [send EXCEPT ![h].phase = "awaiting", ![h].age = 0, ![h].window = 0]
      BY <1>1, AwaitSend
    <3> QED BY <3>1, <3>2 DEF Settle
  <2> QED BY <1>3, <2>1, <2>2, <2>3, <2>4 DEF SenderStep
<1>4. ~Crossed(h)
  BY <1>1, CrossedFacts
<1>5. ASSUME NEW k \in Hosts,
             \/ RequestArrives(k) \/ CancelArrives(k) \/ InventoryChanged(k) \/ Expire(k)
             \/ StopGeneration(k) \/ StartGeneration(k) \/ Retransmit(k)
      PROVE  FALSE
  <2>1. send' = send
    BY <1>5 DEF RequestArrives, CancelArrives, InventoryChanged, Expire, StopGeneration,
                StartGeneration, Retransmit
  <2> QED BY <2>1
<1>6. ASSUME NEW k \in Hosts, ResultArrives(k)
      PROVE  FALSE
  BY <1>1, <1>6, ResultFacts
<1>7. ~Tick
  BY <1>1, TickFields
<1>8. ~(DeviceStep \/ UNCHANGED vars)
  BY DeviceFrame DEF vars
<1> QED BY <1>2, <1>3, <1>4, <1>5, <1>6, <1>7, <1>8 DEF Next, ActorStep, DeviceStep

\* "so the device lands while the receiver still watches" (handoff.rs): a
\* switch write starts only while the peer is armed with more than half of the
\* promised window left, unless the devices are all there or the peer's ledger
\* dropped the transfer.
THEOREM WritesStartInWindow == Spec => WriteStartsInWindow
<1>1. TimerInv /\ [Next]_vars =>
        [\A h \in Hosts :
           send[h].phase = "writing" /\ send'[h].phase = "applying" =>
             LET id == send[h].id  p == Peer(h) IN
             \/ pending[p].id = id /\ 2 * pending[p].left > send[h].window
             \/ \E i \in Remembered(p, id) : completed[p][i].outcome = "arrived"
             \/ id \in history.forgotten]_vars
  <2> SUFFICES ASSUME TimerInv, [Next]_vars, NEW h \in Hosts, send[h].phase = "writing",
                      send'[h].phase = "applying", send[h].id \notin history.forgotten
               PROVE  \/ /\ pending[Peer(h)].id = send[h].id
                         /\ 2 * pending[Peer(h)].left > send[h].window
                      \/ \E i \in Remembered(Peer(h), send[h].id) :
                           completed[Peer(h)][i].outcome = "arrived"
    OBVIOUS
  <2> DEFINE i == send[h].id
             p == Peer(h)
  <2>1. ArmedInv /\ Reporting /\ Numbered /\ TypeOK
    BY DEF TimerInv, ArmedInv, Reporting, Numbered, Typed
  <2>2. MayWrite(send[h])
    BY <2>1, OnlyBeginWriteApplies DEF BeginWrite
  <2>3. /\ send[h].age \in Nat /\ send[h].window \in 0..MaxArmTimeout
        /\ 2 * send[h].age < send[h].window
    BY <2>1, <2>2, SenderFields DEF MayWrite, TypeOK
  <2>4. Promised(h, send[h].window) /\ Live(h) /\ Unreported(h) /\ Engaged(h)
    BY DEF Promised, Live, Unreported, Engaged
  <2>5. PICK k \in Hosts : i \in Held(k)
    BY <2>1, <2>4 DEF ArmedInv, AcceptIsArmed, ArmedIsKept
  <2>6. k = p
    <3>1. Traced(i, k)
      BY <2>5 DEF Traced, Held
    <3> QED BY <2>1, <2>4, <3>1, SendersDiffer
  <2>7. /\ pending[p].id = i => pending[p].left + send[h].age >= send[h].window
        /\ \A e \in Entries(p) :
             e.id = i /\ e.outcome \in {"partial", "timeout"} => send[h].age >= send[h].window
    BY <2>3, <2>4, PeerFacts DEF TimerInv, Timers, AgeCovers
  <2>8. CASE pending[p].id = i
    <3>1. pending[p].left \in Nat
      BY <2>1, PeerFacts, PendingFields
    <3> QED BY <2>3, <2>7, <2>8, <3>1
  <2>9. CASE pending[p].id # i
    <3>1. PICK e \in Entries(p) : e.id = i
      BY <2>5, <2>6, <2>9 DEF Held
    <3>2. e.outcome # "cancelled"
      BY <2>1, <2>4, <3>1, PeerFacts DEF Reporting, NoCancelUnreported
    <3>3. e.outcome \notin {"partial", "timeout"}
      BY <2>3, <2>7, <3>1
    <3>4. e.outcome = "arrived"
      BY <3>1, <3>2, <3>3, PeerFacts DEF TimerInv, Timers, OutcomesKnown
    <3>5. \E n \in Remembered(p, i) : completed[p][n] = e
      BY <2>1, <3>1, PeerFacts, RememberedEntries
    <3> QED BY <3>4, <3>5
  <2> QED BY <2>8, <2>9
<1> QED BY <1>1, TimerInvHolds, PTL DEF Spec, WriteStartsInWindow
=============================================================================
