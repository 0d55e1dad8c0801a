---------------------------- MODULE HidppChannel ----------------------------
(***************************************************************************)
(* Request/reply correlation of one HID++ channel                          *)
(* (crates/openlogi-hidpp/src/channel.rs and channel/pending.rs).          *)
(*                                                                         *)
(* A HID++ reply carries nothing but a three-byte header, so two requests  *)
(* with the same header get replies the wire cannot tell apart.  The       *)
(* channel keeps the header of a request reserved while the request is in  *)
(* flight and, when the request is abandoned unanswered, for a grace       *)
(* window in which its late replies are discarded.  Requests whose header  *)
(* is taken are parked.                                                    *)
(*                                                                         *)
(* Each member of Requests is one call of send_with (or, for the members   *)
(* of WriteThrough, of send_write_through); re-asking means another member *)
(* with the same body.  The transport and the device are external: a       *)
(* report handed to the transport may reach the device even after the      *)
(* requesting future was dropped, the device answers each report at most   *)
(* once, after any delay and in any order, and an answer may be lost.      *)
(*                                                                         *)
(* Time passes in Tick steps, only while a clock comparison depends on it; *)
(* that keeps `now` bounded for a finite set of requests.                  *)
(***************************************************************************)
EXTENDS Integers, FiniteSets, Functions

CONSTANTS
  Requests,      \* the calls made on this channel
  Keys,          \* CorrelationKey: the three header bytes
  Bodies,        \* request bytes, header included
  KeyOf,         \* [Requests -> Keys]
  BodyOf,        \* [Requests -> Bodies]
  Adopting,      \* requests sent with AbandonedReply::AdoptIdentical
  WriteThrough,  \* requests sent with send_write_through
  Grace,         \* STALE_REPLY_GRACE, in ticks
  NoReply        \* `delivered` of a request that was handed no reply

ASSUME RequestsAssumption ==
  /\ IsFiniteSet(Requests)
  /\ KeyOf \in [Requests -> Keys]
  /\ BodyOf \in [Requests -> Bodies]
  /\ \A r, s \in Requests : BodyOf[r] = BodyOf[s] => KeyOf[r] = KeyOf[s]
  /\ Adopting \subseteq Requests
  /\ WriteThrough \subseteq Requests
  /\ Adopting \cap WriteThrough = {}
  /\ NoReply \notin Requests
ASSUME GraceAssumption == Grace \in Nat \ {0}

VARIABLES
  phase,        \* where the future of each request is
  clock,        \* the Instant each request read before taking the queue lock
  until,        \* when the grace timer of a request parked on a stale key fires
  messages,     \* PendingQueue::messages: requests registered and unanswered
  extra,        \* PendingMessage::extra_replies
  stale,        \* PendingQueue::stale: requests whose replies are still owed
  outstanding,  \* StaleKey::outstanding
  expires,      \* StaleKey::expires
  keyWaiters,   \* PendingQueue::key_waiters: requests not woken since parking
  native,       \* reports the transport holds and has not put on the wire
  wire,         \* requests whose reply is on its way to the read loop
  delivered,    \* the request whose reply each request was handed
  lapsed,       \* history: keys given up on with replies still owed
  now

queueVars == <<messages, extra, stale, outstanding, expires, keyWaiters>>
linkVars  == <<native, wire>>
vars == <<phase, clock, until, queueVars, linkVars, delivered, lapsed, now>>

Phases == {"idle", "checking", "parkedInFlight", "parkedStale", "writing",
           "awaiting", "responded", "writeFailed", "gaveUp"}

Parked(r) == phase[r] \in {"parkedInFlight", "parkedStale"}

\* The predicate of r accepts the reply to o: nothing but the header decides.
Accepts(r, o) == KeyOf[r] = KeyOf[o]

Goto(r, p) == phase' = [phase EXCEPT ![r] = p]

Init ==
  /\ phase = [r \in Requests |-> "idle"]
  /\ clock = [r \in Requests |-> 0]
  /\ until = [r \in Requests |-> 0]
  /\ messages = {}
  /\ extra = [r \in Requests |-> 0]
  /\ stale = {}
  /\ outstanding = [r \in Requests |-> 0]
  /\ expires = [r \in Requests |-> 0]
  /\ keyWaiters = {}
  /\ native = {}
  /\ wire = {}
  /\ delivered = [r \in Requests |-> NoReply]
  /\ lapsed = {}
  /\ now = 0

-----------------------------------------------------------------------------
(* Registration: PendingRequest::register_when_key_free.                   *)

\* One turn of the registration loop starts by reading the clock, before the
\* queue lock is taken: other requests and the read loop may run in between.
ReadClock(r) ==
  /\ Goto(r, "checking")
  /\ clock' = [clock EXCEPT ![r] = now]
  /\ until' = [until EXCEPT ![r] = 0]
  /\ UNCHANGED <<queueVars, linkVars, delivered, lapsed, now>>

Send(r) == phase[r] = "idle" /\ ReadClock(r)

\* A parked request runs again once its waker was used, or at the end of the
\* grace when it waits for a stale key.
Woken(r) ==
  \/ Parked(r) /\ r \notin keyWaiters
  \/ phase[r] = "parkedStale" /\ until[r] <= now

Recheck(r) == Woken(r) /\ ReadClock(r)

\* Mutant: entries out of grace are never dropped.
LiveUnpruned(r) == stale

\* try_register works with the clock its caller read.
Live(r) == {s \in stale : expires[s] > clock[r]}

\* Mutant: whole requests are compared instead of headers.
KeyInFlightByBody(r) == \E p \in messages : BodyOf[p] = BodyOf[r]

KeyInFlight(r) == \E p \in messages : KeyOf[p] = KeyOf[r]

Adopts(r, s) == r \in Adopting /\ BodyOf[s] = BodyOf[r]

HoldingKey(r) == {s \in Live(r) : KeyOf[s] = KeyOf[r]}

Blocking(r) == {s \in HoldingKey(r) : ~Adopts(r, s)}

AdoptedReplies(r) == SumFunctionOnSet(outstanding, HoldingKey(r))

\* Every path through try_register first drops the entries out of grace.
Prune(r) == lapsed' = lapsed \cup {KeyOf[s] : s \in stale \ Live(r)}

\* The clock reading is a local of the loop body; it is reset once used.
DropClock(r) == clock' = [clock EXCEPT ![r] = 0]

ParkInFlight(r) ==
  /\ phase[r] = "checking"
  /\ KeyInFlight(r)
  /\ Prune(r)
  /\ stale' = Live(r)
  /\ keyWaiters' = keyWaiters \cup {r}
  /\ Goto(r, "parkedInFlight")
  /\ DropClock(r)
  /\ UNCHANGED <<until, messages, extra, outstanding, expires,
                 linkVars, delivered, now>>

\* The timer runs for expires - clock from the moment it is created.
ParkStale(r) ==
  /\ phase[r] = "checking"
  /\ ~KeyInFlight(r)
  /\ \E s \in Blocking(r) :
       /\ \A t \in Blocking(r) : expires[t] <= expires[s]
       /\ until' = [until EXCEPT ![r] = expires[s] + (now - clock[r])]
  /\ Prune(r)
  /\ stale' = Live(r)
  /\ keyWaiters' = keyWaiters \cup {r}
  /\ Goto(r, "parkedStale")
  /\ DropClock(r)
  /\ UNCHANGED <<messages, extra, outstanding, expires,
                 linkVars, delivered, now>>

\* Registration; the write follows without another wait, so the report is the
\* transport's from here on.
Register(r) ==
  /\ phase[r] = "checking"
  /\ ~KeyInFlight(r)
  /\ Blocking(r) = {}
  /\ Prune(r)
  /\ extra' = [extra EXCEPT ![r] = AdoptedReplies(r)]
  /\ stale' = Live(r) \ HoldingKey(r)
  /\ messages' = messages \cup {r}
  /\ native' = native \cup {r}
  /\ Goto(r, "writing")
  /\ DropClock(r)
  /\ UNCHANGED <<until, outstanding, expires, keyWaiters, wire,
                 delivered, now>>

-----------------------------------------------------------------------------
(* The request's own future after registration: send_with,                 *)
(* send_write_through and Drop for PendingRequest.                         *)

\* r leaves a stale key behind that n replies are owed to.
OweReplies(r, n) ==
  /\ outstanding' = [outstanding EXCEPT ![r] = n]
  /\ expires' = [expires EXCEPT ![r] = now + Grace]

\* Mutant: an abandoned request leaves no stale key.
AbandonForgets(r) ==
  /\ messages' = messages \ {r}
  /\ keyWaiters' = {}
  /\ UNCHANGED <<stale, outstanding, expires>>

\* Dropping the PendingRequest: nothing to do once the reply was handed over.
Abandon(r) ==
  IF r \in messages
  THEN /\ messages' = messages \ {r}
       /\ stale' = stale \cup {r}
       /\ OweReplies(r, extra[r] + 1)
       /\ keyWaiters' = {}
  ELSE UNCHANGED <<messages, stale, outstanding, expires, keyWaiters>>

WriteReturns(r) ==
  /\ phase[r] = "writing"
  /\ r \notin native
  /\ Goto(r, "awaiting")
  /\ UNCHANGED <<clock, until, queueVars, linkVars, delivered, lapsed, now>>

WriteFails(r) ==
  /\ phase[r] = "writing"
  /\ native' = native \ {r}
  /\ Abandon(r)
  /\ Goto(r, "writeFailed")
  /\ UNCHANGED <<clock, until, extra, wire, delivered, lapsed, now>>

\* The waiting future returns the reply the read loop handed it.
Respond(r) ==
  /\ phase[r] = "awaiting"
  /\ delivered[r] # NoReply
  /\ Goto(r, "responded")
  /\ UNCHANGED <<clock, until, queueVars, linkVars, delivered, lapsed, now>>

\* The request's own deadline, or an outer one that drops the future.  The
\* deadline of a write-through request starts after its write.
GiveUp(r) ==
  /\ \/ phase[r] = "awaiting"
     \/ r \notin WriteThrough /\ (phase[r] = "writing" \/ Parked(r))
  /\ Abandon(r)
  /\ Goto(r, "gaveUp")
  /\ UNCHANGED <<clock, until, extra, linkVars, delivered, lapsed, now>>

-----------------------------------------------------------------------------
(* Transport and device (external).                                        *)

\* The report reaches the device and is answered.
DeviceAnswers(r) ==
  /\ r \in native
  /\ native' = native \ {r}
  /\ wire' = wire \cup {r}
  /\ UNCHANGED <<phase, clock, until, queueVars, delivered, lapsed, now>>

\* The report or its answer is lost.
Lose(r) ==
  /\ r \in native \cup wire
  /\ native' = native \ {r}
  /\ wire' = wire \ {r}
  /\ UNCHANGED <<phase, clock, until, queueVars, delivered, lapsed, now>>

-----------------------------------------------------------------------------
(* The read loop: the reply to o arrives.                                  *)

\* Mutant: an answered adopter forgets the other replies it was owed.
AnswerForgetsExtra(o) ==
  \E r \in messages :
    /\ Accepts(r, o)
    /\ delivered' = [delivered EXCEPT ![r] = o]
    /\ messages' = messages \ {r} /\ keyWaiters' = {}
    /\ UNCHANGED <<stale, outstanding, expires>>

AnswerPending(o) ==
  \E r \in messages :
    /\ Accepts(r, o)
    /\ delivered' = [delivered EXCEPT ![r] = o]
    /\ messages' = messages \ {r}
    /\ IF extra[r] > 0
       THEN stale' = stale \cup {r} /\ OweReplies(r, extra[r])
       ELSE UNCHANGED <<stale, outstanding, expires>>
    /\ keyWaiters' = {}

\* Mutant: a stale key is kept when its last reply was discarded.
DiscardKeepsEntry(o) ==
  /\ ~\E r \in messages : Accepts(r, o)
  /\ \E s \in stale :
       Accepts(s, o) /\ outstanding' = [outstanding EXCEPT ![s] = @ - 1]
  /\ UNCHANGED <<messages, stale, expires, keyWaiters, delivered>>

DiscardStaleReply(o) ==
  /\ ~\E r \in messages : Accepts(r, o)
  /\ \E s \in stale :
       /\ Accepts(s, o)
       /\ outstanding' = [outstanding EXCEPT ![s] = @ - 1]
       /\ IF outstanding[s] = 1
          THEN stale' = stale \ {s} /\ keyWaiters' = {}
          ELSE UNCHANGED <<stale, keyWaiters>>
  /\ UNCHANGED <<messages, expires, delivered>>

Unclaimed(o) ==
  /\ ~\E r \in messages \cup stale : Accepts(r, o)
  /\ UNCHANGED <<messages, stale, outstanding, expires, keyWaiters, delivered>>

ReadReport(o) ==
  /\ o \in wire
  /\ wire' = wire \ {o}
  /\ AnswerPending(o) \/ DiscardStaleReply(o) \/ Unclaimed(o)
  /\ UNCHANGED <<phase, clock, until, extra, native, lapsed, now>>

-----------------------------------------------------------------------------
\* Time passes while some comparison with the clock can still change.
Tick ==
  /\ \/ \E s \in stale : expires[s] > now
     \/ \E r \in Requests : phase[r] = "parkedStale" /\ until[r] > now
  /\ now' = now + 1
  /\ UNCHANGED <<phase, clock, until, queueVars, linkVars, delivered, lapsed>>

\* Every request has ended and nothing is left on its way.
Finished ==
  /\ \A r \in Requests : phase[r] \in {"responded", "writeFailed", "gaveUp"}
  /\ native \cup wire = {}
  /\ UNCHANGED vars

RequestStep(r) ==
  \/ Send(r) \/ Recheck(r)
  \/ ParkInFlight(r) \/ ParkStale(r) \/ Register(r)
  \/ WriteReturns(r) \/ WriteFails(r) \/ Respond(r) \/ GiveUp(r)

LinkStep(r) == DeviceAnswers(r) \/ Lose(r) \/ ReadReport(r)

Next ==
  \/ \E r \in Requests : RequestStep(r) \/ LinkStep(r)
  \/ Tick
  \/ Finished

Spec == Init /\ [][Next]_vars

(* The executor polls a future that was woken, every deadline that runs    *)
(* after a write fires, a write returns and time passes.  Nothing is       *)
(* assumed of the device, nor that a parked request gives up.              *)
Fairness ==
  /\ WF_vars(Tick)
  /\ \A r \in Requests :
       /\ WF_vars(Recheck(r))
       /\ WF_vars(ParkInFlight(r) \/ ParkStale(r) \/ Register(r))
       /\ WF_vars(phase[r] = "writing" /\ (Lose(r) \/ DeviceAnswers(r)))
       /\ WF_vars(WriteReturns(r))
       /\ WF_vars(phase[r] = "awaiting" /\ (Respond(r) \/ GiveUp(r)))

FairSpec == Spec /\ Fairness

-----------------------------------------------------------------------------
(* Properties.                                                             *)

\* Every variable has its type.
TypeOK ==
  /\ phase \in [Requests -> Phases]
  /\ clock \in [Requests -> Nat]
  /\ until \in [Requests -> Nat]
  /\ messages \subseteq Requests
  /\ extra \in [Requests -> Nat]
  /\ stale \subseteq Requests
  /\ outstanding \in [Requests -> Nat]
  /\ expires \in [Requests -> Nat]
  /\ keyWaiters \subseteq Requests
  /\ native \subseteq Requests
  /\ wire \subseteq Requests
  /\ delivered \in [Requests -> Requests \cup {NoReply}]
  /\ lapsed \subseteq Keys
  /\ now \in Nat
  /\ \A r \in Requests : clock[r] <= now

\* A header has one holder: no two requests that are pending or still owed
\* replies share their key, whatever order requests, drops, replies and expiry
\* come in.
OneHolderPerKey ==
  /\ messages \cap stale = {}
  /\ \A r, s \in messages \cup stale : r # s => KeyOf[r] # KeyOf[s]

\* The replies with key k that may still come.
Coming(k) == {o \in native \cup wire : KeyOf[o] = k}

\* The replies that holder r of a key has a place for.
Credit(r) == IF r \in messages THEN extra[r] + 1 ELSE outstanding[r]

\* Holder r of key k has counted every reply that may still come, they answer
\* the bytes it sent, and if it is pending without adopting, it is its own.
CoveredBy(k, r) ==
  /\ KeyOf[r] = k
  /\ Cardinality(Coming(k)) <= Credit(r)
  /\ \A o \in Coming(k) : BodyOf[o] = BodyOf[r]
  /\ r \in messages /\ r \notin Adopting => Coming(k) \subseteq {r}

\* Accounting of outstanding/extra_replies: unless the key was given up on,
\* the replies that may still come are covered by the holder of their key.
RepliesAreOwed ==
  \A k \in Keys \ lapsed :
    Coming(k) # {} => \E r \in messages \cup stale : CoveredBy(k, r)

\* A request is answered by its own reply, or by the reply to identical bytes if
\* it asked to adopt it, unless the grace ran out on replies with its key.
NoMisattributedReply ==
  \A r \in Requests :
    \/ delivered[r] \in {NoReply, r}
    \/ r \in Adopting /\ BodyOf[delivered[r]] = BodyOf[r]
    \/ KeyOf[r] \in lapsed

\* The inductive invariant behind these: the future of a request and the queue
\* agree on whether the request is registered, and a stale key is owed a reply.
QueueAgreesWithFutures ==
  /\ native \cap wire = {}
  /\ \A r \in messages : phase[r] \in {"writing", "awaiting"} /\ delivered[r] = NoReply
  /\ \A r \in Requests :
       phase[r] \in {"idle", "checking", "parkedInFlight", "parkedStale"} =>
         delivered[r] = NoReply
  /\ \A r \in stale : outstanding[r] > 0
  /\ \A r \in messages \cup stale \cup native \cup wire :
       phase[r] \notin {"idle", "checking", "parkedInFlight", "parkedStale"}

\* A parked request does not sleep for ever: wakers and the grace timer bring it
\* to registration (unless its own deadline ends it first).
ParkedRegisters ==
  \A r \in Requests :
    Parked(r) ~> (phase[r] \notin {"checking", "parkedInFlight", "parkedStale"})

\* channel.rs says a reply that lands inside the window of its abandoned request
\* is discarded; so it never answers another request that did not adopt it.
WindowReplyDiscarded ==
  [][\A r \in Requests \ Adopting :
       \A q \in Requests \ {r} :
         delivered[r] # q /\ delivered'[r] = q => expires[q] <= now]_vars
=============================================================================
