--------------------------- MODULE AgentLifecycle ---------------------------
(***************************************************************************)
(* The life of the background agent on macOS (openlogi-agent): the single  *)
(* instance lock and the takeover of a stale holder (main.rs, takeover.rs),*)
(* the dormancy gate and the armed-session record (lifecycle.rs,           *)
(* lifecycle/armed_session.rs), the run loop with its shutdown requests    *)
(* (lifecycle.rs, shutdown.rs), the replacement of the watcher fleet       *)
(* (lifecycle/transition.rs) and the watch on its own executable           *)
(* (binary_watch.rs, binary_watch/relaunch.rs).                            *)
(*                                                                         *)
(* One process holds the lock; what survives it is the record, the file on *)
(* disk, the firmware's diversions, the starts that are still to come and  *)
(* a challenger waiting for the lock.  The record is kept where reads,     *)
(* writes and removals may fail.  Each handler between two awaits is one   *)
(* step.  An update raises the fingerprint and the protocol version        *)
(* together; a file that is being written never shows one fingerprint      *)
(* twice.  Installs, users, launchd and the managers' sessions are         *)
(* external.                                                               *)
(***************************************************************************)
EXTENDS Integers, Sequences

CONSTANTS
  Managers,      \* the HID++ watcher managers of one fleet
  LaunchAtLogin, \* app_settings.launch_at_login
  GoneTicks,     \* MISSING_TICKS_UNTIL_GONE
  MaxUpdates,    \* how many updates are written (bound)
  MaxLogins,     \* how many login sessions follow each other (bound)
  MaxFaults      \* crashes, failures of managers and of the record's storage, failed
                 \* schedules and failed stats, together (bound)

ASSUME LifecycleAssumption ==
  /\ LaunchAtLogin \in BOOLEAN
  /\ GoneTicks \in Nat \ {0} /\ MaxUpdates \in Nat
  /\ MaxLogins \in Nat \ {0} /\ MaxFaults \in Nat

VARIABLES
  session,   \* the login session (boot and audit session)
  record,    \* the armed-session file: a session, or 0
  file,      \* the executable's path: state and fingerprint
  access,    \* Input Monitoring is granted
  starts,    \* agent processes that are still to be started, by what starts them
  taker,     \* the process that takes over a stale holder
  phase,     \* of the process that holds the lock
  image,     \* the version it runs
  fleet,     \* WatcherFleet
  managers,  \* per manager of the fleet
  owed,      \* managers of the latest fleet whose sessions may still know of something
             \* to give back
  watch,     \* the binary watcher: baseline, pending, missing, mode
  requests,  \* the ShutdownRequests channel
  signal,    \* SIGTERM or SIGINT is pending
  quitting,  \* the tray's Quit blocks its thread
  held,      \* Input Monitoring, as this process reads it
  heir,      \* a successor waits for this process to end, to use a new grant
  wish,      \* what the user last asked for: the agent runs
  unheard,   \* a request to stop ended with its process and the record stayed
  lapse,     \* the last change of the record failed: "unsaved", "unremoved" or "none"
  touched,   \* the file changed after the watcher asked for the restart
  faults

process == <<phase, image, fleet, managers, watch, requests, signal, quitting, held, heir>>
outside == <<session, record, file, access, starts, taker, owed>>
history == <<wish, unheard, lapse, touched>>
vars == <<process, outside, history, faults>>

-----------------------------------------------------------------------------
NoTaker == [at |-> "none", image |-> 0]

Off == [m \in Managers |-> "off"]
Up == [m \in Managers |-> "up"]

Unsettled == 0      \* no fingerprint is pending, or one that is being written

NotWatching == [baseline |-> 0, pending |-> Unsettled, missing |-> 0, mode |-> "ended"]

\* binary_watch::spawn: the baseline is what is on disk when the watch starts; that
\* of a file being written is like no other.
Watching ==
  IF file.state = "absent" THEN NotWatching
    ELSE [baseline |-> IF file.state = "whole" THEN file.fp ELSE Unsettled,
          pending |-> Unsettled, missing |-> 0, mode |-> "watching"]

Armed == phase \in {"starting", "running", "completing", "leaving"}

\* armed_session::rearm, when the record and the session can be read.
Rearm == record = session

Init ==
  /\ session = 1 /\ record = 0
  /\ file = [state |-> "whole", fp |-> 1]
  /\ access \in BOOLEAN
  /\ starts = {"login"}
  /\ taker = NoTaker
  /\ phase = "none" /\ image = 0
  /\ fleet = "inactive" /\ managers = Off
  /\ owed = {}
  /\ watch = NotWatching
  /\ requests = <<>> /\ signal = FALSE /\ quitting = FALSE
  /\ held = FALSE /\ heir = FALSE
  /\ wish = FALSE /\ unheard = FALSE /\ lapse = "none" /\ touched = FALSE
  /\ faults = 0

Fault ==
  /\ faults < MaxFaults
  /\ faults' = faults + 1

-----------------------------------------------------------------------------
(* A process starts, takes the lock and passes the gate. *)

\* main with the lock, Booted::bootstrap, and the gate's first two questions.  A
\* record that cannot be read or written is as good as none and stays as it was.
Boots(version) ==
  /\ image' = version
  /\ watch' = Watching
  /\ \/ /\ phase' = IF LaunchAtLogin \/ Rearm THEN "starting" ELSE "dormant"
        /\ record' = IF LaunchAtLogin \/ Rearm THEN session ELSE record
        /\ UNCHANGED faults
     \/ /\ LaunchAtLogin \/ Rearm
        /\ Fault
        /\ phase' = IF LaunchAtLogin THEN "starting" ELSE "dormant"
        /\ UNCHANGED record

\* A new process finds the lock free.  One whose image is missing or half
\* written ends before it gets there.
Start(kind) ==
  /\ kind \in starts /\ phase = "none"
  /\ starts' = starts \ {kind}
  /\ IF file.state = "whole"
       THEN Boots(file.fp)
       ELSE UNCHANGED <<image, watch, phase, record, faults>>
  /\ UNCHANGED <<session, file, access, taker, fleet, managers, owed, requests,
                 signal, quitting, held, heir, history>>

\* A new process finds the lock held: it probes the holder's version, and is
\* a duplicate unless the holder is older.  A core that has died does not
\* answer the probe.
StartSecond(kind) ==
  /\ kind \in starts /\ phase # "none"
  /\ starts' = starts \ {kind}
  /\ taker' = IF /\ file.state = "whole" /\ taker = NoTaker
                 /\ phase # "coreless" /\ image < file.fp
                THEN [at |-> "probed", image |-> file.fp] ELSE taker
  /\ UNCHANGED <<process, session, record, file, access, owed, history, faults>>

\* SIGTERM to every other agent process there is by now.
TakerSignals ==
  /\ taker.at = "probed"
  /\ taker' = [taker EXCEPT !.at = "waiting"]
  /\ signal' = (phase \notin {"none", "coreless"})
  /\ wish' = (wish /\ phase \in {"none", "coreless"})
  /\ UNCHANGED <<session, record, file, access, starts, phase, image, fleet, managers,
                 owed, watch, requests, quitting, held, heir, unheard, lapse, touched,
                 faults>>

\* The lock is free within LOCK_RETRY.
TakerBoots ==
  /\ taker.at = "waiting" /\ phase = "none"
  /\ taker' = NoTaker
  /\ Boots(taker.image)
  /\ UNCHANGED <<session, file, access, starts, fleet, managers, owed, requests,
                 signal, quitting, held, heir, history>>

\* The holder could not be signalled, or kept the lock for too long.
TakerGivesUp ==
  /\ taker.at = "waiting" /\ phase # "none"
  /\ taker' = NoTaker
  /\ UNCHANGED <<process, session, record, file, access, starts, owed, history,
                 faults>>

\* The process ends, and the threads and channels with it.
Ends ==
  /\ phase' = "none" /\ image' = 0
  /\ fleet' = "inactive" /\ managers' = Off
  /\ watch' = NotWatching
  /\ requests' = <<>> /\ signal' = FALSE /\ quitting' = FALSE
  /\ held' = FALSE /\ heir' = FALSE

\* The successor that waits for this process's end.
Heirs == IF heir THEN {"grant"} ELSE {}

\* Something asked the process to stop for good.
StopPending == signal \/ quitting \/ \E i \in DOMAIN requests : requests[i] # "restart"

\* The process ends without a change of the record, which a stop would have removed.
NotesUnheard == unheard' = (unheard \/ (record = session /\ StopPending))

\* armed_session::record.  A failure is only logged; the record is written beside
\* itself and renamed, so it stays as it was.
Records ==
  \/ record' = session /\ lapse' = "none" /\ UNCHANGED faults
  \/ /\ Fault
     /\ UNCHANGED record
     /\ lapse' = IF Rearm THEN "none" ELSE "unsaved"

\* The arming point.
Arms ==
  /\ phase' = "starting"
  /\ Records
  /\ unheard' = FALSE

\* The gate: a GUI declares itself.  (Other clients change nothing.)  A stop
\* that is already pending is taken later and stays the user's last word.
GuiDeclares ==
  /\ phase = "dormant"
  /\ Arms
  /\ wish' = ~StopPending
  /\ UNCHANGED <<session, file, access, starts, taker, image, fleet, managers, owed,
                 watch, requests, signal, quitting, held, heir, touched>>

\* The gate: the deadline, a signal, or the app is gone.
DormantLeaves ==
  /\ phase = "dormant"
  /\ Ends
  /\ NotesUnheard
  /\ UNCHANGED <<outside, wish, lapse, touched, faults>>

\* schedule(): a successor that waits for this process to end.
Schedules(kind) == starts' = starts \cup {kind}

\* The retry channel fires: the watcher looks for a settled change again.
Retried == watch' = [watch EXCEPT !.mode = "watching", !.pending = Unsettled]

\* The gate: the executable changed.
DormantRestarts ==
  /\ phase = "dormant" /\ requests # <<>> /\ Head(requests) = "restart"
  /\ \/ /\ Schedules("update")
        /\ Ends
        /\ NotesUnheard
        /\ UNCHANGED faults
     \/ /\ Fault
        /\ Retried
        /\ requests' = Tail(requests)
        /\ UNCHANGED <<starts, phase, image, fleet, managers, signal, quitting, held, heir,
                       unheard>>
  /\ UNCHANGED <<session, record, file, access, taker, owed, wish, lapse, touched>>

-----------------------------------------------------------------------------
(* The armed agent. *)

\* spawn_hidpp_watchers.  From then on a manager's sessions may have diverted
\* controls.  What the fleet before did not give back, or a session that died took
\* with it, nobody knows of.
SpawnsFleet ==
  /\ fleet' = "running" /\ managers' = Up
  /\ owed' = Managers

\* Wanted::arm is done, and the fleet starts: the grant was there or was refused
\* at the prompt, or it was given and the relaunch could not be scheduled.
FleetStarts ==
  /\ phase = "starting"
  /\ phase' = "running"
  /\ SpawnsFleet
  /\ \/ held' = access /\ UNCHANGED <<access, faults>>
     \/ ~access /\ access' = TRUE /\ held' = TRUE /\ Fault
  /\ UNCHANGED <<session, record, file, starts, taker, image, watch, requests, signal,
                 quitting, heir, history>>

\* Input Monitoring was granted at the prompt: hand over to a new process.
HandsOver ==
  /\ phase = "starting" /\ ~access
  /\ access' = TRUE
  /\ heir' = TRUE
  /\ phase' = "leaving"
  /\ UNCHANGED <<session, record, file, starts, taker, owed, image, fleet, managers,
                 watch, requests, signal, quitting, held, history, faults>>

\* stop_and_wait: every manager that still runs is told to stop.
Stopping == [m \in Managers |-> IF managers[m] = "up" THEN "stopping" ELSE managers[m]]

\* armed_session::clear: the record is gone, or could not be removed.
Forgets ==
  /\ \/ record' = 0 /\ lapse' = "none" /\ UNCHANGED faults
     \/ /\ record # 0 /\ Fault
        /\ UNCHANGED record
        /\ lapse' = IF Rearm THEN "unremoved" ELSE "none"
  /\ unheard' = FALSE

\* shut_down and leave: forget the session, then stop Flow, the haptics and
\* the fleet.
ShutDown ==
  /\ phase' = "leaving"
  /\ Forgets
  /\ managers' = Stopping
  /\ UNCHANGED <<session, file, access, starts, taker, owed, image, fleet, watch,
                 quitting, held, heir, wish, touched>>

\* The run loop, in the order of its biased select: the signal...
TakesSignal ==
  /\ phase = "running" /\ signal
  /\ signal' = FALSE
  /\ ShutDown
  /\ UNCHANGED requests

\* ... then a Quit or an Uninstalled ...
TakesStop ==
  /\ phase = "running" /\ ~signal
  /\ requests # <<>> /\ Head(requests) # "restart"
  /\ requests' = Tail(requests)
  /\ ShutDown
  /\ UNCHANGED signal

\* ... or a Restart, which begins the drain of a running fleet ...
TakesRestart ==
  /\ phase = "running" /\ ~signal
  /\ requests # <<>> /\ Head(requests) = "restart"
  /\ requests' = Tail(requests)
  /\ IF fleet = "running"
       THEN /\ fleet' = "replacing" /\ managers' = Stopping
            /\ UNCHANGED watch
       ELSE /\ Retried
            /\ UNCHANGED <<fleet, managers>>
  /\ UNCHANGED <<outside, phase, image, signal, quitting, held, heir, history, faults>>

\* Mutant: the drain is over with the first manager.
DrainedByFirst ==
  fleet = "replacing" /\ \E m \in Managers : managers[m] \in {"clean", "unclean"}

\* replacement_ready: every manager has completed.
Drained ==
  fleet = "replacing" /\ \A m \in Managers : managers[m] \in {"clean", "unclean"}

\* ... then the end of the drain.
ReplacementReady ==
  /\ phase = "running" /\ ~signal /\ requests = <<>>
  /\ Drained
  /\ phase' = "completing"
  /\ UNCHANGED <<outside, image, fleet, managers, watch, requests, signal, quitting, held, heir,
                 history, faults>>

\* ... and then the watcher of the grant, which asks a new process while this one
\* lacks it: apply_input_monitoring and hand_over.  The record stays, and the
\* fleet is stopped as for an exit.  (A relaunch that is not scheduled changes
\* nothing.)
LateGrant ==
  /\ phase = "running" /\ ~signal /\ requests = <<>> /\ ~Drained
  /\ access /\ ~held
  /\ heir' = TRUE
  /\ phase' = "leaving"
  /\ managers' = Stopping
  /\ UNCHANGED <<outside, image, fleet, watch, requests, signal, quitting, held, history, faults>>

\* Mutant: a lost or unexpected completion counts as a stop.
CleanOrLost == TRUE

\* StopOutcome::is_stopped for every manager.
AllStopped == \A m \in Managers : managers[m] = "clean"

\* Mutant: the agent stays and the watcher is not told.
StaysSilently ==
  /\ SpawnsFleet
  /\ phase' = "running"
  /\ UNCHANGED <<watch, starts, image, requests, signal, quitting, held, heir, unheard>>

\* A replacement that did not happen: a new fleet, and the watcher may retry.
Stays ==
  /\ SpawnsFleet
  /\ phase' = "running"
  /\ Retried
  /\ UNCHANGED <<starts, image, requests, signal, quitting, held, heir, unheard>>

\* complete_replacement, whatever is asked of the agent by now.
CompleteReplacement ==
  /\ phase = "completing"
  /\ \/ /\ ~AllStopped
        /\ Stays
        /\ UNCHANGED faults
     \/ /\ AllStopped /\ Fault
        /\ Stays
     \/ /\ AllStopped
        /\ Schedules("update")
        /\ Ends
        /\ NotesUnheard
        /\ UNCHANGED <<owed, faults>>
  /\ UNCHANGED <<session, record, file, access, taker, wish, lapse, touched>>

\* The fleet is down, or STOP_TIMEOUT passed: the process ends.
Exits ==
  /\ phase = "leaving"
  /\ Ends
  /\ starts' = starts \cup Heirs
  /\ NotesUnheard
  /\ UNCHANGED <<session, record, file, access, taker, owed, wish, lapse, touched,
                 faults>>

\* Tray Quit: the request, and the tray's thread waits for the process to end.
TrayQuit ==
  /\ Armed \/ phase = "coreless"
  /\ ~quitting
  /\ quitting' = TRUE
  /\ requests' = IF phase = "coreless" THEN requests ELSE Append(requests, "quit")
  /\ wish' = FALSE
  /\ UNCHANGED <<outside, phase, image, fleet, managers, watch, signal, held, heir, unheard,
                 lapse, touched, faults>>

\* Mutant: the fallback only exits.
FallbackOnlyExits ==
  /\ phase = "coreless" /\ quitting
  /\ Ends
  /\ starts' = starts \cup Heirs
  /\ UNCHANGED <<session, record, file, access, taker, owed, history, faults>>

\* request_tray_quit's fallback: the core is gone.
FallbackExit ==
  /\ phase = "coreless" /\ quitting
  /\ Ends
  /\ starts' = starts \cup Heirs
  /\ Forgets
  /\ UNCHANGED <<session, file, access, taker, owed, wish, touched>>

-----------------------------------------------------------------------------
(* The managers. *)

\* The manager's sessions have given back what they knew of, and it acknowledges
\* that no task of its own can write any more.  A session that died before has
\* lost its restore and does not count (settle_capture_task).
ManagerStops(m) ==
  /\ managers[m] = "stopping"
  /\ managers' = [managers EXCEPT ![m] = "clean"]
  /\ owed' = owed \ {m}
  /\ UNCHANGED <<phase, image, fleet, watch, requests, signal, quitting, held, heir, session,
                 record, file, access, starts, taker, history, faults>>

\* The manager ends in another way; its diversions stay.
ManagerFails(m) ==
  /\ managers[m] \in {"up", "stopping"} /\ Fault
  /\ managers' = [managers EXCEPT ![m] = "unclean"]
  /\ UNCHANGED <<phase, image, fleet, watch, requests, signal, quitting, held, heir, outside,
                 history>>

-----------------------------------------------------------------------------
(* The binary watcher. *)

\* Mutant: the first sighting of a change is enough.
SettledAtOnce == file.fp # watch.baseline

\* The same new fingerprint twice in a row.
Settled == file.state = "whole" /\ file.fp # watch.baseline /\ watch.pending = file.fp

\* The third tick in a row without a file.
Gone == file.state = "absent" /\ watch.missing + 1 >= GoneTicks

\* The watcher's send: a core that has died has dropped the receiver.
Sends(request, mode) ==
  IF phase = "coreless"
    THEN /\ watch' = NotWatching
         /\ UNCHANGED requests
    ELSE /\ requests' = Append(requests, request)
         /\ watch' = [watch EXCEPT !.mode = mode, !.missing = 0, !.pending = Unsettled]

\* One tick: sight, Watch::tick, and what the thread does about it.
WatchTick ==
  /\ watch.mode = "watching"
  /\ \/ /\ Settled
        /\ Sends("restart", "waiting")
        /\ touched' = FALSE
        /\ UNCHANGED <<wish, unheard, lapse>>
     \/ /\ Gone
        /\ Sends("uninstalled", "ended")
        /\ wish' = FALSE
        /\ unheard' = (unheard \/ (phase = "coreless" /\ record = session))
        /\ UNCHANGED <<lapse, touched>>
     \/ /\ ~Settled /\ ~Gone
        /\ watch' = [watch EXCEPT
             !.missing = IF file.state = "absent" THEN @ + 1 ELSE 0,
             !.pending = IF file.state = "whole" /\ file.fp # watch.baseline
                           THEN file.fp ELSE Unsettled]
        /\ watch' # watch
        /\ UNCHANGED <<requests, history>>
  /\ UNCHANGED <<outside, phase, image, fleet, managers, signal, quitting, held, heir, faults>>

\* A stat that fails breaks the run of absent ticks.
StatFails ==
  /\ watch.mode = "watching" /\ watch.missing > 0 /\ Fault
  /\ watch' = [watch EXCEPT !.missing = 0]
  /\ UNCHANGED <<outside, phase, image, fleet, managers, requests, signal, quitting, held, heir,
                 history>>

-----------------------------------------------------------------------------
(* The environment. *)

\* The watcher has asked for a restart that is still to come.
RestartAsked == watch.mode = "waiting" \/ "update" \in starts

\* The file is removed: by an install that goes on, or for good.
FileRemoved ==
  /\ file.state = "whole"
  /\ file' = [file EXCEPT !.state = "absent"]
  /\ touched' = RestartAsked
  /\ UNCHANGED <<process, session, record, access, starts, taker, owed, wish,
                 unheard, lapse, faults>>

\* An install starts to write the next version.
WriteBegins ==
  /\ file.state # "writing" /\ file.fp <= MaxUpdates
  /\ file' = [state |-> "writing", fp |-> file.fp + 1]
  /\ touched' = RestartAsked
  /\ UNCHANGED <<process, session, record, access, starts, taker, owed, wish,
                 unheard, lapse, faults>>

WriteEnds ==
  /\ file.state = "writing"
  /\ file' = [file EXCEPT !.state = "whole"]
  /\ UNCHANGED <<process, session, record, access, starts, taker, owed, history,
                 faults>>

\* The GUI starts an agent when none answers, or one it cannot talk to.
GuiStarts ==
  /\ "gui" \notin starts
  /\ phase = "none" \/ image < file.fp
  /\ starts' = starts \cup {"gui"}
  /\ UNCHANGED <<process, session, record, file, access, taker, owed, history,
                 faults>>

\* The user grants Input Monitoring in the system's settings.
Grants ==
  /\ ~access
  /\ access' = TRUE
  /\ UNCHANGED <<process, session, record, file, starts, taker, owed, history,
                 faults>>

\* Logout, or a developer.
StopSignal ==
  /\ phase \notin {"none", "coreless"} /\ ~signal
  /\ signal' = TRUE
  /\ wish' = FALSE
  /\ UNCHANGED <<outside, phase, image, fleet, managers, watch, requests, quitting, held, heir,
                 unheard, lapse, touched, faults>>

\* The next login: nothing of the last session still starts.
Login ==
  /\ phase = "none" /\ taker = NoTaker /\ session < MaxLogins
  /\ session' = session + 1
  /\ starts' = {"login"}
  /\ wish' = FALSE /\ unheard' = FALSE /\ lapse' = "none"
  /\ UNCHANGED <<process, record, file, access, taker, owed, touched, faults>>

\* The process is killed or aborts; launchd starts it again.
Crash ==
  /\ phase # "none" /\ Fault
  /\ Ends
  /\ starts' = starts \cup Heirs \cup {"respawn"}
  /\ NotesUnheard
  /\ UNCHANGED <<session, record, file, access, taker, owed, wish, lapse, touched>>

\* The core's thread panics; the tray's thread and the process stay.
CoreDies ==
  /\ Armed /\ Fault
  /\ phase' = "coreless"
  /\ fleet' = "inactive" /\ managers' = Off
  /\ requests' = <<>>
  /\ watch' = IF watch.mode = "waiting" THEN NotWatching ELSE watch
  /\ unheard' = (unheard \/ (record = session /\ StopPending /\ ~quitting))
  /\ UNCHANGED <<outside, image, signal, quitting, held, heir, wish, lapse, touched>>

-----------------------------------------------------------------------------
Lifecycle ==
  \/ FleetStarts \/ TakesSignal \/ TakesStop \/ TakesRestart \/ ReplacementReady
  \/ CompleteReplacement \/ Exits \/ DormantRestarts

Next ==
  \/ \E kind \in starts : Start(kind) \/ StartSecond(kind)
  \/ TakerSignals \/ TakerBoots \/ TakerGivesUp
  \/ GuiDeclares \/ DormantLeaves
  \/ Lifecycle \/ HandsOver \/ LateGrant
  \/ TrayQuit \/ FallbackExit
  \/ \E m \in Managers : ManagerStops(m) \/ ManagerFails(m)
  \/ WatchTick \/ StatFails
  \/ FileRemoved \/ WriteBegins \/ WriteEnds
  \/ Grants \/ GuiStarts \/ StopSignal \/ Login \/ Crash \/ CoreDies

Spec == Init /\ [][Next]_vars

\* The run loop handles what is ready, the watcher's thread ticks, and a
\* manager that is told to stop ends.
Fairness ==
  /\ WF_vars(Lifecycle)
  /\ WF_vars(WatchTick)
  /\ \A m \in Managers : WF_vars(ManagerStops(m))

FairSpec == Spec /\ Fairness

-----------------------------------------------------------------------------
(* Properties. *)

StartKinds == {"login", "respawn", "gui", "update", "grant"}
Requests   == {"quit", "restart", "uninstalled"}

OutsideOK ==
  /\ session \in 1..MaxLogins /\ record \in 0..MaxLogins
  /\ file \in [state : {"whole", "writing", "absent"}, fp : 1..(MaxUpdates + 1)]
  /\ starts \subseteq StartKinds
  /\ taker \in [at : {"none", "probed", "waiting"}, image : 0..(MaxUpdates + 1)]
  /\ owed \subseteq Managers
  /\ faults \in 0..MaxFaults

ProcessOK ==
  /\ phase \in {"none", "dormant", "starting", "running", "completing", "leaving",
                "coreless"}
  /\ image \in 0..(MaxUpdates + 1)
  /\ fleet \in {"inactive", "running", "replacing"}
  /\ managers \in [Managers -> {"off", "up", "stopping", "clean", "unclean"}]
  /\ watch \in [baseline : 0..(MaxUpdates + 1), pending : 0..(MaxUpdates + 1),
                missing : 0..GoneTicks, mode : {"watching", "waiting", "ended"}]

FlagsOK ==
  /\ access \in BOOLEAN /\ signal \in BOOLEAN /\ quitting \in BOOLEAN
  /\ held \in BOOLEAN /\ heir \in BOOLEAN
  /\ wish \in BOOLEAN /\ unheard \in BOOLEAN /\ touched \in BOOLEAN
  /\ lapse \in {"none", "unsaved", "unremoved"}

\* Every variable has its type; at most two requests are queued, one of the
\* watcher and one of the tray.
TypeOK ==
  /\ OutsideOK /\ ProcessOK /\ FlagsOK
  /\ requests \in Seq(Requests) /\ Len(requests) <= 2

\* A process that starts goes to work at once if the user's last word in this
\* login was that the agent runs, and only then, whatever crashed, updated or
\* handed over in between: "nobody wants the agent until asked again"
\* (lifecycle.rs), and a respawn "used to wait out the dormant window"
\* (armed_session.rs).  It is wrong one way after a stop that the lifecycle never
\* took from its channel or a record that could not be removed, and the other way
\* after an arming that could not be recorded or when this start cannot read the
\* record.
ArmsAsWished ==
  [][/\ phase' = "starting" /\ phase = "none"
          => LaunchAtLogin \/ wish \/ unheard \/ lapse = "unremoved"
     /\ phase' = "dormant" /\ phase # "dormant"
          => ~wish \/ lapse = "unsaved" \/ faults' # faults]_vars

\* When an armed agent schedules the successor of an update, the sessions of its
\* fleet have given back all that they still knew of, whichever manager failed
\* before or during this drain or an earlier one.  (Not so the successor of a late
\* grant, for which the fleet is stopped as for an exit.)
ReplacementOwesNothing ==
  [][Armed /\ "update" \in starts' \ starts => owed = {}]_vars

\* No two fleets at once: a fleet starts only when no task of the one before
\* can still write to a device.
FleetsDoNotOverlap ==
  [][fleet' = "running" /\ fleet # "running"
       => \A m \in Managers : managers[m] \notin {"up", "stopping"}]_vars

\* "exec'ing a half-written image would kill the agent instead of updating
\* it" (binary_watch.rs): the successor finds a whole file, unless the file
\* changed again after the watcher asked for the restart.
SuccessorIsWhole ==
  "update" \in starts /\ file.state # "whole" => touched

\* What happens to the executable is acted on.  An agent whose file was replaced
\* does not go on for ever with the old one: a drain that fails or a successor
\* that cannot be scheduled is tried again.  An agent whose app was removed
\* goes away with it, also when the removal falls into a drain.
ChangeIsHeeded ==
  /\ phase = "running" /\ watch.mode # "ended" /\ file.fp # watch.baseline
       ~> phase \notin {"running", "completing"} \/ file.state # "whole"
  /\ phase = "running" /\ watch.mode # "ended" /\ file.state = "absent"
       ~> phase \notin {"running", "completing"} \/ file.state # "absent"

=============================================================================
