------------------------ MODULE AgentLifecycleProofs ------------------------
(***************************************************************************)
(* Proofs about AgentLifecycle, for every set of managers, with and        *)
(* without launch at login, for every number of ticks until a missing file *)
(* counts as gone, and for any number of updates, logins and faults.       *)
(***************************************************************************)
EXTENDS AgentLifecycle, TLAPS

USE LifecycleAssumption

\* The channel holds at most one request of the tray and one of the watcher.
\* The watcher has asked for nothing while it watches, waits while its restart
\* is queued or being carried out, and asks for one restart at a time.
RequestsAreSingle ==
  /\ requests \in Seq(Requests)
  /\ \A i, j \in DOMAIN requests :
       i # j => (requests[i] = "quit" /\ requests[j] # "quit")
                  \/ (requests[i] # "quit" /\ requests[j] = "quit")
  /\ \A i \in DOMAIN requests :
       /\ watch.mode = "watching" => requests[i] = "quit"
       /\ ~quitting => requests[i] # "quit"
       /\ requests[i] = "restart" => watch.mode = "waiting" /\ fleet # "replacing"
       /\ requests[i] = "uninstalled" => watch.mode = "ended"
  /\ fleet = "replacing" => watch.mode = "waiting"
  /\ phase = "none" => requests = <<>> /\ watch.mode = "ended"

\* A fleet exists from the end of the start to the end of the process or of its
\* core, and a replacement is completed only after every manager has ended.
FleetFollowsPhase ==
  /\ phase \in {"none", "dormant", "starting", "coreless"}
       => fleet = "inactive" /\ managers = Off
  /\ phase = "running" => fleet # "inactive"
  /\ phase = "completing"
       => fleet = "replacing" /\ \A m \in Managers : managers[m] \in {"clean", "unclean"}

\* A manager that ended cleanly has given back what its sessions knew of.
CleanOwesNothing == \A m \in Managers : managers[m] = "clean" => m \notin owed

\* From the verdict that the new file has settled to the start of the
\* successor, the file is whole unless it was touched again.
RestartIsSettled == RestartAsked /\ file.state # "whole" => touched

\* The armed-session record says what the user wants, but for a stop that is
\* still to be taken or was lost, and for a change of it that failed.
RecordFollowsWish ==
  /\ record <= session
  /\ phase = "none" => ~StopPending
  /\ StopPending => ~wish
  /\ wish => record = session \/ LaunchAtLogin \/ lapse = "unsaved"
  /\ record = session
       => LaunchAtLogin \/ wish \/ unheard \/ lapse = "unremoved" \/ StopPending
  /\ phase = "coreless" /\ record = session /\ signal => unheard \/ quitting
  /\ phase = "dormant" => ~LaunchAtLogin

IInv ==
  /\ TypeOK
  /\ RequestsAreSingle
  /\ FleetFollowsPhase
  /\ CleanOwesNothing
  /\ RestartIsSettled
  /\ RecordFollowsWish

-----------------------------------------------------------------------------
\* The first login finds nothing running, no record and a whole file.
LEMMA InitIInv == Init => IInv
<1> SUFFICES ASSUME Init PROVE IInv
  OBVIOUS
<1>1. OutsideOK
  BY DEF Init, OutsideOK, StartKinds, NoTaker
<1>2. ProcessOK
  BY DEF Init, ProcessOK, Off, NotWatching, Unsettled
<1>3. FlagsOK
  BY DEF Init, FlagsOK
<1>4. RequestsAreSingle /\ RecordFollowsWish /\ Len(requests) <= 2
  BY DEF Init, RequestsAreSingle, RecordFollowsWish, Requests, StopPending, NotWatching
<1>5. FleetFollowsPhase /\ CleanOwesNothing /\ RestartIsSettled
  BY DEF Init, FleetFollowsPhase, CleanOwesNothing, RestartIsSettled
<1>6. requests \in Seq(Requests)
  BY <1>4 DEF RequestsAreSingle
<1> QED BY <1>1, <1>2, <1>3, <1>4, <1>5, <1>6 DEF IInv, TypeOK

\* The flags stay flags.
LEMMA NextFlags == FlagsOK /\ [Next]_vars => FlagsOK'
<1> SUFFICES ASSUME FlagsOK, [Next]_vars PROVE FlagsOK'
  OBVIOUS
<1> USE DEF FlagsOK, process, outside, history, Records, Forgets, NotesUnheard
<1>1. ASSUME NEW kind \in starts, Start(kind) PROVE FlagsOK'
  BY <1>1 DEF Start, Boots
<1>2. ASSUME NEW kind \in starts, StartSecond(kind) PROVE FlagsOK'
  BY <1>2 DEF StartSecond
<1>3. CASE TakerSignals \/ TakerGivesUp \/ TakerBoots
  <2>1. CASE TakerSignals
    <3>1. signal' \in BOOLEAN /\ wish' \in BOOLEAN
      BY <2>1, Zenon DEF TakerSignals
    <3> QED BY <2>1, <3>1 DEF TakerSignals
  <2>2. CASE TakerGivesUp
    BY <2>2 DEF TakerGivesUp
  <2>3. CASE TakerBoots
    BY <2>3 DEF TakerBoots, Boots
  <2> QED BY <1>3, <2>1, <2>2, <2>3
<1>4. CASE GuiDeclares \/ DormantLeaves \/ DormantRestarts
  BY <1>4 DEF GuiDeclares, Arms, DormantLeaves, Ends, DormantRestarts
<1>5. CASE FleetStarts \/ HandsOver \/ LateGrant
  BY <1>5 DEF FleetStarts, SpawnsFleet, Up, HandsOver, LateGrant, Stopping
<1>6. CASE TakesSignal \/ TakesStop \/ TakesRestart \/ ReplacementReady
  BY <1>6 DEF TakesSignal, ShutDown, Stopping, TakesStop, TakesRestart, ReplacementReady
<1>7. CASE CompleteReplacement
  BY <1>7 DEF CompleteReplacement, Stays, SpawnsFleet, Up, Ends
<1>8. CASE Exits \/ FallbackExit \/ TrayQuit
  BY <1>8 DEF Exits, Ends, FallbackExit, TrayQuit
<1>9. ASSUME NEW m \in Managers, ManagerStops(m) \/ ManagerFails(m)
      PROVE  FlagsOK'
  BY <1>9 DEF ManagerStops, ManagerFails
<1>10. CASE WatchTick
  BY <1>10 DEF WatchTick, Sends
<1>11. CASE StatFails
  BY <1>11 DEF StatFails
<1>12. CASE FileRemoved \/ WriteBegins \/ WriteEnds
  <2>1. CASE FileRemoved
    <3>1. touched' \in BOOLEAN
      BY <2>1, Zenon DEF FileRemoved, RestartAsked
    <3> QED BY <2>1, <3>1 DEF FileRemoved
  <2>2. CASE WriteBegins
    <3>1. touched' \in BOOLEAN
      BY <2>2, Zenon DEF WriteBegins, RestartAsked
    <3> QED BY <2>2, <3>1 DEF WriteBegins
  <2>3. CASE WriteEnds
    BY <2>3 DEF WriteEnds
  <2> QED BY <1>12, <2>1, <2>2, <2>3
<1>13. CASE GuiStarts \/ StopSignal \/ Login \/ Grants
  <2>1. CASE GuiStarts
    BY <2>1 DEF GuiStarts
  <2>2. CASE StopSignal
    BY <2>2 DEF StopSignal
  <2>3. CASE Login
    BY <2>3 DEF Login
  <2>4. CASE Grants
    BY <2>4 DEF Grants
  <2> QED BY <1>13, <2>1, <2>2, <2>3, <2>4
<1>14. CASE Crash \/ CoreDies
  BY <1>14 DEF Crash, Ends, CoreDies
<1>15. CASE UNCHANGED vars
  BY <1>15 DEF vars
<1> QED BY <1>1, <1>2, <1>3, <1>4, <1>5, <1>6, <1>7, <1>8, <1>9, <1>10, <1>11, <1>12, <1>13,
           <1>14, <1>15
        DEF Next, Lifecycle

\* What survives a process keeps its type.
LEMMA NextOutside == TypeOK /\ [Next]_vars => OutsideOK'
<1> SUFFICES ASSUME TypeOK, [Next]_vars PROVE OutsideOK'
  OBVIOUS
<1> USE DEF TypeOK, OutsideOK, StartKinds, NoTaker, outside, Fault, Records, Forgets,
            Heirs
<1>1. ASSUME NEW kind \in starts, Start(kind) PROVE OutsideOK'
  BY <1>1 DEF Start, Boots
<1>2. ASSUME NEW kind \in starts, StartSecond(kind) PROVE OutsideOK'
  BY <1>2 DEF StartSecond
<1>3. CASE TakerSignals
  BY <1>3 DEF TakerSignals
<1>4. CASE TakerGivesUp
  BY <1>4 DEF TakerGivesUp
<1>5. CASE TakerBoots
  BY <1>5 DEF TakerBoots, Boots
<1>6. CASE GuiDeclares
  BY <1>6 DEF GuiDeclares, Arms
<1>7. CASE DormantLeaves
  BY <1>7 DEF DormantLeaves
<1>8. CASE DormantRestarts
  <2>1. starts' \subseteq StartKinds
    BY <1>8 DEF DormantRestarts, Schedules
  <2> HIDE DEF StartKinds
  <2> QED BY <1>8, <2>1 DEF DormantRestarts
<1>9. CASE FleetStarts
  BY <1>9 DEF FleetStarts, SpawnsFleet, Up
<1>10. CASE HandsOver
  BY <1>10 DEF HandsOver
<1>11. CASE TakesSignal
  BY <1>11 DEF TakesSignal, ShutDown, Stopping
<1>12. CASE TakesStop
  BY <1>12 DEF TakesStop, ShutDown, Stopping
<1>13. CASE TakesRestart
  BY <1>13 DEF TakesRestart, Stopping
<1>14. CASE ReplacementReady
  BY <1>14 DEF ReplacementReady
<1>15. CASE CompleteReplacement
  <2>1. starts' \subseteq StartKinds
    BY <1>15 DEF CompleteReplacement, Stays, Schedules
  <2>2. owed' \subseteq Managers
    BY <1>15 DEF CompleteReplacement, Stays, SpawnsFleet
  <2> HIDE DEF StartKinds
  <2> QED BY <1>15, <2>1, <2>2 DEF CompleteReplacement
<1>16. CASE Exits
  BY <1>16 DEF Exits
<1>17. CASE FallbackExit
  BY <1>17 DEF FallbackExit
<1>18. CASE TrayQuit
  BY <1>18 DEF TrayQuit
<1>19. ASSUME NEW m \in Managers, ManagerStops(m) PROVE OutsideOK'
  BY <1>19 DEF ManagerStops
<1>20. ASSUME NEW m \in Managers, ManagerFails(m) PROVE OutsideOK'
  BY <1>20 DEF ManagerFails
<1>21. CASE WatchTick
  BY <1>21 DEF WatchTick
<1>22. CASE StatFails
  BY <1>22 DEF StatFails
<1>23. CASE FileRemoved
  BY <1>23 DEF FileRemoved
<1>24. CASE WriteBegins
  BY <1>24 DEF WriteBegins
<1>25. CASE WriteEnds
  BY <1>25 DEF WriteEnds
<1>26. CASE GuiStarts
  BY <1>26 DEF GuiStarts
<1>27. CASE StopSignal
  BY <1>27 DEF StopSignal
<1>28. CASE Login
  BY <1>28 DEF Login
<1>29. CASE Crash
  BY <1>29 DEF Crash
<1>30. CASE CoreDies
  BY <1>30 DEF CoreDies
<1>31. CASE UNCHANGED vars
  BY <1>31 DEF vars
<1>32. CASE LateGrant
  BY <1>32 DEF LateGrant, Stopping
<1>33. CASE Grants
  BY <1>33 DEF Grants
<1> QED BY <1>1, <1>2, <1>3, <1>4, <1>5, <1>6, <1>7, <1>8, <1>9, <1>10, <1>11, <1>12, <1>13,
           <1>14, <1>15, <1>16, <1>17, <1>18, <1>19, <1>20, <1>21, <1>22, <1>23, <1>24,
           <1>25, <1>26, <1>27, <1>28, <1>29, <1>30, <1>31, <1>32, <1>33
        DEF Next, Lifecycle

Watches == [baseline : 0..(MaxUpdates + 1), pending : 0..(MaxUpdates + 1),
            missing : 0..GoneTicks, mode : {"watching", "waiting", "ended"}]

\* A change of the watcher's state, field by field.
LEMMA WatchChanges ==
  ASSUME NEW w \in Watches, NEW mode \in {"watching", "waiting", "ended"},
         NEW missing \in 0..GoneTicks, NEW pending \in 0..(MaxUpdates + 1)
  PROVE  /\ [w EXCEPT !.missing = missing] \in Watches
         /\ [w EXCEPT !.missing = missing, !.pending = pending] \in Watches
         /\ [w EXCEPT !.mode = mode, !.pending = pending] \in Watches
         /\ [w EXCEPT !.mode = mode, !.missing = missing, !.pending = pending] \in Watches
<1> DEFINE v == [w EXCEPT !.mode = mode]
           u == [w EXCEPT !.missing = missing]
           x == [v EXCEPT !.missing = missing]
<1>1. v \in Watches /\ u \in Watches
  BY DEF Watches
<1>2. [v EXCEPT !.pending = pending] \in Watches /\ [u EXCEPT !.pending = pending] \in Watches
      /\ x \in Watches
  <2> HIDE DEF v, u
  <2> QED BY <1>1 DEF Watches
<1>3. [x EXCEPT !.pending = pending] \in Watches
  <2> HIDE DEF x
  <2> QED BY <1>2 DEF Watches
<1> QED BY <1>1, <1>2, <1>3

\* A tick that finds neither a settled change nor a removal.
LEMMA WatchCounts ==
  ASSUME watch \in Watches, file.fp \in 1..(MaxUpdates + 1), ~Gone
  PROVE  [watch EXCEPT !.missing = IF file.state = "absent" THEN @ + 1 ELSE 0,
                       !.pending = IF file.state = "whole" /\ file.fp # watch.baseline
                                     THEN file.fp ELSE Unsettled] \in Watches
<1> DEFINE missing == IF file.state = "absent" THEN watch.missing + 1 ELSE 0
           pending == IF file.state = "whole" /\ file.fp # watch.baseline
                        THEN file.fp ELSE Unsettled
<1>1. watch.missing \in 0..GoneTicks
  BY DEF Watches
<1>2. missing \in 0..GoneTicks
  BY <1>1 DEF Gone
<1>3. pending \in 0..(MaxUpdates + 1)
  BY DEF Unsettled
<1> HIDE DEF missing, pending
<1>4. [watch EXCEPT !.missing = missing, !.pending = pending] \in Watches
  BY <1>2, <1>3, WatchChanges
<1> QED BY <1>4 DEF missing, pending

\* What a retry and a request make of the watcher.
LEMMA WatchSteps ==
  ASSUME watch \in Watches
  PROVE  /\ Retried => watch' \in Watches /\ watch'.mode = "watching"
         /\ \A r \in Requests, m \in {"watching", "waiting", "ended"} :
              Sends(r, m) => watch' \in Watches /\ watch'.mode \in {m, "ended"}
         /\ NotWatching \in Watches /\ NotWatching.mode = "ended"
<1>0. 0 \in 0..(MaxUpdates + 1) /\ 0 \in 0..GoneTicks
  OBVIOUS
<1>1. NotWatching \in Watches /\ NotWatching.mode = "ended"
  BY <1>0 DEF NotWatching, Unsettled, Watches
<1>2. ASSUME Retried PROVE watch' \in Watches /\ watch'.mode = "watching"
  <2>1. watch' \in Watches
    BY <1>0, <1>2, WatchChanges DEF Retried, Unsettled
  <2>2. watch'.mode = "watching"
    BY <1>2 DEF Retried, Watches
  <2> QED BY <2>1, <2>2
<1>3. ASSUME NEW r \in Requests, NEW m \in {"watching", "waiting", "ended"}, Sends(r, m)
      PROVE  watch' \in Watches /\ watch'.mode \in {m, "ended"}
  <2>1. CASE phase = "coreless"
    BY <1>1, <1>3, <2>1 DEF Sends
  <2>2. CASE phase # "coreless"
    <3>1. watch' = [watch EXCEPT !.mode = m, !.missing = 0, !.pending = 0]
      BY <1>3, <2>2 DEF Sends, Unsettled
    <3>2. watch' \in Watches
      BY <1>0, <3>1, WatchChanges
    <3>3. watch'.mode = m
      BY <3>1 DEF Watches
    <3> QED BY <3>2, <3>3
  <2> QED BY <2>1, <2>2
<1> QED BY <1>1, <1>2, <1>3

\* What a process keeps has its type.
LEMMA NextProcess == TypeOK /\ [Next]_vars => ProcessOK'
<1> SUFFICES ASSUME TypeOK, [Next]_vars PROVE ProcessOK'
  OBVIOUS
<1>0. watch \in Watches
  BY DEF TypeOK, ProcessOK, Watches
<1> USE DEF TypeOK, OutsideOK, ProcessOK, Off, NotWatching, Unsettled, process, outside
<1>1. ASSUME NEW kind \in starts, Start(kind) PROVE ProcessOK'
  BY <1>1 DEF Start, Boots, Watching
<1>2. ASSUME NEW kind \in starts, StartSecond(kind) PROVE ProcessOK'
  BY <1>2 DEF StartSecond
<1>3. CASE TakerSignals
  BY <1>3 DEF TakerSignals
<1>4. CASE TakerGivesUp
  BY <1>4 DEF TakerGivesUp
<1>5. CASE TakerBoots
  BY <1>5 DEF TakerBoots, Boots, Watching
<1>6. CASE GuiDeclares
  BY <1>6 DEF GuiDeclares, Arms
<1>7. CASE DormantLeaves
  BY <1>7 DEF DormantLeaves, Ends
<1>8. CASE DormantRestarts
  <2>1. watch' \in Watches
    BY <1>8, <1>0, WatchSteps DEF DormantRestarts, Ends
  <2> QED BY <1>8, <2>1, SMTT(60) DEF DormantRestarts, Ends, Watches
<1>9. CASE FleetStarts
  BY <1>9 DEF FleetStarts, SpawnsFleet, Up
<1>10. CASE HandsOver
  BY <1>10 DEF HandsOver
<1>11. CASE TakesSignal
  BY <1>11 DEF TakesSignal, ShutDown, Stopping
<1>12. CASE TakesStop
  BY <1>12 DEF TakesStop, ShutDown, Stopping
<1>13. CASE TakesRestart
  <2>1. watch' \in Watches
    BY <1>13, <1>0, WatchSteps DEF TakesRestart
  <2> QED BY <1>13, <2>1 DEF TakesRestart, Stopping, Watches
<1>14. CASE ReplacementReady
  BY <1>14 DEF ReplacementReady
<1>15. CASE CompleteReplacement
  <2>1. watch' \in Watches
    BY <1>15, <1>0, WatchSteps DEF CompleteReplacement, Stays, Ends
  <2> QED BY <1>15, <2>1, SMTT(60) DEF CompleteReplacement, Stays, SpawnsFleet, Up, Ends, Watches
<1>16. CASE Exits
  BY <1>16 DEF Exits, Ends
<1>17. CASE FallbackExit
  BY <1>17 DEF FallbackExit, Ends
<1>18. CASE TrayQuit
  BY <1>18 DEF TrayQuit
<1>19. ASSUME NEW m \in Managers, ManagerStops(m) PROVE ProcessOK'
  BY <1>19 DEF ManagerStops
<1>20. ASSUME NEW m \in Managers, ManagerFails(m) PROVE ProcessOK'
  BY <1>20 DEF ManagerFails
<1>21. CASE WatchTick
  <2>1. watch' \in Watches
    <3>1. CASE Sends("restart", "waiting") \/ Sends("uninstalled", "ended")
      BY <1>0, <3>1, WatchSteps DEF Requests
    <3>3. file.fp \in 1..(MaxUpdates + 1)
      OBVIOUS
    <3>2. CASE ~Gone /\ watch' = [watch EXCEPT
             !.missing = IF file.state = "absent" THEN @ + 1 ELSE 0,
             !.pending = IF file.state = "whole" /\ file.fp # watch.baseline
                           THEN file.fp ELSE Unsettled]
      BY <1>0, <3>2, <3>3, WatchCounts
    <3> QED BY <1>21, <3>1, <3>2 DEF WatchTick
  <2> QED BY <1>21, <2>1 DEF WatchTick, Watches
<1>22. CASE StatFails
  <2>1. watch' \in Watches
    <3>1. watch' = [watch EXCEPT !.missing = 0] /\ 0 \in 0..GoneTicks
      BY <1>22 DEF StatFails
    <3> QED BY <1>0, <3>1, WatchChanges
  <2> QED BY <1>22, <2>1 DEF StatFails, Watches
<1>23. CASE FileRemoved
  BY <1>23 DEF FileRemoved
<1>24. CASE WriteBegins
  BY <1>24 DEF WriteBegins
<1>25. CASE WriteEnds
  BY <1>25 DEF WriteEnds
<1>26. CASE GuiStarts
  BY <1>26 DEF GuiStarts
<1>27. CASE StopSignal
  BY <1>27 DEF StopSignal
<1>28. CASE Login
  BY <1>28 DEF Login
<1>29. CASE Crash
  BY <1>29 DEF Crash, Ends
<1>30. CASE CoreDies
  BY <1>30 DEF CoreDies
<1>31. CASE UNCHANGED vars
  BY <1>31 DEF vars
<1>32. CASE LateGrant
  BY <1>32 DEF LateGrant, Stopping
<1>33. CASE Grants
  BY <1>33 DEF Grants
<1> QED BY <1>1, <1>2, <1>3, <1>4, <1>5, <1>6, <1>7, <1>8, <1>9, <1>10, <1>11, <1>12, <1>13,
           <1>14, <1>15, <1>16, <1>17, <1>18, <1>19, <1>20, <1>21, <1>22, <1>23, <1>24,
           <1>25, <1>26, <1>27, <1>28, <1>29, <1>30, <1>31, <1>32, <1>33
        DEF Next, Lifecycle

\* The fleet's state through every step.
LEMMA NextFleet == TypeOK /\ FleetFollowsPhase /\ [Next]_vars => FleetFollowsPhase'
<1> SUFFICES ASSUME TypeOK, FleetFollowsPhase, [Next]_vars PROVE FleetFollowsPhase'
  OBVIOUS
<1> USE DEF TypeOK, ProcessOK, FleetFollowsPhase, Off, process, outside
<1>1. ASSUME NEW kind \in starts, Start(kind) \/ StartSecond(kind) PROVE FleetFollowsPhase'
  BY <1>1 DEF Start, Boots, StartSecond
<1>2. CASE TakerSignals \/ TakerGivesUp \/ TakerBoots
  BY <1>2 DEF TakerSignals, TakerGivesUp, TakerBoots, Boots
<1>3. CASE GuiDeclares \/ DormantLeaves \/ DormantRestarts
  BY <1>3 DEF GuiDeclares, Arms, DormantLeaves, Ends, DormantRestarts
<1>4. CASE FleetStarts \/ HandsOver \/ LateGrant
  BY <1>4 DEF FleetStarts, SpawnsFleet, Up, HandsOver, LateGrant, Stopping
<1>5. CASE TakesSignal \/ TakesStop \/ TakesRestart
  BY <1>5 DEF TakesSignal, ShutDown, Stopping, TakesStop, TakesRestart
<1>6. CASE ReplacementReady
  BY <1>6 DEF ReplacementReady, Drained
<1>7. CASE CompleteReplacement
  BY <1>7 DEF CompleteReplacement, Stays, SpawnsFleet, Up, Ends
<1>8. CASE Exits \/ FallbackExit \/ TrayQuit
  BY <1>8 DEF Exits, Ends, FallbackExit, TrayQuit
<1>9. ASSUME NEW m \in Managers, ManagerStops(m) \/ ManagerFails(m)
      PROVE  FleetFollowsPhase'
  BY <1>9 DEF ManagerStops, ManagerFails
<1>10. CASE WatchTick \/ StatFails
  BY <1>10 DEF WatchTick, StatFails
<1>11. CASE FileRemoved \/ WriteBegins \/ WriteEnds
  BY <1>11 DEF FileRemoved, WriteBegins, WriteEnds
<1>12. CASE GuiStarts \/ StopSignal \/ Login \/ Grants
  BY <1>12 DEF GuiStarts, StopSignal, Login, Grants, Fault
<1>13. CASE Crash \/ CoreDies
  BY <1>13 DEF Crash, Ends, CoreDies
<1>14. CASE UNCHANGED vars
  BY <1>14 DEF vars
<1> QED BY <1>1, <1>2, <1>3, <1>4, <1>5, <1>6, <1>7, <1>8, <1>9, <1>10, <1>11, <1>12, <1>13,
           <1>14
        DEF Next, Lifecycle

\* What the channel holds through every step.
LEMMA NextRequests ==
  TypeOK /\ RequestsAreSingle /\ FleetFollowsPhase /\ [Next]_vars => RequestsAreSingle'
<1> SUFFICES ASSUME TypeOK, RequestsAreSingle, FleetFollowsPhase, [Next]_vars
             PROVE  RequestsAreSingle'
  OBVIOUS
<1>0. watch \in Watches
  BY DEF TypeOK, ProcessOK, Watches
<1> USE DEF TypeOK, ProcessOK, RequestsAreSingle, FleetFollowsPhase, Requests, process, outside
<1>1. ASSUME NEW kind \in starts, Start(kind) PROVE RequestsAreSingle'
  BY <1>1 DEF Start, Boots, Watching, NotWatching
<1>2. ASSUME NEW kind \in starts, StartSecond(kind) PROVE RequestsAreSingle'
  BY <1>2 DEF StartSecond
<1>3. CASE TakerSignals
  BY <1>3 DEF TakerSignals
<1>4. CASE TakerGivesUp
  BY <1>4 DEF TakerGivesUp
<1>5. CASE TakerBoots
  BY <1>5 DEF TakerBoots, Boots, Watching, NotWatching
<1>6. CASE GuiDeclares
  BY <1>6 DEF GuiDeclares, Arms
<1>7. CASE DormantLeaves
  BY <1>7 DEF DormantLeaves, Ends, NotWatching
<1>8. CASE DormantRestarts
  <2>1. CASE Ends
    BY <2>1 DEF Ends, NotWatching
  <2>2. CASE Retried /\ requests' = Tail(requests) /\ UNCHANGED <<phase, fleet, quitting>>
    <3>1. watch'.mode = "watching"
      BY <1>0, <2>2, WatchSteps
    <3> QED BY <1>8, <2>2, <3>1, SMTT(60) DEF DormantRestarts
  <2> QED BY <1>8, <2>1, <2>2 DEF DormantRestarts
<1>9. CASE FleetStarts
  BY <1>9 DEF FleetStarts, SpawnsFleet, Up
<1>10. CASE HandsOver
  BY <1>10 DEF HandsOver
<1>11. CASE TakesSignal
  BY <1>11 DEF TakesSignal, ShutDown, Stopping
<1>12. CASE TakesStop
  BY <1>12, SMTT(60) DEF TakesStop, ShutDown, Stopping
<1>13. CASE TakesRestart
  BY <1>13, SMTT(60) DEF TakesRestart, Stopping, Retried
<1>14. CASE ReplacementReady
  BY <1>14 DEF ReplacementReady
<1>15. CASE CompleteReplacement
  <2>1. CASE Ends
    BY <2>1 DEF Ends, NotWatching
  <2>2. CASE Stays
    <3>1. watch'.mode = "watching"
      BY <1>0, <2>2, WatchSteps DEF Stays
    <3> QED BY <1>15, <2>2, <3>1 DEF CompleteReplacement, Stays, SpawnsFleet
  <2> QED BY <1>15, <2>1, <2>2 DEF CompleteReplacement
<1>16. CASE Exits
  BY <1>16 DEF Exits, Ends, NotWatching
<1>17. CASE FallbackExit
  BY <1>17 DEF FallbackExit, Ends, NotWatching
<1>18. CASE TrayQuit
  BY <1>18 DEF TrayQuit, Armed
<1>19. ASSUME NEW m \in Managers, ManagerStops(m) PROVE RequestsAreSingle'
  BY <1>19 DEF ManagerStops
<1>20. ASSUME NEW m \in Managers, ManagerFails(m) PROVE RequestsAreSingle'
  BY <1>20 DEF ManagerFails
<1>21. CASE WatchTick
  <2> UNCHANGED <<phase, fleet, quitting>> /\ watch.mode = "watching"
    BY <1>21 DEF WatchTick
  <2>1. CASE phase = "coreless" /\ watch' = NotWatching /\ UNCHANGED requests
    BY <2>1 DEF NotWatching
  <2>2. ASSUME NEW r \in {"restart", "uninstalled"},
               watch'.mode = IF r = "restart" THEN "waiting" ELSE "ended",
               requests' = Append(requests, r), phase # "none"
        PROVE  RequestsAreSingle'
    <3>1. /\ Len(requests') = Len(requests) + 1 /\ requests' \in Seq(Requests)
          /\ \A i \in 1..Len(requests) : requests'[i] = requests[i]
          /\ requests'[Len(requests) + 1] = r
      BY <2>2
    <3>2. DOMAIN requests = 1..Len(requests) /\ DOMAIN requests' = 1..(Len(requests) + 1)
          /\ Len(requests) \in Nat
      BY <3>1
    <3>3. \A i \in DOMAIN requests' : (i \in DOMAIN requests /\ requests'[i] = requests[i])
                                     \/ (i = Len(requests) + 1 /\ requests'[i] = r)
      BY <3>1, <3>2
    <3> QED BY <2>2, <3>1, <3>3, SMTT(60)
  <2>3. CASE UNCHANGED requests /\ watch'.mode = "watching"
    BY <2>3
  <2>4. watch'.mode = "watching" \/ Sends("restart", "waiting") \/ Sends("uninstalled", "ended")
    BY <1>21 DEF WatchTick
  <2>5. ASSUME NEW r \in {"restart", "uninstalled"}, phase # "coreless",
               Sends(r, IF r = "restart" THEN "waiting" ELSE "ended")
        PROVE  watch'.mode = IF r = "restart" THEN "waiting" ELSE "ended"
    BY <2>5 DEF Sends
  <2> QED BY <1>21, <2>1, <2>2, <2>3, <2>4, <2>5 DEF WatchTick, Sends
<1>22. CASE StatFails
  BY <1>22 DEF StatFails
<1>23. CASE FileRemoved
  BY <1>23 DEF FileRemoved
<1>24. CASE WriteBegins
  BY <1>24 DEF WriteBegins
<1>25. CASE WriteEnds
  BY <1>25 DEF WriteEnds
<1>26. CASE GuiStarts
  BY <1>26 DEF GuiStarts
<1>27. CASE StopSignal
  BY <1>27 DEF StopSignal
<1>28. CASE Login
  BY <1>28 DEF Login
<1>29. CASE Crash
  BY <1>29 DEF Crash, Ends, NotWatching
<1>30. CASE CoreDies
  BY <1>30 DEF CoreDies, NotWatching
<1>31. CASE UNCHANGED vars
  BY <1>31 DEF vars
<1>32. CASE LateGrant
  BY <1>32 DEF LateGrant, Stopping
<1>33. CASE Grants
  BY <1>33 DEF Grants
<1> QED BY <1>1, <1>2, <1>3, <1>4, <1>5, <1>6, <1>7, <1>8, <1>9, <1>10, <1>11, <1>12, <1>13,
           <1>14, <1>15, <1>16, <1>17, <1>18, <1>19, <1>20, <1>21, <1>22, <1>23, <1>24,
           <1>25, <1>26, <1>27, <1>28, <1>29, <1>30, <1>31, <1>32, <1>33
        DEF Next, Lifecycle

\* Diversions and clean ends through every step.
LEMMA NextClean == TypeOK /\ CleanOwesNothing /\ [Next]_vars => CleanOwesNothing'
<1> SUFFICES ASSUME TypeOK, CleanOwesNothing, [Next]_vars PROVE CleanOwesNothing'
  OBVIOUS
<1> USE DEF TypeOK, ProcessOK, CleanOwesNothing, Off, process, outside
<1>1. ASSUME NEW kind \in starts, Start(kind) \/ StartSecond(kind) PROVE CleanOwesNothing'
  BY <1>1 DEF Start, Boots, StartSecond
<1>2. CASE TakerSignals \/ TakerGivesUp \/ TakerBoots
  BY <1>2 DEF TakerSignals, TakerGivesUp, TakerBoots, Boots
<1>3. CASE GuiDeclares \/ DormantLeaves \/ DormantRestarts
  BY <1>3 DEF GuiDeclares, Arms, DormantLeaves, Ends, DormantRestarts
<1>4. CASE FleetStarts \/ HandsOver \/ LateGrant
  BY <1>4 DEF FleetStarts, SpawnsFleet, Up, HandsOver, LateGrant, Stopping
<1>5. CASE TakesSignal \/ TakesStop \/ TakesRestart
  BY <1>5 DEF TakesSignal, ShutDown, Stopping, TakesStop, TakesRestart
<1>6. CASE ReplacementReady
  BY <1>6 DEF ReplacementReady
<1>7. CASE CompleteReplacement
  BY <1>7 DEF CompleteReplacement, Stays, SpawnsFleet, Up, Ends
<1>8. CASE Exits \/ FallbackExit \/ TrayQuit
  BY <1>8 DEF Exits, Ends, FallbackExit, TrayQuit
<1>9. ASSUME NEW m \in Managers, ManagerStops(m) PROVE CleanOwesNothing'
  BY <1>9 DEF ManagerStops
<1>10. ASSUME NEW m \in Managers, ManagerFails(m)
       PROVE  CleanOwesNothing'
  BY <1>10 DEF ManagerFails
<1>11. CASE WatchTick \/ StatFails
  BY <1>11 DEF WatchTick, StatFails
<1>12. CASE FileRemoved \/ WriteBegins \/ WriteEnds
  BY <1>12 DEF FileRemoved, WriteBegins, WriteEnds
<1>13. CASE GuiStarts \/ StopSignal \/ Login \/ Grants
  <2>1. CASE GuiStarts
    BY <2>1 DEF GuiStarts
  <2>2. CASE StopSignal
    BY <2>2 DEF StopSignal
  <2>3. CASE Login
    BY <2>3 DEF Login
  <2>4. CASE Grants
    BY <2>4 DEF Grants
  <2> QED BY <1>13, <2>1, <2>2, <2>3, <2>4
<1>14. CASE Crash \/ CoreDies
  BY <1>14 DEF Crash, Ends, CoreDies
<1>15. CASE UNCHANGED vars
  BY <1>15 DEF vars
<1> QED BY <1>1, <1>2, <1>3, <1>4, <1>5, <1>6, <1>7, <1>8, <1>9, <1>10, <1>11, <1>12, <1>13,
           <1>14, <1>15
        DEF Next, Lifecycle

\* The settled file through every step: a successor is scheduled only for a
\* restart the watcher has asked for and still waits for.
LEMMA NextSettled ==
  TypeOK /\ RequestsAreSingle /\ FleetFollowsPhase /\ RestartIsSettled /\ [Next]_vars
    => RestartIsSettled'
<1> SUFFICES ASSUME TypeOK, RequestsAreSingle, FleetFollowsPhase, RestartIsSettled, [Next]_vars
             PROVE  RestartIsSettled'
  OBVIOUS
<1>0. watch \in Watches
  BY DEF TypeOK, ProcessOK, Watches
<1> USE DEF TypeOK, OutsideOK, ProcessOK, RestartIsSettled, RestartAsked, NotWatching, process,
            outside, history
<1>1. ASSUME NEW kind \in starts, Start(kind) PROVE RestartIsSettled'
  BY <1>1 DEF Start, Boots, Watching
<1>2. ASSUME NEW kind \in starts, StartSecond(kind) PROVE RestartIsSettled'
  BY <1>2 DEF StartSecond
<1>3. CASE TakerSignals
  BY <1>3 DEF TakerSignals
<1>4. CASE TakerGivesUp
  BY <1>4 DEF TakerGivesUp
<1>5. CASE TakerBoots
  BY <1>5 DEF TakerBoots, Boots, Watching
<1>6. CASE GuiDeclares
  BY <1>6 DEF GuiDeclares, Arms
<1>7. CASE DormantLeaves
  BY <1>7 DEF DormantLeaves, Ends
<1>8. CASE DormantRestarts
  BY <1>8, SMTT(60) DEF DormantRestarts, Ends, Schedules, Retried, RequestsAreSingle
<1>9. CASE FleetStarts
  BY <1>9 DEF FleetStarts, SpawnsFleet, Up
<1>10. CASE HandsOver
  BY <1>10 DEF HandsOver
<1>11. CASE TakesSignal
  BY <1>11 DEF TakesSignal, ShutDown, Stopping
<1>12. CASE TakesStop
  BY <1>12 DEF TakesStop, ShutDown, Stopping
<1>13. CASE TakesRestart
  BY <1>13 DEF TakesRestart, Stopping, Retried
<1>14. CASE ReplacementReady
  BY <1>14 DEF ReplacementReady
<1>15. CASE CompleteReplacement
  BY <1>15 DEF CompleteReplacement, Stays, SpawnsFleet, Up, Ends, Schedules, Retried,
     RequestsAreSingle, FleetFollowsPhase
<1>16. CASE Exits
  BY <1>16 DEF Exits, Ends, Heirs
<1>17. CASE FallbackExit
  BY <1>17 DEF FallbackExit, Ends, Heirs
<1>18. CASE TrayQuit
  BY <1>18 DEF TrayQuit
<1>19. ASSUME NEW m \in Managers, ManagerStops(m) PROVE RestartIsSettled'
  BY <1>19 DEF ManagerStops
<1>20. ASSUME NEW m \in Managers, ManagerFails(m) PROVE RestartIsSettled'
  BY <1>20 DEF ManagerFails
<1>21. CASE WatchTick
  <2> UNCHANGED <<file, starts>>
    BY <1>21 DEF WatchTick
  <2>1. CASE Settled
    BY <2>1 DEF Settled
  <2>2. CASE watch'.mode # "waiting" /\ UNCHANGED touched
    BY <2>2
  <2>3. CASE Sends("uninstalled", "ended")
    <3>1. watch'.mode = "ended"
      BY <1>0, <2>3, WatchSteps DEF Requests
    <3> QED BY <1>21, <3>1, <2>2, <2>1 DEF WatchTick
  <2>4. CASE ~Settled /\ ~Gone
    <3>1. watch'.mode # "waiting" /\ UNCHANGED touched
      BY <1>21, <2>4 DEF WatchTick, history
    <3> QED BY <3>1, <2>2
  <2> QED BY <1>21, <2>1, <2>3, <2>4 DEF WatchTick
<1>22. CASE StatFails
  BY <1>22 DEF StatFails
<1>23. CASE FileRemoved
  BY <1>23 DEF FileRemoved
<1>24. CASE WriteBegins
  BY <1>24 DEF WriteBegins
<1>25. CASE WriteEnds
  BY <1>25 DEF WriteEnds
<1>26. CASE GuiStarts
  BY <1>26 DEF GuiStarts
<1>27. CASE StopSignal
  BY <1>27 DEF StopSignal
<1>28. CASE Login
  BY <1>28 DEF Login
<1>29. CASE Crash
  BY <1>29 DEF Crash, Ends, Heirs
<1>30. CASE CoreDies
  BY <1>30 DEF CoreDies
<1>31. CASE UNCHANGED vars
  BY <1>31 DEF vars
<1>32. CASE LateGrant
  BY <1>32 DEF LateGrant, Stopping
<1>33. CASE Grants
  BY <1>33 DEF Grants
<1> QED BY <1>1, <1>2, <1>3, <1>4, <1>5, <1>6, <1>7, <1>8, <1>9, <1>10, <1>11, <1>12, <1>13,
           <1>14, <1>15, <1>16, <1>17, <1>18, <1>19, <1>20, <1>21, <1>22, <1>23, <1>24,
           <1>25, <1>26, <1>27, <1>28, <1>29, <1>30, <1>31, <1>32, <1>33
        DEF Next, Lifecycle

\* A request that is queued asks for a stop unless it is a restart.
LEMMA AppendedStop ==
  ASSUME NEW q \in Seq(Requests), NEW r \in Requests
  PROVE  (\E i \in DOMAIN Append(q, r) : Append(q, r)[i] # "restart")
           <=> (\E i \in DOMAIN q : q[i] # "restart") \/ r # "restart"
<1>1. /\ Len(q) \in Nat /\ DOMAIN q = 1..Len(q) /\ DOMAIN Append(q, r) = 1..(Len(q) + 1)
      /\ \A i \in 1..Len(q) : Append(q, r)[i] = q[i]
      /\ Append(q, r)[Len(q) + 1] = r
  OBVIOUS
<1>2. \A i \in 1..(Len(q) + 1) : i \in 1..Len(q) \/ i = Len(q) + 1
  BY <1>1
<1>3. \A i \in 1..Len(q) : i \in 1..(Len(q) + 1)
  BY <1>1
<1>4. Len(q) + 1 \in 1..(Len(q) + 1)
  BY <1>1
<1> QED BY <1>1, <1>2, <1>3, <1>4, Zenon

\* The record and the user's last word through every step.
LEMMA NextRecord ==
  TypeOK /\ RequestsAreSingle /\ RecordFollowsWish /\ [Next]_vars => RecordFollowsWish'
<1> SUFFICES ASSUME TypeOK, RequestsAreSingle, RecordFollowsWish, [Next]_vars
             PROVE  RecordFollowsWish'
  OBVIOUS
<1> USE DEF TypeOK, OutsideOK, ProcessOK, RequestsAreSingle, RecordFollowsWish, StopPending,
            Requests, Records, Forgets, Rearm, process, outside, history
<1>1. ASSUME NEW kind \in starts, Start(kind) PROVE RecordFollowsWish'
  BY <1>1 DEF Start, Boots
<1>2. ASSUME NEW kind \in starts, StartSecond(kind) PROVE RecordFollowsWish'
  BY <1>2 DEF StartSecond
<1>3. CASE TakerSignals
  <2>1. /\ signal' <=> phase \notin {"none", "coreless"}
        /\ wish' <=> (wish /\ phase \in {"none", "coreless"})
    BY <1>3, Zenon DEF TakerSignals
  <2>2. UNCHANGED <<session, record, phase, requests, quitting, unheard, lapse>>
    BY <1>3 DEF TakerSignals
  <2> QED BY <2>1, <2>2
<1>4. CASE TakerGivesUp
  BY <1>4 DEF TakerGivesUp
<1>5. CASE TakerBoots
  BY <1>5 DEF TakerBoots, Boots
<1>6. CASE GuiDeclares
  <2>1. wish' <=> ~StopPending
    BY <1>6, Zenon DEF GuiDeclares
  <2>2. UNCHANGED <<session, requests, quitting, signal>>
        /\ phase' = "starting" /\ unheard' = FALSE
        /\ \/ record' = session /\ lapse' = "none"
           \/ record' = record /\ lapse' = IF Rearm THEN "none" ELSE "unsaved"
    BY <1>6 DEF GuiDeclares, Arms
  <2> QED BY <2>1, <2>2
<1>7. CASE DormantLeaves
  <2>1. unheard' <=> (unheard \/ (record = session /\ StopPending))
    BY <1>7, Zenon DEF DormantLeaves, NotesUnheard
  <2> QED BY <1>7, <2>1 DEF DormantLeaves, Ends
<1>8. CASE DormantRestarts
  <2> UNCHANGED <<session, record, wish, lapse>>
    BY <1>8 DEF DormantRestarts
  <2>1. CASE Ends /\ NotesUnheard
    <3>1. unheard' <=> (unheard \/ (record = session /\ StopPending))
      BY <2>1, Zenon DEF NotesUnheard
    <3> QED BY <2>1, <3>1 DEF Ends
  <2>2. CASE requests' = Tail(requests) /\ UNCHANGED <<phase, signal, quitting, unheard>>
    <3>1. StopPending' <=> StopPending
      BY <1>8, <2>2 DEF DormantRestarts
    <3> QED BY <1>8, <2>2, <3>1 DEF DormantRestarts
  <2> QED BY <1>8, <2>1, <2>2 DEF DormantRestarts
<1>9. CASE FleetStarts
  BY <1>9 DEF FleetStarts, SpawnsFleet, Up
<1>10. CASE HandsOver
  BY <1>10 DEF HandsOver
<1>11. CASE TakesSignal
  BY <1>11 DEF TakesSignal, ShutDown, Stopping
<1>12. CASE TakesStop
  BY <1>12 DEF TakesStop, ShutDown, Stopping
<1>13. CASE TakesRestart
  BY <1>13 DEF TakesRestart, Stopping
<1>14. CASE ReplacementReady
  BY <1>14 DEF ReplacementReady
<1>15. CASE CompleteReplacement
  <2> UNCHANGED <<session, record, wish, lapse>>
    BY <1>15 DEF CompleteReplacement
  <2>1. CASE Stays
    BY <1>15, <2>1 DEF Stays
  <2>2. CASE Ends /\ NotesUnheard
    <3>1. unheard' <=> (unheard \/ (record = session /\ StopPending))
      BY <2>2, Zenon DEF NotesUnheard
    <3> QED BY <2>2, <3>1 DEF Ends
  <2> QED BY <1>15, <2>1, <2>2 DEF CompleteReplacement
<1>16. CASE Exits
  <2>1. unheard' <=> (unheard \/ (record = session /\ StopPending))
    BY <1>16, Zenon DEF Exits, NotesUnheard
  <2> QED BY <1>16, <2>1 DEF Exits, Ends
<1>17. CASE FallbackExit
  BY <1>17 DEF FallbackExit, Ends
<1>18. CASE TrayQuit
  BY <1>18 DEF TrayQuit, Armed
<1>19. ASSUME NEW m \in Managers, ManagerStops(m) PROVE RecordFollowsWish'
  BY <1>19 DEF ManagerStops
<1>20. ASSUME NEW m \in Managers, ManagerFails(m) PROVE RecordFollowsWish'
  BY <1>20 DEF ManagerFails
<1>21. CASE WatchTick
  <2> UNCHANGED <<session, record, phase, signal, quitting, lapse>> /\ watch.mode = "watching"
    BY <1>21 DEF WatchTick, history
  <2>0. phase # "none" /\ phase' # "none"
    OBVIOUS
  <2>1. CASE Settled /\ Sends("restart", "waiting") /\ UNCHANGED <<wish, unheard>>
    <3>1. CASE phase = "coreless"
      BY <2>1, <3>1 DEF Sends
    <3>2. CASE phase # "coreless"
      <4>1. requests' = Append(requests, "restart") /\ requests \in Seq(Requests)
        BY <2>1, <3>2 DEF Sends
      <4>2. StopPending' <=> StopPending
        BY <4>1, AppendedStop, "restart" \in Requests, ZenonT(60)
      <4> QED BY <2>0, <2>1, <4>2
    <3> QED BY <3>1, <3>2
  <2>2. CASE Gone /\ Sends("uninstalled", "ended") /\ wish' = FALSE
               /\ unheard' = (unheard \/ (phase = "coreless" /\ record = session))
    <3>1. unheard' <=> (unheard \/ (phase = "coreless" /\ record = session))
      BY <2>2, Zenon
    <3>2. CASE phase = "coreless"
      BY <2>2, <3>1, <3>2 DEF Sends
    <3>3. CASE phase # "coreless"
      <4>1. requests' = Append(requests, "uninstalled") /\ requests \in Seq(Requests)
        BY <2>2, <3>3 DEF Sends
      <4>2. StopPending'
        BY <4>1, AppendedStop, "uninstalled" \in Requests, ZenonT(60)
      <4> QED BY <2>0, <2>2, <3>1, <3>3, <4>2
    <3> QED BY <3>2, <3>3
  <2>3. CASE UNCHANGED <<requests, wish, unheard>>
    BY <2>3
  <2> QED BY <1>21, <2>1, <2>2, <2>3 DEF WatchTick
<1>22. CASE StatFails
  BY <1>22 DEF StatFails
<1>23. CASE FileRemoved
  BY <1>23 DEF FileRemoved
<1>24. CASE WriteBegins
  BY <1>24 DEF WriteBegins
<1>25. CASE WriteEnds
  BY <1>25 DEF WriteEnds
<1>26. CASE GuiStarts
  BY <1>26 DEF GuiStarts
<1>27. CASE StopSignal
  BY <1>27 DEF StopSignal
<1>28. CASE Login
  BY <1>28 DEF Login
<1>29. CASE Crash
  <2>1. unheard' <=> (unheard \/ (record = session /\ StopPending))
    BY <1>29, Zenon DEF Crash, NotesUnheard
  <2> QED BY <1>29, <2>1 DEF Crash, Ends
<1>30. CASE CoreDies
  <2>1. unheard' <=> (unheard \/ (record = session /\ StopPending /\ ~quitting))
    BY <1>30, Zenon DEF CoreDies
  <2>2. /\ UNCHANGED <<session, record, signal, quitting, wish, lapse>>
        /\ phase' = "coreless"
        /\ requests' = <<>>
    BY <1>30 DEF CoreDies
  <2> QED BY <2>1, <2>2
<1>31. CASE UNCHANGED vars
  BY <1>31 DEF vars
<1>32. CASE LateGrant
  BY <1>32 DEF LateGrant, Stopping
<1>33. CASE Grants
  BY <1>33 DEF Grants
<1> QED BY <1>1, <1>2, <1>3, <1>4, <1>5, <1>6, <1>7, <1>8, <1>9, <1>10, <1>11, <1>12, <1>13,
           <1>14, <1>15, <1>16, <1>17, <1>18, <1>19, <1>20, <1>21, <1>22, <1>23, <1>24,
           <1>25, <1>26, <1>27, <1>28, <1>29, <1>30, <1>31, <1>32, <1>33
        DEF Next, Lifecycle

-----------------------------------------------------------------------------
\* The parts of the inductive invariant hold together.
LEMMA NextIInv == IInv /\ [Next]_vars => IInv'
<1> SUFFICES ASSUME IInv, [Next]_vars PROVE IInv'
  OBVIOUS
<1> USE DEF IInv
<1>1. RequestsAreSingle' /\ FleetFollowsPhase'
  BY NextRequests, NextFleet
<1>2. OutsideOK' /\ ProcessOK' /\ FlagsOK'
  BY NextOutside, NextProcess, NextFlags DEF TypeOK
<1>3. requests' \in Seq(Requests) /\ Len(requests') <= 2
  <2>1. \A i, j \in DOMAIN requests' : i # j => \/ requests'[i] = "quit" /\ requests'[j] # "quit"
                                                \/ requests'[i] # "quit" /\ requests'[j] = "quit"
    BY <1>1 DEF RequestsAreSingle
  <2>2. requests' \in Seq(Requests)
    BY <1>1 DEF RequestsAreSingle
  <2>3. Len(requests') > 2 => {1, 2, 3} \subseteq DOMAIN requests'
    BY <2>2
  <2> QED BY <2>1, <2>2, <2>3
<1>4. CleanOwesNothing' /\ RestartIsSettled' /\ RecordFollowsWish'
  BY NextClean, NextSettled, NextRecord
<1> QED BY <1>1, <1>2, <1>3, <1>4 DEF TypeOK

\* IInv is an invariant of the specification.
LEMMA IInvHolds == Spec => []IInv
<1>1. IInv /\ [Next]_vars => IInv'
  BY NextIInv
<1> QED BY <1>1, InitIInv, PTL DEF Spec

\* Every variable keeps its type and the channel its bound.
THEOREM TypeCorrect == Spec => []TypeOK
BY IInvHolds, PTL DEF IInv

\* A successor finds a whole executable, unless the file changed again after
\* the watcher asked for the restart (binary_watch.rs).
THEOREM SuccessorsAreWhole == Spec => []SuccessorIsWhole
<1>1. IInv => SuccessorIsWhole
  BY DEF IInv, RestartIsSettled, RestartAsked, SuccessorIsWhole
<1> QED BY <1>1, IInvHolds, PTL

\* A fleet starts only over managers that have ended (lifecycle/transition.rs).
THEOREM NoFleetOverlap == Spec => FleetsDoNotOverlap
<1>1. IInv /\ [Next]_vars =>
        [fleet' = "running" /\ fleet # "running"
           => \A m \in Managers : managers[m] \notin {"up", "stopping"}]_vars
  <2> SUFFICES ASSUME IInv, Next, fleet' = "running", fleet # "running",
                      NEW m \in Managers
               PROVE  managers[m] \notin {"up", "stopping"}
    BY DEF vars, process
  <2>1. CASE phase \in {"starting", "completing"}
    BY <2>1 DEF IInv, FleetFollowsPhase, Off
  <2>2. CASE phase \notin {"starting", "completing"}
    <3>1. fleet' \in {fleet, "inactive", "replacing"}
      BY <2>2, Zenon DEF Next, Lifecycle, Start, StartSecond, TakerSignals, TakerBoots,
          TakerGivesUp,
         GuiDeclares, DormantLeaves, DormantRestarts, FleetStarts, HandsOver, TakesSignal,
         TakesStop, TakesRestart, ReplacementReady, CompleteReplacement, Exits, TrayQuit,
         FallbackExit, ManagerStops, ManagerFails, WatchTick, StatFails,
         FileRemoved, WriteBegins, WriteEnds, Grants, GuiStarts,
         StopSignal, Login, Crash, CoreDies, LateGrant, ShutDown, Ends, process
    <3> QED BY <3>1
  <2> QED BY <2>1, <2>2
<1> QED BY <1>1, IInvHolds, PTL DEF Spec, FleetsDoNotOverlap

\* An armed agent schedules the successor of an update only when every manager of
\* its fleet has given back what its sessions knew of (complete_replacement in
\* lifecycle.rs, HidppWatcherHandles::stop_and_wait in startup.rs).
THEOREM ReplacementsOweNothing == Spec => ReplacementOwesNothing
<1>1. IInv /\ [Next]_vars => [Armed /\ "update" \in starts' \ starts => owed = {}]_vars
  <2> SUFFICES ASSUME IInv, Next, Armed, "update" \in starts', "update" \notin starts
               PROVE  owed = {}
    BY DEF vars, outside
  <2>1. CASE CompleteReplacement
    <3>1. AllStopped
      BY <2>1 DEF CompleteReplacement, Stays
    <3> QED BY <3>1 DEF AllStopped, IInv, CleanOwesNothing, TypeOK, OutsideOK
  <2>2. CASE (\E kind \in starts : Start(kind) \/ StartSecond(kind)) \/ DormantRestarts
    BY <2>2 DEF Start, StartSecond, DormantRestarts, Armed
  <2>3. CASE HandsOver \/ LateGrant \/ GuiStarts \/ Login \/ Crash \/ Exits \/ FallbackExit
    BY <2>3 DEF HandsOver, LateGrant, GuiStarts, Login, Crash, Exits, FallbackExit, Heirs, outside
  <2>4. CASE TakerSignals \/ TakerBoots \/ TakerGivesUp \/ GuiDeclares \/ DormantLeaves
    BY <2>4 DEF TakerSignals, TakerBoots, TakerGivesUp, GuiDeclares, DormantLeaves, outside
  <2>5. CASE FleetStarts \/ TakesSignal \/ TakesStop \/ TakesRestart \/ ReplacementReady
    BY <2>5 DEF FleetStarts, TakesSignal, TakesStop, TakesRestart, ReplacementReady, ShutDown,
       outside
  <2>6. CASE TrayQuit \/ WatchTick \/ StatFails \/ FileRemoved \/ WriteBegins
    BY <2>6 DEF TrayQuit, WatchTick, StatFails, FileRemoved, WriteBegins, outside
  <2>7. CASE \/ WriteEnds \/ StopSignal \/ CoreDies \/ Grants
             \/ \E m \in Managers :
                  ManagerStops(m) \/ ManagerFails(m)
    BY <2>7 DEF WriteEnds, StopSignal, CoreDies, Grants,
       ManagerStops, ManagerFails, outside
  <2> QED BY <2>1, <2>2, <2>3, <2>4, <2>5, <2>6, <2>7 DEF Next, Lifecycle
<1> QED BY <1>1, IInvHolds, PTL DEF Spec, ReplacementOwesNothing

\* A process that starts goes to work exactly when the user's last word was
\* that the agent runs, but for stops that were lost and for a record that could
\* not be written, removed or read (armed_session.rs).
THEOREM ArmingFollowsWish == Spec => ArmsAsWished
<1>1. IInv /\ [Next]_vars =>
        [/\ phase' = "starting" /\ phase = "none"
              => LaunchAtLogin \/ wish \/ unheard \/ lapse = "unremoved"
         /\ phase' = "dormant" /\ phase # "dormant"
              => ~wish \/ lapse = "unsaved" \/ faults' # faults]_vars
  <2> SUFFICES ASSUME IInv, Next,
                      \/ phase' = "starting" /\ phase = "none"
                      \/ phase' = "dormant" /\ phase # "dormant"
               PROVE  /\ phase' = "starting"
                           => LaunchAtLogin \/ wish \/ unheard \/ lapse = "unremoved"
                      /\ phase' = "dormant"
                           => ~wish \/ lapse = "unsaved" \/ faults' # faults
    BY DEF vars, process
  <2>1. /\ phase = "none"
        /\ \/ phase' = IF LaunchAtLogin \/ Rearm THEN "starting" ELSE "dormant"
           \/ Fault /\ phase' = IF LaunchAtLogin THEN "starting" ELSE "dormant"
    BY Zenon DEF Next, Lifecycle, Start, StartSecond, TakerSignals, TakerBoots, TakerGivesUp, Boots,
       GuiDeclares, DormantLeaves, DormantRestarts, FleetStarts, HandsOver, TakesSignal,
       TakesStop, TakesRestart, ReplacementReady, CompleteReplacement, Exits, TrayQuit,
       FallbackExit, ManagerStops, ManagerFails, WatchTick, StatFails,
       FileRemoved, WriteBegins, WriteEnds, Grants, GuiStarts,
       StopSignal, Login, Crash, CoreDies, LateGrant, ShutDown, Stays, Ends, Arms, process
  <2> QED BY <2>1 DEF IInv, RecordFollowsWish, Rearm, Fault, TypeOK, OutsideOK
<1> QED BY <1>1, IInvHolds, PTL DEF Spec, ArmsAsWished

=============================================================================
