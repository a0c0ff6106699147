----------------------------- MODULE UpgradeProofs -----------------------------
(***************************************************************************)
(* Theorems about Upgrade: its invariants hold for any set of releases,    *)
(* any of them broken, any relation between binaries and configurations,   *)
(* any number of scripts, interruptions and crashes.                       *)
(***************************************************************************)
EXTENDS Upgrade, TLAPS

Installing == Steps \ {"idle", "uninstall", "uninstallStop", "removeObjects"}
Copied == Installing \ {"copy", "copying"}
Linked == {"config", "configuring", "enable", "stop", "stopping", "poll",
           "pollRequest", "pollAdmin", "record", "recording", "fallBack"}
Restarting == {"stop", "stopping", "poll", "pollRequest", "pollAdmin", "record",
               "recording"}
Polling == {"poll", "pollRequest", "pollAdmin"}
FellBack == {"fallBackStop", "fallBackStart", "disable", "removeCandidate"}

\* The versions an install deals with: the candidate is whole once it is copied,
\* what the link named before is whole all the time and accepts what the
\* candidate's release renders.
VersionsInv ==
    /\ pc \in Installing => cand \in Versions /\ <<cand, cand>> \in Accepts
    /\ pc \in Copied => object[cand] = "whole"
    /\ pc \in Installing /\ prev # NoVersion =>
         /\ prev \in Versions
         /\ <<prev, cand>> \in Accepts
         /\ prev # cand => object[prev] = "whole"

\* Where the link leads.
LinkInv ==
    /\ pc \in Linked => link = cand
    /\ pc \in FellBack => link = IF prev = NoVersion THEN cand ELSE prev
    /\ pc = "removeObjects" => link = NoVersion

ConfigInv ==
    pc \in FellBack \cup Restarting \cup {"enable", "fallBack"} => config = cand

\* Every binary on disk is accounted for at every step of a script.
ObjectsInv ==
    /\ pc # "recording" =>
         Present \subseteq recorded \cup history.stray
                             \cup IF pc \in Installing THEN {cand} ELSE {}
    /\ pc \in Restarting \ {"recording"} => lines = StateLines
    /\ pc = "recording" => Present \subseteq lines \cup history.stray
    /\ pc \in Installing \ {"recording"} /\ prev # NoVersion =>
         prev \in recorded \cup history.stray

\* The daemon's sockets.
DaemonInv ==
    /\ \A p \in Planes : sockets[p] = "bound" =>
                           unit \in {"listening", "serving", "closing", "erring"}
    /\ \A p \in Planes : sockets[p] = "stale" => unclean
    /\ unit \in {"stopped", "failed", "forked"} => running = NoVersion
    /\ unit \in {"loading", "listening", "serving"} => running # NoVersion

\* What the readiness loop may conclude from them.
PollInv ==
    /\ pc \in Polling => running \in {NoVersion, cand}
    /\ pc \in Polling /\ sockets["admin"] # "none" => history.bound \/ history.fooled

IInv ==
    /\ UpgradeTypeOK
    /\ VersionsInv
    /\ LinkInv
    /\ ConfigInv
    /\ ObjectsInv
    /\ DaemonInv
    /\ PollInv
    /\ LinkResolves /\ ConfigAccepted /\ ReadyIsServing /\ EveryObjectRecorded
-----------------------------------------------------------------------------
\* Every step of the daemon and of the service manager.
DaemonActs(v, accepted) ==
    \/ Progress(v, accepted)
    \/ Crash \/ AcceptFails
    \/ Fork /\ unit \in {"stopped", "failed"}
    \/ Terminate
    \/ Boot(enabled)

\* They keep the daemon's types and its invariant, whatever binary and
\* configuration are found on disk.
LEMMA DaemonStep ==
    ASSUME DaemonTypeOK, DaemonInv, enabled \in BOOLEAN,
           NEW v \in Versions \cup {NoVersion}, NEW accepted \in BOOLEAN,
           DaemonActs(v, accepted) \/ UNCHANGED daemonVars
    PROVE  DaemonTypeOK' /\ DaemonInv'
<1> USE VersionsAssumption DEF DaemonTypeOK, DaemonInv, Planes, Phases, Unguarded
<1>1. CASE Exec(v)
  <2>1. UNCHANGED <<sockets, crashes, unclean>>
        BY <1>1 DEF Exec
  <2>2. CASE v = NoVersion
    <3>1. unit = "forked" /\ unit' = "failed" /\ running' = running /\ running = NoVersion
          BY <1>1, <2>2 DEF Exec
    <3> QED
          BY <2>1, <3>1
  <2>3. CASE v \in Versions
        BY <1>1, <2>1, <2>3 DEF Exec
  <2> QED
        BY <2>2, <2>3
<1>2. CASE LoadConfig(accepted)
      BY <1>2 DEF LoadConfig
<1>3. CASE \E p \in Planes : RemoveStale(p)
      BY <1>3 DEF RemoveStale, NextPlane
<1>4. CASE \E p \in Planes : Bind(p)
      BY <1>4 DEF Bind, NextPlane
<1>5. CASE \E p \in Planes : Close(p)
      BY <1>5 DEF Close
<1>6. CASE Serve
      BY <1>6 DEF Serve
<1>7. CASE FailToStart
      BY <1>7 DEF FailToStart, Closed
<1>8. CASE Exit
      BY <1>8 DEF Exit
<1>9. CASE Crash
  <2>1. crashes' \in 0..MaxCrashes
        BY <1>9 DEF Crash
  <2>2. sockets' \in [Planes -> {"none", "stale"}]
        BY <1>9 DEF Crash, Abandoned
  <2> QED
        BY <1>9, <2>1, <2>2 DEF Crash, Abandoned
<1>10. CASE AcceptFails
      BY <1>10 DEF AcceptFails
<1>11. CASE Fork /\ unit \in {"stopped", "failed"}
      BY <1>11 DEF Fork
<1>12. CASE Terminate
      BY <1>12 DEF Terminate, Abandoned
<1>13. CASE Boot(enabled)
      BY <1>13 DEF Boot
<1>14. CASE UNCHANGED daemonVars
      BY <1>14 DEF daemonVars
<1> QED
      BY <1>1, <1>2, <1>3, <1>4, <1>5, <1>6, <1>7, <1>8, <1>9, <1>10, <1>11, <1>12,
         <1>13, <1>14 DEF DaemonActs, Progress

\* The type of history in UpgradeTypeOK.
Histories == [dangling : BOOLEAN, interrupted : BOOLEAN, stray : SUBSET Versions,
              bound : BOOLEAN, fooled : BOOLEAN]

\* A history stays one, whichever of its fields a step sets.
LEMMA HistoryUpdates ==
    ASSUME NEW h \in Histories
    PROVE  /\ [h EXCEPT !.interrupted = FALSE] \in Histories
           /\ [h EXCEPT !.dangling = FALSE] \in Histories
           /\ \A a \in BOOLEAN : [h EXCEPT !.bound = FALSE, !.fooled = a] \in Histories
           /\ \A a \in BOOLEAN : [h EXCEPT !.bound = @ \/ a] \in Histories
           /\ \A a \in BOOLEAN : [h EXCEPT !.dangling = @ \/ a] \in Histories
           /\ \A S \in SUBSET Versions : [h EXCEPT !.stray = @ \ S] \in Histories
           /\ \A a \in BOOLEAN, S \in SUBSET Versions :
                 [h EXCEPT !.interrupted = TRUE, !.dangling = @ \/ a, !.stray = @ \cup S]
                    \in Histories
BY DEF Histories

\* Hence history keeps its type.
LEMMA HistoryStep == IInv /\ [UpgradeNext]_upgradeVars => history' \in Histories
<1> SUFFICES ASSUME IInv, [UpgradeNext]_upgradeVars PROVE history' \in Histories
      OBVIOUS
<1>1. history \in Histories
      BY DEF IInv, UpgradeTypeOK, Histories
<1>2. CASE UNCHANGED history
      BY <1>1, <1>2
<1>3. CASE Uninstall \/ \E v \in Versions : Install(v)
      BY <1>1, <1>3, HistoryUpdates DEF Install, Uninstall
<1>4. CASE RestartStart
  <2>1. unclean \in BOOLEAN
        BY DEF IInv, UpgradeTypeOK, DaemonTypeOK
  <2> QED
        BY <1>1, <1>4, <2>1, HistoryUpdates DEF RestartStart
<1>5. CASE EndRecord
  <2>1. lines \in SUBSET Versions
        BY DEF IInv, UpgradeTypeOK
  <2> QED
        BY <1>1, <1>5, <2>1, HistoryUpdates DEF EndRecord
<1>6. CASE RemoveCandidate
  <2>1. (prev = NoVersion) \in BOOLEAN
        OBVIOUS
  <2> QED
        BY <1>1, <1>6, <2>1, HistoryUpdates DEF RemoveCandidate
<1>7. CASE RemoveFiles
      BY <1>1, <1>7, HistoryUpdates DEF RemoveFiles
<1>8. CASE InterruptedHistory
  <2> DEFINE torn == pc = "copying" /\ link = cand
  <2>1. torn \in BOOLEAN
        OBVIOUS
  <2>2. Strays \in SUBSET Versions
        BY DEF Strays, Present, IInv, UpgradeTypeOK
  <2>3. history' = [history EXCEPT !.interrupted = TRUE, !.dangling = @ \/ torn,
                                   !.stray = @ \cup Strays]
        BY <1>8 DEF InterruptedHistory
  <2> HIDE DEF torn
  <2> QED
        BY <1>1, <2>1, <2>2, <2>3, HistoryUpdates
<1>9. CASE DaemonProgress
  <2> DEFINE listens == running = cand /\ \A p \in Planes : sockets'[p] = "bound"
  <2>1. listens \in BOOLEAN
        OBVIOUS
  <2>2. history' = [history EXCEPT !.bound = @ \/ listens]
        BY <1>9 DEF DaemonProgress
  <2> HIDE DEF listens
  <2> QED
        BY <1>1, <2>1, <2>2, HistoryUpdates
<1>10. \/ UNCHANGED history \/ Uninstall \/ (\E v \in Versions : Install(v))
       \/ RestartStart \/ EndRecord \/ RemoveCandidate \/ RemoveFiles
       \/ InterruptedHistory \/ DaemonProgress
      BY DEF UpgradeNext, ScriptStep, upgradeVars, BeginCopy, EndCopy, SetLink,
         BeginConfig, EndConfig, Enable, RestartStop, Poll, Polls, BeginRecord,
         FallBack, FallBackStop, FallBackStart, GiveUp, Disabled, UninstallStop,
         RemoveState, RemoveObject, Timeout, Interrupt, PowerFailure,
         ServiceRestarts, DaemonFails
<1> QED
      BY <1>2, <1>3, <1>4, <1>5, <1>6, <1>7, <1>8, <1>9, <1>10

\* Scripts move the daemon only through its own actions.
LEMMA DaemonPartStep == IInv /\ [UpgradeNext]_upgradeVars => DaemonTypeOK' /\ DaemonInv'
<1> SUFFICES ASSUME IInv, [UpgradeNext]_upgradeVars PROVE DaemonTypeOK' /\ DaemonInv'
      OBVIOUS
<1> DEFINE accepted == <<running, config>> \in Accepts
<1>1. /\ DaemonTypeOK /\ DaemonInv /\ enabled \in BOOLEAN
      /\ Executable \in Versions \cup {NoVersion} /\ accepted \in BOOLEAN
      BY DEF IInv, UpgradeTypeOK, Executable
<1>2. DaemonActs(Executable, accepted) \/ UNCHANGED daemonVars
  <2>1. CASE \/ UNCHANGED upgradeVars \/ Uninstall \/ Timeout \/ Interrupt
             \/ \E v \in Versions : Install(v) \/ RemoveObject(v)
        BY <2>1 DEF upgradeVars, Install, Uninstall, Timeout, Interrupt, RemoveObject
  <2>2. CASE \/ BeginCopy \/ EndCopy \/ SetLink \/ BeginConfig \/ EndConfig \/ Enable
             \/ Poll \/ BeginRecord \/ EndRecord \/ FallBack \/ Disabled
             \/ RemoveCandidate \/ RemoveFiles \/ RemoveState
        BY <2>2 DEF BeginCopy, EndCopy, SetLink, BeginConfig, EndConfig, Enable, Poll,
           BeginRecord, EndRecord, FallBack, Disabled, RemoveCandidate, RemoveFiles,
           RemoveState, Polls
  <2>3. CASE RestartStop
        BY <2>3 DEF RestartStop, DaemonActs
  <2>4. CASE RestartStart
        BY <2>4 DEF RestartStart, DaemonActs
  <2>5. CASE FallBackStop
        BY <2>5 DEF FallBackStop, DaemonActs
  <2>6. CASE FallBackStart
        BY <2>6 DEF FallBackStart, DaemonActs
  <2>7. CASE GiveUp
        BY <2>7 DEF GiveUp, DaemonActs
  <2>8. CASE UninstallStop
        BY <2>8 DEF UninstallStop, DaemonActs
  <2>9. CASE PowerFailure
        BY <2>9 DEF PowerFailure, DaemonActs
  <2>10. CASE DaemonProgress
        BY <2>10 DEF DaemonProgress, DaemonActs
  <2>11. CASE ServiceRestarts
        BY <2>11 DEF ServiceRestarts, AutoRestart, DaemonActs
  <2>12. CASE DaemonFails
        BY <2>12 DEF DaemonFails, DaemonActs
  <2> QED
        BY <2>1, <2>2, <2>3, <2>4, <2>5, <2>6, <2>7, <2>8, <2>9, <2>10, <2>11, <2>12
           DEF UpgradeNext, ScriptStep
<1> QED
      BY <1>1, <1>2, DaemonStep

\* The types of the scripts' part.
LEMMA TypeStep == IInv /\ [UpgradeNext]_upgradeVars => UpgradeTypeOK'
<1> SUFFICES ASSUME IInv, [UpgradeNext]_upgradeVars PROVE UpgradeTypeOK'
      OBVIOUS
<1> USE VersionsAssumption, UpgradeAssumption DEF IInv, UpgradeTypeOK, Histories, Steps,
    disk, script, identity, bounds
<1>0. DaemonTypeOK' /\ history' \in Histories
      BY DaemonPartStep, HistoryStep
<1>1. CASE UNCHANGED upgradeVars
      BY <1>0, <1>1 DEF upgradeVars, daemonVars, disk, script, bounds
<1>2. CASE \E v \in Versions : Install(v)
  <2>1. scripts' \in 0..MaxScripts
        BY <1>2 DEF Install
  <2> QED
        BY <1>0, <1>2, <2>1 DEF Install, LinkAllows, Goes
<1>3. CASE Uninstall
  <2>1. scripts' \in 0..MaxScripts
        BY <1>3 DEF Uninstall
  <2> QED
        BY <1>0, <1>3, <2>1 DEF Uninstall, Goes
<1>4. CASE BeginCopy
  <2>1. object' \in [Versions -> {"absent", "partial", "whole"}]
        BY <1>4 DEF BeginCopy
  <2> QED
        BY <1>0, <1>4, <2>1 DEF BeginCopy, Goes
<1>5. CASE EndCopy
      BY <1>0, <1>5 DEF EndCopy, Goes
<1>6. CASE SetLink
      BY <1>0, <1>6 DEF SetLink, Goes
<1>7. CASE BeginConfig
      BY <1>0, <1>7 DEF BeginConfig, Goes
<1>8. CASE EndConfig
  <2>1. config' \in Versions
        BY <1>8 DEF EndConfig, Goes, VersionsInv, Installing
  <2> QED
        BY <1>0, <1>8, <2>1 DEF EndConfig, Goes
<1>9. CASE Enable
      BY <1>0, <1>9 DEF Enable, Goes, Active, StateLines
<1>10. CASE RestartStop
      BY <1>0, <1>10 DEF RestartStop, Goes, Terminate
<1>11. CASE RestartStart
      BY <1>0, <1>11 DEF RestartStart, Goes, Fork
<1>12. CASE Poll
      BY <1>0, <1>12 DEF Poll, Polls, Goes
<1>13. CASE BeginRecord
      BY <1>0, <1>13 DEF BeginRecord, Goes
<1>14. CASE EndRecord
      BY <1>0, <1>14 DEF EndRecord, Forget
<1>15. CASE FallBack
      BY <1>0, <1>15 DEF FallBack, Goes
<1>16. CASE FallBackStop
      BY <1>0, <1>16 DEF FallBackStop, Goes, Terminate
<1>17. CASE FallBackStart
      BY <1>0, <1>17 DEF FallBackStart, Goes, Fork
<1>18. CASE GiveUp
      BY <1>0, <1>18 DEF GiveUp, Goes, Terminate
<1>19. CASE Disabled
      BY <1>0, <1>19 DEF Disabled, Goes
<1>20. CASE RemoveCandidate
      BY <1>0, <1>20 DEF RemoveCandidate, Forget
<1>21. CASE UninstallStop
      BY <1>0, <1>21 DEF UninstallStop, Goes, Terminate
<1>22. CASE RemoveFiles
      BY <1>0, <1>22 DEF RemoveFiles, Goes
<1>23. CASE RemoveState
      BY <1>0, <1>23 DEF RemoveState, Forget
<1>24. CASE \E v \in Versions : RemoveObject(v)
      BY <1>0, <1>24 DEF RemoveObject
<1>25. CASE Timeout
      BY <1>0, <1>25 DEF Timeout, Goes
<1>26. CASE Interrupt
  <2>1. interrupts' \in 0..MaxInterrupts
        BY <1>26 DEF Interrupt
  <2> QED
        BY <1>0, <1>26, <2>1 DEF Interrupt, Forget
<1>27. CASE PowerFailure
  <2>1. interrupts' \in 0..MaxInterrupts
        BY <1>27 DEF PowerFailure
  <2>2. CASE pc = "idle"
        BY <1>0, <1>27, <2>1, <2>2 DEF PowerFailure
  <2>3. CASE pc # "idle"
    <3>1. Forget /\ UNCHANGED <<disk, scripts>>
          BY <1>27, <2>3 DEF PowerFailure
    <3> QED
          BY <1>0, <2>1, <3>1 DEF Forget
  <2> QED
        BY <2>2, <2>3
<1>28. CASE DaemonProgress
      BY <1>0, <1>28 DEF DaemonProgress
<1>29. CASE ServiceRestarts
      BY <1>0, <1>29 DEF ServiceRestarts
<1>30. CASE DaemonFails
      BY <1>0, <1>30 DEF DaemonFails
<1>31. CASE ScriptStep
      BY <1>4, <1>5, <1>6, <1>7, <1>8, <1>9, <1>10, <1>11, <1>12, <1>13, <1>14, <1>15,
         <1>16, <1>17, <1>18, <1>19, <1>20, <1>21, <1>22, <1>23, <1>24, <1>31 DEF ScriptStep
<1> QED
      BY <1>1, <1>2, <1>3, <1>25, <1>26, <1>27, <1>28, <1>29, <1>30, <1>31 DEF UpgradeNext

\* The candidate and the version to fall back on stay sound.
LEMMA VersionsStep ==
    IInv /\ [UpgradeNext]_upgradeVars => VersionsInv' /\ LinkInv' /\ ConfigInv'
<1> SUFFICES ASSUME IInv, [UpgradeNext]_upgradeVars
             PROVE  VersionsInv' /\ LinkInv' /\ ConfigInv'
      OBVIOUS
<1> USE VersionsAssumption, UpgradeAssumption DEF IInv, UpgradeTypeOK, VersionsInv,
    LinkInv, ConfigInv, Installing, Copied, Linked, Restarting, FellBack, Steps, disk,
    script, identity, bounds
<1>1. CASE UNCHANGED upgradeVars
      BY <1>1 DEF upgradeVars, daemonVars, disk, script, bounds
<1>2. CASE \E v \in Versions : Install(v)
      BY <1>2 DEF Install, LinkAllows, Goes
<1>3. CASE Uninstall
      BY <1>3 DEF Uninstall, Goes
<1>4. CASE BeginCopy
      BY <1>4 DEF BeginCopy, Goes
<1>5. CASE EndCopy
      BY <1>5 DEF EndCopy, Goes
<1>6. CASE SetLink
      BY <1>6 DEF SetLink, Goes
<1>7. CASE BeginConfig
      BY <1>7 DEF BeginConfig, Goes
<1>8. CASE EndConfig
      BY <1>8 DEF EndConfig, Goes
<1>9. CASE Enable
      BY <1>9 DEF Enable, Goes, Active, StateLines
<1>10. CASE RestartStop
      BY <1>10 DEF RestartStop, Goes, Terminate
<1>11. CASE RestartStart
      BY <1>11 DEF RestartStart, Goes, Fork
<1>12. CASE Poll
      BY <1>12 DEF Poll, Polls, Goes
<1>13. CASE BeginRecord
      BY <1>13 DEF BeginRecord, Goes
<1>14. CASE EndRecord
      BY <1>14 DEF EndRecord, Forget
<1>15. CASE FallBack
      BY <1>15 DEF FallBack, Goes
<1>16. CASE FallBackStop
      BY <1>16 DEF FallBackStop, Goes, Terminate
<1>17. CASE FallBackStart
      BY <1>17 DEF FallBackStart, Goes, Fork
<1>18. CASE GiveUp
      BY <1>18 DEF GiveUp, Goes, Terminate
<1>19. CASE Disabled
      BY <1>19 DEF Disabled, Goes
<1>20. CASE RemoveCandidate
      BY <1>20 DEF RemoveCandidate, Forget
<1>21. CASE UninstallStop
      BY <1>21 DEF UninstallStop, Goes, Terminate
<1>22. CASE RemoveFiles
      BY <1>22 DEF RemoveFiles, Goes
<1>23. CASE RemoveState
      BY <1>23 DEF RemoveState, Forget
<1>24. CASE \E v \in Versions : RemoveObject(v)
      BY <1>24 DEF RemoveObject
<1>25. CASE Timeout
      BY <1>25 DEF Timeout, Goes
<1>26. CASE Interrupt
      BY <1>26 DEF Interrupt, InterruptedHistory, Strays, Forget, Present
<1>27. CASE PowerFailure
      BY <1>27 DEF PowerFailure, InterruptedHistory, Strays, Forget, Present, Boot
<1>28. CASE DaemonProgress
      BY <1>28 DEF DaemonProgress
<1>29. CASE ServiceRestarts
      BY <1>29 DEF ServiceRestarts
<1>30. CASE DaemonFails
      BY <1>30 DEF DaemonFails
<1>31. CASE ScriptStep
      BY <1>4, <1>5, <1>6, <1>7, <1>8, <1>9, <1>10, <1>11, <1>12, <1>13, <1>14, <1>15,
         <1>16, <1>17, <1>18, <1>19, <1>20, <1>21, <1>22, <1>23, <1>24, <1>31 DEF ScriptStep
<1> QED
      BY <1>1, <1>2, <1>3, <1>25, <1>26, <1>27, <1>28, <1>29, <1>30, <1>31 DEF UpgradeNext

\* The link and the configuration, by what is known of the versions.
LEMMA LinkStep == IInv /\ [UpgradeNext]_upgradeVars => LinkResolves' /\ ConfigAccepted'
<1> SUFFICES ASSUME IInv, [UpgradeNext]_upgradeVars PROVE LinkResolves' /\ ConfigAccepted'
      OBVIOUS
<1> USE VersionsAssumption, UpgradeAssumption DEF IInv, UpgradeTypeOK, VersionsInv,
    LinkInv, ConfigInv, LinkResolves, ConfigAccepted, Installing, Copied, Linked,
    Restarting, FellBack, Steps, disk, script, identity, bounds
<1>1. CASE UNCHANGED upgradeVars
      BY <1>1 DEF upgradeVars, daemonVars, disk, script, bounds
<1>2. CASE \E v \in Versions : Install(v)
      BY <1>2 DEF Install, LinkAllows, Goes
<1>3. CASE Uninstall
      BY <1>3 DEF Uninstall, Goes
<1>4. CASE BeginCopy
      BY <1>4 DEF BeginCopy, Goes
<1>5. CASE EndCopy
      BY <1>5 DEF EndCopy, Goes
<1>6. CASE SetLink
      BY <1>6 DEF SetLink, Goes
<1>7. CASE BeginConfig
      BY <1>7 DEF BeginConfig, Goes
<1>8. CASE EndConfig
      BY <1>8 DEF EndConfig, Goes
<1>9. CASE Enable
      BY <1>9 DEF Enable, Goes, Active, StateLines
<1>10. CASE RestartStop
      BY <1>10 DEF RestartStop, Goes, Terminate
<1>11. CASE RestartStart
      BY <1>11 DEF RestartStart, Goes, Fork
<1>12. CASE Poll
      BY <1>12 DEF Poll, Polls, Goes
<1>13. CASE BeginRecord
      BY <1>13 DEF BeginRecord, Goes
<1>14. CASE EndRecord
      BY <1>14 DEF EndRecord, Forget
<1>15. CASE FallBack
      BY <1>15 DEF FallBack, Goes
<1>16. CASE FallBackStop
      BY <1>16 DEF FallBackStop, Goes, Terminate
<1>17. CASE FallBackStart
      BY <1>17 DEF FallBackStart, Goes, Fork
<1>18. CASE GiveUp
      BY <1>18 DEF GiveUp, Goes, Terminate
<1>19. CASE Disabled
      BY <1>19 DEF Disabled, Goes
<1>20. CASE RemoveCandidate
      BY <1>20 DEF RemoveCandidate, Forget
<1>21. CASE UninstallStop
      BY <1>21 DEF UninstallStop, Goes, Terminate
<1>22. CASE RemoveFiles
      BY <1>22 DEF RemoveFiles, Goes
<1>23. CASE RemoveState
      BY <1>23 DEF RemoveState, Forget
<1>24. CASE \E v \in Versions : RemoveObject(v)
      BY <1>24 DEF RemoveObject
<1>25. CASE Timeout
      BY <1>25 DEF Timeout, Goes
<1>26. CASE Interrupt
      BY <1>26 DEF Interrupt, InterruptedHistory, Strays, Forget, Present
<1>27. CASE PowerFailure
  <2>1. CASE pc = "idle"
        BY <1>27, <2>1 DEF PowerFailure
  <2>2. CASE pc # "idle"
    <3>1. InterruptedHistory /\ Forget /\ UNCHANGED disk
          BY <1>27, <2>2 DEF PowerFailure
    <3> QED
          BY <2>2, <3>1 DEF InterruptedHistory, Strays, Forget
  <2> QED
        BY <2>1, <2>2
<1>28. CASE DaemonProgress
      BY <1>28 DEF DaemonProgress
<1>29. CASE ServiceRestarts
      BY <1>29 DEF ServiceRestarts
<1>30. CASE DaemonFails
      BY <1>30 DEF DaemonFails
<1>31. CASE ScriptStep
      BY <1>4, <1>5, <1>6, <1>7, <1>8, <1>9, <1>10, <1>11, <1>12, <1>13, <1>14, <1>15,
         <1>16, <1>17, <1>18, <1>19, <1>20, <1>21, <1>22, <1>23, <1>24, <1>31 DEF ScriptStep
<1> QED
      BY <1>1, <1>2, <1>3, <1>25, <1>26, <1>27, <1>28, <1>29, <1>30, <1>31 DEF UpgradeNext

\* No step loses sight of a binary.
LEMMA ObjectsStep ==
    IInv /\ [UpgradeNext]_upgradeVars => ObjectsInv' /\ EveryObjectRecorded'
<1> SUFFICES ASSUME IInv, [UpgradeNext]_upgradeVars
             PROVE  ObjectsInv' /\ EveryObjectRecorded'
      OBVIOUS
<1> USE VersionsAssumption, UpgradeAssumption DEF IInv, UpgradeTypeOK, ObjectsInv,
    EveryObjectRecorded, Present, StateLines, VersionsInv, Installing, Restarting,
    Steps, disk, script, identity, bounds
<1>1. CASE UNCHANGED upgradeVars
      BY <1>1 DEF upgradeVars, daemonVars, disk, script, bounds
<1>2. CASE \E v \in Versions : Install(v)
      BY <1>2 DEF Install, LinkAllows, Goes
<1>3. CASE Uninstall
      BY <1>3 DEF Uninstall, Goes
<1>4. CASE BeginCopy
      BY <1>4 DEF BeginCopy, Goes
<1>5. CASE EndCopy
      BY <1>5 DEF EndCopy, Goes
<1>6. CASE SetLink
      BY <1>6 DEF SetLink, Goes
<1>7. CASE BeginConfig
      BY <1>7 DEF BeginConfig, Goes
<1>8. CASE EndConfig
      BY <1>8 DEF EndConfig, Goes
<1>9. CASE Enable
      BY <1>9 DEF Enable, Goes, Active, StateLines
<1>10. CASE RestartStop
      BY <1>10 DEF RestartStop, Goes, Terminate
<1>11. CASE RestartStart
      BY <1>11 DEF RestartStart, Goes, Fork
<1>12. CASE Poll
      BY <1>12 DEF Poll, Polls, Goes
<1>13. CASE BeginRecord
      BY <1>13 DEF BeginRecord, Goes
<1>14. CASE EndRecord
      BY <1>14 DEF EndRecord, Forget
<1>15. CASE FallBack
      BY <1>15 DEF FallBack, Goes
<1>16. CASE FallBackStop
      BY <1>16 DEF FallBackStop, Goes, Terminate
<1>17. CASE FallBackStart
      BY <1>17 DEF FallBackStart, Goes, Fork
<1>18. CASE GiveUp
      BY <1>18 DEF GiveUp, Goes, Terminate
<1>19. CASE Disabled
      BY <1>19 DEF Disabled, Goes
<1>20. CASE RemoveCandidate
      BY <1>20 DEF RemoveCandidate, Forget
<1>21. CASE UninstallStop
      BY <1>21 DEF UninstallStop, Goes, Terminate
<1>22. CASE RemoveFiles
      BY <1>22 DEF RemoveFiles, Goes
<1>23. CASE RemoveState
      BY <1>23 DEF RemoveState, Forget
<1>24. CASE \E v \in Versions : RemoveObject(v)
      BY <1>24 DEF RemoveObject
<1>25. CASE Timeout
      BY <1>25 DEF Timeout, Goes
<1>26. CASE Interrupt
      BY <1>26 DEF Interrupt, InterruptedHistory, Strays, Forget, Present
<1>27. CASE PowerFailure
  <2>1. CASE pc = "idle"
        BY <1>27, <2>1 DEF PowerFailure
  <2>2. CASE pc # "idle"
    <3>1. InterruptedHistory /\ Forget /\ UNCHANGED disk
          BY <1>27, <2>2 DEF PowerFailure
    <3> QED
          BY <2>2, <3>1 DEF InterruptedHistory, Strays, Forget
  <2> QED
        BY <2>1, <2>2
<1>28. CASE DaemonProgress
      BY <1>28 DEF DaemonProgress
<1>29. CASE ServiceRestarts
      BY <1>29 DEF ServiceRestarts
<1>30. CASE DaemonFails
      BY <1>30 DEF DaemonFails
<1>31. CASE ScriptStep
      BY <1>4, <1>5, <1>6, <1>7, <1>8, <1>9, <1>10, <1>11, <1>12, <1>13, <1>14, <1>15,
         <1>16, <1>17, <1>18, <1>19, <1>20, <1>21, <1>22, <1>23, <1>24, <1>31 DEF ScriptStep
<1> QED
      BY <1>1, <1>2, <1>3, <1>25, <1>26, <1>27, <1>28, <1>29, <1>30, <1>31 DEF UpgradeNext

\* The readiness loop sees the admin socket only if the candidate has bound it.
LEMMA PollStep == IInv /\ [UpgradeNext]_upgradeVars => PollInv' /\ ReadyIsServing'
<1> SUFFICES ASSUME IInv, [UpgradeNext]_upgradeVars PROVE PollInv' /\ ReadyIsServing'
      OBVIOUS
<1> USE VersionsAssumption, UpgradeAssumption DEF IInv, UpgradeTypeOK, DaemonTypeOK,
    DaemonInv, PollInv, ReadyIsServing, LinkInv, Planes, Phases, Polling, Linked, Steps,
    daemonVars, disk, script, identity, bounds
<1>1. CASE UNCHANGED upgradeVars
      BY <1>1 DEF upgradeVars, daemonVars, disk, script, bounds
<1>2. CASE \E v \in Versions : Install(v)
      BY <1>2 DEF Install, LinkAllows, Goes
<1>3. CASE Uninstall
      BY <1>3 DEF Uninstall, Goes
<1>4. CASE BeginCopy
      BY <1>4 DEF BeginCopy, Goes
<1>5. CASE EndCopy
      BY <1>5 DEF EndCopy, Goes
<1>6. CASE SetLink
      BY <1>6 DEF SetLink, Goes
<1>7. CASE BeginConfig
      BY <1>7 DEF BeginConfig, Goes
<1>8. CASE EndConfig
      BY <1>8 DEF EndConfig, Goes
<1>9. CASE Enable
      BY <1>9 DEF Enable, Goes, Active, StateLines
<1>10. CASE RestartStop
      BY <1>10 DEF RestartStop, Goes, Terminate
<1>11. CASE RestartStart
      BY <1>11 DEF RestartStart, Goes, Fork
<1>12. CASE Poll
      BY <1>12 DEF Poll, Polls, Goes
<1>13. CASE BeginRecord
      BY <1>13 DEF BeginRecord, Goes
<1>14. CASE EndRecord
      BY <1>14 DEF EndRecord, Forget
<1>15. CASE FallBack
      BY <1>15 DEF FallBack, Goes
<1>16. CASE FallBackStop
      BY <1>16 DEF FallBackStop, Goes, Terminate
<1>17. CASE FallBackStart
      BY <1>17 DEF FallBackStart, Goes, Fork
<1>18. CASE GiveUp
      BY <1>18 DEF GiveUp, Goes, Terminate
<1>19. CASE Disabled
      BY <1>19 DEF Disabled, Goes
<1>20. CASE RemoveCandidate
      BY <1>20 DEF RemoveCandidate, Forget
<1>21. CASE UninstallStop
      BY <1>21 DEF UninstallStop, Goes, Terminate
<1>22. CASE RemoveFiles
      BY <1>22 DEF RemoveFiles, Goes
<1>23. CASE RemoveState
      BY <1>23 DEF RemoveState, Forget
<1>24. CASE \E v \in Versions : RemoveObject(v)
      BY <1>24 DEF RemoveObject
<1>25. CASE Timeout
      BY <1>25 DEF Timeout, Goes
<1>26. CASE Interrupt
      BY <1>26 DEF Interrupt, InterruptedHistory, Strays, Forget, Present
<1>27. CASE PowerFailure
      BY <1>27 DEF PowerFailure, InterruptedHistory, Strays, Forget, Present, Boot
<1>28. CASE DaemonProgress
  <2>1. UNCHANGED <<disk, script, bounds>>
      BY <1>28 DEF DaemonProgress
  <2>2. ReadyIsServing'
      BY <1>28, <2>1 DEF DaemonProgress
  <2>3. pc' \in Polling => running' \in {NoVersion, cand'}
      BY <1>28, <2>1 DEF DaemonProgress, Progress, Exec, LoadConfig, RemoveStale, Bind, Close,
         Serve, FailToStart, Exit, Executable
  <2>4. pc' \in Polling /\ sockets'["admin"] # "none" => history'.bound \/ history'.fooled
    <3>1. CASE \E p \in Planes : Bind(p)
      BY <1>28, <2>1, <3>1 DEF DaemonProgress, NextPlane, Bind
    <3>2. CASE ~ \E p \in Planes : Bind(p)
      <4>1. sockets'["admin"] # "none" => sockets["admin"] # "none"
        BY <1>28, <3>2 DEF DaemonProgress, Progress, Exec, LoadConfig, RemoveStale, Close,
           Serve, FailToStart, Exit, Closed
      <4> QED
        BY <1>28, <2>1, <4>1 DEF DaemonProgress
    <3> QED
      BY <3>1, <3>2
  <2> QED
      BY <2>2, <2>3, <2>4
<1>29. CASE ServiceRestarts
      BY <1>29 DEF ServiceRestarts, AutoRestart, Fork
<1>30. CASE DaemonFails
      BY <1>30 DEF DaemonFails, Crash, AcceptFails, Abandoned
<1>31. CASE ScriptStep
      BY <1>4, <1>5, <1>6, <1>7, <1>8, <1>9, <1>10, <1>11, <1>12, <1>13, <1>14, <1>15,
         <1>16, <1>17, <1>18, <1>19, <1>20, <1>21, <1>22, <1>23, <1>24, <1>31 DEF ScriptStep
<1> QED
      BY <1>1, <1>2, <1>3, <1>25, <1>26, <1>27, <1>28, <1>29, <1>30, <1>31 DEF UpgradeNext

-----------------------------------------------------------------------------
\* The inductive invariant holds of an uninstalled system, and always.
LEMMA UpgradeInitInv == UpgradeInit => IInv
<1> SUFFICES ASSUME UpgradeInit PROVE IInv
      OBVIOUS
<1> USE VersionsAssumption, UpgradeAssumption DEF UpgradeInit, DaemonInit, HistoryInit
<1>1. UpgradeTypeOK
  <2>1. 0 \in 0..MaxCrashes /\ 0 \in 0..MaxScripts /\ 0 \in 0..MaxInterrupts
        OBVIOUS
  <2> QED
        BY <2>1 DEF UpgradeTypeOK, DaemonTypeOK, Steps, Phases, Planes
<1>2. VersionsInv /\ LinkInv /\ ConfigInv
      BY DEF VersionsInv, LinkInv, ConfigInv, Installing, Copied, Linked, Restarting,
         FellBack, Steps
<1>3. Present = {}
      BY DEF Present
<1>4. ObjectsInv /\ EveryObjectRecorded
      BY <1>3 DEF ObjectsInv, EveryObjectRecorded, Installing, Restarting, Steps
<1>5. DaemonInv /\ PollInv
      BY DEF DaemonInv, PollInv, Polling, Planes
<1>6. LinkResolves /\ ConfigAccepted /\ ReadyIsServing
      BY DEF LinkResolves, ConfigAccepted, ReadyIsServing
<1> QED
      BY <1>1, <1>2, <1>4, <1>5, <1>6 DEF IInv

LEMMA UpgradeInvariant == UpgradeSpec => []IInv
<1>1. UpgradeInit => IInv
      BY UpgradeInitInv
<1>2. IInv /\ [UpgradeNext]_upgradeVars => IInv'
      BY TypeStep, DaemonPartStep, VersionsStep, LinkStep, ObjectsStep, PollStep DEF
         IInv
<1> QED
      BY <1>1, <1>2, PTL DEF UpgradeSpec

\* Scripts, service and daemon never leave the states the model names.
THEOREM UpgradeTypeCorrect == UpgradeSpec => []UpgradeTypeOK
BY UpgradeInvariant, PTL DEF IInv

\* The link leads to a complete binary whatever script runs and wherever it stops
\* (LinkResolves names the exceptions).
THEOREM LinkAlwaysResolves == UpgradeSpec => []LinkResolves
BY UpgradeInvariant, PTL DEF IInv

\* Installs, fallbacks and uninstalls that are not interrupted leave a binary that
\* accepts the configuration.
THEOREM ConfigAlwaysAccepted == UpgradeSpec => []ConfigAccepted
BY UpgradeInvariant, PTL DEF IInv

\* No install is recorded as done before its daemon has listened on both sockets,
\* unless a killed daemon's sockets were there.
THEOREM ReadyAlwaysServing == UpgradeSpec => []ReadyIsServing
BY UpgradeInvariant, PTL DEF IInv

\* Between scripts every binary on disk is one the uninstall will remove, or the
\* leftover of an interrupted script.
THEOREM EveryObjectAlwaysRecorded == UpgradeSpec => []EveryObjectRecorded
BY UpgradeInvariant, PTL DEF IInv

=============================================================================
