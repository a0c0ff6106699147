-------------------------------- MODULE Upgrade --------------------------------
(***************************************************************************)
(* install.sh and uninstall.sh, composed with the daemon they replace.     *)
(* A script is a list of steps on files that systemd and rootbrokerd read  *)
(* while it runs, and it may be interrupted between any two of them.  The  *)
(* step at which the script stands is pc; a copy by install(1) takes two,  *)
(* between which the file is absent or incomplete.                         *)
(*                                                                         *)
(* install.sh v: check everything (Install), copy the binary to its        *)
(* content-addressed object, point the link at it, write the rendered      *)
(* configuration, enable and restart the service, poll until it looks      *)
(* ready; then record the objects in the install state, or fall back on    *)
(* the version the link named before.                                      *)
(***************************************************************************)
EXTENDS Daemon

CONSTANTS
    Accepts,        \* <<v, w>>: rootbrokerd v accepts the configuration that
                    \*   the release of w renders
    Torn,           \* a configuration that is absent or incomplete
    MaxScripts,     \* bound on runs of install.sh and uninstall.sh
    MaxInterrupts   \* bound on interrupted scripts and power failures

ASSUME UpgradeAssumption ==
    /\ Accepts \subseteq Versions \X Versions
    /\ Torn \notin Versions
    /\ MaxScripts \in Nat /\ MaxInterrupts \in Nat

VARIABLES
    object,     \* object[v]: rootbroker-bin-<sha256>, "absent", "partial", "whole"
    link,       \* where /usr/local/libexec/rootbroker-bin leads, or NoVersion
    config,     \* the release that rendered /etc/rootbroker/config.json, or Torn
    recorded,   \* rootbroker_object lines of the install state; {}: no such file
    enabled,    \* the unit is installed and enabled
    pc,         \* "idle", or the step of the script that comes next
    cand,       \* ROOTBROKER_OBJECT
    prev,       \* PREVIOUS_ROOTBROKER_TARGET
    before,     \* SERVICE_WAS_ACTIVE and SERVICE_WAS_ENABLED
    lines,      \* the rootbroker_object lines of $TMP_DIR/install-state
    scripts, interrupts,
    history     \* what has happened, for the properties; see HistoryInit

disk == <<object, link, config, recorded, enabled>>
script == <<pc, cand, prev, before, lines>>
identity == <<cand, prev, before, lines>>
bounds == <<scripts, interrupts>>
upgradeVars == <<daemonVars, disk, script, bounds, history>>

Steps == {"idle", "copy", "copying", "link", "config", "configuring", "enable",
          "stop", "stopping", "poll", "pollRequest", "pollAdmin", "record",
          "recording",
          "fallBack", "fallBackStop", "fallBackStart",
          "disable", "removeCandidate",
          "uninstall", "uninstallStop", "removeObjects"}

Present == {v \in Versions : object[v] # "absent"}

\* dangling     the link was left without a whole object: its copy was
\*              interrupted, or a first install failed
\* interrupted  the last script was interrupted
\* stray        objects that interrupted scripts have left unrecorded
\* bound        the candidate has listened on both sockets since install.sh
\*              restarted the service
\* fooled       a killed process had left its sockets at that restart
HistoryInit == [dangling |-> FALSE, interrupted |-> FALSE, stray |-> {},
                bound |-> FALSE, fooled |-> FALSE]

UpgradeTypeOK ==
    /\ DaemonTypeOK
    /\ object \in [Versions -> {"absent", "partial", "whole"}]
    /\ link \in Versions \cup {NoVersion}
    /\ config \in Versions \cup {Torn}
    /\ recorded \in SUBSET Versions
    /\ enabled \in BOOLEAN
    /\ pc \in Steps
    /\ cand \in Versions \cup {NoVersion}
    /\ prev \in Versions \cup {NoVersion}
    /\ before \in [active : BOOLEAN, enabled : BOOLEAN]
    /\ lines \in SUBSET Versions
    /\ scripts \in 0..MaxScripts /\ interrupts \in 0..MaxInterrupts
    /\ history \in [dangling : BOOLEAN, interrupted : BOOLEAN,
                    stray : SUBSET Versions, bound : BOOLEAN, fooled : BOOLEAN]

UpgradeInit ==
    /\ DaemonInit
    /\ object = [v \in Versions |-> "absent"]
    /\ link = NoVersion /\ config = Torn /\ recorded = {} /\ enabled = FALSE
    /\ pc = "idle" /\ cand = NoVersion /\ prev = NoVersion
    /\ before = [active |-> FALSE, enabled |-> FALSE] /\ lines = {}
    /\ scripts = 0 /\ interrupts = 0
    /\ history = HistoryInit

\* The script goes from one step to the next.
Goes(from, to) == pc = from /\ pc' = to

\* The script is over, and its variables with it.
Forget ==
    /\ pc' = "idle"
    /\ cand' = NoVersion /\ prev' = NoVersion
    /\ before' = [active |-> FALSE, enabled |-> FALSE]
    /\ lines' = {}

-----------------------------------------------------------------------------
(* install.sh.                                                             *)

\* Fault: the installed version is not asked about the new configuration.
LinkAllowsAny(v) == link # NoVersion => object[link] = "whole"

\* The existing link leads to an executable object that accepts the
\* configuration rendered for v, for the service may have to return to it.
LinkAllows(v) ==
    link # NoVersion => /\ object[link] = "whole"
                        /\ link # v => <<link, v>> \in Accepts

\* An install of v that passes every check made before anything is changed; one
\* that is refused ends with status 2 and changes nothing.
Install(v) ==
    /\ scripts < MaxScripts
    /\ scripts' = scripts + 1
    /\ <<v, v>> \in Accepts
    /\ LinkAllows(v)
    /\ object[v] # "partial"
    /\ Goes("idle", "copy")
    /\ cand' = v
    /\ prev' = link
    /\ history' = [history EXCEPT !.interrupted = FALSE]
    /\ UNCHANGED <<daemonVars, disk, before, lines, interrupts>>

\* install(1) removes the file it replaces, then writes it.
BeginCopy ==
    /\ Goes("copy", "copying")
    /\ \E s \in {"absent", "partial"} : object' = [object EXCEPT ![cand] = s]
    /\ UNCHANGED <<daemonVars, link, config, recorded, enabled, identity, bounds, history>>

EndCopy ==
    /\ Goes("copying", "link")
    /\ object' = [object EXCEPT ![cand] = "whole"]
    /\ UNCHANGED <<daemonVars, link, config, recorded, enabled, identity, bounds, history>>

SetLink ==
    /\ Goes("link", "config")
    /\ link' = cand
    /\ UNCHANGED <<daemonVars, object, config, recorded, enabled, identity, bounds, history>>

BeginConfig ==
    /\ Goes("config", "configuring")
    /\ config' = Torn
    /\ UNCHANGED <<daemonVars, object, link, recorded, enabled, identity, bounds, history>>

EndConfig ==
    /\ Goes("configuring", "enable")
    /\ config' = cand
    /\ UNCHANGED <<daemonVars, object, link, recorded, enabled, identity, bounds, history>>

\* Faults: the objects of earlier installs are dropped from the state; a version
\* before the first is listed too.
ThisInstall == {cand, prev} \ {NoVersion}
EvenNoVersion == recorded \cup {cand, prev}

\* The objects of the new install state: the recorded ones, the version the link
\* led to, the candidate.
StateLines == recorded \cup ({cand, prev} \ {NoVersion})

\* The new state is composed, the service inspected, the unit put in place.
Enable ==
    /\ Goes("enable", "stop")
    /\ lines' = StateLines
    /\ before' = [active |-> Active, enabled |-> enabled]
    /\ enabled' = TRUE
    /\ UNCHANGED <<daemonVars, object, link, config, recorded, cand, prev, bounds, history>>

\* systemctl restart: a stop job and, when it is done, a fork.
RestartStop ==
    /\ Goes("stop", "stopping")
    /\ Terminate
    /\ UNCHANGED <<disk, identity, bounds, history>>

RestartStart ==
    /\ unit = "stopped"
    /\ Goes("stopping", "poll")
    /\ Fork
    /\ history' = [history EXCEPT !.bound = FALSE, !.fooled = unclean]
    /\ UNCHANGED <<disk, identity, bounds>>

\* One round of the readiness loop: systemctl is-active, and a test for each
\* socket, each at its own time.
Polls(from, seen, to) ==
    /\ Goes(from, IF seen THEN to ELSE "poll")
    /\ UNCHANGED <<daemonVars, disk, identity, bounds, history>>

Poll ==
    \/ Polls("poll", Active, "pollRequest")
    \/ Polls("pollRequest", sockets["request"] # "none", "pollAdmin")
    \/ Polls("pollAdmin", sockets["admin"] # "none", "record")

\* The hundred rounds are over.
Timeout ==
    /\ Goes("poll", "fallBack")
    /\ UNCHANGED <<daemonVars, disk, identity, bounds, history>>

\* The install state is replaced.  A state that is absent and one that is
\* incomplete are both {}; the scripts refuse to run over the second.
BeginRecord ==
    /\ Goes("record", "recording")
    /\ recorded' = {}
    /\ UNCHANGED <<daemonVars, object, link, config, enabled, identity, bounds, history>>

EndRecord ==
    /\ pc = "recording" /\ Forget
    /\ recorded' = lines
    /\ history' = [history EXCEPT !.stray = @ \ lines]
    /\ UNCHANGED <<daemonVars, object, link, config, enabled, bounds>>

\* Fault: the service is restarted, but the link stays as it is.
FallBackKeepsLink ==
    /\ prev # NoVersion
    /\ object[prev] # "absent"
    /\ Goes("fallBack", IF before.active THEN "fallBackStop" ELSE "removeCandidate")
    /\ UNCHANGED <<daemonVars, disk, identity, bounds, history>>

\* The link goes back; the service is restarted if it was active before.
FallBack ==
    /\ prev # NoVersion
    /\ object[prev] # "absent"
    /\ Goes("fallBack", IF before.active THEN "fallBackStop" ELSE "removeCandidate")
    /\ link' = prev
    /\ UNCHANGED <<daemonVars, object, config, recorded, enabled, identity, bounds, history>>

FallBackStop ==
    /\ Goes("fallBackStop", "fallBackStart")
    /\ Terminate
    /\ UNCHANGED <<disk, identity, bounds, history>>

FallBackStart ==
    /\ unit = "stopped"
    /\ Goes("fallBackStart", "removeCandidate")
    /\ Fork
    /\ UNCHANGED <<disk, identity, bounds, history>>

\* Nothing to fall back on: a service that was not enabled is disabled again.
GiveUp ==
    /\ prev # NoVersion => object[prev] = "absent"
    /\ Goes("fallBack", IF before.enabled THEN "removeCandidate" ELSE "disable")
    /\ enabled' = (enabled /\ before.enabled)
    /\ IF before.enabled THEN UNCHANGED daemonVars ELSE Terminate
    /\ UNCHANGED <<object, link, config, recorded, identity, bounds, history>>

Disabled ==
    /\ unit = "stopped"
    /\ Goes("disable", "removeCandidate")
    /\ UNCHANGED <<daemonVars, disk, identity, bounds, history>>

\* Fault: the candidate's object is removed even if it was installed before.
RemoveAnyCandidate ==
    /\ pc = "removeCandidate" /\ Forget
    /\ object' = [object EXCEPT ![cand] = "absent"]
    /\ history' = [history EXCEPT !.dangling = @ \/ prev = NoVersion]
    /\ UNCHANGED <<daemonVars, link, config, recorded, enabled, bounds>>

\* The candidate's object goes, unless it is what was installed; exit 1.
RemoveCandidate ==
    /\ pc = "removeCandidate" /\ Forget
    /\ object' = IF cand = prev THEN object ELSE [object EXCEPT ![cand] = "absent"]
    /\ history' = [history EXCEPT !.dangling = @ \/ prev = NoVersion]
    /\ UNCHANGED <<daemonVars, link, config, recorded, enabled, bounds>>

-----------------------------------------------------------------------------
(* uninstall.sh.                                                           *)

\* It needs the install state; that it can revoke home access through the link,
\* or is told to skip that, is left to who runs it.
Uninstall ==
    /\ scripts < MaxScripts
    /\ scripts' = scripts + 1
    /\ recorded # {}
    /\ Goes("idle", "uninstall")
    /\ history' = [history EXCEPT !.interrupted = FALSE]
    /\ UNCHANGED <<daemonVars, disk, identity, interrupts>>

\* systemctl disable --now.
UninstallStop ==
    /\ Goes("uninstall", "uninstallStop")
    /\ Terminate
    /\ enabled' = FALSE
    /\ UNCHANGED <<object, link, config, recorded, identity, bounds, history>>

RemoveFiles ==
    /\ unit = "stopped"
    /\ Goes("uninstallStop", "removeObjects")
    /\ link' = NoVersion
    /\ config' = Torn
    /\ history' = [history EXCEPT !.dangling = FALSE]
    /\ UNCHANGED <<daemonVars, object, recorded, enabled, identity, bounds>>

RemoveObject(v) ==
    /\ pc = "removeObjects"
    /\ v \in recorded \cap Present
    /\ object' = [object EXCEPT ![v] = "absent"]
    /\ UNCHANGED <<daemonVars, link, config, recorded, enabled, script, bounds, history>>

RemoveState ==
    /\ pc = "removeObjects" /\ Forget
    /\ recorded \cap Present = {}
    /\ recorded' = {}
    /\ UNCHANGED <<daemonVars, object, link, config, enabled, bounds, history>>

-----------------------------------------------------------------------------
(* The daemon on this disk, interruptions, and the whole.                  *)

\* What /usr/local/sbin/rootbrokerd leads to.
Executable == IF link # NoVersion /\ object[link] = "whole" THEN link ELSE NoVersion

DaemonProgress ==
    /\ Progress(Executable, <<running, config>> \in Accepts)
    /\ history' = [history EXCEPT !.bound = @ \/ /\ running = cand
                                                 /\ \A p \in Planes : sockets'[p] = "bound"]
    /\ UNCHANGED <<disk, script, bounds>>

ServiceRestarts == AutoRestart /\ UNCHANGED <<disk, script, bounds, history>>

DaemonFails == (Crash \/ AcceptFails) /\ UNCHANGED <<disk, script, bounds, history>>

\* Objects that only the interrupted script knew of, or only the state that it
\* was about to replace.
Strays == IF pc = "recording" THEN Present ELSE ({cand} \cap Present) \ recorded

InterruptedHistory ==
    history' = [history EXCEPT !.interrupted = TRUE,
                               !.dangling = @ \/ (pc = "copying" /\ link = cand),
                               !.stray = @ \cup Strays]

\* The script is killed between two steps.  A job it waits for is systemd's: it
\* is carried out all the same.
Interrupt ==
    /\ pc \notin {"idle", "stopping", "fallBackStart", "disable", "uninstallStop"}
    /\ interrupts < MaxInterrupts
    /\ interrupts' = interrupts + 1
    /\ InterruptedHistory
    /\ Forget
    /\ UNCHANGED <<daemonVars, disk, scripts>>

PowerFailure ==
    /\ interrupts < MaxInterrupts
    /\ interrupts' = interrupts + 1
    /\ IF pc = "idle" THEN UNCHANGED <<script, history>>
                      ELSE InterruptedHistory /\ Forget
    /\ Boot(enabled)
    /\ UNCHANGED <<disk, scripts>>

ScriptStep ==
    \/ BeginCopy \/ EndCopy \/ SetLink \/ BeginConfig \/ EndConfig \/ Enable
    \/ RestartStop \/ RestartStart \/ Poll \/ BeginRecord \/ EndRecord
    \/ FallBack \/ FallBackStop \/ FallBackStart \/ GiveUp \/ Disabled \/ RemoveCandidate
    \/ UninstallStop \/ RemoveFiles \/ RemoveState
    \/ \E v \in Versions : RemoveObject(v)

UpgradeNext ==
    \/ \E v \in Versions : Install(v)
    \/ Uninstall
    \/ ScriptStep
    \/ Timeout
    \/ Interrupt
    \/ PowerFailure
    \/ DaemonProgress
    \/ ServiceRestarts
    \/ DaemonFails

UpgradeSpec == UpgradeInit /\ [][UpgradeNext]_upgradeVars

\* Processes and scripts run on, systemd restarts what has failed, and the
\* readiness loop ends after its hundred rounds.
UpgradeFairness ==
    /\ WF_upgradeVars(ScriptStep)
    /\ SF_upgradeVars(Timeout)
    /\ WF_upgradeVars(DaemonProgress)
    /\ WF_upgradeVars(ServiceRestarts)

UpgradeFairSpec == UpgradeSpec /\ UpgradeFairness

-----------------------------------------------------------------------------
(* Properties.                                                             *)

\* The link leads to a complete binary whatever script runs and wherever it
\* stops (install.sh, uninstall.sh), but for the time in which the linked object
\* itself is copied again, and after an interruption of that copy or a failed
\* first install.
LinkResolves ==
    \/ link = NoVersion
    \/ object[link] = "whole"
    \/ pc = "copying" /\ cand = link
    \/ history.dangling

\* The installed binary accepts the installed configuration when no script runs:
\* after an install, after a fallback, which keeps the new configuration, and
\* across uninstalls; unless the last script was interrupted (install.sh).
ConfigAccepted ==
    pc = "idle" /\ link # NoVersion /\ ~ history.interrupted =>
        <<link, config>> \in Accepts

\* An install is recorded as done only if the candidate has listened on both
\* sockets since the restart, although the readiness loop of install.sh looks at
\* the service and at each socket at a different time; sockets that a killed
\* daemon had left at that restart are the one exception.
ReadyIsServing ==
    pc \in {"record", "recording"} => history.bound \/ history.fooled

\* With no script running, every binary on disk is in the install state, which
\* is what uninstall.sh removes binaries by, or was left by an interrupted
\* script: neither a fallback nor a series of installs loses one.
EveryObjectRecorded == pc = "idle" => Present \subseteq recorded \cup history.stray

\* An upgrade restarts an active service whose binary is sound: the service
\* serves again, be it with the candidate or with the version before, unless the
\* script is interrupted, the readiness loop was fooled by a killed daemon's
\* sockets, or the whole is uninstalled (install.sh, Restart=on-failure).
ServiceSurvivesUpgrade ==
    (pc = "stop" /\ before.active /\ prev \in Versions \ Broken)
        ~> (unit = "serving" \/ history.interrupted \/ history.fooled \/ pc = "uninstall")

=============================================================================
