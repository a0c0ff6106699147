-------------------------------- MODULE Daemon --------------------------------
(***************************************************************************)
(* rootbrokerd as a process: Main and RunWithTransport                     *)
(* (internal/server/server_linux.go) open the request and then the admin   *)
(* socket (internal/transport/unix_linux.go), serve both, and close them   *)
(* in reverse order when a signal or an accept error ends the daemon.  A   *)
(* process that is killed runs no deferred Close and leaves its sockets    *)
(* on disk, where the next daemon has to clear them away.                  *)
(*                                                                         *)
(* systemd runs it as packaging/systemd/rootbrokerd.service says           *)
(* (Type=simple, Restart=on-failure): one process at a time, "active" from *)
(* the moment it is forked, forked again after a failure.  The binary and  *)
(* the configuration it finds are parameters of Exec and LoadConfig; the   *)
(* module Upgrade composes them with what install.sh puts on disk.         *)
(***************************************************************************)
EXTENDS Naturals

CONSTANTS
    Versions,    \* binaries, told apart by their SHA-256
    Broken,      \* those whose daemon exits before it listens on both
                 \*   sockets (tests/brokenrootbroker)
    NoVersion,
    MaxCrashes   \* bound on kills and accept errors

ASSUME VersionsAssumption ==
    Broken \subseteq Versions /\ NoVersion \notin Versions /\ MaxCrashes \in Nat

VARIABLES
    unit,      \* the service, see Phases
    running,   \* the version of the process that runs, or NoVersion
    sockets,   \* sockets[p]: the path of plane p has "none", a "bound" socket,
               \*   or a "stale" one, which nobody listens on any more
    crashes,   \* how often MaxCrashes has been used up
    unclean    \* history: a process was killed while it listened, and none
               \*   has served since

daemonVars == <<unit, running, sockets, crashes, unclean>>

Planes == {"request", "admin"}

\* "failed" is a service that waits for its restart; "closing" and "erring"
\* run the deferred Closes, after SIGTERM and after an accept error.
Phases == {"stopped", "failed", "forked", "loading", "listening", "serving",
           "closing", "erring"}

\* A process that SIGTERM ends without running its deferred functions:
\* signal.Notify comes after the sockets.
Unguarded == {"forked", "loading", "listening"}

DaemonTypeOK ==
    /\ unit \in Phases
    /\ running \in Versions \cup {NoVersion}
    /\ sockets \in [Planes -> {"none", "stale", "bound"}]
    /\ crashes \in 0..MaxCrashes
    /\ unclean \in BOOLEAN

DaemonInit ==
    /\ unit = "stopped"
    /\ running = NoVersion
    /\ sockets = [p \in Planes |-> "none"]
    /\ crashes = 0
    /\ unclean = FALSE

\* What systemctl is-active answers for Type=simple.
Active == unit \in Unguarded \cup {"serving", "erring"}

\* The sockets of a process that ends without closing them, and of one whose
\* deferred Closes run at once.
Abandoned == [p \in Planes |-> IF sockets[p] = "bound" THEN "stale" ELSE sockets[p]]
Closed == [p \in Planes |-> IF sockets[p] = "bound" THEN "none" ELSE sockets[p]]

-----------------------------------------------------------------------------
(* The process.                                                            *)

\* execve of what /usr/local/sbin/rootbrokerd leads to; v is NoVersion if that
\* is no complete executable (systemd's status 203/EXEC).
Exec(v) ==
    /\ unit = "forked"
    /\ IF v = NoVersion
         THEN unit' = "failed" /\ UNCHANGED running
         ELSE unit' = "loading" /\ running' = v
    /\ UNCHANGED <<sockets, crashes, unclean>>

\* Main: config.Load, and status 2 if it refuses the file.
LoadConfig(accepted) ==
    /\ unit = "loading"
    /\ IF accepted
         THEN unit' = "listening" /\ UNCHANGED running
         ELSE unit' = "failed" /\ running' = NoVersion
    /\ UNCHANGED <<sockets, crashes, unclean>>

\* The plane RunWithTransport listens on next.
NextPlane(p) ==
    /\ unit = "listening"
    /\ p = "admin" => sockets["request"] = "bound"

\* removeStaleSocket: the dial is refused, since the process is the only one.
RemoveStale(p) ==
    /\ NextPlane(p)
    /\ sockets[p] = "stale"
    /\ sockets' = [sockets EXCEPT ![p] = "none"]
    /\ UNCHANGED <<unit, running, crashes, unclean>>

\* net.ListenUnix, with the owner and mode of the socket.
Bind(p) ==
    /\ NextPlane(p)
    /\ p = "admin" => running \notin Broken
    /\ sockets[p] = "none"
    /\ sockets' = [sockets EXCEPT ![p] = "bound"]
    /\ UNCHANGED <<unit, running, crashes, unclean>>

\* broker.New, the two accept loops and signal.Notify.
Serve ==
    /\ unit = "listening"
    /\ \A p \in Planes : sockets[p] = "bound"
    /\ unit' = "serving"
    /\ unclean' = FALSE
    /\ UNCHANGED <<running, sockets, crashes>>

\* An error on the way to serving: Main returns 1 after the deferred Close of
\* the request listener.
FailToStart ==
    /\ unit = "listening"
    /\ running \in Broken
    /\ unit' = "failed"
    /\ running' = NoVersion
    /\ sockets' = Closed
    /\ UNCHANGED <<crashes, unclean>>

\* serve returns the error of an Accept to RunWithTransport.
AcceptFails ==
    /\ unit = "serving"
    /\ crashes < MaxCrashes
    /\ crashes' = crashes + 1
    /\ unit' = "erring"
    /\ UNCHANGED <<running, sockets, unclean>>

\* Fault: a listener that is closed leaves its socket in place.
CloseKeepingPath(p) ==
    /\ unit \in {"closing", "erring"}
    /\ sockets[p] = "bound"
    /\ p = "request" => sockets["admin"] # "bound"
    /\ sockets' = [sockets EXCEPT ![p] = "stale"]
    /\ UNCHANGED <<unit, running, crashes, unclean>>

\* unixListener.Close, as deferred: the admin listener first.
Close(p) ==
    /\ unit \in {"closing", "erring"}
    /\ sockets[p] = "bound"
    /\ p = "request" => sockets["admin"] # "bound"
    /\ sockets' = [sockets EXCEPT ![p] = "none"]
    /\ UNCHANGED <<unit, running, crashes, unclean>>

\* RunWithTransport returns: nil after a signal, the error otherwise.
Exit ==
    /\ unit \in {"closing", "erring"}
    /\ \A p \in Planes : sockets[p] # "bound"
    /\ unit' = IF unit = "closing" THEN "stopped" ELSE "failed"
    /\ running' = NoVersion
    /\ UNCHANGED <<sockets, crashes, unclean>>

\* SIGKILL, a panic, the OOM killer.
Crash ==
    /\ unit \notin {"stopped", "failed"}
    /\ crashes < MaxCrashes
    /\ crashes' = crashes + 1
    /\ unit' = IF unit = "closing" THEN "stopped" ELSE "failed"
    /\ running' = NoVersion
    /\ sockets' = Abandoned
    /\ unclean' = (unclean \/ Abandoned # sockets)

-----------------------------------------------------------------------------
(* The service manager.                                                    *)

Fork ==
    /\ unit' = "forked"
    /\ UNCHANGED <<running, sockets, crashes, unclean>>

\* Restart=on-failure.
AutoRestart == unit = "failed" /\ Fork

\* A stop job sends SIGTERM: the default action ends a process that has not
\* come to signal.Notify, a serving one begins to close.
Terminate ==
    \/ /\ unit \in Unguarded
       /\ unit' = "stopped"
       /\ running' = NoVersion
       /\ sockets' = Abandoned
       /\ unclean' = (unclean \/ Abandoned # sockets)
       /\ UNCHANGED crashes
    \/ /\ unit \in {"serving", "erring", "closing"}
       /\ unit' = "closing"
       /\ UNCHANGED <<running, sockets, crashes, unclean>>
    \/ /\ unit \in {"stopped", "failed"}
       /\ unit' = "stopped"
       /\ UNCHANGED <<running, sockets, crashes, unclean>>

\* Power is lost; /run is empty and the enabled service starts on boot.
Boot(enabled) ==
    /\ unit' = IF enabled THEN "forked" ELSE "stopped"
    /\ running' = NoVersion
    /\ sockets' = [p \in Planes |-> "none"]
    /\ unclean' = FALSE
    /\ UNCHANGED crashes

\* What the process does by itself, given what it finds on disk.
Progress(v, accepted) ==
    \/ Exec(v)
    \/ LoadConfig(accepted)
    \/ \E p \in Planes : RemoveStale(p) \/ Bind(p) \/ Close(p)
    \/ Serve
    \/ FailToStart
    \/ Exit

=============================================================================
