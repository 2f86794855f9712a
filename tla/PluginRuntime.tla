---------------------------- MODULE PluginRuntime ----------------------------
(***************************************************************************)
(* The process of one plugin in the server: PluginProcessManager           *)
(* (plugins/process.py), PluginSupervisor (plugins/supervisor.py), the     *)
(* enable, disable and restart requests of the administrators              *)
(* (plugins/control.py, web/routes/admin.py) and the state file            *)
(* (plugins/state.py), which the command line also writes.                 *)
(*                                                                         *)
(* All of it runs in one event loop, so an action is the code between two  *)
(* awaits.  Callers are the supervisor and the requests; each stands at    *)
(* one await.  A process that answered a request after its time was up     *)
(* leaves that answer in the channel; every later request then reads the   *)
(* answer of the one before it and fails (`behind').                       *)
(***************************************************************************)
EXTENDS Naturals, FiniteSets

CONSTANTS Admins,      \* administrators' requests that may run at one time
          MaxRestarts, \* PluginSupervisor.max_restarts
          MaxPings,    \* PluginSupervisor.max_ping_failures
          MaxProcs,    \* bound: processes ever started
          MaxOrders    \* bound: requests of the administrators

ASSUME RuntimeAssumption ==
    /\ MaxRestarts \in Nat /\ MaxPings \in Nat \ {0} /\ MaxProcs \in Nat /\ MaxOrders \in Nat
    /\ Admins \cap {"supervisor", "none", "plugin", "lifecycle"} = {}  \* holders of a lock

VARIABLES enabled,   \* record.enabled
          status,    \* record.runtime_status
          stored,    \* plugin-state.toml: enabled, disabled, auto_disabled
          granted,   \* the required capabilities are granted
          tried,     \* the supervisor has tried to start it (_initial_started)
          entry,     \* manager._running: a process, or 0
          proc,      \* the processes started so far
          startLock, \* holder of manager._start_lock
          filelock,  \* holder of the plugin's lifecycle.lock
          caller,    \* where each caller stands
          failures,  \* starts that failed within the restart window
          pings,     \* heartbeats missed in a row
          orders,    \* requests so far
          overlapped \* the plugin was switched off, or a stop ended, while
                     \* somebody else was starting it

runtimeVars == <<enabled, status, stored, granted, tried, entry, proc, startLock, filelock,
                 caller, failures, pings, orders, overlapped>>

Sup     == "supervisor"
Callers == {Sup} \cup Admins
Procs   == 1..MaxProcs
Started == {p \in Procs : proc[p].state # "none"}
Alive   == {p \in Procs : proc[p].state = "alive"}

NoProc == [state |-> "none", expected |-> FALSE, watched |-> FALSE, behind |-> FALSE]
Away   == [at |-> "idle", op |-> "none", proc |-> 0]

RuntimeInit ==
    /\ enabled \in BOOLEAN
    /\ status     = "unknown"
    /\ stored     = IF enabled THEN "enabled" ELSE "disabled"
    /\ granted    \in BOOLEAN
    /\ tried      = FALSE
    /\ entry      = 0
    /\ proc       = [p \in Procs |-> NoProc]
    /\ startLock  = "none"
    /\ filelock   = "none"
    /\ caller     = [c \in Callers |-> Away]
    /\ failures   = 0
    /\ pings      = 0
    /\ orders     = 0
    /\ overlapped = FALSE

Goes(c, at, op, p) == caller' = [caller EXCEPT ![c] = [at |-> at, op |-> op, proc |-> p]]

-----------------------------------------------------------------------------
(* What a caller does when start or stop has returned; no await between.   *)

\* Somebody else stands in `start' or will go there.
Starting(c) == \E d \in Callers \ {c} : \/ caller[d].at \in {"start", "spawn", "handshake"}
                                         \/ caller[d].op = "restart"

\* A stop that ends finds the entry of a process started since.
Newer(c) == caller[c].at = "draining" /\ entry \notin {0, caller[c].proc}

\* _record_failure: past max_restarts the plugin is switched off.
RecordFailure ==
    /\ failures' = failures + 1
    /\ IF failures >= MaxRestarts
       THEN /\ enabled' = FALSE /\ status' = "auto_disabled" /\ stored' = "auto_disabled"
            /\ overlapped' = (overlapped \/ Starting(Sup) \/ Newer(Sup))
       ELSE /\ status' = "failed"
            /\ overlapped' = (overlapped \/ Newer(Sup))
            /\ UNCHANGED <<enabled, stored>>

\* A start that raised: the supervisor counts it, a request reports it.
StartRaised(c) ==
    /\ Goes(c, "idle", "none", 0)
    /\ IF c = Sup
       THEN RecordFailure
       ELSE /\ status' = "failed"
            /\ UNCHANGED <<failures, enabled, stored, overlapped>>
    /\ UNCHANGED pings

\* A missing grant or a lock that is taken raises too, but nobody counts it.
\* For want of a grant the status says disabled, and the supervisor leaves the
\* plugin alone from there on.
StartDeferred(c) ==
    /\ Goes(c, "idle", "none", 0)
    /\ status' = IF granted THEN status ELSE "disabled"
    /\ UNCHANGED <<failures, enabled, stored, overlapped, pings>>

\* A start that returned: enable_plugin writes the state and resets the count.
StartReturned(c, op, new) ==
    /\ Goes(c, "idle", "none", 0)
    /\ status' = new
    /\ IF op = "enable"
       THEN stored' = "enabled" /\ enabled' = TRUE /\ failures' = 0 /\ pings' = 0
       ELSE UNCHANGED <<stored, enabled, failures, pings>>
    /\ UNCHANGED overlapped

\* enable_plugin whose state file cannot be written stops the plugin again.
EnableUndone(c, now) ==
    /\ IF entry = 0
       THEN Goes(c, "idle", "none", 0) /\ status' = now /\ UNCHANGED proc
       ELSE /\ proc' = [proc EXCEPT ![entry].expected = TRUE]
            /\ status' = "stopping"
            /\ Goes(c, "stopping", "undo", entry)
    /\ UNCHANGED <<enabled, stored, failures, pings, overlapped>>

\* What follows a start that returned.
AfterStart(c, now) ==
    \/ StartReturned(c, caller[c].op, now) /\ UNCHANGED proc
    \/ caller[c].op = "enable" /\ EnableUndone(c, now)

\* A stop that returned: disable_plugin marks the record, plugin_restart goes
\* on to start, the supervisor counts a missed heartbeat as a failure.
StopReturned(c, op) ==
    CASE op = "disable" -> /\ Goes(c, "idle", "none", 0)
                           /\ enabled' = FALSE /\ status' = "disabled"
                           /\ overlapped' = (overlapped \/ Starting(c) \/ Newer(c))
                           /\ UNCHANGED <<stored, failures, pings>>
      [] op = "restart" -> /\ Goes(c, "start", "restart", 0)
                           /\ failures' = 0 /\ pings' = 0
                           /\ status' = IF caller[c].at = "draining" THEN "stopped" ELSE status
                           /\ overlapped' = (overlapped \/ Starting(c) \/ Newer(c))
                           /\ UNCHANGED <<enabled, stored>>
      [] op = "supervise" -> /\ Goes(c, "idle", "none", 0)
                             /\ pings' = 0
                             /\ RecordFailure
      [] op = "undo" -> /\ Goes(c, "idle", "none", 0)
                        /\ status' = "stopped"
                        /\ overlapped' = (overlapped \/ Newer(c))
                        /\ UNCHANGED <<enabled, stored, failures, pings>>

-----------------------------------------------------------------------------
(* PluginProcessManager.start.                                             *)

Lockable(c) == filelock = "none"

StartLockFree == startLock = "none"

\* Behind _start_lock: a running plugin is left alone, a missing grant, a busy
\* lifecycle lock or a package that does not verify raises; else the child is
\* spawned.
StartChecks(c, verified) ==
    /\ caller[c].at = "start"
    /\ StartLockFree
    /\ CASE entry # 0 -> AfterStart(c, status) /\ UNCHANGED <<startLock, filelock>>
         [] entry = 0 /\ (~granted \/ ~Lockable(c)) ->
              StartDeferred(c) /\ UNCHANGED <<proc, startLock, filelock>>
         [] entry = 0 /\ granted /\ Lockable(c) /\ ~verified ->
              StartRaised(c) /\ UNCHANGED <<proc, startLock, filelock>>
         [] OTHER -> /\ Goes(c, "spawn", caller[c].op, 0)
                     /\ startLock' = c /\ filelock' = c
                     /\ status' = "starting"
                     /\ UNCHANGED <<enabled, stored, proc, failures, pings, overlapped>>
    /\ UNCHANGED <<granted, tried, entry, orders>>

\* The child is there: it is entered in _running and asked to initialise.
Spawned(c) ==
    /\ caller[c].at = "spawn"
    /\ Cardinality(Started) < MaxProcs
    /\ LET p == Cardinality(Started) + 1 IN
         /\ proc' = [proc EXCEPT ![p] = [NoProc EXCEPT !.state = "alive", !.watched = TRUE]]
         /\ entry' = p
         /\ Goes(c, "handshake", caller[c].op, p)
    /\ UNCHANGED <<enabled, status, stored, granted, tried, startLock, filelock, failures, pings,
                   orders, overlapped>>

\* The handshake succeeded.  The lifecycle lock passes to the entry, if there
\* still is one, and is released otherwise.
HandshakeOk(c) ==
    LET p == caller[c].proc IN
    /\ caller[c].at = "handshake"
    /\ proc[p].state = "alive"
    /\ startLock' = "none"
    /\ filelock' = IF entry = 0 THEN "none" ELSE "plugin"
    /\ AfterStart(c, "running")
    /\ UNCHANGED <<granted, tried, entry, orders>>

\* Mutation: a child that did not answer is forgotten, not killed.
TerminatedLeft(row) == [row EXCEPT !.expected = TRUE]

\* _terminate: SIGTERM, then SIGKILL, to the child's process group.
Terminated(row) == [row EXCEPT !.state = "dead", !.expected = TRUE]

\* It failed or timed out: _terminate ends the child and waits for it, unless
\* it has ended already.
HandshakeFails(c) ==
    LET p == caller[c].proc IN
    /\ caller[c].at = "handshake"
    /\ proc' = [proc EXCEPT ![p].expected = TRUE]
    /\ Goes(c, IF proc[p].state = "alive" THEN "quitting" ELSE "closing", caller[c].op, p)
    /\ UNCHANGED <<enabled, status, stored, granted, tried, entry, startLock, filelock,
                   failures, pings, orders, overlapped>>

\* The child obeyed or was killed.
HandshakeKills(c) ==
    LET p == caller[c].proc IN
    /\ caller[c].at = "quitting"
    /\ proc' = [proc EXCEPT ![p] = Terminated(@)]
    /\ Goes(c, "closing", caller[c].op, p)
    /\ UNCHANGED <<enabled, status, stored, granted, tried, entry, startLock, filelock,
                   failures, pings, orders, overlapped>>

\* Its pipes are drained; it is closed, and the start raises.
HandshakeCloses(c) ==
    LET p == caller[c].proc IN
    /\ caller[c].at = "closing"
    /\ proc' = [proc EXCEPT ![p].watched = FALSE]
    /\ entry' = 0
    /\ startLock' = "none" /\ filelock' = "none"
    /\ StartRaised(c)
    /\ UNCHANGED <<granted, tried, orders>>

-----------------------------------------------------------------------------
(* PluginProcessManager.stop and the end of a child.                       *)

\* stop, up to the wait for the child; without an entry it returns at once.
StopBegins(c, op) ==
    IF entry = 0
    THEN StopReturned(c, op) /\ UNCHANGED proc
    ELSE /\ proc' = [proc EXCEPT ![entry].expected = TRUE]
         /\ status' = "stopping"
         /\ Goes(c, "stopping", op, entry)
         /\ UNCHANGED <<enabled, stored, failures, pings, overlapped>>

\* The child obeyed or was killed; its requests, the handshake too, come first.
StopWaits(c) ==
    LET p == caller[c].proc IN
    /\ caller[c].at = "stopping"
    /\ \A d \in Callers : caller[d].at = "handshake" => caller[d].proc # p
    /\ proc' = [proc EXCEPT ![p] = Terminated(@)]
    /\ Goes(c, "draining", caller[c].op, p)
    /\ UNCHANGED <<enabled, status, stored, granted, tried, entry, startLock, filelock, failures,
                   pings, orders, overlapped>>

\* The pipes are drained; _close removes the entry of the plugin, whichever
\* process it is by now, and the caller goes on.
StopCloses(c) ==
    LET p == caller[c].proc IN
    /\ caller[c].at = "draining"
    /\ entry' = 0
    /\ filelock' = IF entry = p /\ filelock = "plugin" THEN "none" ELSE filelock
    /\ proc' = [proc EXCEPT ![p].watched = FALSE]
    /\ StopReturned(c, caller[c].op)
    /\ UNCHANGED <<granted, tried, startLock, orders>>

\* The child ends on its own.
ChildExits(p) ==
    /\ proc[p].state = "alive"
    /\ proc' = [proc EXCEPT ![p].state = "dead"]
    /\ UNCHANGED <<enabled, status, stored, granted, tried, entry, startLock, filelock, caller,
                   failures, pings, orders, overlapped>>

\* _watch_exit notices: the entry goes, and with it the lifecycle lock.
WatchExit(p) ==
    /\ proc[p].state = "dead"
    /\ proc[p].watched
    /\ proc' = [proc EXCEPT ![p].watched = FALSE]
    /\ IF entry = p
       THEN /\ entry' = 0
            /\ filelock' = IF filelock = "plugin" THEN "none" ELSE filelock
            /\ status' = IF proc[p].expected THEN "stopped" ELSE "failed"
       ELSE UNCHANGED <<entry, filelock, status>>
    /\ UNCHANGED <<enabled, stored, granted, tried, startLock, caller, failures, pings, orders,
                   overlapped>>

\* A request of _request_unlocked times out and its answer comes later.
AnswersLate ==
    /\ entry # 0
    /\ proc[entry].state = "alive" /\ ~proc[entry].behind
    /\ proc' = [proc EXCEPT ![entry].behind = TRUE]
    /\ UNCHANGED <<enabled, status, stored, granted, tried, entry, startLock, filelock, caller,
                   failures, pings, orders, overlapped>>

\* The requests that may: an action of a settings page, and a subscribed event.
\* (The capabilities they need are others than the required ones of `granted'.)
PluginSettingsAction == enabled /\ AnswersLate
EventDelivery        == AnswersLate

-----------------------------------------------------------------------------
(* PluginSupervisor.run: one pass over the record.                         *)

\* The first pass that finds it enabled starts it whatever its status is.
SuperviseStart ==
    /\ caller[Sup].at = "idle"
    /\ enabled /\ entry = 0
    /\ status # "auto_disabled"
    /\ tried => status \in {"failed", "stopped", "unknown"}
    /\ tried' = TRUE
    /\ Goes(Sup, "start", "supervise", 0)
    /\ UNCHANGED <<enabled, status, stored, granted, entry, proc, startLock, filelock,
                   failures, pings, orders, overlapped>>

\* Mutation: a process that answers anything at all is well.
AnswersAnything(p) == proc[p].state = "alive"

\* A ping is answered by a live process whose channel is in step.
Answers(p) == proc[p].state = "alive" /\ ~proc[p].behind

SupervisePing ==
    /\ caller[Sup].at = "idle"
    /\ enabled /\ entry # 0
    /\ IF Answers(entry)
       THEN /\ pings # 0 /\ pings' = 0
            /\ UNCHANGED <<enabled, status, stored, proc, caller, failures, overlapped>>
       ELSE IF pings + 1 < MaxPings
       THEN /\ pings' = pings + 1
            /\ UNCHANGED <<enabled, status, stored, proc, caller, failures, overlapped>>
       ELSE StopBegins(Sup, "supervise")
    /\ UNCHANGED <<granted, tried, entry, startLock, filelock, orders>>

\* The failures of the restart window pass out of it.
WindowPasses ==
    /\ failures # 0
    /\ failures' = 0
    /\ UNCHANGED <<enabled, status, stored, granted, tried, entry, proc, startLock, filelock,
                   caller, pings, orders, overlapped>>

-----------------------------------------------------------------------------
(* Requests, the command line, and other holders of the lifecycle lock.    *)

Ordered(c) ==
    /\ caller[c].at = "idle"
    /\ orders < MaxOrders
    /\ orders' = orders + 1

PluginEnable(c) ==
    /\ Ordered(c)
    /\ Goes(c, "start", "enable", 0)
    /\ UNCHANGED <<enabled, status, stored, granted, tried, entry, proc, startLock, filelock,
                   failures, pings, overlapped>>

\* disable_plugin writes the state file first.
PluginDisable(c) ==
    /\ Ordered(c)
    /\ stored' = "disabled"
    /\ IF entry = 0
       THEN /\ Goes(c, "idle", "none", 0)
            /\ enabled' = FALSE /\ status' = "disabled"
            /\ overlapped' = (overlapped \/ Starting(c))
            /\ UNCHANGED <<proc, failures, pings>>
       ELSE /\ proc' = [proc EXCEPT ![entry].expected = TRUE]
            /\ status' = "stopping"
            /\ Goes(c, "stopping", "disable", entry)
            /\ UNCHANGED <<enabled, failures, pings, overlapped>>
    /\ UNCHANGED <<granted, tried, entry, startLock, filelock>>

PluginRestart(c) ==
    /\ Ordered(c)
    /\ enabled
    /\ StopBegins(c, "restart")
    /\ UNCHANGED <<granted, tried, entry, startLock, filelock>>

PluginCapability ==
    /\ orders < MaxOrders
    /\ orders' = orders + 1
    /\ granted' = ~granted
    /\ UNCHANGED <<enabled, status, stored, tried, entry, proc, startLock, filelock, caller,
                   failures, pings, overlapped>>

\* `plugin enable' and `plugin disable' of the command line: for the next start.
CliSetEnabled(new) ==
    /\ orders < MaxOrders
    /\ orders' = orders + 1
    /\ stored' = new
    /\ UNCHANGED <<enabled, status, granted, tried, entry, proc, startLock, filelock, caller,
                   failures, pings, overlapped>>

\* The server stops, orderly or not, and starts again: a child whose channel
\* closed ends, and the registry reads the state file.
ServerRestarts ==
    /\ orders < MaxOrders
    /\ orders' = orders + 1
    /\ enabled' = (stored = "enabled")
    /\ status' = IF stored = "auto_disabled" THEN "auto_disabled" ELSE "unknown"
    /\ entry' = 0 /\ startLock' = "none"
    /\ filelock' = IF filelock = "lifecycle" THEN filelock ELSE "none"
    /\ proc' = [p \in Procs |-> IF proc[p].state = "alive"
                                THEN [NoProc EXCEPT !.state = "dead"] ELSE proc[p]]
    /\ caller' = [c \in Callers |-> Away]
    /\ failures' = 0 /\ pings' = 0 /\ tried' = FALSE
    /\ UNCHANGED <<stored, granted, overlapped>>

\* An install, update or uninstall of another process.
LifecycleBegins ==
    /\ filelock = "none"
    /\ filelock' = "lifecycle"
    /\ UNCHANGED <<enabled, status, stored, granted, tried, entry, proc, startLock, caller,
                   failures, pings, orders, overlapped>>

LifecycleEnds ==
    /\ filelock = "lifecycle"
    /\ filelock' = "none"
    /\ UNCHANGED <<enabled, status, stored, granted, tried, entry, proc, startLock, caller,
                   failures, pings, orders, overlapped>>

CallerSteps(c) ==
    \/ \E verified \in BOOLEAN : StartChecks(c, verified)
    \/ Spawned(c) \/ HandshakeOk(c) \/ HandshakeFails(c) \/ HandshakeKills(c)
    \/ HandshakeCloses(c) \/ StopWaits(c) \/ StopCloses(c)

RuntimeNext ==
    \/ \E c \in Callers : CallerSteps(c)
    \/ \E c \in Admins : PluginEnable(c) \/ PluginDisable(c) \/ PluginRestart(c)
    \/ \E p \in Procs : ChildExits(p) \/ WatchExit(p)
    \/ PluginSettingsAction \/ EventDelivery \/ SuperviseStart \/ SupervisePing \/ WindowPasses
    \/ PluginCapability \/ ServerRestarts \/ LifecycleBegins \/ LifecycleEnds
    \/ \E new \in {"enabled", "disabled"} : CliSetEnabled(new)

RuntimeSpec == RuntimeInit /\ [][RuntimeNext]_runtimeVars

\* The event loop runs every task, an installation ends.
RuntimeFairness ==
    /\ \A c \in Callers : WF_runtimeVars(CallerSteps(c))
    /\ \A p \in Procs : WF_runtimeVars(WatchExit(p))
    /\ WF_runtimeVars(SuperviseStart) /\ WF_runtimeVars(SupervisePing)
    /\ WF_runtimeVars(LifecycleEnds)

-----------------------------------------------------------------------------
(* Properties.                                                             *)

Settled == \A c \in Callers : caller[c] = Away

\* When all requests have returned, the processes that live are those the
\* manager has an entry for, at most one, and none while the plugin is
\* disabled; unless a start overlapped a stop, the two windows of
\* disable_plugin: `stop' finds no entry for a child that is being spawned,
\* and _close drops the entry of a child that was started meanwhile.
ManagedProcess ==
    Settled /\ ~overlapped => /\ Alive \subseteq {entry}
                              /\ ~enabled => Alive = {}

\* A channel that fell out of step is noticed: the supervisor's heartbeats end
\* the process, unless it ended or the plugin was disabled.
LateAnswerHeals ==
    \A p \in Procs :
      [](proc[p].behind /\ entry = p /\ enabled => <>(proc[p].state = "dead" \/ ~enabled \/ entry # p))

=============================================================================
