---------------------------- MODULE AirvpnService ----------------------------
(***************************************************************************)
(* nm-airvpn-service (nm-airvpn-service.c): the daemon NetworkManager      *)
(* starts for an AirVPN connection, with the openvpn processes it spawns,  *)
(* the generator fetches it starts, the kill-switch table and the profile  *)
(* cache.                                                                  *)
(*                                                                         *)
(* The daemon is single-threaded: a D-Bus call, a timer, a child watch or  *)
(* a finished fetch runs to completion on the GLib main loop, so each such *)
(* handler is one action here, with every call it makes.  What happens     *)
(* between handlers (openvpn exiting, NetworkManager calling again, time   *)
(* passing, the daemon ending) is left to the scheduler.                   *)
(***************************************************************************)
EXTENDS AirvpnCache, AirvpnFirewall

CONSTANTS
    Uuids,         \* connection UUIDs
    Pids,          \* process identifiers of openvpn children
    Tasks,         \* generator fetches in flight, cancelled ones included
    QuitsOnStop,   \* TRUE as NetworkManager runs it, FALSE with --persist
    SecretsCalls,  \* TRUE when NewSecrets is called on the daemon
    DiskFaults,    \* TRUE when writes to the state directory may fail
    Crashes        \* TRUE when the daemon may die without cleaning up

ASSUME ServiceAssumption ==
    /\ None \notin Uuids \cup Pids \cup Tasks
    /\ {QuitsOnStop, SecretsCalls, DiskFaults, Crashes} \subseteq BOOLEAN

VARIABLES
    loop,         \* the main loop: "down", "running", or "quitting"
    svc,          \* NMVpnServiceState of the plugin object
    fail_stop,    \* libnm's idle source that stops the plugin after a refusal
    failed,       \* NetworkManager got a Failure signal it has not acted on
    priv,         \* NMAirvpnPluginPrivate
    proc,         \* the openvpn processes
    kill_timers,  \* pids of pending ensure_killed timers
    task,         \* the generator fetches
    table,        \* the kill-switch table in the kernel
    disk          \* the cache directory of every UUID

vars == <<loop, svc, fail_stop, failed, priv, proc, kill_timers, task, table, disk>>

(***************************************************************************)
(* Values.                                                                 *)
(***************************************************************************)
\* The settings of a connection that the daemon's control depends on.
Connections == [uuid : Uuids, params : Params, kill_switch : BOOLEAN]

ASSUME ConnectionsAssumption == None \notin Connections

Priv == [pid                : Pids \cup {None},
         started            : BOOLEAN,
         connection         : Connections \cup {None},
         fetch              : Tasks \cup {None},
         connect_timer      : BOOLEAN,
         uuid               : Uuids \cup {None},
         kill_switch_active : BOOLEAN,
         unexpected_drop    : BOOLEAN]

NewPriv == [pid |-> None, started |-> FALSE, connection |-> None,
            fetch |-> None, connect_timer |-> FALSE, uuid |-> None,
            kill_switch_active |-> FALSE, unexpected_drop |-> FALSE]

\* "watched": the living daemon is its parent and holds its child watch.
\* "term": SIGTERM was sent to it.  "connection" is what it was started for.
Proc == [st         : {"free", "handshake", "up", "exited"},
         status     : {"ok", "error"},
         term       : BOOLEAN,
         watched    : BOOLEAN,
         profile    : Profiles \cup {None},
         connection : Connections \cup {None}]

FreeProc == [st |-> "free", status |-> "ok", term |-> FALSE,
             watched |-> FALSE, profile |-> None, connection |-> None]

FreeTask == [running |-> FALSE, cancelled |-> FALSE, connection |-> None]

Task == [running : BOOLEAN, cancelled : BOOLEAN, connection : Connections \cup {None}]

Active == {"STARTING", "STARTED"}

IsAlive(pr, p) == pr[p].st \in {"handshake", "up"}

TunnelUp == \E p \in Pids : proc[p].st = "up"

\* Every variable keeps its type; in particular the table only ever accepts
\* the remotes of a real profile, so openvpn is never started without one.
TypeOK ==
    /\ loop \in {"down", "running", "quitting"}
    /\ svc \in {"INIT", "STARTING", "STARTED", "STOPPED"}
    /\ fail_stop \in BOOLEAN
    /\ failed \in BOOLEAN
    /\ priv \in Priv
    /\ proc \in [Pids -> Proc]
    /\ kill_timers \subseteq Pids
    /\ task \in [Tasks -> Task]
    /\ table \subseteq Profiles
    /\ disk \in [Uuids -> Entry]

\* Every directory the daemon can find: none yet.  The daemon is not running.
Init ==
    /\ loop = "down"
    /\ svc = "INIT"
    /\ fail_stop = FALSE
    /\ failed = FALSE
    /\ priv = NewPriv
    /\ proc = [p \in Pids |-> FreeProc]
    /\ kill_timers = {}
    /\ task = [t \in Tasks |-> FreeTask]
    /\ table = NoTable
    /\ disk = [u \in Uuids |-> NoEntry]

(***************************************************************************)
(* Building blocks of the handlers.  Each is a function of the values it   *)
(* starts from, so that a handler can chain the calls its code chains.     *)
(***************************************************************************)
\* kill(pid, SIGTERM): a process that has exited keeps its status.
Terminate(pr, p) ==
    IF p # None /\ IsAlive(pr, p) THEN [pr EXCEPT ![p].term = TRUE] ELSE pr

\* Mutated form: the drop is forgotten with the attempt.
CleanPrivForgettingDrop(pv) ==
    [NewPriv EXCEPT !.kill_switch_active = pv.kill_switch_active /\ pv.unexpected_drop]

\* cleanup_plugin, field by field.
CleanPriv(pv) ==
    [NewPriv EXCEPT !.kill_switch_active = pv.kill_switch_active /\ pv.unexpected_drop,
                    !.unexpected_drop = pv.unexpected_drop]

CleanProc(pv, pr) == Terminate(pr, pv.pid)

CleanKillTimers(pv) == kill_timers \cup ({pv.pid} \ {None})

\* Mutated form: the pending fetch is forgotten but not cancelled.
CleanTaskWithoutCancel(pv) == task

CleanTask(pv) ==
    IF pv.fetch = None THEN task ELSE [task EXCEPT ![pv.fetch].cancelled = TRUE]

\* Mutated form: started is tested after it has been reset.
CleanTablesIfStarted(pv, tb) ==
    IF pv.kill_switch_active /\ ~pv.unexpected_drop /\ pv.started THEN Disarmed(tb) ELSE {tb}

\* Mutated form: unexpected_drop is not looked at.
CleanTablesAlways(pv, tb) ==
    IF pv.kill_switch_active THEN Disarmed(tb) ELSE {tb}

CleanTables(pv, tb) ==
    IF pv.kill_switch_active /\ ~pv.unexpected_drop THEN Disarmed(tb) ELSE {tb}

\* Mutated form: the condition of real_disconnect is dropped.
MarkedStaleAlways(calls, u) ==
    IF u # None THEN {[disk EXCEPT ![u] = MarkStale(disk[u], TRUE)]} ELSE {disk}

\* nm_airvpn_cache_mark_stale of the directory of u, when the caller calls it.
MarkedStale(calls, u) ==
    IF calls /\ u # None
    THEN {[disk EXCEPT ![u] = MarkStale(disk[u], w)] : w \in IF DiskFaults THEN BOOLEAN ELSE {TRUE}}
    ELSE {disk}

\* nm_vpn_service_plugin_failure only emits a signal, and NetworkManager
\* acts on it while it believes the connection active.
Failure == failed' = (failed \/ svc \in Active)

\* state_changed_cb for the states without a connection.
IdlePriv(pv) == [pv EXCEPT !.connect_timer = FALSE, !.connection = None]

\* nm_vpn_service_plugin_set_state (STOPPED): the "quit" signal follows at
\* once, and ends the main loop unless the daemon runs with --persist.
EnterStopped ==
    /\ svc' = "STOPPED"
    /\ failed' = FALSE
    /\ loop' = IF QuitsOnStop THEN "quitting" ELSE loop

(***************************************************************************)
(* nm_vpn_service_plugin_disconnect, called from a D-Bus Disconnect and    *)
(* from openvpn_watch_cb: an error outside STARTING and STARTED, else      *)
(* STOPPING (which clears the connection), real_disconnect, STOPPED.       *)
(***************************************************************************)
PluginDisconnect(pv, pr) ==
    \/ /\ svc \notin Active
       /\ priv' = pv
       /\ proc' = pr
       /\ UNCHANGED <<loop, svc, failed, kill_timers, task, table, disk>>
    \/ /\ svc \in Active
       /\ disk' \in MarkedStale(pv.pid # None /\ ~pv.started, pv.uuid)
       /\ priv' = CleanPriv(IdlePriv(pv))
       /\ proc' = CleanProc(pv, pr)
       /\ kill_timers' = CleanKillTimers(pv)
       /\ task' = CleanTask(pv)
       /\ table' \in CleanTables(pv, table)
       /\ EnterStopped

(***************************************************************************)
(* run_openvpn on the profile cached for pv.uuid.  A kernel that hands out *)
(* pids in turn does not reuse one within the two seconds of ensure_killed.*)
(***************************************************************************)
RunOutcomes == {"no_binary", "arm_failed", "spawn_failed", "spawned"}

RunOpenvpn(pv, pr, tb, profile, outcome) ==
    LET wanted == pv.connection.kill_switch
        superseded == [pv EXCEPT !.kill_switch_active = FALSE, !.unexpected_drop = FALSE]
        lifted == IF pv.kill_switch_active THEN Disarmed(tb) ELSE {tb}
        armed == IF wanted THEN {Armed(t, profile) : t \in lifted} ELSE lifted
    IN  \/ /\ outcome = "no_binary"
           /\ priv' = pv /\ proc' = pr /\ table' = tb
        \/ /\ outcome = "arm_failed"
           /\ wanted
           /\ priv' = superseded /\ proc' = pr /\ table' \in lifted
        \/ /\ outcome = "spawn_failed"
           /\ priv' = superseded /\ proc' = pr
           /\ table' \in IF wanted THEN UNION {Disarmed(t) : t \in armed} ELSE armed
        \/ /\ outcome = "spawned"
           /\ table' \in armed
           /\ \E p \in Pids \ kill_timers :
                /\ pr[p].st = "free"
                /\ proc' = [pr EXCEPT ![p] = [FreeProc EXCEPT !.st = "handshake",
                                                              !.watched = TRUE,
                                                              !.profile = profile,
                                                              !.connection = pv.connection]]
                /\ priv' = [superseded EXCEPT !.pid = p,
                                              !.kill_switch_active = wanted,
                                              !.connect_timer = TRUE]

(***************************************************************************)
(* _connect_common for connection c.  The properties and the presence of   *)
(* an API key are validated first, with nothing done when they are         *)
(* refused.  After cleanup_plugin it gives up when it cannot create the    *)
(* state directory, or needs to fetch and the key is an empty string.      *)
(***************************************************************************)
ConnectRefused ==
    UNCHANGED <<priv, proc, kill_timers, task, table, disk>>

ConnectAccepted(c, ok) ==
    LET fresh == [CleanPriv(priv) EXCEPT !.connection = c, !.uuid = c.uuid]
        pr == CleanProc(priv, proc)
    IN  /\ kill_timers' = CleanKillTimers(priv)
        /\ UNCHANGED disk
        /\ \E tb \in CleanTables(priv, table) :
             \/ /\ ~ok
                /\ DiskFaults \/ ~IsValid(disk[c.uuid], c.params)
                /\ priv' = fresh /\ proc' = pr /\ table' = tb
                /\ task' = CleanTask(priv)
             \/ /\ IsValid(disk[c.uuid], c.params)
                /\ task' = CleanTask(priv)
                /\ \E o \in RunOutcomes :
                     /\ ok = (o = "spawned")
                     /\ RunOpenvpn(fresh, pr, tb, disk[c.uuid].config, o)
             \/ /\ ~IsValid(disk[c.uuid], c.params)
                /\ ok
                /\ proc' = pr /\ table' = tb
                /\ \E t \in Tasks :
                     /\ ~task[t].running
                     /\ priv' = [fresh EXCEPT !.fetch = t]
                     /\ task' = [CleanTask(priv) EXCEPT ![t] =
                                    [running |-> TRUE, cancelled |-> FALSE, connection |-> c]]

(***************************************************************************)
(* NetworkManager's calls.                                                 *)
(***************************************************************************)
\* Connect and ConnectInteractive: real_connect within libnm's handler,
\* which refuses it in other states, drops a pending fail_stop, and enters
\* STARTING on success or schedules fail_stop.
Connect(c) ==
    /\ loop = "running"
    /\ svc \in {"INIT", "STOPPED"}
    /\ \E ok \in BOOLEAN :
         /\ fail_stop' = ~ok
         /\ svc' = IF ok THEN "STARTING" ELSE svc
         /\ \/ ~ok /\ ConnectRefused
            \/ ConnectAccepted(c, ok)
    /\ UNCHANGED <<loop, failed>>

\* NewSecrets: real_new_secrets, accepted while STARTING, for the
\* connection that is being started.
NewSecrets(c) ==
    /\ SecretsCalls
    /\ loop = "running"
    /\ svc = "STARTING"
    /\ c.uuid = priv.uuid
    /\ \E ok \in BOOLEAN :
         /\ fail_stop' = (fail_stop \/ ~ok)
         /\ \/ ~ok /\ ConnectRefused
            \/ ConnectAccepted(c, ok)
    /\ UNCHANGED <<loop, svc, failed>>

\* Disconnect: the user, NetworkManager's own timeout, a Failure signal, or
\* NetworkManager leaving the bus.
Disconnect ==
    /\ loop # "down"
    /\ svc \in Active
    /\ PluginDisconnect(priv, proc)
    /\ UNCHANGED fail_stop

\* libnm's fail_stop idle source after a refused Connect or NewSecrets.
FailStop ==
    /\ loop # "down"
    /\ fail_stop
    /\ fail_stop' = FALSE
    /\ IF svc = "STOPPED"
       THEN UNCHANGED <<loop, svc, failed, priv>>
       ELSE priv' = IdlePriv(priv) /\ EnterStopped
    /\ UNCHANGED <<proc, kill_timers, task, table, disk>>

(***************************************************************************)
(* The daemon's own callbacks.  They may still run in the main loop's last *)
(* iteration, after quit_mainloop.                                         *)
(***************************************************************************)
\* Once GLib has reaped p, openvpn_watch_cb calls waitpid(priv->pid): with
\* another live pid, or 0 for any child, it can take the status of a second
\* exited process away from GLib, which then reports no error for it.
Stealable(p) ==
    {q \in Pids \ {p} : /\ proc[q].watched /\ proc[q].st = "exited"
                        /\ priv.pid \in {None, q}}

ReapedProcs(p) ==
    LET reaped == [proc EXCEPT ![p] = FreeProc]
    IN  {reaped} \cup {[reaped EXCEPT ![q].status = "ok"] : q \in Stealable(p)}

\* openvpn_watch_cb for the child p.  It takes p for the current openvpn.
WatchCb(p) ==
    LET pv == [priv EXCEPT !.pid = None, !.connect_timer = FALSE]
    IN  /\ loop # "down"
        /\ proc[p].watched
        /\ proc[p].st = "exited"
        /\ \E pr \in ReapedProcs(p) :
             \/ /\ proc[p].status = "error"
                /\ ~priv.started
                /\ disk' \in MarkedStale(TRUE, priv.uuid)
                /\ Failure
                /\ priv' = pv /\ proc' = pr
                /\ UNCHANGED <<loop, svc, kill_timers, task, table>>
             \/ /\ proc[p].status = "error"
                /\ priv.started
                /\ Failure
                /\ priv' = [pv EXCEPT !.unexpected_drop = TRUE] /\ proc' = pr
                /\ UNCHANGED <<loop, svc, kill_timers, task, table, disk>>
             \/ /\ proc[p].status = "ok"
                /\ PluginDisconnect(pv, pr)
        /\ UNCHANGED fail_stop

\* connect_timeout_cb: the SIGTERM here has no ensure_killed behind it.
ConnectTimeout ==
    /\ loop # "down"
    /\ priv.connect_timer
    /\ priv' = [priv EXCEPT !.connect_timer = FALSE]
    /\ IF priv.started
       THEN UNCHANGED <<failed, proc, disk>>
       ELSE /\ proc' = Terminate(proc, priv.pid)
            /\ disk' \in MarkedStale(TRUE, priv.uuid)
            /\ Failure
    /\ UNCHANGED <<loop, svc, fail_stop, kill_timers, task, table>>

\* ensure_killed, two seconds after the SIGTERM of cleanup_plugin.
EnsureKilled(p) ==
    /\ loop # "down"
    /\ p \in kill_timers
    /\ kill_timers' = kill_timers \ {p}
    /\ proc' = IF IsAlive(proc, p)
               THEN [proc EXCEPT ![p].st = "exited", ![p].status = "error"]
               ELSE proc
    /\ UNCHANGED <<loop, svc, fail_stop, failed, priv, task, table, disk>>

\* fetch_done_cb once priv->connection is known: the outcome "profile" when
\* the generator answered, else the fallback to a matching cached profile.
UseProfile(pv, cached) ==
    \E o \in RunOutcomes :
        /\ RunOpenvpn(pv, proc, table, cached, o)
        /\ IF o = "spawned" THEN UNCHANGED failed ELSE Failure

\* Mutated form: the early return forgets to emit the signal.
FetchFailedSilently(pv) ==
    /\ priv' = pv
    /\ UNCHANGED <<failed, proc, table>>

FetchFailed(pv) ==
    /\ Failure
    /\ priv' = pv
    /\ UNCHANGED <<proc, table>>

\* fetch_done_cb for the fetch t.  The generator can answer only while the
\* kill switch lets the daemon reach it.
FetchDone(t) ==
    LET pv == [priv EXCEPT !.fetch = None]
        u == priv.uuid
        p == priv.connection.params
    IN  /\ loop # "down"
        /\ task[t].running
        /\ task' = [task EXCEPT ![t] = FreeTask]
        /\ \/ /\ task[t].cancelled
              /\ UNCHANGED <<failed, priv, proc, table, disk>>
           \/ /\ ~task[t].cancelled
              /\ priv.connection = None
              /\ priv' = pv
              /\ UNCHANGED <<failed, proc, table, disk>>
           \/ /\ ~task[t].cancelled
              /\ priv.connection # None
              /\ Reachable(table, TunnelUp)
              /\ \E w \in IF DiskFaults THEN StoreProgress ELSE {"both"} :
                   /\ disk' = [disk EXCEPT ![u] =
                                 Store(disk[u], task[t].connection.params, p, w)]
                   /\ IF w = "both"
                      THEN UseProfile(pv, disk'[u].config)
                      ELSE FetchFailed(pv)
           \/ /\ ~task[t].cancelled
              /\ priv.connection # None
              /\ UNCHANGED disk
              /\ IF Exists(disk[u], p)
                 THEN UseProfile(pv, disk[u].config)
                 ELSE FetchFailed(pv)
        /\ UNCHANGED <<loop, svc, fail_stop, kill_timers>>

(***************************************************************************)
(* openvpn and its --up helper, which talks to the daemon that owns the    *)
(* bus name and does not say which connection attempt it speaks for.       *)
(***************************************************************************)
\* The helper has delivered SetConfig and the IP configurations it
\* announced: libnm enters STARTED from any other state.
HelperConfig(p) ==
    /\ IsAlive(proc, p)
    /\ proc' = [proc EXCEPT ![p].st = "up"]
    /\ IF loop # "down" /\ svc # "STARTED"
       THEN /\ svc' = "STARTED"
            /\ priv' = [priv EXCEPT !.started = TRUE, !.connect_timer = FALSE]
       ELSE UNCHANGED <<svc, priv>>
    /\ UNCHANGED <<loop, fail_stop, failed, kill_timers, task, table, disk>>

\* An exited child of the daemon waits for its child watch; one whose
\* parent is gone is reaped by init.
Exited(p, status) ==
    IF proc[p].watched
    THEN [proc EXCEPT ![p].st = "exited", ![p].status = status]
    ELSE [proc EXCEPT ![p] = FreeProc]

\* The helper cannot build a configuration: SetFailure, a failed exit, and
\* openvpn gives up because its up script failed.
HelperFailure(p) ==
    /\ IsAlive(proc, p)
    /\ proc' = Exited(p, "error")
    /\ IF loop # "down" THEN Failure ELSE UNCHANGED failed
    /\ UNCHANGED <<loop, svc, fail_stop, priv, kill_timers, task, table, disk>>

\* openvpn exits: on SIGTERM, after losing the peer, or by dying.  A death
\* by signal is an error to openvpn_watch_cb.
OpenvpnExit(p, status) ==
    /\ IsAlive(proc, p)
    /\ proc' = Exited(p, status)
    /\ UNCHANGED <<loop, svc, fail_stop, failed, priv, kill_timers, task, table, disk>>

\* 90 days pass since the profile of u was fetched.
ExpireCache(u) ==
    /\ disk' = [disk EXCEPT ![u] = Expire(disk[u])]
    /\ UNCHANGED <<loop, svc, fail_stop, failed, priv, proc, kill_timers, task, table>>

(***************************************************************************)
(* The daemon's own life.                                                  *)
(***************************************************************************)
\* nm_airvpn_plugin_new: init_sync takes the bus name, which can fail, and
\* only then listens to the plugin's states.
PluginNew == loop' \in {"running", "down"}

\* main up to g_main_loop_run: lift any table, then create the plugin or
\* exit.  The options set QuitsOnStop; ones that do not parse end the
\* process before it has done anything.
Start ==
    /\ loop = "down"
    /\ table' \in Disarmed(table)
    /\ PluginNew
    /\ UNCHANGED <<svc, fail_stop, failed, priv, proc, kill_timers, task, disk>>

\* What is left when the process is gone: no plugin object, no timers, no
\* fetch threads, and orphaned openvpn processes.
Gone(pr) ==
    /\ loop' = "down"
    /\ svc' = "INIT"
    /\ fail_stop' = FALSE
    /\ failed' = FALSE
    /\ priv' = NewPriv
    /\ proc' = [p \in Pids |-> IF IsAlive(pr, p) THEN [pr[p] EXCEPT !.watched = FALSE]
                                                 ELSE FreeProc]
    /\ kill_timers' = {}
    /\ task' = [t \in Tasks |-> FreeTask]

\* main after the loop: dispose runs cleanup_plugin, then exit.
Exit ==
    /\ loop = "quitting"
    /\ Gone(CleanProc(priv, proc))
    /\ table' \in CleanTables(priv, table)
    /\ UNCHANGED disk

\* The daemon is killed, possibly between the two writes of the cache.
Crash ==
    /\ Crashes
    /\ loop # "down"
    /\ Gone(proc)
    /\ \/ UNCHANGED disk
       \/ \E t \in Tasks :
            /\ task[t].running /\ ~task[t].cancelled
            /\ priv.connection # None
            /\ Reachable(table, TunnelUp)
            /\ disk' = [disk EXCEPT ![priv.uuid] =
                          Store(disk[priv.uuid], task[t].connection.params,
                                priv.connection.params, "config_only")]
    /\ UNCHANGED table

Next ==
    \/ \E c \in Connections : Connect(c) \/ NewSecrets(c)
    \/ Disconnect
    \/ FailStop
    \/ ConnectTimeout
    \/ \E t \in Tasks : FetchDone(t)
    \/ \E p \in Pids :
         \/ WatchCb(p)
         \/ EnsureKilled(p)
         \/ HelperConfig(p)
         \/ HelperFailure(p)
         \/ \E status \in {"ok", "error"} : OpenvpnExit(p, status)
    \/ \E u \in Uuids : ExpireCache(u)
    \/ Start
    \/ Exit
    \/ Crash

Spec == Init /\ [][Next]_vars

(***************************************************************************)
(* Fairness.  The GLib main loop dispatches every ready source: finished   *)
(* fetches (libcurl bounds each request by 60 s), timers, child watches    *)
(* and idle sources; and NetworkManager answers a Failure signal with      *)
(* Disconnect, as the comment on unexpected_drop reports.  Nothing is      *)
(* assumed of openvpn, of its helper, of the user or of libnm's own 60 s   *)
(* timer.                                                                  *)
(***************************************************************************)
Fairness ==
    /\ \A t \in Tasks : WF_vars(FetchDone(t))
    /\ \A p \in Pids : WF_vars(WatchCb(p)) /\ WF_vars(EnsureKilled(p))
    /\ WF_vars(ConnectTimeout)
    /\ WF_vars(FailStop)
    /\ WF_vars(Exit)
    /\ WF_vars(failed /\ Disconnect)

FairSpec == Spec /\ Fairness

(***************************************************************************)
(* Properties.                                                             *)
(***************************************************************************)
Current(p) == proc[p].watched /\ IsAlive(proc, p) /\ ~proc[p].term

\* While openvpn runs for a connection with the kill switch on and nobody
\* told it to stop, the kernel holds a table that accepts the remotes of
\* the very profile that openvpn was started with, from before its first
\* handshake (run_openvpn arms before it spawns).
KillSwitchCoversTunnel ==
    \A p \in Pids :
        Current(p) /\ proc[p].connection.kill_switch => proc[p].profile \in table

\* priv->kill_switch_active tells the truth in both directions: what
\* cleanup_plugin and run_openvpn decide by it is what the kernel holds, so
\* a table the daemon armed is never forgotten by it and blocks nobody
\* after the daemon considers the kill switch off.
FlagMatchesTable ==
    loop # "down" => (priv.kill_switch_active <=> table # NoTable)

\* Once STOPPED, nothing of the attempt goes on: no openvpn without a
\* SIGTERM, no fetch that would start one, no timer that would fail the
\* next attempt, and a table only where a dropped tunnel left one.
StoppedIsIdle ==
    svc = "STOPPED" =>
        /\ \A p \in Pids : ~Current(p)
        /\ \A t \in Tasks : task[t].running => task[t].cancelled
        /\ ~priv.connect_timer
        /\ table # NoTable => priv.unexpected_drop

\* A fetch that may still act on the daemon is the one priv->fetch_cancellable
\* cancels, and unless the connection is gone by then ("Disconnected while
\* fetching") it was started for the connection and UUID that fetch_done_cb
\* will store its result under.
FetchMatchesAttempt ==
    \A t \in Tasks :
        task[t].running /\ ~task[t].cancelled =>
            /\ priv.fetch = t
            /\ priv.connection \in {None, task[t].connection}
            /\ priv.uuid = task[t].connection.uuid

\* A connection attempt always has something that ends it: a fetch, the
\* connect timer, a Failure that NetworkManager will act on, or libnm's
\* fail_stop.
AttemptIsWatched ==
    svc = "STARTING" =>
        \/ \E t \in Tasks : priv.fetch = t /\ task[t].running /\ ~task[t].cancelled
        \/ priv.connect_timer
        \/ failed
        \/ fail_stop

\* openvpn runs the profile generated for the parameters of the connection
\* it was started for: the cache's hash, stale and fallback rules and the
\* order of store and launch never hand it another one.
ProfileMatchesConnection ==
    \A p \in Pids :
        proc[p].st # "free" => proc[p].profile = proc[p].connection.params

\* "TRUE if a cached config exists, matches @params": whatever the cache
\* takes for valid was generated for the parameters asked about.
CacheMatchesParams ==
    \A u \in Uuids, p \in Params : IsValid(disk[u], p) => disk[u].config = p

\* At most one openvpn at a time is meant to run.
OneTunnel ==
    \A p, q \in Pids : Current(p) /\ Current(q) => p = q

\* After openvpn died under an established connection, the table stays
\* until a new attempt reaches run_openvpn or the daemon starts again:
\* Disconnect, cleanup, exit and a refused Connect do not lift it.
DropStaysBlocked ==
    [][ priv.unexpected_drop /\ table # NoTable /\ table' = NoTable
        => priv'.connection # None /\ ~priv'.unexpected_drop ]_vars

\* A profile is blamed only for an attempt that never got through: marking
\* stale happens to the UUID being started, never to an established one
\* ("the profile itself was fine") or another one.
StaleOnlyWhileStarting ==
    [][ \A u \in Uuids :
          /\ disk[u].meta # None /\ disk'[u].meta # None
          /\ ~disk[u].meta.stale /\ disk'[u].meta.stale
          => svc = "STARTING" /\ priv.uuid = u ]_vars

\* "the cache is refreshed automatically [...] when a connection attempt
\* fails": an attempt that ends with openvpn launched leaves a cache that
\* the next attempt will not take for valid.
FailedAttemptIsRefreshed ==
    [][ svc = "STARTING" /\ svc' = "STOPPED" /\ priv.pid # None
        => ~IsValid(disk'[priv.uuid], priv.connection.params) ]_vars

\* "so a dropped tunnel can't silently fall back to the regular route": the
\* daemon noticing that the openvpn of an established connection ended, with
\* nobody having told it to, does not lift the table.
LostTunnelStaysBlocked ==
    [][ \A p \in Pids :
          /\ svc = "STARTED" /\ priv.pid = p /\ priv.kill_switch_active
          /\ proc[p].st = "exited" /\ ~proc[p].term /\ proc'[p].st = "free"
          => table' # NoTable ]_vars

\* Every connection attempt ends, established or stopped, even when openvpn
\* hangs, the generator is unreachable or the cache is useless, unless new
\* secrets keep starting it over.
AttemptEnds ==
    <>[][\A c \in Connections : ~NewSecrets(c)]_vars
        => (svc = "STARTING" ~> svc # "STARTING")
==============================================================================
