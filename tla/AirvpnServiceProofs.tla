------------------------- MODULE AirvpnServiceProofs -------------------------
(***************************************************************************)
(* What holds of the daemon for every set of connections, processes and    *)
(* fetches, under --persist or not, with or without failing writes, nft    *)
(* calls and crashes.                                                      *)
(***************************************************************************)
EXTENDS AirvpnService, TLAPS

\* The types of the values the handlers pass around.
Procs == [Pids -> Proc]
Fetches == [Tasks -> Task]
Disks == [Uuids -> Entry]

(***************************************************************************)
(* The building blocks preserve the types.                                 *)
(***************************************************************************)
\* cleanup_plugin leaves a well-formed private structure.
LEMMA CleanPrivType ==
    ASSUME NEW pv \in Priv
    PROVE  CleanPriv(pv) \in Priv
  BY DEF CleanPriv, NewPriv, Priv

\* state_changed_cb leaves a well-formed private structure.
LEMMA IdlePrivType ==
    ASSUME NEW pv \in Priv
    PROVE  IdlePriv(pv) \in Priv
  BY DEF IdlePriv, Priv

\* kill() does not create or destroy a process.
LEMMA TerminateType ==
    ASSUME NEW pr \in Procs, NEW p \in Pids \cup {None}
    PROVE  Terminate(pr, p) \in Procs
<1>1. CASE p \in Pids /\ Terminate(pr, p) = [pr EXCEPT ![p].term = TRUE]
  <2>1. \A q \in Proc : [q EXCEPT !.term = TRUE] \in Proc
    BY DEF Proc
  <2>2. pr[p] \in Proc
    BY <1>1 DEF Procs
  <2>. QED
    BY <1>1, <2>1, <2>2 DEF Procs
<1>2. CASE Terminate(pr, p) = pr
  BY <1>2
<1>. QED
  BY <1>1, <1>2 DEF Terminate

\* A process slot without a process is a process slot.
LEMMA FreeProcType == FreeProc \in Proc
  BY DEF FreeProc, Proc

\* Cancelling a fetch keeps its slot well formed.
LEMMA CleanTaskType ==
    ASSUME NEW pv \in Priv, task \in Fetches
    PROVE  CleanTask(pv) \in Fetches
  BY DEF CleanTask, Fetches, Task, Priv

\* A disarmed table holds no profile it did not hold.
LEMMA DisarmedType ==
    ASSUME NEW tb \in SUBSET Profiles, NEW t \in Disarmed(tb)
    PROVE  t \in SUBSET Profiles
  BY DEF Disarmed, NoTable

\* cleanup_plugin leaves a table of real profiles.
LEMMA CleanTablesType ==
    ASSUME NEW pv, NEW tb \in SUBSET Profiles, NEW t \in CleanTables(pv, tb)
    PROVE  t \in SUBSET Profiles
  BY DisarmedType DEF CleanTables

\* Marking stale leaves a well-formed cache entry.
LEMMA MarkStaleType ==
    ASSUME NEW e \in Entry, NEW w \in BOOLEAN
    PROVE  MarkStale(e, w) \in Entry
  BY DEF MarkStale, Entry, Meta

\* Storing leaves a well-formed cache entry.
LEMMA StoreType ==
    ASSUME NEW e \in Entry, NEW profile \in Profiles, NEW p \in Params, NEW w
    PROVE  Store(e, profile, p, w) \in Entry
  BY DEF Store, Entry, Meta

\* Ageing leaves a well-formed cache entry.
LEMMA ExpireType ==
    ASSUME NEW e \in Entry
    PROVE  Expire(e) \in Entry
  BY DEF Expire, Entry, Meta

\* nm_airvpn_cache_mark_stale touches one entry.
LEMMA MarkedStaleType ==
    ASSUME disk \in Disks, NEW calls, NEW u \in Uuids \cup {None},
           NEW d \in MarkedStale(calls, u)
    PROVE  d \in Disks
  BY MarkStaleType DEF MarkedStale, Disks

(***************************************************************************)
(* run_openvpn.                                                            *)
(***************************************************************************)
\* run_openvpn keeps the types, and changes neither the attempt's
\* connection nor its fetch; it started openvpn only with the timer set.
LEMMA RunOpenvpnType ==
    ASSUME NEW pv \in Priv, pv.connection \in Connections,
           NEW pr \in Procs, NEW tb \in SUBSET Profiles,
           NEW profile \in Profiles, NEW o \in RunOutcomes,
           RunOpenvpn(pv, pr, tb, profile, o)
    PROVE  /\ priv' \in Priv
           /\ proc' \in Procs
           /\ table' \in SUBSET Profiles
           /\ priv'.connection = pv.connection
           /\ priv'.uuid = pv.uuid
           /\ priv'.fetch = pv.fetch
           /\ priv'.started = pv.started
           /\ o = "spawned" => priv'.connect_timer
<1>. DEFINE wanted == pv.connection.kill_switch
            superseded == [pv EXCEPT !.kill_switch_active = FALSE, !.unexpected_drop = FALSE]
            lifted == IF pv.kill_switch_active THEN Disarmed(tb) ELSE {tb}
            armed == IF wanted THEN {Armed(t, profile) : t \in lifted} ELSE lifted
<1>1. wanted \in BOOLEAN
  BY DEF Connections
<1>2. superseded \in Priv
  BY DEF Priv
<1>3. \A t \in lifted : t \in SUBSET Profiles
  BY DisarmedType
<1>4. \A t \in armed : t \in SUBSET Profiles
  BY <1>3 DEF Armed
<1>5. CASE o = "no_binary"
  BY <1>5 DEF RunOpenvpn
<1>6. CASE o = "arm_failed"
  <2>1. priv' = superseded /\ proc' = pr /\ table' \in lifted
    BY <1>6 DEF RunOpenvpn
  <2>. QED
    BY <2>1, <1>2, <1>3, <1>6 DEF Priv
<1>7. CASE o = "spawn_failed"
  <2>1. /\ priv' = superseded /\ proc' = pr
        /\ table' \in IF wanted THEN UNION {Disarmed(t) : t \in armed} ELSE armed
    BY <1>7 DEF RunOpenvpn
  <2>2. table' \in SUBSET Profiles
    BY <2>1, <1>4, DisarmedType
  <2>. QED
    BY <2>1, <2>2, <1>2, <1>7 DEF Priv
<1>8. CASE o = "spawned"
  <2>1. table' \in SUBSET Profiles
    BY <1>8, <1>4 DEF RunOpenvpn
  <2>2. PICK p \in Pids :
          /\ proc' = [pr EXCEPT ![p] = [FreeProc EXCEPT !.st = "handshake",
                                                        !.watched = TRUE,
                                                        !.profile = profile,
                                                        !.connection = pv.connection]]
          /\ priv' = [superseded EXCEPT !.pid = p,
                                        !.kill_switch_active = wanted,
                                        !.connect_timer = TRUE]
    BY <1>8 DEF RunOpenvpn
  <2>3. proc' \in Procs
    BY <2>2 DEF Procs, Proc, FreeProc
  <2>. QED
    BY <2>1, <2>2, <2>3, <1>1 DEF Priv
<1>. QED
  BY <1>5, <1>6, <1>7, <1>8 DEF RunOutcomes

(***************************************************************************)
(* The inductive invariant.                                                *)
(***************************************************************************)
\* state_changed_cb and cleanup_plugin clear the connection no later than
\* the UUID, and both are set together.
ConnectionInv == priv.connection # None => priv.uuid = priv.connection.uuid

\* No plugin object without a process.
DownInv == loop = "down" => priv = NewPriv

\* fetch_cancellable is set exactly while an uncancelled fetch runs.
FetchInv ==
    /\ FetchMatchesAttempt
    /\ priv.fetch # None => task[priv.fetch].running /\ ~task[priv.fetch].cancelled

\* What is known while a connection attempt is going on.
AttemptInv ==
    svc = "STARTING" =>
        /\ priv.connection # None
        /\ ~priv.started
        /\ priv.fetch # None \/ priv.connect_timer \/ failed \/ fail_stop

IndInv == TypeOK /\ ConnectionInv /\ DownInv /\ FetchInv /\ AttemptInv

\* After cleanup_plugin no fetch is left that would act on the daemon.
LEMMA CleanTaskCancels ==
    ASSUME TypeOK, FetchInv
    PROVE  \A t \in Tasks : CleanTask(priv)[t].running => CleanTask(priv)[t].cancelled
<1>. SUFFICES ASSUME NEW t \in Tasks, CleanTask(priv)[t].running
              PROVE  CleanTask(priv)[t].cancelled
  OBVIOUS
<1>1. task \in [Tasks -> Task] /\ priv \in Priv
  BY DEF TypeOK
<1>2. CASE priv.fetch = t
  <2>1. CleanTask(priv) = [task EXCEPT ![t].cancelled = TRUE]
    BY <1>2, ServiceAssumption DEF CleanTask
  <2>. QED
    BY <1>1, <2>1 DEF Task
<1>3. CASE priv.fetch # t
  <2>1. CleanTask(priv)[t] = task[t]
    BY <1>1, <1>3 DEF CleanTask
  <2>. QED
    BY <1>3, <2>1 DEF FetchInv, FetchMatchesAttempt
<1>. QED
  BY <1>2, <1>3

\* An entry that check_cache accepts has a profile.
LEMMA CheckedProfile ==
    ASSUME NEW e \in Entry, NEW p, NEW accept_stale, CheckCache(e, p, accept_stale)
    PROVE  e.config \in Profiles
  BY DEF CheckCache, Entry

\* _connect_common past its validation: it works on the new connection
\* alone, and when it succeeds a fetch or the connect timer is running.
LEMMA ConnectAcceptedStep ==
    ASSUME IndInv, NEW c \in Connections, NEW ok \in BOOLEAN, ConnectAccepted(c, ok)
    PROVE  /\ priv' \in Priv
           /\ proc' \in Procs
           /\ kill_timers' \in SUBSET Pids
           /\ task' \in Fetches
           /\ table' \in SUBSET Profiles
           /\ disk' = disk
           /\ ConnectionInv'
           /\ FetchInv'
           /\ priv'.connection # None
           /\ ~priv'.started
           /\ ok => priv'.fetch # None \/ priv'.connect_timer
<1>. DEFINE fresh == [CleanPriv(priv) EXCEPT !.connection = c, !.uuid = c.uuid]
            pr == CleanProc(priv, proc)
<1>1. /\ priv \in Priv /\ proc \in Procs /\ task \in Fetches
      /\ table \in SUBSET Profiles /\ disk \in Disks /\ kill_timers \in SUBSET Pids
  BY DEF IndInv, TypeOK, Procs, Fetches, Disks
<1>2. c.uuid \in Uuids /\ c.params \in Params /\ c # None
  <2>1. c # None
    BY ConnectionsAssumption
  <2>. QED
    BY <2>1 DEF Connections
<1>3. /\ fresh \in Priv /\ fresh.connection = c /\ fresh.uuid = c.uuid
      /\ fresh.fetch = None /\ ~fresh.started
  <2>1. CleanPriv(priv) \in Priv
    BY <1>1, CleanPrivType
  <2>2. fresh \in Priv /\ fresh.connection = c /\ fresh.uuid = c.uuid
    BY <1>2, <2>1 DEF Priv
  <2>3. fresh.fetch = CleanPriv(priv).fetch /\ fresh.started = CleanPriv(priv).started
    BY <2>1 DEF Priv
  <2>4. CleanPriv(priv).fetch = None /\ CleanPriv(priv).started = FALSE
    BY DEF CleanPriv, NewPriv
  <2>. QED
    BY <2>2, <2>3, <2>4
<1>4. pr \in Procs
  BY <1>1, TerminateType DEF CleanProc, Priv
<1>5. kill_timers' \in SUBSET Pids
  BY <1>1 DEF ConnectAccepted, CleanKillTimers, Priv
<1>6. CleanTask(priv) \in Fetches
  BY <1>1, CleanTaskType
<1>7. \A t \in Tasks : CleanTask(priv)[t].running => CleanTask(priv)[t].cancelled
  BY CleanTaskCancels DEF IndInv
<1>8. disk' = disk
  BY DEF ConnectAccepted
<1>9. PICK tb \in CleanTables(priv, table) :
        \/ /\ ~ok
           /\ priv' = fresh /\ proc' = pr /\ table' = tb
           /\ task' = CleanTask(priv)
        \/ /\ IsValid(disk[c.uuid], c.params)
           /\ task' = CleanTask(priv)
           /\ \E o \in RunOutcomes :
                /\ ok = (o = "spawned")
                /\ RunOpenvpn(fresh, pr, tb, disk[c.uuid].config, o)
        \/ /\ proc' = pr /\ table' = tb
           /\ \E t \in Tasks :
                /\ ~task[t].running
                /\ priv' = [fresh EXCEPT !.fetch = t]
                /\ task' = [CleanTask(priv) EXCEPT ![t] =
                              [running |-> TRUE, cancelled |-> FALSE, connection |-> c]]
  BY DEF ConnectAccepted
<1>10. tb \in SUBSET Profiles
  BY <1>1, CleanTablesType
<1>11. CASE ~ok /\ priv' = fresh /\ proc' = pr /\ table' = tb /\ task' = CleanTask(priv)
  <2>1. FetchInv'
    BY <1>3, <1>7, <1>11 DEF FetchInv, FetchMatchesAttempt
  <2>. QED
    BY <2>1, <1>2, <1>3, <1>4, <1>5, <1>6, <1>8, <1>10, <1>11 DEF ConnectionInv
<1>12. ASSUME IsValid(disk[c.uuid], c.params), task' = CleanTask(priv),
              NEW o \in RunOutcomes, ok = (o = "spawned"),
              RunOpenvpn(fresh, pr, tb, disk[c.uuid].config, o)
       PROVE  /\ priv' \in Priv /\ proc' \in Procs /\ task' \in Fetches
              /\ table' \in SUBSET Profiles
              /\ priv'.connection = c /\ priv'.uuid = c.uuid /\ ~priv'.started
              /\ FetchInv'
              /\ ok => priv'.connect_timer
  <2>1. disk[c.uuid].config \in Profiles
    BY <1>1, <1>2, <1>12, CheckedProfile DEF IsValid, Disks
  <2>. HIDE DEF fresh, pr
  <2>2. /\ priv' \in Priv /\ proc' \in Procs /\ table' \in SUBSET Profiles
        /\ priv'.connection = c /\ priv'.uuid = c.uuid /\ priv'.fetch = None
        /\ ~priv'.started
        /\ ok => priv'.connect_timer
    BY <1>3, <1>4, <1>10, <1>12, <2>1, RunOpenvpnType
  <2>3. FetchInv'
    BY <1>7, <1>12, <2>2 DEF FetchInv, FetchMatchesAttempt
  <2>. QED
    BY <1>6, <1>12, <2>2, <2>3
<1>13. ASSUME proc' = pr, table' = tb, NEW t \in Tasks,
              priv' = [fresh EXCEPT !.fetch = t],
              task' = [CleanTask(priv) EXCEPT ![t] =
                         [running |-> TRUE, cancelled |-> FALSE, connection |-> c]]
       PROVE  /\ priv' \in Priv /\ proc' \in Procs /\ task' \in Fetches
              /\ table' \in SUBSET Profiles
              /\ priv'.connection = c /\ priv'.uuid = c.uuid /\ ~priv'.started
              /\ FetchInv'
              /\ priv'.fetch # None
  <2>1. /\ priv' \in Priv
        /\ priv'.connection = c /\ priv'.uuid = c.uuid /\ ~priv'.started
        /\ priv'.fetch = t /\ t # None
    BY <1>3, <1>13, ServiceAssumption DEF Priv
  <2>2. task' \in Fetches
    BY <1>6, <1>13 DEF Fetches, Task
  <2>3. task'[t] = [running |-> TRUE, cancelled |-> FALSE, connection |-> c]
    BY <1>6, <1>13 DEF Fetches
  <2>4. \A s \in Tasks \ {t} : task'[s] = CleanTask(priv)[s]
    BY <1>6, <1>13 DEF Fetches
  <2>5. FetchMatchesAttempt'
    BY <1>7, <2>1, <2>3, <2>4 DEF FetchMatchesAttempt
  <2>6. FetchInv'
    BY <2>1, <2>3, <2>5 DEF FetchInv
  <2>. QED
    BY <1>4, <1>10, <1>13, <2>1, <2>2, <2>6
<1>. QED
  BY <1>2, <1>5, <1>8, <1>9, <1>11, <1>12, <1>13 DEF ConnectionInv

\* nm_vpn_service_plugin_disconnect, from a Disconnect call or from
\* openvpn_watch_cb, which may have changed pid, timer and drop flag first.
LEMMA PluginDisconnectStep ==
    ASSUME IndInv, loop # "down", fail_stop' = fail_stop,
           NEW pv \in Priv, pv.fetch = priv.fetch,
           pv.uuid = priv.uuid, pv.connection = priv.connection,
           NEW pr \in Procs, PluginDisconnect(pv, pr)
    PROVE  IndInv'
<1>1. /\ priv \in Priv /\ task \in Fetches /\ table \in SUBSET Profiles
      /\ disk \in Disks /\ kill_timers \in SUBSET Pids /\ TypeOK
  BY DEF IndInv, TypeOK, Fetches, Disks
<1>2. CASE svc \notin Active
  <2>1. /\ priv' = pv /\ proc' = pr
        /\ UNCHANGED <<loop, svc, failed, kill_timers, task, table, disk>>
    BY <1>2 DEF PluginDisconnect
  <2>2. TypeOK'
    BY <1>1, <2>1 DEF TypeOK, Procs
  <2>3. ConnectionInv' /\ DownInv'
    BY <2>1 DEF IndInv, ConnectionInv, DownInv
  <2>4. FetchInv'
    BY <2>1 DEF IndInv, FetchInv, FetchMatchesAttempt
  <2>5. AttemptInv'
    BY <1>2, <2>1 DEF AttemptInv, Active
  <2>. QED
    BY <2>2, <2>3, <2>4, <2>5 DEF IndInv
<1>3. CASE svc \in Active
  <2>1. /\ disk' \in MarkedStale(pv.pid # None /\ ~pv.started, pv.uuid)
        /\ priv' = CleanPriv(IdlePriv(pv))
        /\ proc' = CleanProc(pv, pr)
        /\ kill_timers' = CleanKillTimers(pv)
        /\ task' = CleanTask(pv)
        /\ table' \in CleanTables(pv, table)
        /\ EnterStopped
    BY <1>3 DEF PluginDisconnect
  <2>2. /\ svc' = "STOPPED" /\ failed' = FALSE
        /\ loop' \in {"quitting", loop}
    BY <2>1 DEF EnterStopped
  <2>3. priv' \in Priv
    BY <2>1, CleanPrivType, IdlePrivType
  <2>4. priv'.fetch = None /\ priv'.connection = None
    BY <2>1 DEF CleanPriv, NewPriv
  <2>5. CleanTask(pv) = CleanTask(priv)
    BY DEF CleanTask
  <2>6. TypeOK'
    <3>1. proc' \in Procs
      BY <2>1, TerminateType DEF CleanProc, Priv
    <3>2. kill_timers' \in SUBSET Pids
      BY <1>1, <2>1 DEF CleanKillTimers, Priv
    <3>3. task' \in Fetches
      BY <1>1, <2>1, CleanTaskType
    <3>4. table' \in SUBSET Profiles
      BY <1>1, <2>1, CleanTablesType
    <3>5. disk' \in Disks
      <4>1. pv.uuid \in Uuids \cup {None}
        BY DEF Priv
      <4>. QED
        BY <1>1, <2>1, <4>1, MarkedStaleType
    <3>. QED
      BY <1>1, <2>2, <2>3, <3>1, <3>2, <3>3, <3>4, <3>5 DEF TypeOK, Procs, Fetches, Disks
  <2>7. FetchInv'
    <3>1. \A t \in Tasks : task'[t].running => task'[t].cancelled
      BY <2>1, <2>5, CleanTaskCancels DEF IndInv
    <3>. QED
      BY <2>4, <3>1 DEF FetchInv, FetchMatchesAttempt
  <2>8. ConnectionInv' /\ DownInv' /\ AttemptInv'
    BY <2>2, <2>4 DEF ConnectionInv, DownInv, AttemptInv
  <2>. QED
    BY <2>6, <2>7, <2>8 DEF IndInv
<1>. QED
  BY <1>2, <1>3

(***************************************************************************)
(* One lemma per action.                                                   *)
(***************************************************************************)
\* Connect starts an attempt that something ends, or none.
LEMMA ConnectStep ==
    ASSUME IndInv, NEW c \in Connections, Connect(c)
    PROVE  IndInv'
<1>1. TypeOK
  BY DEF IndInv
<1>2. PICK ok \in BOOLEAN :
        /\ fail_stop' = ~ok
        /\ svc' = IF ok THEN "STARTING" ELSE svc
        /\ (~ok /\ ConnectRefused) \/ ConnectAccepted(c, ok)
  BY DEF Connect
<1>3. /\ loop = "running" /\ loop' = loop /\ failed' = failed
      /\ svc \in {"INIT", "STOPPED"}
  BY DEF Connect
<1>4. CASE ~ok /\ ConnectRefused
  <2>1. UNCHANGED <<priv, proc, kill_timers, task, table, disk, svc>>
    BY <1>2, <1>4 DEF ConnectRefused
  <2>2. TypeOK'
    BY <1>1, <1>2, <1>3, <2>1 DEF TypeOK
  <2>3. ConnectionInv' /\ DownInv' /\ AttemptInv'
    BY <1>3, <2>1 DEF IndInv, ConnectionInv, DownInv, AttemptInv
  <2>4. FetchInv'
    BY <2>1 DEF IndInv, FetchInv, FetchMatchesAttempt
  <2>. QED
    BY <2>2, <2>3, <2>4 DEF IndInv
<1>5. CASE ConnectAccepted(c, ok)
  <2>1. /\ priv' \in Priv /\ proc' \in Procs /\ kill_timers' \in SUBSET Pids
        /\ task' \in Fetches /\ table' \in SUBSET Profiles /\ disk' = disk
        /\ ConnectionInv' /\ FetchInv'
        /\ priv'.connection # None /\ ~priv'.started
        /\ ok => priv'.fetch # None \/ priv'.connect_timer
    BY <1>5, ConnectAcceptedStep
  <2>2. TypeOK'
    BY <1>1, <1>2, <1>3, <2>1 DEF TypeOK, Procs, Fetches
  <2>3. DownInv' /\ AttemptInv'
    BY <1>2, <1>3, <2>1 DEF DownInv, AttemptInv
  <2>. QED
    BY <2>1, <2>2, <2>3 DEF IndInv
<1>. QED
  BY <1>2, <1>4, <1>5

\* NewSecrets replaces what the attempt was waiting for, or schedules its
\* end.
LEMMA NewSecretsStep ==
    ASSUME IndInv, NEW c \in Connections, NewSecrets(c)
    PROVE  IndInv'
<1>1. TypeOK
  BY DEF IndInv
<1>2. PICK ok \in BOOLEAN :
        /\ fail_stop' = (fail_stop \/ ~ok)
        /\ (~ok /\ ConnectRefused) \/ ConnectAccepted(c, ok)
  BY DEF NewSecrets
<1>3. loop = "running" /\ UNCHANGED <<loop, svc, failed>>
  BY DEF NewSecrets
<1>4. CASE ~ok /\ ConnectRefused
  <2>1. UNCHANGED <<priv, proc, kill_timers, task, table, disk>> /\ fail_stop' = TRUE
    BY <1>2, <1>4 DEF ConnectRefused
  <2>2. TypeOK'
    BY <1>1, <1>3, <2>1 DEF TypeOK
  <2>3. ConnectionInv' /\ DownInv' /\ AttemptInv'
    BY <1>3, <2>1 DEF IndInv, ConnectionInv, DownInv, AttemptInv
  <2>4. FetchInv'
    BY <2>1 DEF IndInv, FetchInv, FetchMatchesAttempt
  <2>. QED
    BY <2>2, <2>3, <2>4 DEF IndInv
<1>5. CASE ConnectAccepted(c, ok)
  <2>1. /\ priv' \in Priv /\ proc' \in Procs /\ kill_timers' \in SUBSET Pids
        /\ task' \in Fetches /\ table' \in SUBSET Profiles /\ disk' = disk
        /\ ConnectionInv' /\ FetchInv'
        /\ priv'.connection # None /\ ~priv'.started
        /\ ok => priv'.fetch # None \/ priv'.connect_timer
    BY <1>5, ConnectAcceptedStep
  <2>2. TypeOK'
    BY <1>1, <1>2, <1>3, <2>1 DEF TypeOK, Procs, Fetches
  <2>3. DownInv' /\ AttemptInv'
    BY <1>2, <1>3, <2>1 DEF DownInv, AttemptInv
  <2>. QED
    BY <2>1, <2>2, <2>3 DEF IndInv
<1>. QED
  BY <1>2, <1>4, <1>5

\* Disconnect ends the attempt.
LEMMA DisconnectStep ==
    ASSUME IndInv, Disconnect
    PROVE  IndInv'
<1>1. priv \in Priv /\ proc \in Procs
  BY DEF IndInv, TypeOK, Procs
<1>2. loop # "down" /\ fail_stop' = fail_stop /\ PluginDisconnect(priv, proc)
  BY DEF Disconnect
<1>. QED
  BY <1>1, <1>2, PluginDisconnectStep

\* libnm's fail_stop takes the connection away but not the fetch.
LEMMA FailStopStep ==
    ASSUME IndInv, FailStop
    PROVE  IndInv'
<1>1. TypeOK /\ priv \in Priv
  BY DEF IndInv, TypeOK
<1>2. /\ loop # "down" /\ fail_stop' = FALSE
      /\ UNCHANGED <<proc, kill_timers, task, table, disk>>
  BY DEF FailStop
<1>3. CASE svc = "STOPPED"
  <2>1. UNCHANGED <<loop, svc, failed, priv>>
    BY <1>3 DEF FailStop
  <2>. QED
    BY <1>1, <1>2, <1>3, <2>1
    DEF IndInv, TypeOK, ConnectionInv, DownInv, FetchInv, FetchMatchesAttempt, AttemptInv
<1>4. CASE svc # "STOPPED"
  <2>1. /\ priv' = IdlePriv(priv) /\ svc' = "STOPPED" /\ failed' = FALSE
        /\ loop' \in {"quitting", loop}
    BY <1>4 DEF FailStop, EnterStopped
  <2>2. /\ priv' \in Priv /\ priv'.connection = None
        /\ priv'.fetch = priv.fetch /\ priv'.uuid = priv.uuid
    BY <1>1, <2>1, IdlePrivType DEF IdlePriv, Priv
  <2>3. TypeOK'
    BY <1>1, <1>2, <2>1, <2>2 DEF TypeOK
  <2>4. FetchInv'
    BY <1>2, <2>2 DEF IndInv, FetchInv, FetchMatchesAttempt
  <2>5. ConnectionInv' /\ DownInv' /\ AttemptInv'
    BY <1>2, <2>1, <2>2 DEF ConnectionInv, DownInv, AttemptInv
  <2>. QED
    BY <2>3, <2>4, <2>5 DEF IndInv
<1>. QED
  BY <1>3, <1>4

\* openvpn_watch_cb fails or disconnects an attempt whose openvpn, or
\* another one, has exited.
LEMMA WatchCbStep ==
    ASSUME IndInv, NEW p \in Pids, WatchCb(p)
    PROVE  IndInv'
<1>. DEFINE pv == [priv EXCEPT !.pid = None, !.connect_timer = FALSE]
<1>1. TypeOK /\ priv \in Priv /\ proc \in Procs
  BY DEF IndInv, TypeOK, Procs
<1>2. /\ pv \in Priv /\ pv.fetch = priv.fetch /\ pv.uuid = priv.uuid
      /\ pv.connection = priv.connection /\ pv.started = priv.started
  BY <1>1 DEF Priv
<1>3. loop # "down" /\ fail_stop' = fail_stop
  BY DEF WatchCb
<1>4. PICK pr \in ReapedProcs(p) :
        \/ /\ ~priv.started
           /\ disk' \in MarkedStale(TRUE, priv.uuid)
           /\ Failure
           /\ priv' = pv /\ proc' = pr
           /\ UNCHANGED <<loop, svc, kill_timers, task, table>>
        \/ /\ priv.started
           /\ Failure
           /\ priv' = [pv EXCEPT !.unexpected_drop = TRUE] /\ proc' = pr
           /\ UNCHANGED <<loop, svc, kill_timers, task, table, disk>>
        \/ PluginDisconnect(pv, pr)
  BY DEF WatchCb
<1>5. pr \in Procs
  <2>1. [proc EXCEPT ![p] = FreeProc] \in Procs
    BY <1>1, FreeProcType DEF Procs
  <2>2. \A q \in Pids : [[proc EXCEPT ![p] = FreeProc] EXCEPT ![q].status = "ok"] \in Procs
    BY <2>1 DEF Procs, Proc
  <2>3. \A q \in Stealable(p) : q \in Pids
    BY DEF Stealable
  <2>. QED
    BY <2>1, <2>2, <2>3 DEF ReapedProcs
<1>6. CASE /\ ~priv.started
           /\ disk' \in MarkedStale(TRUE, priv.uuid)
           /\ Failure
           /\ priv' = pv /\ proc' = pr
           /\ UNCHANGED <<loop, svc, kill_timers, task, table>>
  <2>1. disk' \in Disks
    BY <1>1, <1>6, MarkedStaleType DEF TypeOK, Disks, Priv
  <2>2. failed' \in BOOLEAN /\ (svc = "STARTING" => failed')
    BY <1>6 DEF Failure, Active
  <2>3. TypeOK'
    BY <1>1, <1>2, <1>3, <1>5, <1>6, <2>1, <2>2 DEF TypeOK, Procs, Disks
  <2>4. FetchInv'
    BY <1>2, <1>6 DEF IndInv, FetchInv, FetchMatchesAttempt
  <2>5. ConnectionInv' /\ DownInv' /\ AttemptInv'
    BY <1>2, <1>3, <1>6, <2>2 DEF IndInv, ConnectionInv, DownInv, AttemptInv
  <2>. QED
    BY <2>3, <2>4, <2>5 DEF IndInv
<1>7. CASE /\ priv.started
           /\ Failure
           /\ priv' = [pv EXCEPT !.unexpected_drop = TRUE] /\ proc' = pr
           /\ UNCHANGED <<loop, svc, kill_timers, task, table, disk>>
  <2>1. /\ priv' \in Priv /\ priv'.fetch = priv.fetch /\ priv'.uuid = priv.uuid
        /\ priv'.connection = priv.connection
    BY <1>2, <1>7 DEF Priv
  <2>2. failed' \in BOOLEAN
    BY <1>7 DEF Failure
  <2>3. TypeOK'
    BY <1>1, <1>3, <1>5, <1>7, <2>1, <2>2 DEF TypeOK, Procs
  <2>4. FetchInv'
    BY <1>7, <2>1 DEF IndInv, FetchInv, FetchMatchesAttempt
  <2>5. ConnectionInv' /\ DownInv' /\ AttemptInv'
    BY <1>3, <1>7, <2>1 DEF IndInv, ConnectionInv, DownInv, AttemptInv
  <2>. QED
    BY <2>3, <2>4, <2>5 DEF IndInv
<1>8. CASE PluginDisconnect(pv, pr)
  BY <1>2, <1>3, <1>5, <1>8, PluginDisconnectStep
<1>. QED
  BY <1>4, <1>6, <1>7, <1>8

\* connect_timeout_cb fails an attempt that has not been established.
LEMMA ConnectTimeoutStep ==
    ASSUME IndInv, ConnectTimeout
    PROVE  IndInv'
<1>1. TypeOK /\ priv \in Priv /\ proc \in Procs
  BY DEF IndInv, TypeOK, Procs
<1>2. /\ loop # "down"
      /\ priv' = [priv EXCEPT !.connect_timer = FALSE]
      /\ UNCHANGED <<loop, svc, fail_stop, kill_timers, task, table>>
  BY DEF ConnectTimeout
<1>3. /\ priv' \in Priv /\ priv'.fetch = priv.fetch /\ priv'.uuid = priv.uuid
      /\ priv'.connection = priv.connection /\ priv'.started = priv.started
  BY <1>1, <1>2 DEF Priv
<1>4. /\ proc' \in Procs /\ disk' \in Disks /\ failed' \in BOOLEAN
      /\ svc = "STARTING" /\ ~priv.started => failed'
  <2>1. CASE priv.started
    BY <1>1, <2>1 DEF ConnectTimeout, TypeOK, Disks
  <2>2. CASE ~priv.started
    <3>1. /\ proc' = Terminate(proc, priv.pid)
          /\ disk' \in MarkedStale(TRUE, priv.uuid)
          /\ Failure
      BY <2>2 DEF ConnectTimeout
    <3>2. proc' \in Procs
      BY <1>1, <3>1, TerminateType DEF Priv
    <3>3. disk' \in Disks
      BY <1>1, <3>1, MarkedStaleType DEF TypeOK, Disks, Priv
    <3>. QED
      BY <3>1, <3>2, <3>3 DEF Failure, Active
  <2>. QED
    BY <2>1, <2>2
<1>5. TypeOK'
  BY <1>1, <1>2, <1>3, <1>4 DEF TypeOK, Procs, Disks
<1>6. FetchInv'
  BY <1>2, <1>3 DEF IndInv, FetchInv, FetchMatchesAttempt
<1>7. ConnectionInv' /\ DownInv' /\ AttemptInv'
  BY <1>2, <1>3, <1>4 DEF IndInv, ConnectionInv, DownInv, AttemptInv
<1>. QED
  BY <1>5, <1>6, <1>7 DEF IndInv

\* fetch_done_cb with a usable profile: openvpn runs under the connect
\* timer, or NetworkManager hears of the failure.
LEMMA UseProfileStep ==
    ASSUME IndInv, NEW pv \in Priv, pv.connection \in Connections,
           NEW profile \in Profiles, UseProfile(pv, profile)
    PROVE  /\ priv' \in Priv /\ proc' \in Procs /\ table' \in SUBSET Profiles
           /\ failed' \in BOOLEAN
           /\ priv'.connection = pv.connection /\ priv'.uuid = pv.uuid
           /\ priv'.fetch = pv.fetch /\ priv'.started = pv.started
           /\ svc = "STARTING" => priv'.connect_timer \/ failed'
<1>1. proc \in Procs /\ table \in SUBSET Profiles /\ failed \in BOOLEAN
  BY DEF IndInv, TypeOK, Procs
<1>2. PICK o \in RunOutcomes :
        /\ RunOpenvpn(pv, proc, table, profile, o)
        /\ IF o = "spawned" THEN UNCHANGED failed ELSE Failure
  BY DEF UseProfile
<1>3. /\ priv' \in Priv /\ proc' \in Procs /\ table' \in SUBSET Profiles
      /\ priv'.connection = pv.connection /\ priv'.uuid = pv.uuid
      /\ priv'.fetch = pv.fetch /\ priv'.started = pv.started
      /\ o = "spawned" => priv'.connect_timer
  BY <1>1, <1>2, RunOpenvpnType
<1>4. failed' \in BOOLEAN /\ (o # "spawned" /\ svc = "STARTING" => failed')
  BY <1>1, <1>2 DEF Failure, Active
<1>. QED
  BY <1>3, <1>4

\* A finished fetch launches openvpn, fails the attempt, or was cancelled.
LEMMA FetchDoneStep ==
    ASSUME IndInv, NEW t \in Tasks, FetchDone(t)
    PROVE  IndInv'
<1>. DEFINE pv == [priv EXCEPT !.fetch = None]
            u == priv.uuid
            p == priv.connection.params
<1>1. /\ TypeOK /\ priv \in Priv /\ proc \in Procs /\ task \in Fetches /\ disk \in Disks
      /\ table \in SUBSET Profiles /\ failed \in BOOLEAN
  BY DEF IndInv, TypeOK, Procs, Fetches, Disks
<1>2. /\ loop # "down" /\ task[t].running
      /\ task' = [task EXCEPT ![t] = FreeTask]
      /\ UNCHANGED <<loop, svc, fail_stop, kill_timers>>
  BY DEF FetchDone
<1>3. /\ task' \in Fetches /\ ~task'[t].running
      /\ \A s \in Tasks \ {t} : task'[s] = task[s]
  BY <1>1, <1>2 DEF Fetches, Task, FreeTask
<1>4. CASE /\ task[t].cancelled
           /\ UNCHANGED <<failed, priv, proc, table, disk>>
  <2>1. priv.fetch # t
    BY <1>4, ServiceAssumption DEF IndInv, FetchInv
  <2>2. FetchMatchesAttempt'
    BY <1>3, <1>4 DEF IndInv, FetchInv, FetchMatchesAttempt
  <2>3. FetchInv'
    <3>1. priv.fetch # None => priv.fetch \in Tasks \ {t}
      BY <1>1, <2>1 DEF Priv
    <3>. QED
      BY <1>3, <1>4, <2>2, <3>1 DEF IndInv, FetchInv
  <2>4. TypeOK'
    BY <1>1, <1>2, <1>3, <1>4 DEF TypeOK, Fetches
  <2>5. ConnectionInv' /\ DownInv' /\ AttemptInv'
    BY <1>2, <1>4 DEF IndInv, ConnectionInv, DownInv, AttemptInv
  <2>. QED
    BY <2>3, <2>4, <2>5 DEF IndInv
<1>5. CASE ~task[t].cancelled
  <2>1. priv.fetch = t /\ priv.connection \in {None, task[t].connection}
    BY <1>2, <1>5 DEF IndInv, FetchInv, FetchMatchesAttempt
  <2>2. \A s \in Tasks : task'[s].running => task'[s].cancelled
    BY <1>3, <2>1 DEF IndInv, FetchInv, FetchMatchesAttempt
  <2>3. /\ pv \in Priv /\ pv.fetch = None /\ pv.connection = priv.connection
        /\ pv.uuid = priv.uuid /\ pv.started = priv.started
    BY <1>1 DEF Priv
  <2>4. ASSUME /\ priv' \in Priv /\ proc' \in Procs /\ table' \in SUBSET Profiles
               /\ failed' \in BOOLEAN /\ disk' \in Disks
               /\ priv'.connection = priv.connection /\ priv'.uuid = priv.uuid
               /\ priv'.fetch = None /\ priv'.started = priv.started
               /\ svc = "STARTING" => priv'.connect_timer \/ failed'
        PROVE  IndInv'
    <3>1. TypeOK'
      BY <1>1, <1>2, <1>3, <2>4 DEF TypeOK, Procs, Fetches, Disks
    <3>2. FetchInv'
      BY <2>2, <2>4 DEF FetchInv, FetchMatchesAttempt
    <3>3. ConnectionInv' /\ DownInv' /\ AttemptInv'
      BY <1>2, <2>4 DEF IndInv, ConnectionInv, DownInv, AttemptInv
    <3>. QED
      BY <3>1, <3>2, <3>3 DEF IndInv
  <2>5. CASE /\ priv.connection = None
             /\ priv' = pv
             /\ UNCHANGED <<failed, proc, table, disk>>
    <3>1. svc # "STARTING"
      BY <2>5 DEF IndInv, AttemptInv
    <3>. QED
      BY <1>1, <2>3, <2>4, <2>5, <3>1
  <2>6. ASSUME FetchFailed(pv), disk' \in Disks
        PROVE  IndInv'
    <3>1. /\ failed' \in BOOLEAN /\ (svc = "STARTING" => failed')
          /\ priv' = pv /\ UNCHANGED <<proc, table>>
      BY <1>1, <2>6 DEF FetchFailed, Failure, Active
    <3>. QED
      BY <1>1, <2>3, <2>4, <2>6, <3>1
  <2>7. ASSUME NEW profile \in Profiles, UseProfile(pv, profile),
               priv.connection # None, disk' \in Disks
        PROVE  IndInv'
    <3>1. pv.connection \in Connections
      BY <1>1, <2>3, <2>7 DEF Priv
    <3>. QED
      BY <2>3, <2>4, <2>7, <3>1, UseProfileStep
  <2>8. ASSUME priv.connection # None
        PROVE  u \in Uuids /\ p \in Params
    <3>1. priv.connection \in Connections /\ u = priv.connection.uuid
      BY <1>1, <2>8 DEF IndInv, ConnectionInv, Priv
    <3>. QED
      BY <3>1 DEF Connections
  <2>9. CASE /\ priv.connection # None
             /\ \E w \in IF DiskFaults THEN StoreProgress ELSE {"both"} :
                  /\ disk' = [disk EXCEPT ![u] =
                                Store(disk[u], task[t].connection.params, p, w)]
                  /\ IF w = "both"
                     THEN UseProfile(pv, disk'[u].config)
                     ELSE FetchFailed(pv)
    <3>1. PICK w : /\ disk' = [disk EXCEPT ![u] =
                                 Store(disk[u], task[t].connection.params, p, w)]
                   /\ IF w = "both"
                      THEN UseProfile(pv, disk'[u].config)
                      ELSE FetchFailed(pv)
      BY <2>9
    <3>2. u \in Uuids /\ p \in Params /\ task[t].connection.params = p
      BY <2>1, <2>8, <2>9
    <3>3. disk[u] \in Entry
      BY <1>1, <3>2 DEF Disks
    <3>4. disk' \in Disks
      <4>1. Store(disk[u], task[t].connection.params, p, w) \in Entry
        BY <3>2, <3>3, StoreType DEF Profiles
      <4>. QED
        BY <1>1, <3>1, <3>2, <4>1 DEF Disks
    <3>5. CASE w = "both"
      <4>1. disk'[u].config = p
        BY <1>1, <3>1, <3>2, <3>5 DEF Store, Disks
      <4>. QED
        BY <2>7, <2>9, <3>1, <3>2, <3>4, <3>5, <4>1 DEF Profiles
    <3>6. CASE w # "both"
      BY <2>6, <3>1, <3>4, <3>6
    <3>. QED
      BY <3>5, <3>6
  <2>10. CASE /\ priv.connection # None
              /\ UNCHANGED disk
              /\ IF Exists(disk[u], p)
                 THEN UseProfile(pv, disk[u].config)
                 ELSE FetchFailed(pv)
    <3>1. disk' \in Disks
      BY <1>1, <2>10
    <3>2. CASE Exists(disk[u], p)
      <4>1. disk[u].config \in Profiles
        BY <1>1, <2>8, <2>10, <3>2, CheckedProfile DEF Exists, Disks
      <4>. QED
        BY <2>7, <2>10, <3>1, <3>2, <4>1
    <3>3. CASE ~Exists(disk[u], p)
      BY <2>6, <2>10, <3>1, <3>3
    <3>. QED
      BY <3>2, <3>3
  <2>. QED
    BY <1>5, <2>5, <2>9, <2>10 DEF FetchDone
<1>. QED
  BY <1>4, <1>5 DEF FetchDone

\* ensure_killed, openvpn and its helper do not touch what an attempt hangs
\* on, except by establishing or failing it.
LEMMA ProcessStep ==
    ASSUME IndInv, NEW p \in Pids, NEW status \in {"ok", "error"},
           \/ EnsureKilled(p) \/ HelperConfig(p)
           \/ HelperFailure(p) \/ OpenvpnExit(p, status)
    PROVE  IndInv'
<1>1. TypeOK /\ proc \in Procs /\ priv \in Priv
  BY DEF IndInv, TypeOK, Procs
<1>2. \A s \in {"ok", "error"} : Exited(p, s) \in Procs
  BY <1>1, FreeProcType DEF Exited, Procs, Proc
<1>3. ASSUME priv' = priv, proc' \in Procs, kill_timers' \subseteq kill_timers,
             failed' \in BOOLEAN, failed => failed',
             UNCHANGED <<loop, svc, fail_stop, task, table, disk>>
      PROVE  IndInv'
  <2>1. TypeOK'
    BY <1>1, <1>3 DEF TypeOK, Procs
  <2>2. ConnectionInv' /\ DownInv' /\ FetchInv'
    BY <1>3 DEF IndInv, ConnectionInv, DownInv, FetchInv, FetchMatchesAttempt
  <2>3. AttemptInv'
    BY <1>3 DEF IndInv, AttemptInv
  <2> QED
    BY <2>1, <2>2, <2>3 DEF IndInv
<1>4. CASE EnsureKilled(p)
  <2>1. proc' \in Procs
    <3>1. [proc EXCEPT ![p].st = "exited", ![p].status = "error"] \in Procs
      <4>1. [proc[p] EXCEPT !.st = "exited", !.status = "error"] \in Proc
        BY <1>1 DEF Procs, Proc
      <4>2. [proc EXCEPT ![p] = [proc[p] EXCEPT !.st = "exited", !.status = "error"]] \in Procs
        BY <1>1, <4>1 DEF Procs
      <4>. QED
        BY <4>2
    <3>. QED
      BY <1>1, <1>4, <3>1 DEF EnsureKilled
  <2>2. /\ priv' = priv /\ kill_timers' \subseteq kill_timers /\ failed' = failed
        /\ UNCHANGED <<loop, svc, fail_stop, task, table, disk>>
    BY <1>4 DEF EnsureKilled
  <2>. QED
    BY <1>1, <1>3, <2>1, <2>2 DEF TypeOK
<1>5. CASE HelperConfig(p)
  <2>1. proc' \in Procs
    BY <1>1, <1>5 DEF HelperConfig, Procs, Proc
  <2>2. UNCHANGED <<loop, fail_stop, failed, kill_timers, task, table, disk>>
    BY <1>5 DEF HelperConfig
  <2>3. CASE UNCHANGED <<svc, priv>>
    BY <1>1, <1>3, <2>1, <2>2, <2>3 DEF TypeOK
  <2>4. CASE /\ loop # "down"
             /\ svc' = "STARTED"
             /\ priv' = [priv EXCEPT !.started = TRUE, !.connect_timer = FALSE]
    <3>1. /\ priv' \in Priv /\ priv'.fetch = priv.fetch /\ priv'.uuid = priv.uuid
          /\ priv'.connection = priv.connection
      BY <1>1, <2>4 DEF Priv
    <3>2. TypeOK'
      BY <1>1, <2>1, <2>2, <2>4, <3>1 DEF TypeOK, Procs
    <3>3. FetchInv'
      BY <2>2, <3>1 DEF IndInv, FetchInv, FetchMatchesAttempt
    <3>4. ConnectionInv' /\ DownInv' /\ AttemptInv'
      BY <2>2, <2>4, <3>1 DEF IndInv, ConnectionInv, DownInv, AttemptInv
    <3>. QED
      BY <3>2, <3>3, <3>4 DEF IndInv
  <2>. QED
    BY <1>5, <2>3, <2>4 DEF HelperConfig
<1>6. CASE HelperFailure(p)
  <2>1. /\ proc' = Exited(p, "error") /\ priv' = priv /\ kill_timers' = kill_timers
        /\ UNCHANGED <<loop, svc, fail_stop, task, table, disk>>
        /\ (failed' = failed) \/ Failure
    BY <1>6 DEF HelperFailure
  <2>2. failed' \in BOOLEAN /\ (failed => failed')
    BY <1>1, <2>1 DEF Failure, TypeOK
  <2>. QED
    BY <1>2, <1>3, <2>1, <2>2
<1>7. CASE OpenvpnExit(p, status)
  BY <1>1, <1>2, <1>3, <1>7 DEF OpenvpnExit, TypeOK
<1>. QED
  BY <1>4, <1>5, <1>6, <1>7

\* The 90 days pass without the daemon noticing.
LEMMA ExpireCacheStep ==
    ASSUME IndInv, NEW u \in Uuids, ExpireCache(u)
    PROVE  IndInv'
<1>1. disk' \in [Uuids -> Entry]
  BY ExpireType DEF IndInv, TypeOK, ExpireCache
<1>2. UNCHANGED <<loop, svc, fail_stop, failed, priv, proc, kill_timers, task, table>>
  BY DEF ExpireCache
<1>. QED
  BY <1>1, <1>2
  DEF IndInv, TypeOK, ConnectionInv, DownInv, FetchInv, FetchMatchesAttempt, AttemptInv

\* A process that is gone leaves nothing of an attempt behind.
LEMMA GoneStep ==
    ASSUME IndInv, NEW pr \in Procs, Gone(pr),
           table' \in SUBSET Profiles, disk' \in Disks
    PROVE  IndInv'
<1>1. /\ loop' = "down" /\ svc' = "INIT" /\ fail_stop' = FALSE /\ failed' = FALSE
      /\ priv' = NewPriv /\ kill_timers' = {}
      /\ task' = [t \in Tasks |-> FreeTask]
  BY DEF Gone
<1>2. proc' \in Procs
  <2>1. \A p \in Pids : [pr[p] EXCEPT !.watched = FALSE] \in Proc
    BY DEF Procs, Proc
  <2>. QED
    BY <2>1, FreeProcType DEF Gone, Procs
<1>3. NewPriv \in Priv /\ NewPriv.fetch = None /\ NewPriv.connection = None
  BY DEF NewPriv, Priv
<1>4. TypeOK'
  BY <1>1, <1>2, <1>3 DEF TypeOK, Procs, Disks, FreeTask, Task
<1>5. \A t \in Tasks : ~task'[t].running
  BY <1>1 DEF FreeTask
<1>6. FetchInv'
  BY <1>1, <1>3, <1>5 DEF FetchInv, FetchMatchesAttempt
<1>. QED
  BY <1>1, <1>3, <1>4, <1>6 DEF IndInv, ConnectionInv, DownInv, AttemptInv

\* The daemon starts, ends and crashes.
LEMMA LifeStep ==
    ASSUME IndInv, Start \/ Exit \/ Crash
    PROVE  IndInv'
<1>1. /\ TypeOK /\ proc \in Procs /\ priv \in Priv /\ disk \in Disks
      /\ table \in SUBSET Profiles
  BY DEF IndInv, TypeOK, Procs, Disks
<1>2. CASE Start
  <2>1. /\ table' \in SUBSET Profiles /\ loop' \in {"running", "down"} /\ loop = "down"
        /\ UNCHANGED <<svc, fail_stop, failed, priv, proc, kill_timers, task, disk>>
    BY <1>1, <1>2, DisarmedType DEF Start, PluginNew
  <2>. QED
    BY <1>1, <2>1
    DEF IndInv, TypeOK, ConnectionInv, DownInv, FetchInv, FetchMatchesAttempt, AttemptInv
<1>3. CASE Exit
  <2>1. CleanProc(priv, proc) \in Procs
    BY <1>1, TerminateType DEF CleanProc, Priv
  <2>2. Gone(CleanProc(priv, proc)) /\ table' \in SUBSET Profiles /\ disk' \in Disks
    BY <1>1, <1>3, CleanTablesType DEF Exit
  <2>. QED
    BY <2>1, <2>2, GoneStep
<1>4. CASE Crash
  <2>1. Gone(proc) /\ table' = table
    BY <1>4 DEF Crash
  <2>2. disk' \in Disks
    <3>1. CASE disk' = disk
      BY <1>1, <3>1
    <3>2. ASSUME NEW t \in Tasks, task[t].running, ~task[t].cancelled,
                 priv.connection # None,
                 disk' = [disk EXCEPT ![priv.uuid] =
                            Store(disk[priv.uuid], task[t].connection.params,
                                  priv.connection.params, "config_only")]
          PROVE  disk' \in Disks
      <4>1. priv.connection \in Connections /\ priv.uuid = priv.connection.uuid
            /\ task[t].connection = priv.connection
        BY <1>1, <3>2 DEF IndInv, ConnectionInv, FetchInv, FetchMatchesAttempt, Priv
      <4>2. priv.uuid \in Uuids /\ priv.connection.params \in Params
        BY <4>1 DEF Connections
      <4>3. Store(disk[priv.uuid], task[t].connection.params,
                  priv.connection.params, "config_only") \in Entry
        BY <1>1, <4>1, <4>2, StoreType DEF Disks, Profiles
      <4>. QED
        BY <1>1, <3>2, <4>2, <4>3 DEF Disks
    <3>. QED
      BY <1>4, <3>1, <3>2 DEF Crash
  <2>. QED
    BY <1>1, <2>1, <2>2, GoneStep
<1>. QED
  BY <1>2, <1>3, <1>4

(***************************************************************************)
(* The invariant holds.                                                    *)
(***************************************************************************)
\* The state the daemon has not been started in satisfies the invariant.
LEMMA InitIndInv == Init => IndInv
<1>. SUFFICES ASSUME Init PROVE IndInv
  OBVIOUS
<1>1. NewPriv \in Priv /\ NewPriv.fetch = None /\ NewPriv.connection = None
  BY DEF NewPriv, Priv
<1>2. NoEntry \in Entry /\ FreeTask \in Task /\ ~FreeTask.running
  BY DEF NoEntry, Entry, FreeTask, Task
<1>3. TypeOK
  BY <1>1, <1>2, FreeProcType DEF Init, TypeOK, NoTable
<1>4. FetchInv
  BY <1>1, <1>2 DEF Init, FetchInv, FetchMatchesAttempt
<1>. QED
  BY <1>1, <1>3, <1>4 DEF Init, IndInv, ConnectionInv, DownInv, AttemptInv

\* Every handler, every external event and every stutter preserves it.
LEMMA NextIndInv == IndInv /\ [Next]_vars => IndInv'
<1>. SUFFICES ASSUME IndInv, [Next]_vars PROVE IndInv'
  OBVIOUS
<1>1. ASSUME NEW c \in Connections, Connect(c) PROVE IndInv'
  BY <1>1, ConnectStep
<1>2. ASSUME NEW c \in Connections, NewSecrets(c) PROVE IndInv'
  BY <1>2, NewSecretsStep
<1>3. CASE Disconnect
  BY <1>3, DisconnectStep
<1>4. CASE FailStop
  BY <1>4, FailStopStep
<1>5. CASE ConnectTimeout
  BY <1>5, ConnectTimeoutStep
<1>6. ASSUME NEW t \in Tasks, FetchDone(t) PROVE IndInv'
  BY <1>6, FetchDoneStep
<1>7. ASSUME NEW p \in Pids, WatchCb(p) PROVE IndInv'
  BY <1>7, WatchCbStep
<1>8. ASSUME NEW p \in Pids, EnsureKilled(p) \/ HelperConfig(p) \/ HelperFailure(p)
      PROVE IndInv'
  BY <1>8, ProcessStep
<1>9. ASSUME NEW p \in Pids, NEW status \in {"ok", "error"}, OpenvpnExit(p, status)
      PROVE IndInv'
  BY <1>9, ProcessStep
<1>10. ASSUME NEW u \in Uuids, ExpireCache(u) PROVE IndInv'
  BY <1>10, ExpireCacheStep
<1>11. CASE Start \/ Exit \/ Crash
  BY <1>11, LifeStep
<1>12. CASE UNCHANGED vars
  BY <1>12
  DEF vars, IndInv, TypeOK, ConnectionInv, DownInv, FetchInv, FetchMatchesAttempt, AttemptInv
<1>. QED
  BY <1>1, <1>2, <1>3, <1>4, <1>5, <1>6, <1>7, <1>8, <1>9, <1>10, <1>11, <1>12 DEF Next

\* The inductive invariant is an invariant of the daemon.
THEOREM IndInvHolds == Spec => []IndInv
  BY InitIndInv, NextIndInv, PTL DEF Spec

\* Every variable keeps its type: openvpn is never armed for or started
\* with anything but a real profile.
THEOREM TypeCorrect == Spec => []TypeOK
<1>1. IndInv => TypeOK
  BY DEF IndInv
<1>. QED
  BY <1>1, IndInvHolds, PTL

\* A fetch that still acts on the daemon belongs to the connection and
\* UUID its result is stored under, through any interleaving of Connect,
\* Disconnect, NewSecrets, openvpn exits and restarts of the daemon.
THEOREM FetchMatches == Spec => []FetchMatchesAttempt
<1>1. IndInv => FetchMatchesAttempt
  BY DEF IndInv, FetchInv
<1>. QED
  BY <1>1, IndInvHolds, PTL

\* Every connection attempt is always waiting for something that ends it.
THEOREM AttemptsAreWatched == Spec => []AttemptIsWatched
<1>1. IndInv => AttemptIsWatched
  <2>. SUFFICES ASSUME IndInv, svc = "STARTING", priv.fetch # None
                PROVE  \E t \in Tasks : priv.fetch = t /\ task[t].running /\ ~task[t].cancelled
    BY DEF IndInv, AttemptInv, AttemptIsWatched
  <2>1. priv.fetch \in Tasks
    BY DEF IndInv, TypeOK, Priv
  <2>. QED
    BY <2>1 DEF IndInv, FetchInv
<1>. QED
  BY <1>1, IndInvHolds, PTL

(***************************************************************************)
(* A dropped tunnel stays blocked.                                         *)
(***************************************************************************)
\* run_openvpn either leaves the table alone or ends the drop.
LEMMA RunOpenvpnSupersedes ==
    ASSUME NEW pv \in Priv, NEW pr, NEW tb, NEW profile, NEW o,
           RunOpenvpn(pv, pr, tb, profile, o)
    PROVE  /\ priv'.connection = pv.connection
           /\ table' = tb \/ ~priv'.unexpected_drop
<1>1. CASE o = "no_binary"
  BY <1>1 DEF RunOpenvpn
<1>2. CASE priv' = [pv EXCEPT !.kill_switch_active = FALSE, !.unexpected_drop = FALSE]
  BY <1>2 DEF Priv
<1>3. ASSUME NEW p, NEW wanted,
             priv' = [[pv EXCEPT !.kill_switch_active = FALSE, !.unexpected_drop = FALSE]
                        EXCEPT !.pid = p, !.kill_switch_active = wanted,
                               !.connect_timer = TRUE]
      PROVE  priv'.connection = pv.connection /\ ~priv'.unexpected_drop
  BY <1>3 DEF Priv
<1>. QED
  BY <1>1, <1>2, <1>3 DEF RunOpenvpn

\* cleanup_plugin leaves the table of a drop alone.
LEMMA CleanKeepsDropTable ==
    ASSUME NEW pv, NEW tb, pv.unexpected_drop
    PROVE  CleanTables(pv, tb) = {tb}
  BY DEF CleanTables

\* Only run_openvpn for a new attempt lifts the table of a drop while the
\* daemon lives, whatever NetworkManager, openvpn and nft do.
THEOREM DropsStayBlocked == Spec => DropStaysBlocked
<1>. DEFINE Kept == priv.unexpected_drop /\ table # NoTable /\ table' = NoTable
                    => priv'.connection # None /\ ~priv'.unexpected_drop
<1>1. IndInv /\ [Next]_vars => Kept
  <2>. SUFFICES ASSUME IndInv, [Next]_vars,
                       priv.unexpected_drop, table # NoTable, table' = NoTable
                PROVE  priv'.connection # None /\ ~priv'.unexpected_drop
    OBVIOUS
  <2>1. priv \in Priv
    BY DEF IndInv, TypeOK
  <2>2. \A tb \in CleanTables(priv, table) : tb = table
    BY CleanKeepsDropTable
  <2>3. ASSUME NEW c \in Connections, NEW ok \in BOOLEAN, ConnectAccepted(c, ok)
        PROVE  priv'.connection # None /\ ~priv'.unexpected_drop
    <3>. DEFINE fresh == [CleanPriv(priv) EXCEPT !.connection = c, !.uuid = c.uuid]
    <3>1. fresh \in Priv /\ fresh.connection = c
      <4>1. CleanPriv(priv) \in Priv
        BY <2>1, CleanPrivType
      <4>. QED
        BY <4>1 DEF Priv, Connections
    <3>2. PICK o : RunOpenvpn(fresh, CleanProc(priv, proc), table, disk[c.uuid].config, o)
      BY <2>2, <2>3 DEF ConnectAccepted
    <3>3. priv'.connection = c /\ ~priv'.unexpected_drop
      BY <3>1, <3>2, RunOpenvpnSupersedes
    <3>. QED
      BY <3>3, ConnectionsAssumption
  <2>4. ASSUME NEW c \in Connections, Connect(c) \/ NewSecrets(c)
        PROVE  priv'.connection # None /\ ~priv'.unexpected_drop
    BY <2>3, <2>4 DEF Connect, NewSecrets, ConnectRefused
  <2>5. ASSUME NEW pv, pv.unexpected_drop, NEW pr, PluginDisconnect(pv, pr)
        PROVE  FALSE
    BY <2>5, CleanKeepsDropTable DEF PluginDisconnect
  <2>6. ~Disconnect
    BY <2>5 DEF Disconnect
  <2>7. ASSUME NEW p \in Pids, WatchCb(p)
        PROVE  FALSE
    <3>1. [priv EXCEPT !.pid = None, !.connect_timer = FALSE].unexpected_drop
      BY <2>1 DEF Priv
    <3>. QED
      BY <2>5, <2>7, <3>1 DEF WatchCb
  <2>8. ASSUME NEW t \in Tasks, FetchDone(t)
        PROVE  priv'.connection # None /\ ~priv'.unexpected_drop
    <3>. DEFINE pv == [priv EXCEPT !.fetch = None]
    <3>1. pv \in Priv /\ pv.connection = priv.connection
      BY <2>1 DEF Priv
    <3>2. \E profile, o : RunOpenvpn(pv, proc, table, profile, o) /\ priv.connection # None
      BY <2>8 DEF FetchDone, UseProfile, FetchFailed
    <3>. QED
      BY <3>1, <3>2, RunOpenvpnSupersedes
  <2>9. ~Start
    BY DEF Start, IndInv, DownInv, NewPriv
  <2>10. ~Exit
    BY <2>2 DEF Exit
  <2>. QED
    BY <2>4, <2>6, <2>7, <2>8, <2>9, <2>10
    DEF Next, vars, FailStop, ConnectTimeout, EnsureKilled, HelperConfig, HelperFailure,
        OpenvpnExit, ExpireCache, Crash
<1>. QED
  BY <1>1, IndInvHolds, PTL DEF Spec, DropStaysBlocked
==============================================================================
