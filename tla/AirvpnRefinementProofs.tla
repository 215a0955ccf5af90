------------------------ MODULE AirvpnRefinementProofs ------------------------
(***************************************************************************)
(* As long as every nft call works, what the daemon remembers of the kill  *)
(* switch is what the kernel holds, and the daemon implements              *)
(* AirvpnKillSwitch: for every set of connections, processes and fetches,  *)
(* under --persist or not, with failing writes and crashes.                *)
(***************************************************************************)
EXTENDS AirvpnServiceProofs, AirvpnRefinement

(***************************************************************************)
(* All that the handlers of a living daemon ever do to the kill switch.    *)
(***************************************************************************)
\* Nothing.
KeepsTable ==
    /\ table' = table
    /\ priv'.kill_switch_active = priv.kill_switch_active
    /\ priv'.unexpected_drop = priv.unexpected_drop

\* cleanup_plugin.
CleansTable ==
    /\ table' \in CleanTables(priv, table)
    /\ priv'.kill_switch_active <=> priv.kill_switch_active /\ priv.unexpected_drop
    /\ priv'.unexpected_drop = priv.unexpected_drop

\* openvpn_watch_cb of an established connection.
DropsTunnel ==
    /\ table' = table
    /\ priv'.kill_switch_active = priv.kill_switch_active
    /\ priv'.unexpected_drop = TRUE
    /\ priv'.connection = priv.connection

\* run_openvpn past the search for its binary.
RunsAttempt ==
    /\ priv'.kill_switch_active <=> table' # NoTable
    /\ ~priv'.unexpected_drop
    /\ priv'.connection # None

Handled ==
    /\ loop # "down" /\ loop' # "down"
    /\ KeepsTable \/ CleansTable \/ DropsTunnel \/ RunsAttempt

\* Each of the four keeps the flag true to the table and is a step of the
\* kill switch.
LEMMA HandledStep ==
    ASSUME ~NftFaults, priv \in Priv, priv' \in Priv, FlagMatchesTable, Handled
    PROVE  FlagMatchesTable' /\ KillSwitch!Operate
<1>. DEFINE active == priv.kill_switch_active
            drop == priv.unexpected_drop
<1>1. /\ active \in BOOLEAN /\ drop \in BOOLEAN
      /\ priv'.kill_switch_active \in BOOLEAN /\ priv'.unexpected_drop \in BOOLEAN
  BY DEF Priv
<1>2. active <=> table # NoTable
  BY DEF FlagMatchesTable, Handled
<1>3. Daemon = "up" /\ Daemon' = "up" /\ Attempt' \in BOOLEAN
  BY DEF Handled, Daemon, Attempt
<1>4. /\ Guard = IF table = NoTable THEN "off" ELSE IF drop THEN "blocking" ELSE "guarding"
      /\ Guard' = IF table' = NoTable THEN "off"
                  ELSE IF priv'.unexpected_drop THEN "blocking" ELSE "guarding"
  BY DEF Handled, Guard, NoTable
<1>. USE DEF KillSwitch!Operate, FlagMatchesTable
<1>5. CASE KeepsTable
  <2>1. Guard' = Guard
    BY <1>4, <1>5 DEF KeepsTable
  <2>. QED
    BY <1>2, <1>3, <1>5, <2>1 DEF KeepsTable, KillSwitch!KeepGuard, NoTable
<1>6. CASE CleansTable
  <2>1. CASE active /\ ~drop
    <3>1. table' = NoTable /\ ~priv'.kill_switch_active
      BY <1>6, <2>1 DEF CleansTable, CleanTables, Disarmed
    <3>2. Guard = "guarding" /\ Guard' = "off"
      BY <1>2, <1>4, <2>1, <3>1
    <3>. QED
      BY <1>3, <3>1, <3>2 DEF KillSwitch!Lift, NoTable
  <2>2. CASE ~active \/ drop
    <3>1. table' = table /\ priv'.kill_switch_active = active /\ priv'.unexpected_drop = drop
      BY <1>1, <1>6, <2>2 DEF CleansTable, CleanTables
    <3>2. Guard' = Guard
      BY <1>4, <3>1
    <3>. QED
      BY <1>2, <1>3, <3>1, <3>2 DEF KillSwitch!KeepGuard, NoTable
  <2>. QED
    BY <1>1, <2>1, <2>2
<1>7. CASE DropsTunnel
  <2>1. Attempt' = Attempt
    BY <1>7 DEF DropsTunnel, Attempt
  <2>2. Guard' = IF table = NoTable THEN "off" ELSE "blocking"
    BY <1>4, <1>7 DEF DropsTunnel
  <2>3. \/ Guard' = Guard
        \/ Guard = "guarding" /\ Guard' = "blocking"
    BY <1>4, <2>2
  <2>4. FlagMatchesTable'
    BY <1>2, <1>7 DEF DropsTunnel, NoTable
  <2>. QED
    BY <1>3, <2>1, <2>3, <2>4 DEF KillSwitch!KeepGuard, KillSwitch!Drop
<1>8. CASE RunsAttempt
  <2>1. Attempt' = TRUE /\ FlagMatchesTable'
    BY <1>8 DEF RunsAttempt, Attempt, NoTable
  <2>2. Guard' = IF table' = NoTable THEN "off" ELSE "guarding"
    BY <1>4, <1>8 DEF RunsAttempt
  <2>3. \/ Guard' = "guarding"
        \/ Guard = "guarding" /\ Guard' = "off"
        \/ Guard = "blocking" /\ Guard' = "off"
        \/ Guard' = Guard
    BY <1>4, <2>2
  <2>. QED
    BY <1>3, <2>1, <2>3
    DEF KillSwitch!Arm, KillSwitch!Lift, KillSwitch!Supersede, KillSwitch!KeepGuard
<1>. QED
  BY <1>5, <1>6, <1>7, <1>8 DEF Handled

(***************************************************************************)
(* run_openvpn and cleanup_plugin.                                         *)
(***************************************************************************)
\* run_openvpn ends with a flag that is true to the table, whichever of its
\* calls fails.
LEMMA RunOpenvpnFlag ==
    ASSUME ~NftFaults, NEW pv \in Priv, pv.connection \in Connections,
           NEW pr, NEW tb, pv.kill_switch_active <=> tb # NoTable,
           NEW profile, NEW o, RunOpenvpn(pv, pr, tb, profile, o)
    PROVE  \/ table' = tb /\ priv' = pv
           \/ RunsAttempt
<1>. DEFINE wanted == pv.connection.kill_switch
            superseded == [pv EXCEPT !.kill_switch_active = FALSE, !.unexpected_drop = FALSE]
            lifted == IF pv.kill_switch_active THEN Disarmed(tb) ELSE {tb}
            armed == IF wanted THEN {Armed(t, profile) : t \in lifted} ELSE lifted
<1>1. lifted = {NoTable}
  BY DEF Disarmed
<1>2. \A t \in armed : t # NoTable <=> wanted
  <2>1. {Armed(t, profile) : t \in lifted} = {Armed(NoTable, profile)}
    BY <1>1
  <2>2. Armed(NoTable, profile) # NoTable
    BY DEF Armed, NoTable
  <2>. QED
    BY <1>1, <2>1, <2>2
<1>3. /\ superseded.kill_switch_active = FALSE /\ superseded.unexpected_drop = FALSE
      /\ superseded.connection = pv.connection /\ superseded \in Priv
  BY DEF Priv
<1>4. pv.connection # None /\ wanted \in BOOLEAN
  BY ConnectionsAssumption DEF Connections
<1>5. CASE o = "no_binary"
  BY <1>5 DEF RunOpenvpn
<1>6. CASE o = "arm_failed"
  <2>1. priv' = superseded /\ table' = NoTable
    BY <1>1, <1>6 DEF RunOpenvpn
  <2>2. ~priv'.kill_switch_active /\ ~priv'.unexpected_drop /\ priv'.connection # None
    BY <2>1, <1>3, <1>4
  <2>. QED
    BY <2>1, <2>2 DEF RunsAttempt
<1>7. CASE o = "spawn_failed"
  <2>1. /\ priv' = superseded
        /\ table' \in IF wanted THEN UNION {Disarmed(t) : t \in armed} ELSE armed
    BY <1>7 DEF RunOpenvpn
  <2>2. \A t : Disarmed(t) = {NoTable}
    BY DEF Disarmed
  <2>3. table' = NoTable
    BY <1>1, <2>1, <2>2
  <2>4. ~priv'.kill_switch_active /\ ~priv'.unexpected_drop /\ priv'.connection # None
    BY <2>1, <1>3, <1>4
  <2>. QED
    BY <2>3, <2>4 DEF RunsAttempt
<1>8. CASE o = "spawned"
  <2>1. table' \in armed
    BY <1>8 DEF RunOpenvpn
  <2>2. table' # NoTable <=> wanted
    BY <1>2, <2>1
  <2>3. PICK p : priv' = [superseded EXCEPT !.pid = p,
                                            !.kill_switch_active = wanted,
                                            !.connect_timer = TRUE]
    BY <1>8 DEF RunOpenvpn
  <2>4. /\ priv'.kill_switch_active = wanted /\ priv'.unexpected_drop = FALSE
        /\ priv'.connection = pv.connection
    BY <1>3, <2>3 DEF Priv
  <2>. QED
    BY <1>4, <2>2, <2>4 DEF RunsAttempt
<1>9. o \in RunOutcomes
  BY DEF RunOpenvpn, RunOutcomes
<1>. QED
  BY <1>5, <1>6, <1>7, <1>8, <1>9 DEF RunOutcomes

\* What cleanup_plugin leaves in the flags.
LEMMA CleanFlags ==
    ASSUME NEW pv \in Priv
    PROVE  /\ CleanPriv(pv).kill_switch_active <=> pv.kill_switch_active /\ pv.unexpected_drop
           /\ CleanPriv(pv).unexpected_drop = pv.unexpected_drop
           /\ CleanPriv(pv) \in Priv
<1>1. /\ CleanPriv(pv).kill_switch_active = (pv.kill_switch_active /\ pv.unexpected_drop)
      /\ CleanPriv(pv).unexpected_drop = pv.unexpected_drop
  BY DEF CleanPriv, NewPriv
<1>. QED
  BY <1>1, CleanPrivType

\* cleanup_plugin leaves a flag that is true to the table.
LEMMA CleanedFlag ==
    ASSUME ~NftFaults, NEW pv \in Priv, NEW tb, pv.kill_switch_active <=> tb # NoTable,
           NEW t \in CleanTables(pv, tb)
    PROVE  (pv.kill_switch_active /\ pv.unexpected_drop) <=> t # NoTable
  BY DEF CleanTables, Disarmed, Priv

(***************************************************************************)
(* The handlers.                                                           *)
(***************************************************************************)
\* _connect_common past its validation.
LEMMA ConnectAcceptedHandled ==
    ASSUME ~NftFaults, IndInv, FlagMatchesTable, loop # "down", loop' # "down",
           NEW c \in Connections, NEW ok \in BOOLEAN, ConnectAccepted(c, ok)
    PROVE  Handled
<1>. DEFINE fresh == [CleanPriv(priv) EXCEPT !.connection = c, !.uuid = c.uuid]
<1>1. priv \in Priv /\ (priv.kill_switch_active <=> table # NoTable)
  BY DEF IndInv, TypeOK, FlagMatchesTable
<1>2. /\ fresh \in Priv /\ fresh.connection = c
      /\ fresh.kill_switch_active <=> priv.kill_switch_active /\ priv.unexpected_drop
      /\ fresh.unexpected_drop = priv.unexpected_drop
  <2>1. CleanPriv(priv) \in Priv
    BY <1>1, CleanPrivType
  <2>2. /\ fresh.kill_switch_active = CleanPriv(priv).kill_switch_active
        /\ fresh.unexpected_drop = CleanPriv(priv).unexpected_drop
        /\ fresh \in Priv /\ fresh.connection = c
    BY <2>1 DEF Priv, Connections
  <2>. QED
    BY <1>1, <2>2, CleanFlags
<1>. HIDE DEF fresh
<1>3. PICK tb \in CleanTables(priv, table) :
        \/ priv' = fresh /\ table' = tb
        \/ \E o : RunOpenvpn(fresh, CleanProc(priv, proc), tb, disk[c.uuid].config, o)
        \/ \E t : priv' = [fresh EXCEPT !.fetch = t] /\ table' = tb
  BY DEF ConnectAccepted, fresh
<1>4. fresh.kill_switch_active <=> tb # NoTable
  BY <1>1, <1>2, CleanedFlag
<1>5. CASE priv' = fresh /\ table' = tb
  BY <1>2, <1>5 DEF Handled, CleansTable
<1>6. ASSUME NEW o, RunOpenvpn(fresh, CleanProc(priv, proc), tb, disk[c.uuid].config, o)
      PROVE  Handled
  <2>1. (table' = tb /\ priv' = fresh) \/ RunsAttempt
    BY <1>2, <1>4, <1>6, RunOpenvpnFlag
  <2>. QED
    BY <1>5, <2>1 DEF Handled
<1>7. ASSUME NEW t, priv' = [fresh EXCEPT !.fetch = t], table' = tb
      PROVE  Handled
  <2>1. /\ priv'.kill_switch_active = fresh.kill_switch_active
        /\ priv'.unexpected_drop = fresh.unexpected_drop
    BY <1>2, <1>7 DEF Priv
  <2>. QED
    BY <1>2, <1>7, <2>1 DEF Handled, CleansTable
<1>. QED
  BY <1>3, <1>5, <1>6, <1>7

\* Connect and NewSecrets.
LEMMA ConnectHandled ==
    ASSUME ~NftFaults, IndInv, FlagMatchesTable,
           NEW c \in Connections, Connect(c) \/ NewSecrets(c)
    PROVE  Handled
<1>1. loop = "running" /\ loop' = "running"
  BY DEF Connect, NewSecrets
<1>2. CASE ConnectRefused
  BY <1>1, <1>2 DEF ConnectRefused, Handled, KeepsTable
<1>3. ASSUME NEW ok \in BOOLEAN, ConnectAccepted(c, ok)
      PROVE  Handled
  BY <1>1, <1>3, ConnectAcceptedHandled
<1>. QED
  BY <1>2, <1>3 DEF Connect, NewSecrets

\* nm_vpn_service_plugin_disconnect.
LEMMA PluginDisconnectHandled ==
    ASSUME IndInv, loop # "down", NEW pv \in Priv,
           pv.kill_switch_active = priv.kill_switch_active,
           pv.unexpected_drop = priv.unexpected_drop,
           NEW pr, PluginDisconnect(pv, pr)
    PROVE  Handled
<1>1. CASE svc \notin Active
  BY <1>1 DEF PluginDisconnect, Handled, KeepsTable
<1>2. CASE svc \in Active
  <2>1. /\ priv' = CleanPriv(IdlePriv(pv)) /\ table' \in CleanTables(pv, table)
        /\ loop' \in {"quitting", loop}
    BY <1>2 DEF PluginDisconnect, EnterStopped
  <2>2. /\ IdlePriv(pv) \in Priv
        /\ IdlePriv(pv).kill_switch_active = priv.kill_switch_active
        /\ IdlePriv(pv).unexpected_drop = priv.unexpected_drop
    BY IdlePrivType DEF IdlePriv, Priv
  <2>3. /\ priv'.kill_switch_active <=> priv.kill_switch_active /\ priv.unexpected_drop
        /\ priv'.unexpected_drop = priv.unexpected_drop
    BY <2>1, <2>2, CleanFlags
  <2>4. table' \in CleanTables(priv, table)
    BY <2>1 DEF CleanTables
  <2>. QED
    BY <2>1, <2>3, <2>4 DEF Handled, CleansTable
<1>. QED
  BY <1>1, <1>2

\* openvpn_watch_cb.
LEMMA WatchCbHandled ==
    ASSUME IndInv, NEW p \in Pids, WatchCb(p)
    PROVE  Handled
<1>. DEFINE pv == [priv EXCEPT !.pid = None, !.connect_timer = FALSE]
<1>1. priv \in Priv /\ loop # "down"
  BY DEF IndInv, TypeOK, WatchCb
<1>2. /\ pv \in Priv /\ pv.connection = priv.connection
      /\ pv.kill_switch_active = priv.kill_switch_active
      /\ pv.unexpected_drop = priv.unexpected_drop
  BY <1>1 DEF Priv
<1>3. CASE priv' = pv /\ UNCHANGED <<loop, table>>
  BY <1>1, <1>2, <1>3 DEF Handled, KeepsTable
<1>4. CASE priv' = [pv EXCEPT !.unexpected_drop = TRUE] /\ UNCHANGED <<loop, table>>
  <2>1. /\ priv'.kill_switch_active = priv.kill_switch_active
        /\ priv'.unexpected_drop = TRUE /\ priv'.connection = priv.connection
    BY <1>1, <1>2, <1>4 DEF Priv
  <2>. QED
    BY <1>1, <1>4, <2>1 DEF Handled, DropsTunnel
<1>5. ASSUME NEW pr, PluginDisconnect(pv, pr)
      PROVE  Handled
  BY <1>1, <1>2, <1>5, PluginDisconnectHandled
<1>. QED
  BY <1>3, <1>4, <1>5 DEF WatchCb

\* fetch_done_cb.
LEMMA FetchDoneHandled ==
    ASSUME ~NftFaults, IndInv, FlagMatchesTable, NEW t \in Tasks, FetchDone(t)
    PROVE  Handled
<1>. DEFINE pv == [priv EXCEPT !.fetch = None]
<1>1. priv \in Priv /\ loop # "down" /\ loop' = loop
  BY DEF IndInv, TypeOK, FetchDone
<1>2. /\ pv \in Priv /\ pv.connection = priv.connection
      /\ pv.kill_switch_active = priv.kill_switch_active
      /\ pv.unexpected_drop = priv.unexpected_drop
  BY <1>1 DEF Priv
<1>. HIDE DEF pv
<1>3. CASE UNCHANGED <<priv, table>>
  BY <1>1, <1>3 DEF Handled, KeepsTable
<1>4. CASE priv' = pv /\ table' = table
  BY <1>1, <1>2, <1>4 DEF Handled, KeepsTable
<1>5. ASSUME priv.connection # None, NEW profile, UseProfile(pv, profile)
      PROVE  Handled
  <2>1. PICK o : RunOpenvpn(pv, proc, table, profile, o)
    BY <1>5 DEF UseProfile
  <2>2. pv.connection \in Connections
    BY <1>1, <1>2, <1>5 DEF Priv
  <2>3. (table' = table /\ priv' = pv) \/ RunsAttempt
    BY <1>1, <1>2, <2>1, <2>2, RunOpenvpnFlag DEF FlagMatchesTable
  <2>. QED
    BY <1>1, <1>4, <2>3 DEF Handled
<1>. QED
  BY <1>3, <1>4, <1>5 DEF FetchDone, FetchFailed, pv

\* The other handlers leave the kill switch alone.
LEMMA OthersHandled ==
    ASSUME IndInv, loop # "down",
           \/ FailStop \/ ConnectTimeout
           \/ \E p \in Pids : EnsureKilled(p) \/ HelperConfig(p) \/ HelperFailure(p)
           \/ \E p \in Pids, status \in {"ok", "error"} : OpenvpnExit(p, status)
           \/ \E u \in Uuids : ExpireCache(u)
    PROVE  Handled
<1>1. priv \in Priv
  BY DEF IndInv, TypeOK
<1>2. loop' \in {loop, "quitting"} /\ table' = table
  BY DEF FailStop, EnterStopped, ConnectTimeout, EnsureKilled, HelperConfig, HelperFailure,
         OpenvpnExit, ExpireCache
<1>3. \/ priv' = priv \/ priv' = IdlePriv(priv)
      \/ priv' = [priv EXCEPT !.connect_timer = FALSE]
      \/ priv' = [priv EXCEPT !.started = TRUE, !.connect_timer = FALSE]
  BY DEF FailStop, ConnectTimeout, EnsureKilled, HelperConfig, HelperFailure,
         OpenvpnExit, ExpireCache
<1>4. /\ priv'.kill_switch_active = priv.kill_switch_active
      /\ priv'.unexpected_drop = priv.unexpected_drop
  BY <1>1, <1>3 DEF IdlePriv, Priv
<1>. QED
  BY <1>2, <1>4 DEF Handled, KeepsTable

(***************************************************************************)
(* The daemon's own life.                                                  *)
(***************************************************************************)
\* Nothing moves the kill switch while the daemon is down, but its start.
LEMMA DownStep ==
    ASSUME ~NftFaults, IndInv, loop = "down", Next
    PROVE  FlagMatchesTable' /\ (KillSwitch!Start \/ UNCHANGED KillSwitch!vars)
<1>1. priv = NewPriv /\ NewPriv \in Priv
  BY DEF IndInv, TypeOK, DownInv
<1>2. ~priv.kill_switch_active /\ ~Attempt
  BY <1>1 DEF NewPriv, Attempt
<1>3. CASE Start
  <2>1. table' = NoTable /\ priv' = priv /\ loop' \in {"running", "down"}
    BY <1>3 DEF Start, Disarmed, PluginNew
  <2>2. FlagMatchesTable'
    BY <1>2, <2>1 DEF FlagMatchesTable, NoTable
  <2>3. Guard' = "off" /\ Attempt' = FALSE /\ Daemon = "down" /\ Daemon' \in {"up", "down"}
    BY <1>2, <2>1 DEF Guard, Attempt, Daemon, NoTable
  <2>. QED
    BY <2>2, <2>3 DEF KillSwitch!Start
<1>4. CASE UNCHANGED <<loop, priv, table>>
  BY <1>4 DEF FlagMatchesTable, KillSwitch!vars, Guard, Daemon, Attempt, NoTable
<1>5. ASSUME NEW p \in Pids, HelperConfig(p)
      PROVE  UNCHANGED <<loop, priv, table>>
  BY <1>5 DEF HelperConfig
<1>6. Start \/ UNCHANGED <<loop, priv, table>>
  BY <1>5 DEF Next, Connect, NewSecrets, Disconnect, FailStop, ConnectTimeout, FetchDone, WatchCb,
         EnsureKilled, HelperFailure, OpenvpnExit, ExpireCache, Exit, Crash
<1>. QED
  BY <1>3, <1>4, <1>6

\* A daemon that exits lifts the table unless a drop left it; one that
\* crashes leaves any.
LEMMA EndStep ==
    ASSUME ~NftFaults, IndInv, FlagMatchesTable, loop # "down", Exit \/ Crash
    PROVE  FlagMatchesTable' /\ (KillSwitch!Exit \/ KillSwitch!Crash)
<1>1. priv \in Priv /\ (priv.kill_switch_active <=> table # NoTable)
  BY DEF IndInv, TypeOK, FlagMatchesTable
<1>2. loop' = "down" /\ priv' = NewPriv
  BY DEF Exit, Crash, Gone
<1>3. /\ Daemon = "up" /\ Daemon' = "down" /\ Attempt' = FALSE /\ FlagMatchesTable'
      /\ Guard' = IF table' = NoTable THEN "off" ELSE "blocking"
  BY <1>2 DEF Daemon, Attempt, NewPriv, FlagMatchesTable, Guard, NoTable
<1>4. Guard = IF table = NoTable THEN "off"
              ELSE IF priv.unexpected_drop THEN "blocking" ELSE "guarding"
  BY DEF Guard
<1>5. CASE Exit
  <2>1. table' \in CleanTables(priv, table)
    BY <1>5 DEF Exit
  <2>2. table' = IF priv.unexpected_drop THEN table ELSE NoTable
    BY <1>1, <2>1 DEF CleanTables, Disarmed
  <2>. QED
    BY <1>3, <1>4, <2>2 DEF KillSwitch!Exit
<1>6. CASE Crash
  BY <1>3, <1>4, <1>6 DEF Crash, KillSwitch!Crash
<1>. QED
  BY <1>5, <1>6

\* Every step of the daemon is one of the kill switch, and keeps the flag
\* true to the table.
LEMMA RefinementStep ==
    ASSUME ~NftFaults, IndInv, FlagMatchesTable, [Next]_vars
    PROVE  FlagMatchesTable' /\ [KillSwitch!Next]_(KillSwitch!vars)
<1>1. priv \in Priv /\ priv' \in Priv
  BY NextIndInv DEF IndInv, TypeOK
<1>2. CASE UNCHANGED vars
  BY <1>2 DEF vars, FlagMatchesTable, KillSwitch!vars, Guard, Daemon, Attempt, NoTable
<1>3. CASE Next /\ loop = "down"
  BY <1>3, DownStep DEF KillSwitch!Next
<1>4. CASE Exit \/ Crash
  <2>1. loop # "down"
    BY <1>4 DEF Exit, Crash
  <2>. QED
    BY <1>4, <2>1, EndStep DEF KillSwitch!Next
<1>5. CASE Handled
  BY <1>1, <1>5, HandledStep DEF KillSwitch!Next
<1>6. ASSUME Next, loop # "down", ~(Exit \/ Crash)
      PROVE  Handled
  <2>1. ASSUME NEW c \in Connections, Connect(c) \/ NewSecrets(c) PROVE Handled
    BY <2>1, ConnectHandled
  <2>2. CASE Disconnect
    BY <1>1, <1>6, <2>2, PluginDisconnectHandled DEF Disconnect
  <2>3. ASSUME NEW p \in Pids, WatchCb(p) PROVE Handled
    BY <2>3, WatchCbHandled
  <2>4. ASSUME NEW t \in Tasks, FetchDone(t) PROVE Handled
    BY <2>4, FetchDoneHandled
  <2>5. ~Start
    BY <1>6 DEF Start
  <2>. QED
    BY <1>6, <2>1, <2>2, <2>3, <2>4, <2>5, OthersHandled DEF Next
<1>. QED
  BY <1>2, <1>3, <1>4, <1>5, <1>6

(***************************************************************************)
(* The theorems.                                                           *)
(***************************************************************************)
\* Before its first start the daemon has no table and the kill switch is
\* off.
LEMMA RefinementInit == Init => FlagMatchesTable /\ KillSwitch!Init
  BY DEF Init, FlagMatchesTable, KillSwitch!Init, Guard, Daemon, Attempt, NewPriv

\* As long as nft works, kill_switch_active never lies about the kernel,
\* through any refusal, failed launch, drop, exit, crash and restart.
THEOREM FlagIsTrue ==
    ASSUME ~NftFaults
    PROVE  Spec => []FlagMatchesTable
<1>1. IndInv /\ FlagMatchesTable /\ [Next]_vars => FlagMatchesTable'
  BY RefinementStep
<1>. QED
  BY <1>1, RefinementInit, IndInvHolds, PTL DEF Spec

\* As long as nft works, the daemon implements AirvpnKillSwitch: nothing
\* but a new attempt or a new daemon ends the blocking of a lost tunnel.
THEOREM DaemonImplementsKillSwitch ==
    ASSUME ~NftFaults
    PROVE  Spec => KillSwitchKept
<1>1. IndInv /\ FlagMatchesTable /\ [Next]_vars => [KillSwitch!Next]_(KillSwitch!vars)
  BY RefinementStep
<1>. QED
  BY <1>1, RefinementInit, FlagIsTrue, IndInvHolds, PTL
  DEF Spec, KillSwitchKept, KillSwitch!Spec
==============================================================================
