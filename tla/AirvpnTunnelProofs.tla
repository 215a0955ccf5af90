-------------------------- MODULE AirvpnTunnelProofs --------------------------
(***************************************************************************)
(* The daemon as NetworkManager runs it, without --persist and without     *)
(* NewSecrets: a process serves one attempt and quits.  It then never has  *)
(* more than one child, so that the child watch cannot take one openvpn    *)
(* for another; no tunnel runs without its table, and a stopped daemon is  *)
(* idle.  The run stale_watch shows that --persist loses this.             *)
(***************************************************************************)
EXTENDS AirvpnRefinementProofs

(***************************************************************************)
(* The inductive invariant.                                                *)
(***************************************************************************)
NoChild(pr) == \A p \in Pids : ~pr[p].watched

OneChild(pr) == \A p, q \in Pids : pr[p].watched /\ pr[q].watched => p = q

Unstopped(pr, p) == pr[p].watched /\ IsAlive(pr, p) /\ ~pr[p].term

\* The openvpn that nobody told to stop is the one priv->pid names, and the
\* table accepts its remotes.
Covered(pr, pv, tb) ==
    \A p \in Pids : Unstopped(pr, p) =>
        pv.pid = p /\ (pr[p].connection.kill_switch => pr[p].profile \in tb)

\* What a flag or a timer could still do.
Quiet(pv) ==
    /\ pv.fetch = None
    /\ ~pv.connect_timer
    /\ pv.kill_switch_active => pv.unexpected_drop

\* No attempt has been accepted by this process.
Unused == fail_stop \/ (loop = "running" /\ svc = "INIT")

ChildInv ==
    /\ svc = "STOPPED" => loop = "quitting"
    /\ OneChild(proc)
    /\ Covered(proc, priv, table)
    /\ loop = "down" \/ Unused \/ priv.fetch # None => NoChild(proc)
    /\ Unused \/ svc = "STOPPED" => Quiet(priv) /\ \A p \in Pids : ~Unstopped(proc, p)

(***************************************************************************)
(* run_openvpn and cleanup_plugin.                                         *)
(***************************************************************************)
\* Called without children, run_openvpn ends with none or with the one that
\* priv->pid names and the table covers.
LEMMA RunOpenvpnChild ==
    ASSUME NEW pv \in Priv, pv.connection \in Connections, NEW pr \in Procs, NoChild(pr),
           NEW tb, NEW profile, NEW o, RunOpenvpn(pv, pr, tb, profile, o)
    PROVE  /\ priv'.fetch = pv.fetch
           /\ OneChild(proc') /\ Covered(proc', priv', table')
           /\ o # "spawned" => NoChild(proc')
           /\ o # "spawned" /\ Quiet(pv) => Quiet(priv')
<1>. DEFINE wanted == pv.connection.kill_switch
            superseded == [pv EXCEPT !.kill_switch_active = FALSE, !.unexpected_drop = FALSE]
            lifted == IF pv.kill_switch_active THEN Disarmed(tb) ELSE {tb}
            armed == IF wanted THEN {Armed(t, profile) : t \in lifted} ELSE lifted
<1>1. CASE o # "spawned"
  <2>1. proc' = pr /\ priv' \in {pv, superseded}
    BY <1>1 DEF RunOpenvpn
  <2>2. priv'.fetch = pv.fetch /\ (Quiet(pv) => Quiet(priv'))
    BY <2>1 DEF Quiet, Priv
  <2>. QED
    BY <1>1, <2>1, <2>2 DEF NoChild, OneChild, Covered, Unstopped
<1>2. CASE o = "spawned"
  <2>1. PICK p \in Pids :
          /\ proc' = [pr EXCEPT ![p] = [FreeProc EXCEPT !.st = "handshake",
                                                        !.watched = TRUE,
                                                        !.profile = profile,
                                                        !.connection = pv.connection]]
          /\ priv' = [superseded EXCEPT !.pid = p,
                                        !.kill_switch_active = wanted,
                                        !.connect_timer = TRUE]
          /\ table' \in armed
    BY <1>2 DEF RunOpenvpn
  <2>2. priv'.pid = p /\ priv'.fetch = pv.fetch
    BY <2>1 DEF Priv
  <2>3. /\ proc'[p].connection = pv.connection /\ proc'[p].profile = profile
        /\ \A q \in Pids \ {p} : ~proc'[q].watched
    BY <2>1 DEF Procs, FreeProc, NoChild
  <2>4. wanted => profile \in table'
    BY <2>1 DEF Armed
  <2>. QED
    BY <1>2, <2>2, <2>3, <2>4 DEF OneChild, Covered, Unstopped
<1>. QED
  BY <1>1, <1>2

\* A SIGTERM makes no child.
LEMMA TerminateChild ==
    ASSUME NEW pr \in Procs, NEW p \in Pids \cup {None}
    PROVE  /\ \A q \in Pids : Terminate(pr, p)[q].watched = pr[q].watched
           /\ \A q \in Pids : Unstopped(Terminate(pr, p), q) => Unstopped(pr, q) /\ q # p
           /\ \A q \in Pids : /\ Terminate(pr, p)[q].connection = pr[q].connection
                              /\ Terminate(pr, p)[q].profile = pr[q].profile
<1>1. CASE p \in Pids /\ IsAlive(pr, p)
  <2>1. Terminate(pr, p) = [pr EXCEPT ![p].term = TRUE]
    BY <1>1, ServiceAssumption DEF Terminate
  <2>2. \A q \in Pids \ {p} : Terminate(pr, p)[q] = pr[q]
    BY <2>1 DEF Procs
  <2>3. /\ Terminate(pr, p)[p].term = TRUE
        /\ Terminate(pr, p)[p].watched = pr[p].watched
        /\ Terminate(pr, p)[p].connection = pr[p].connection
        /\ Terminate(pr, p)[p].profile = pr[p].profile
    BY <1>1, <2>1 DEF Procs, Proc
  <2>. QED
    BY <2>2, <2>3 DEF Unstopped, IsAlive
<1>2. CASE ~(p \in Pids /\ IsAlive(pr, p))
  <2>1. Terminate(pr, p) = pr
    BY <1>2 DEF Terminate
  <2>. QED
    BY <1>2, <2>1 DEF Unstopped
<1>. QED
  BY <1>1, <1>2

\* cleanup_plugin leaves nothing to act on.
LEMMA CleanPrivQuiet ==
    ASSUME NEW pv
    PROVE  Quiet(CleanPriv(pv))
<1>1. /\ CleanPriv(pv).fetch = None /\ CleanPriv(pv).connect_timer = FALSE
      /\ CleanPriv(pv).kill_switch_active = (pv.kill_switch_active /\ pv.unexpected_drop)
      /\ CleanPriv(pv).unexpected_drop = pv.unexpected_drop
  BY DEF CleanPriv, NewPriv
<1>. QED
  BY <1>1 DEF Quiet

(***************************************************************************)
(* The handlers.                                                           *)
(***************************************************************************)
\* An accepted Connect finds no child, since the process is unused.
LEMMA ConnectChild ==
    ASSUME QuitsOnStop, IndInv, ChildInv, NEW c \in Connections, Connect(c)
    PROVE  ChildInv'
<1>. DEFINE fresh == [CleanPriv(priv) EXCEPT !.connection = c, !.uuid = c.uuid]
            pr == CleanProc(priv, proc)
<1>1. /\ loop = "running" /\ loop' = "running" /\ svc = "INIT" /\ Unused
      /\ priv \in Priv /\ proc \in Procs
  BY DEF Connect, ChildInv, Unused, IndInv, TypeOK, Procs
<1>2. NoChild(proc) /\ Quiet(priv)
  BY <1>1 DEF ChildInv
<1>3. PICK ok \in BOOLEAN : /\ fail_stop' = ~ok
                            /\ svc' = IF ok THEN "STARTING" ELSE svc
                            /\ (~ok /\ ConnectRefused) \/ ConnectAccepted(c, ok)
  BY DEF Connect
<1>4. fresh \in Priv /\ fresh.connection = c /\ fresh.fetch = None /\ Quiet(fresh)
  <2>1. CleanPriv(priv) \in Priv /\ Quiet(CleanPriv(priv))
    BY <1>1, CleanPrivType, CleanPrivQuiet
  <2>2. /\ fresh \in Priv /\ fresh.connection = c
        /\ fresh.fetch = CleanPriv(priv).fetch
        /\ fresh.connect_timer = CleanPriv(priv).connect_timer
        /\ fresh.kill_switch_active = CleanPriv(priv).kill_switch_active
        /\ fresh.unexpected_drop = CleanPriv(priv).unexpected_drop
    BY <2>1 DEF Priv, Connections
  <2>. QED
    BY <2>1, <2>2 DEF Quiet
<1>5. pr \in Procs /\ NoChild(pr)
  BY <1>1, <1>2, TerminateType, TerminateChild DEF CleanProc, NoChild, Priv
<1>. HIDE DEF fresh, pr
<1>6. ASSUME NoChild(proc'), ok \/ Quiet(priv')
      PROVE  ChildInv'
  <2>1. /\ svc' # "STOPPED" /\ OneChild(proc') /\ Covered(proc', priv', table')
        /\ \A p \in Pids : ~Unstopped(proc', p)
    BY <1>1, <1>3, <1>6 DEF NoChild, OneChild, Covered, Unstopped
  <2>2. Unused' => ~ok
    BY <1>1, <1>3 DEF Unused
  <2>. QED
    BY <1>6, <2>1, <2>2 DEF ChildInv, NoChild, OneChild, Covered, Quiet, Unstopped, IsAlive
<1>7. CASE ~ok /\ ConnectRefused
  BY <1>2, <1>6, <1>7 DEF ConnectRefused, NoChild, Quiet
<1>8. CASE proc' = pr /\ (priv' = fresh \/ ok)
  BY <1>4, <1>5, <1>6, <1>8 DEF NoChild, Quiet
<1>9. ASSUME NEW tb, NEW o, ok = (o = "spawned"),
             RunOpenvpn(fresh, pr, tb, disk[c.uuid].config, o)
      PROVE  ChildInv'
  <2>1. /\ priv'.fetch = None
        /\ OneChild(proc') /\ Covered(proc', priv', table')
        /\ ~ok => NoChild(proc') /\ Quiet(priv')
    BY <1>4, <1>5, <1>9, RunOpenvpnChild
  <2>2. CASE ~ok
    BY <1>6, <2>1, <2>2
  <2>3. CASE ok
    <3>1. ~fail_stop' /\ svc' = "STARTING" /\ ~Unused' /\ loop' # "down"
      BY <1>1, <1>3, <2>3 DEF Unused
    <3>. QED
      BY <2>1, <3>1 DEF ChildInv, NoChild, OneChild, Covered, Quiet, Unstopped, IsAlive
  <2>. QED
    BY <2>2, <2>3
<1>10. ASSUME ConnectAccepted(c, ok)
       PROVE  ChildInv'
  BY <1>8, <1>9, <1>10 DEF ConnectAccepted, fresh, pr
<1>. QED
  BY <1>3, <1>7, <1>10

\* A disconnect tells the one child to stop, or finds it gone.
LEMMA PluginDisconnectChild ==
    ASSUME QuitsOnStop, IndInv, ChildInv, loop # "down", fail_stop' = fail_stop,
           NEW pv \in Priv, pv.fetch = priv.fetch,
           pv.connect_timer => priv.connect_timer,
           pv.kill_switch_active = priv.kill_switch_active,
           pv.unexpected_drop = priv.unexpected_drop,
           NEW pr \in Procs, OneChild(pr), Covered(pr, pv, table),
           NoChild(proc) => NoChild(pr), \A p \in Pids : Unstopped(pr, p) => Unstopped(proc, p),
           PluginDisconnect(pv, pr)
    PROVE  ChildInv'
<1>1. CASE svc \notin Active
  <2>1. /\ priv' = pv /\ proc' = pr
        /\ UNCHANGED <<loop, svc, failed, kill_timers, task, table, disk>>
    BY <1>1 DEF PluginDisconnect
  <2>2. Quiet(priv) => Quiet(pv)
    BY DEF Quiet
  <2>3. Unused' = Unused
    BY <2>1 DEF Unused
  <2>4. /\ OneChild(proc') /\ Covered(proc', priv', table')
        /\ loop' = "down" \/ Unused' \/ priv'.fetch # None => NoChild(proc')
        /\ Unused' \/ svc' = "STOPPED" => Quiet(priv') /\ \A p \in Pids : ~Unstopped(proc', p)
    BY <2>1, <2>2, <2>3 DEF ChildInv
  <2>5. svc' = "STOPPED" => loop' = "quitting"
    BY <2>1 DEF ChildInv
  <2>. QED
    BY <2>4, <2>5 DEF ChildInv, NoChild, OneChild, Covered, Quiet, Unstopped, IsAlive
<1>2. CASE svc \in Active
  <2>1. /\ priv' = CleanPriv(IdlePriv(pv)) /\ proc' = Terminate(pr, pv.pid)
        /\ svc' = "STOPPED" /\ loop' = "quitting"
    BY <1>2 DEF PluginDisconnect, EnterStopped, CleanProc
  <2>2. pv.pid \in Pids \cup {None}
    BY DEF Priv
  <2>3. \A p \in Pids : proc'[p].watched = pr[p].watched
    BY <2>1, <2>2, TerminateChild
  <2>4. \A p \in Pids : ~Unstopped(proc', p)
    BY <2>1, <2>2, TerminateChild DEF Covered
  <2>5. OneChild(proc') /\ Covered(proc', priv', table') /\ (NoChild(pr) => NoChild(proc'))
    BY <2>3, <2>4 DEF OneChild, Covered, NoChild
  <2>6. Quiet(priv') /\ priv'.fetch = None
    BY <2>1, CleanPrivQuiet DEF Quiet
  <2>7. Unused' => NoChild(pr)
    BY <2>1 DEF Unused, ChildInv
  <2>. QED
    BY <2>1, <2>4, <2>5, <2>6, <2>7
    DEF ChildInv, NoChild, OneChild, Covered, Quiet, Unstopped, IsAlive
<1>. QED
  BY <1>1, <1>2

\* The child watch reaps the only child.
LEMMA WatchCbChild ==
    ASSUME QuitsOnStop, IndInv, ChildInv, NEW p \in Pids, WatchCb(p)
    PROVE  ChildInv'
<1>. DEFINE pv == [priv EXCEPT !.pid = None, !.connect_timer = FALSE]
<1>1. /\ priv \in Priv /\ proc \in Procs /\ loop # "down" /\ fail_stop' = fail_stop
      /\ proc[p].watched
  BY DEF IndInv, TypeOK, Procs, WatchCb
<1>2. \A q \in Pids \ {p} : ~proc[q].watched
  BY <1>1 DEF ChildInv, OneChild
<1>3. \A pr \in ReapedProcs(p) : pr \in Procs /\ NoChild(pr)
  <2>1. Stealable(p) = {}
    BY <1>2 DEF Stealable
  <2>2. [proc EXCEPT ![p] = FreeProc] \in Procs
    BY <1>1, FreeProcType DEF Procs
  <2>3. NoChild([proc EXCEPT ![p] = FreeProc])
    BY <1>1, <1>2 DEF NoChild, FreeProc, Procs
  <2>. QED
    BY <2>1, <2>2, <2>3 DEF ReapedProcs
<1>4. ~Unused /\ priv.fetch = None
  BY <1>1 DEF ChildInv, NoChild
<1>5. /\ pv \in Priv /\ pv.fetch = None /\ ~pv.connect_timer
      /\ pv.kill_switch_active = priv.kill_switch_active
      /\ pv.unexpected_drop = priv.unexpected_drop
  BY <1>1, <1>4 DEF Priv
<1>6. ASSUME NEW pr \in ReapedProcs(p), proc' = pr, UNCHANGED <<loop, svc>>,
             priv' = pv \/ priv' = [pv EXCEPT !.unexpected_drop = TRUE]
      PROVE  ChildInv'
  <2>1. NoChild(proc')
    BY <1>3, <1>6
  <2>2. /\ OneChild(proc') /\ Covered(proc', priv', table')
        /\ \A q \in Pids : ~Unstopped(proc', q)
    BY <2>1 DEF NoChild, OneChild, Covered, Unstopped
  <2>3. Quiet(priv) => Quiet(priv')
    BY <1>5, <1>6 DEF Quiet, Priv
  <2>4. Unused' = Unused
    BY <1>1, <1>6 DEF Unused
  <2>5. svc' = "STOPPED" => loop' = "quitting" /\ Quiet(priv')
    BY <1>6, <2>3 DEF ChildInv
  <2>. QED
    BY <1>4, <2>1, <2>2, <2>4, <2>5
    DEF ChildInv, NoChild, OneChild, Covered, Quiet, Unstopped, IsAlive
<1>7. ASSUME NEW pr \in ReapedProcs(p), PluginDisconnect(pv, pr)
      PROVE  ChildInv'
  <2>1. pr \in Procs /\ NoChild(pr)
    BY <1>3, <1>7
  <2>2. /\ OneChild(pr) /\ Covered(pr, pv, table)
        /\ \A q \in Pids : Unstopped(pr, q) => Unstopped(proc, q)
    BY <2>1 DEF NoChild, OneChild, Covered, Unstopped
  <2>. QED
    BY <1>1, <1>4, <1>5, <1>7, <2>1, <2>2, PluginDisconnectChild
<1>. QED
  BY <1>6, <1>7 DEF WatchCb

\* A fetch that ends finds no child and may start one.
LEMMA FetchDoneChild ==
    ASSUME IndInv, ChildInv, NEW t \in Tasks, FetchDone(t)
    PROVE  ChildInv'
<1>. DEFINE pv == [priv EXCEPT !.fetch = None]
<1>1. /\ priv \in Priv /\ proc \in Procs /\ loop # "down" /\ task[t].running
      /\ UNCHANGED <<loop, svc, fail_stop>>
  BY DEF IndInv, TypeOK, Procs, FetchDone
<1>2. Unused' = Unused
  BY <1>1 DEF Unused
<1>3. /\ pv \in Priv /\ pv.fetch = None /\ pv.pid = priv.pid
      /\ pv.connection = priv.connection
      /\ Quiet(priv) => Quiet(pv)
  BY <1>1 DEF Priv, Quiet
<1>. HIDE DEF pv
<1>4. CASE UNCHANGED <<priv, proc, table>>
  BY <1>1, <1>2, <1>4 DEF ChildInv, NoChild, OneChild, Covered, Quiet, Unstopped, IsAlive
<1>5. ASSUME priv' = pv, UNCHANGED <<proc, table>>
      PROVE  ChildInv'
  BY <1>1, <1>2, <1>3, <1>5
  DEF ChildInv, NoChild, OneChild, Covered, Quiet, Unstopped, IsAlive
<1>6. ASSUME ~task[t].cancelled, priv.connection # None,
             NEW profile, UseProfile(pv, profile)
      PROVE  ChildInv'
  <2>1. priv.fetch # None
    BY <1>1, <1>6, ServiceAssumption DEF IndInv, FetchInv, FetchMatchesAttempt
  <2>2. NoChild(proc) /\ ~Unused' /\ svc' # "STOPPED"
    BY <1>1, <1>2, <2>1 DEF ChildInv, Quiet
  <2>3. pv.connection \in Connections
    BY <1>1, <1>3, <1>6 DEF Priv
  <2>4. PICK o : RunOpenvpn(pv, proc, table, profile, o)
    BY <1>6 DEF UseProfile
  <2>5. /\ priv'.fetch = None
        /\ OneChild(proc') /\ Covered(proc', priv', table')
    BY <1>1, <1>3, <2>2, <2>3, <2>4, RunOpenvpnChild
  <2>. QED
    BY <1>1, <2>2, <2>5 DEF ChildInv, NoChild, OneChild, Covered, Quiet, Unstopped, IsAlive
<1>. QED
  BY <1>4, <1>5, <1>6 DEF FetchDone, FetchFailed, pv

\* The timers, the idle source, openvpn, its helper and the cache's age.
LEMMA OthersChild ==
    ASSUME QuitsOnStop, IndInv, ChildInv,
           \/ FailStop \/ ConnectTimeout
           \/ \E p \in Pids : EnsureKilled(p) \/ HelperConfig(p) \/ HelperFailure(p)
           \/ \E p \in Pids, status \in {"ok", "error"} : OpenvpnExit(p, status)
           \/ \E u \in Uuids : ExpireCache(u)
    PROVE  ChildInv'
<1>1. priv \in Priv /\ proc \in Procs
  BY DEF IndInv, TypeOK, Procs
\* None of them makes a child or moves the table.
<1>2. ASSUME /\ \A p \in Pids : proc'[p].watched => proc[p].watched
             /\ \A p \in Pids : Unstopped(proc', p) =>
                    /\ Unstopped(proc, p)
                    /\ proc'[p].connection = proc[p].connection
                    /\ proc'[p].profile = proc[p].profile,
             priv'.pid = priv.pid, priv'.fetch = priv.fetch, Quiet(priv) => Quiet(priv'),
             table' = table, Unused' \/ loop' = "down" => Unused \/ loop = "down",
             Unused' => Unused,
             svc' = "STOPPED" => loop' = "quitting" /\ (svc = "STOPPED" \/ Unused)
      PROVE  ChildInv'
  <2>1. OneChild(proc') /\ (NoChild(proc) => NoChild(proc'))
    BY <1>2 DEF ChildInv, OneChild, NoChild
  <2>2. Covered(proc', priv', table')
    BY <1>2 DEF ChildInv, Covered
  <2>3. loop' = "down" \/ Unused' \/ priv'.fetch # None => NoChild(proc')
    BY <1>2, <2>1 DEF ChildInv
  <2>4. Unused' \/ svc' = "STOPPED" => Quiet(priv') /\ \A p \in Pids : ~Unstopped(proc', p)
    BY <1>2 DEF ChildInv
  <2>. QED
    BY <1>2, <2>1, <2>2, <2>3, <2>4
    DEF ChildInv, NoChild, OneChild, Covered, Quiet, Unstopped, IsAlive
<1>3. CASE FailStop
  <2>1. Unused /\ loop # "down" /\ ~fail_stop' /\ UNCHANGED <<proc, table>>
    BY <1>3 DEF FailStop, Unused
  <2>2. \/ svc = "STOPPED" /\ UNCHANGED <<loop, svc, priv>>
        \/ priv' = IdlePriv(priv) /\ svc' = "STOPPED" /\ loop' = "quitting"
    BY <1>3 DEF FailStop, EnterStopped
  <2>3. ~Unused' /\ loop' # "down" /\ (svc' = "STOPPED" => loop' = "quitting")
    BY <2>1, <2>2 DEF Unused, ChildInv
  <2>4. priv'.pid = priv.pid /\ priv'.fetch = priv.fetch /\ (Quiet(priv) => Quiet(priv'))
    BY <1>1, <2>2 DEF IdlePriv, Priv, Quiet
  <2>. QED
    BY <1>2, <2>1, <2>3, <2>4
<1>4. CASE ConnectTimeout
  <2>1. /\ proc' = proc \/ proc' = Terminate(proc, priv.pid)
        /\ priv' = [priv EXCEPT !.connect_timer = FALSE]
        /\ UNCHANGED <<loop, svc, fail_stop, table>>
    BY <1>4 DEF ConnectTimeout
  <2>2. priv'.pid = priv.pid /\ priv'.fetch = priv.fetch /\ (Quiet(priv) => Quiet(priv'))
    BY <1>1, <2>1 DEF Priv, Quiet
  <2>3. /\ \A p \in Pids : proc'[p].watched => proc[p].watched
        /\ \A p \in Pids : Unstopped(proc', p) =>
               /\ Unstopped(proc, p)
               /\ proc'[p].connection = proc[p].connection
               /\ proc'[p].profile = proc[p].profile
    BY <1>1, <2>1, TerminateChild DEF Priv
  <2>4. Unused' = Unused
    BY <2>1 DEF Unused
  <2>5. svc' = "STOPPED" => loop' = "quitting"
    BY <2>1 DEF ChildInv
  <2>. QED
    BY <1>2, <2>1, <2>2, <2>3, <2>4, <2>5
\* What becomes of one process.
<1>5. ASSUME NEW p \in Pids,
             \A q \in Pids \ {p} : proc'[q] = proc[q],
             proc'[p].watched => proc[p].watched,
             Unstopped(proc', p) => /\ Unstopped(proc, p)
                                    /\ proc'[p].connection = proc[p].connection
                                    /\ proc'[p].profile = proc[p].profile
      PROVE  /\ \A q \in Pids : proc'[q].watched => proc[q].watched
             /\ \A q \in Pids : Unstopped(proc', q) =>
                    /\ Unstopped(proc, q)
                    /\ proc'[q].connection = proc[q].connection
                    /\ proc'[q].profile = proc[q].profile
  BY <1>5 DEF Unstopped, IsAlive
<1>6. ASSUME NEW p \in Pids, UNCHANGED <<loop, svc, fail_stop, priv, table>>,
             \A q \in Pids \ {p} : proc'[q] = proc[q],
             proc'[p].watched => proc[p].watched, ~Unstopped(proc', p) \/ proc'[p] = proc[p]
      PROVE  ChildInv'
  <2>1. Unused' = Unused /\ (svc' = "STOPPED" => loop' = "quitting")
    BY <1>6 DEF Unused, ChildInv
  <2>2. Unstopped(proc', p) => /\ Unstopped(proc, p)
                               /\ proc'[p].connection = proc[p].connection
                               /\ proc'[p].profile = proc[p].profile
    BY <1>6 DEF Unstopped, IsAlive
  <2>. QED
    BY <1>2, <1>5, <1>6, <2>1, <2>2
<1>7. ASSUME NEW p \in Pids, EnsureKilled(p)
      PROVE  ChildInv'
  <2>1. /\ \A q \in Pids \ {p} : proc'[q] = proc[q]
        /\ proc'[p].watched => proc[p].watched
        /\ ~Unstopped(proc', p) \/ proc'[p] = proc[p]
    BY <1>1, <1>7 DEF EnsureKilled, Unstopped, IsAlive, Procs, Proc
  <2>. QED
    BY <1>6, <1>7, <2>1 DEF EnsureKilled
<1>8. ASSUME NEW p \in Pids, NEW status,
             proc' = Exited(p, status), UNCHANGED <<loop, svc, fail_stop, priv, table>>
      PROVE  ChildInv'
  <2>1. /\ \A q \in Pids \ {p} : proc'[q] = proc[q]
        /\ proc'[p].watched => proc[p].watched
        /\ ~Unstopped(proc', p)
    BY <1>1, <1>8 DEF Exited, Unstopped, IsAlive, FreeProc, Procs, Proc
  <2>. QED
    BY <1>6, <1>8, <2>1
<1>9. ASSUME NEW p \in Pids, HelperConfig(p)
      PROVE  ChildInv'
  <2>1. /\ IsAlive(proc, p) /\ proc' = [proc EXCEPT ![p].st = "up"]
        /\ UNCHANGED <<loop, fail_stop, table>>
        /\ \/ priv' = priv /\ svc' = svc
           \/ /\ priv' = [priv EXCEPT !.started = TRUE, !.connect_timer = FALSE]
              /\ svc' = "STARTED"
    BY <1>9 DEF HelperConfig
  <2>2. /\ \A q \in Pids \ {p} : proc'[q] = proc[q]
        /\ proc'[p].watched = proc[p].watched /\ proc'[p].term = proc[p].term
        /\ proc'[p].connection = proc[p].connection /\ proc'[p].profile = proc[p].profile
    BY <1>1, <2>1 DEF Procs, Proc
  <2>3. priv'.pid = priv.pid /\ priv'.fetch = priv.fetch /\ (Quiet(priv) => Quiet(priv'))
    BY <1>1, <2>1 DEF Priv, Quiet
  <2>4. (Unused' => Unused) /\ (svc' = "STOPPED" => svc = "STOPPED" /\ loop' = "quitting")
    BY <2>1 DEF Unused, ChildInv
  <2>5. Unstopped(proc', p) => Unstopped(proc, p)
    BY <2>1, <2>2 DEF Unstopped
  <2>. QED
    BY <1>2, <1>5, <2>1, <2>2, <2>3, <2>4, <2>5
<1>10. ASSUME NEW u \in Uuids, ExpireCache(u)
       PROVE  ChildInv'
  <2>1. UNCHANGED <<loop, svc, fail_stop, priv, proc, table>>
    BY <1>10 DEF ExpireCache
  <2>. QED
    BY <2>1 DEF ChildInv, Unused, NoChild, OneChild, Covered, Quiet, Unstopped, IsAlive
<1>. QED
  BY <1>3, <1>4, <1>7, <1>8, <1>9, <1>10 DEF HelperFailure, OpenvpnExit

\* A daemon that starts has no child, and one that ends leaves none behind.
LEMMA LifeChild ==
    ASSUME IndInv, ChildInv, Start \/ Exit \/ Crash
    PROVE  ChildInv'
<1>1. Quiet(NewPriv) /\ NewPriv.fetch = None
  BY DEF NewPriv, Quiet
<1>2. ASSUME priv' = NewPriv, NoChild(proc'), svc' # "STOPPED"
      PROVE  ChildInv'
  <2>1. /\ OneChild(proc') /\ Covered(proc', priv', table')
        /\ \A p \in Pids : ~Unstopped(proc', p)
    BY <1>2 DEF NoChild, OneChild, Covered, Unstopped
  <2>. QED
    BY <1>1, <1>2, <2>1 DEF ChildInv, NoChild, OneChild, Covered, Quiet, Unstopped, IsAlive
<1>3. CASE Start
  <2>1. loop = "down" /\ UNCHANGED <<svc, priv, proc>>
    BY <1>3 DEF Start
  <2>2. priv = NewPriv /\ NoChild(proc) /\ svc # "STOPPED"
    BY <2>1 DEF IndInv, DownInv, ChildInv
  <2>. QED
    BY <1>2, <2>1, <2>2 DEF NoChild
<1>4. ASSUME NEW pr \in Procs, Gone(pr)
      PROVE  ChildInv'
  <2>1. priv' = NewPriv /\ svc' = "INIT"
    BY <1>4 DEF Gone
  <2>2. NoChild(proc')
    BY <1>4 DEF Gone, NoChild, FreeProc, Procs, Proc
  <2>. QED
    BY <1>2, <2>1, <2>2
<1>5. proc \in Procs /\ CleanProc(priv, proc) \in Procs
  BY TerminateType DEF IndInv, TypeOK, CleanProc, Procs, Priv
<1>. QED
  BY <1>3, <1>4, <1>5 DEF Exit, Crash

(***************************************************************************)
(* The theorems.                                                           *)
(***************************************************************************)
\* The daemon has not been started and has no child.
LEMMA InitChild == Init => ChildInv
<1>1. NewPriv.fetch = None /\ ~FreeProc.watched
  BY DEF NewPriv, FreeProc
<1>. QED
  BY <1>1 DEF Init, ChildInv, Unused, NoChild, OneChild, Covered, Unstopped

\* Every step keeps the daemon to its one child.
LEMMA NextChild ==
    ASSUME QuitsOnStop, ~SecretsCalls
    PROVE  IndInv /\ ChildInv /\ [Next]_vars => ChildInv'
<1>. SUFFICES ASSUME IndInv, ChildInv, [Next]_vars PROVE ChildInv'
  OBVIOUS
<1>1. CASE UNCHANGED vars
  BY <1>1 DEF vars, ChildInv, Unused, NoChild, OneChild, Covered, Quiet, Unstopped, IsAlive
<1>2. ASSUME NEW c \in Connections, Connect(c) PROVE ChildInv'
  BY <1>2, ConnectChild
<1>3. \A c \in Connections : ~NewSecrets(c)
  BY DEF NewSecrets
<1>4. CASE Disconnect
  <2>1. priv \in Priv /\ proc \in Procs
    BY DEF IndInv, TypeOK, Procs
  <2>2. OneChild(proc) /\ Covered(proc, priv, table)
    BY DEF ChildInv
  <2>. QED
    BY <1>4, <2>1, <2>2, PluginDisconnectChild DEF Disconnect
<1>5. ASSUME NEW t \in Tasks, FetchDone(t) PROVE ChildInv'
  BY <1>5, FetchDoneChild
<1>6. ASSUME NEW p \in Pids, WatchCb(p) PROVE ChildInv'
  BY <1>6, WatchCbChild
<1>. QED
  BY <1>1, <1>2, <1>3, <1>4, <1>5, <1>6, OthersChild, LifeChild DEF Next

\* The inductive invariant of this module.
LEMMA ChildInductive ==
    ASSUME QuitsOnStop, ~SecretsCalls
    PROVE  Spec => []ChildInv
  BY InitChild, NextChild, IndInvHolds, PTL DEF Spec

\* As NetworkManager runs the daemon, no openvpn of a connection with the
\* kill switch on runs without a table that accepts its remotes, whatever
\* writes and nft calls fail and whenever the daemon crashes.
THEOREM TunnelsAreCovered ==
    ASSUME QuitsOnStop, ~SecretsCalls
    PROVE  Spec => []KillSwitchCoversTunnel
<1>1. ChildInv => KillSwitchCoversTunnel
  BY DEF ChildInv, Covered, Unstopped, KillSwitchCoversTunnel, Current
<1>. QED
  BY <1>1, ChildInductive, PTL

\* As NetworkManager runs the daemon and as long as nft works, a stopped
\* daemon has nothing of the attempt left going on.
THEOREM StoppedMeansIdle ==
    ASSUME QuitsOnStop, ~SecretsCalls, ~NftFaults
    PROVE  Spec => []StoppedIsIdle
<1>1. IndInv /\ ChildInv /\ FlagMatchesTable => StoppedIsIdle
  <2>. SUFFICES ASSUME IndInv, ChildInv, FlagMatchesTable, svc = "STOPPED"
                PROVE  StoppedIsIdle
    BY DEF StoppedIsIdle
  <2>1. loop = "quitting" /\ Quiet(priv) /\ \A p \in Pids : ~Unstopped(proc, p)
    BY DEF ChildInv
  <2>2. \A t \in Tasks : task[t].running => task[t].cancelled
    BY <2>1, ServiceAssumption DEF Quiet, IndInv, FetchInv, FetchMatchesAttempt
  <2>3. table # NoTable => priv.unexpected_drop
    BY <2>1 DEF Quiet, FlagMatchesTable
  <2>. QED
    BY <2>1, <2>2, <2>3 DEF StoppedIsIdle, Quiet, Unstopped, Current
<1>. QED
  BY <1>1, ChildInductive, FlagIsTrue, IndInvHolds, PTL

(***************************************************************************)
(* Which profiles are blamed.                                              *)
(***************************************************************************)
\* An established connection is known to be one, and a child watch that is
\* still to come finds no UUID after the attempt has ended.
BlameInv ==
    /\ svc = "STARTED" => priv.started
    /\ svc = "INIT" => loop # "quitting"
    /\ svc = "STOPPED" /\ priv.uuid # None => NoChild(proc)

Blames(u) ==
    /\ disk[u].meta # None /\ disk'[u].meta # None
    /\ ~disk[u].meta.stale /\ disk'[u].meta.stale

\* mark_stale of the UUID of the attempt blames no other.
LEMMA MarkedStaleBlames ==
    ASSUME disk \in Disks, NEW calls, NEW v \in Uuids \cup {None},
           disk' \in MarkedStale(calls, v), NEW u \in Uuids, Blames(u)
    PROVE  calls /\ v = u
  BY DEF MarkedStale, Disks, Blames

\* Every step of the daemon keeps what is known of it.
LEMMA NextBlame ==
    ASSUME QuitsOnStop, ~SecretsCalls, IndInv, ChildInv, BlameInv, [Next]_vars
    PROVE  BlameInv'
<1>1. priv \in Priv /\ proc \in Procs
  BY DEF IndInv, TypeOK, Procs
<1>2. CASE UNCHANGED vars
  BY <1>2 DEF vars, BlameInv, NoChild
<1>3. ASSUME NEW c \in Connections, Connect(c) PROVE BlameInv'
  BY <1>3 DEF Connect, BlameInv, ChildInv
<1>4. ASSUME NEW pv \in Priv, pv.uuid = priv.uuid, pv.started = priv.started,
             NEW pr, NoChild(proc) => NoChild(pr), PluginDisconnect(pv, pr)
      PROVE  BlameInv'
  <2>1. CASE svc \notin Active
    BY <1>4, <2>1 DEF PluginDisconnect, BlameInv, Active, NoChild
  <2>2. CASE svc \in Active
    <3>1. priv' = CleanPriv(IdlePriv(pv)) /\ svc' = "STOPPED"
      BY <1>4, <2>2 DEF PluginDisconnect, EnterStopped
    <3>2. priv'.uuid = None
      BY <3>1 DEF CleanPriv, NewPriv
    <3>. QED
      BY <3>1, <3>2 DEF BlameInv
  <2>. QED
    BY <2>1, <2>2
<1>5. CASE Disconnect
  BY <1>1, <1>4, <1>5 DEF Disconnect
<1>6. CASE FailStop
  <2>1. NoChild(proc) /\ proc' = proc /\ svc' = "STOPPED"
    BY <1>6 DEF FailStop, EnterStopped, ChildInv, Unused
  <2>. QED
    BY <2>1 DEF BlameInv, NoChild
<1>7. ASSUME NEW p \in Pids, WatchCb(p) PROVE BlameInv'
  <2>. DEFINE pv == [priv EXCEPT !.pid = None, !.connect_timer = FALSE]
  <2>1. pv \in Priv /\ pv.uuid = priv.uuid /\ pv.started = priv.started
    BY <1>1 DEF Priv
  <2>2. ~NoChild(proc)
    BY <1>7 DEF WatchCb, NoChild
  <2>3. CASE priv' = pv /\ UNCHANGED <<loop, svc>>
    BY <2>1, <2>2, <2>3 DEF BlameInv
  <2>4. CASE priv' = [pv EXCEPT !.unexpected_drop = TRUE] /\ UNCHANGED <<loop, svc>>
    <3>1. priv'.uuid = priv.uuid /\ priv'.started = priv.started
      BY <2>1, <2>4 DEF Priv
    <3>. QED
      BY <2>2, <2>4, <3>1 DEF BlameInv
  <2>5. ASSUME NEW pr, PluginDisconnect(pv, pr) PROVE BlameInv'
    BY <1>4, <2>1, <2>2, <2>5
  <2>. QED
    BY <1>7, <2>3, <2>4, <2>5 DEF WatchCb
<1>8. ASSUME NEW t \in Tasks, FetchDone(t) PROVE BlameInv'
  <2>. DEFINE pv == [priv EXCEPT !.fetch = None]
  <2>1. /\ UNCHANGED <<loop, svc>> /\ pv \in Priv /\ pv.uuid = priv.uuid
        /\ pv.started = priv.started
    BY <1>1, <1>8 DEF FetchDone, Priv
  <2>2. CASE priv' \in {priv, pv} /\ proc' = proc
    BY <2>1, <2>2 DEF BlameInv, NoChild
  <2>3. ASSUME ~task[t].cancelled, priv.connection # None, NEW profile, UseProfile(pv, profile)
        PROVE  BlameInv'
    <3>1. priv.fetch # None
      BY <1>8, <2>3, ServiceAssumption DEF FetchDone, IndInv, FetchInv, FetchMatchesAttempt
    <3>2. svc # "STOPPED"
      BY <3>1 DEF ChildInv, Quiet
    <3>3. \E wanted, p : priv' \in
            {pv, [pv EXCEPT !.kill_switch_active = FALSE, !.unexpected_drop = FALSE],
             [[pv EXCEPT !.kill_switch_active = FALSE, !.unexpected_drop = FALSE]
                EXCEPT !.pid = p, !.kill_switch_active = wanted, !.connect_timer = TRUE]}
      BY <2>3 DEF UseProfile, RunOpenvpn
    <3>4. priv'.started = priv.started
      BY <2>1, <3>3 DEF Priv
    <3>. QED
      BY <2>1, <3>2, <3>4 DEF BlameInv
  <2>. QED
    BY <1>8, <2>2, <2>3 DEF FetchDone, FetchFailed
<1>9. CASE ConnectTimeout
  <2>1. /\ UNCHANGED <<loop, svc>> /\ priv'.started = priv.started
        /\ priv'.connect_timer = FALSE /\ priv.connect_timer
    BY <1>1, <1>9 DEF ConnectTimeout, Priv
  <2>2. svc # "STOPPED"
    BY <2>1 DEF ChildInv, Quiet
  <2>. QED
    BY <2>1, <2>2 DEF BlameInv
<1>10. ASSUME UNCHANGED <<loop, svc, priv>>,
              \A p \in Pids : proc'[p].watched => proc[p].watched
       PROVE  BlameInv'
  BY <1>10 DEF BlameInv, NoChild
<1>11. ASSUME NEW p \in Pids, EnsureKilled(p) \/ HelperFailure(p)
       PROVE  BlameInv'
  <2>1. \A q \in Pids : proc'[q].watched => proc[q].watched
    BY <1>1, <1>11 DEF EnsureKilled, HelperFailure, Exited, FreeProc, Procs, Proc
  <2>. QED
    BY <1>10, <1>11, <2>1 DEF EnsureKilled, HelperFailure
<1>12. ASSUME NEW p \in Pids, NEW status \in {"ok", "error"}, OpenvpnExit(p, status)
       PROVE  BlameInv'
  <2>1. \A q \in Pids : proc'[q].watched => proc[q].watched
    BY <1>1, <1>12 DEF OpenvpnExit, Exited, FreeProc, Procs, Proc
  <2>. QED
    BY <1>10, <1>12, <2>1 DEF OpenvpnExit
<1>13. ASSUME NEW p \in Pids, HelperConfig(p)
       PROVE  BlameInv'
  <2>1. \A q \in Pids : proc'[q].watched = proc[q].watched
    BY <1>1, <1>13 DEF HelperConfig, Procs, Proc
  <2>2. \/ UNCHANGED <<loop, svc, priv>>
        \/ svc' = "STARTED" /\ priv' = [priv EXCEPT !.started = TRUE, !.connect_timer = FALSE]
    BY <1>13 DEF HelperConfig
  <2>3. svc' = "STARTED" /\ svc # "STARTED" => priv'.started
    BY <1>1, <2>2 DEF Priv
  <2>. QED
    BY <1>1, <2>1, <2>2, <2>3 DEF BlameInv, NoChild, Priv
<1>14. ASSUME NEW u \in Uuids, ExpireCache(u)
       PROVE  BlameInv'
  BY <1>10, <1>14 DEF ExpireCache
<1>15. CASE Start
  BY <1>15 DEF Start, PluginNew, BlameInv, NoChild
<1>16. CASE Exit \/ Crash
  BY <1>16 DEF Exit, Crash, Gone, BlameInv
<1>17. \A c \in Connections : ~NewSecrets(c)
  BY DEF NewSecrets
<1>. QED
  BY <1>2, <1>3, <1>5, <1>6, <1>7, <1>8, <1>9, <1>11, <1>12, <1>13, <1>14, <1>15, <1>16, <1>17
  DEF Next

\* The handlers that call mark_stale do so for the UUID of an attempt that
\* has not got through, and no other step marks anything.
LEMMA OnlyAttemptsAreBlamed ==
    ASSUME QuitsOnStop, ~SecretsCalls, IndInv, ChildInv, BlameInv, [Next]_vars,
           NEW u \in Uuids, Blames(u)
    PROVE  svc = "STARTING" /\ priv.uuid = u
<1>1. priv \in Priv /\ proc \in Procs /\ disk \in Disks /\ priv.uuid \in Uuids \cup {None}
  BY DEF IndInv, TypeOK, Procs, Disks, Priv
<1>2. disk' # disk
  BY DEF Blames
<1>3. svc \in {"INIT", "STARTING", "STARTED", "STOPPED"}
  BY DEF IndInv, TypeOK
<1>4. ASSUME NEW pv, pv.uuid = priv.uuid, pv.started = priv.started, NEW pr,
             PluginDisconnect(pv, pr)
      PROVE  svc = "STARTING" /\ priv.uuid = u
  <2>1. svc \in Active /\ disk' \in MarkedStale(pv.pid # None /\ ~pv.started, pv.uuid)
    BY <1>2, <1>4 DEF PluginDisconnect
  <2>2. ~priv.started /\ priv.uuid = u
    BY <1>1, <1>4, <2>1, MarkedStaleBlames
  <2>. QED
    BY <2>1, <2>2 DEF BlameInv, Active
<1>5. CASE Disconnect
  BY <1>4, <1>5 DEF Disconnect
<1>6. ASSUME NEW p \in Pids, WatchCb(p)
      PROVE  svc = "STARTING" /\ priv.uuid = u
  <2>. DEFINE pv == [priv EXCEPT !.pid = None, !.connect_timer = FALSE]
  <2>1. pv.uuid = priv.uuid /\ pv.started = priv.started
    BY <1>1 DEF Priv
  <2>2. CASE ~priv.started /\ disk' \in MarkedStale(TRUE, priv.uuid)
    <3>1. priv.uuid = u
      BY <1>1, <2>2, MarkedStaleBlames
    <3>2. ~NoChild(proc) /\ priv.uuid # None /\ loop # "down"
      BY <1>6, <3>1, ServiceAssumption DEF WatchCb, NoChild
    <3>3. svc \notin {"STARTED", "STOPPED"}
      BY <2>2, <3>2 DEF BlameInv
    <3>4. svc # "INIT"
      BY <3>2 DEF BlameInv, ChildInv, Unused, IndInv, TypeOK
    <3>. QED
      BY <1>3, <3>1, <3>3, <3>4
  <2>3. ASSUME NEW pr, PluginDisconnect(pv, pr)
        PROVE  svc = "STARTING" /\ priv.uuid = u
    BY <1>4, <2>1, <2>3
  <2>. QED
    BY <1>2, <1>6, <2>2, <2>3 DEF WatchCb
<1>7. CASE ConnectTimeout
  <2>1. priv.connect_timer /\ loop # "down" /\ ~priv.started
        /\ disk' \in MarkedStale(TRUE, priv.uuid)
    BY <1>2, <1>7 DEF ConnectTimeout
  <2>2. priv.uuid = u
    BY <1>1, <2>1, MarkedStaleBlames
  <2>3. svc \notin {"STARTED", "STOPPED"}
    BY <2>1 DEF BlameInv, ChildInv, Quiet
  <2>4. svc # "INIT"
    BY <2>1 DEF BlameInv, ChildInv, Unused, Quiet, IndInv, TypeOK
  <2>. QED
    BY <1>3, <2>2, <2>3, <2>4
<1>8. ASSUME NEW v, NEW profile, NEW p, NEW w,
             disk' = [disk EXCEPT ![v] = Store(disk[v], profile, p, w)]
      PROVE  FALSE
  BY <1>1, <1>8 DEF Store, Disks, Blames
<1>9. ASSUME NEW v \in Uuids, ExpireCache(v)
      PROVE  FALSE
  BY <1>1, <1>9 DEF ExpireCache, Expire, Disks, Entry, Meta, Blames
<1>10. ASSUME NEW t \in Tasks, FetchDone(t)
       PROVE  FALSE
  BY <1>2, <1>8, <1>10 DEF FetchDone
<1>11. ~Crash
  BY <1>2, <1>8 DEF Crash
<1>12. \A c \in Connections : ~Connect(c) /\ ~NewSecrets(c)
  BY <1>2 DEF Connect, NewSecrets, ConnectRefused, ConnectAccepted
<1>. QED
  BY <1>2, <1>5, <1>6, <1>7, <1>9, <1>10, <1>11, <1>12
  DEF Next, vars, FailStop, EnsureKilled, HelperConfig, HelperFailure, OpenvpnExit, Start, Exit

\* As NetworkManager runs the daemon, a profile is marked stale only for an
\* attempt that never got through, and only the attempt's own.
THEOREM OnlyAttemptsBlame ==
    ASSUME QuitsOnStop, ~SecretsCalls
    PROVE  Spec => StaleOnlyWhileStarting
<1>. DEFINE Step == \A u \in Uuids : Blames(u) => svc = "STARTING" /\ priv.uuid = u
<1>1. Init => BlameInv
  BY DEF Init, BlameInv
<1>2. IndInv /\ ChildInv /\ BlameInv /\ [Next]_vars => BlameInv'
  BY NextBlame
<1>3. IndInv /\ ChildInv /\ BlameInv /\ [Next]_vars => Step
  BY OnlyAttemptsAreBlamed
<1>4. Step => (\A u \in Uuids :
                 /\ disk[u].meta # None /\ disk'[u].meta # None
                 /\ ~disk[u].meta.stale /\ disk'[u].meta.stale
                 => svc = "STARTING" /\ priv.uuid = u)
  BY DEF Blames
<1>. HIDE DEF Step
<1>. QED
  BY <1>1, <1>2, <1>3, <1>4, ChildInductive, IndInvHolds, PTL DEF Spec, StaleOnlyWhileStarting

\* As NetworkManager runs the daemon, no two openvpn processes run at a time
\* that nobody told to stop; the run stale_watch shows two under --persist.
THEOREM TunnelsAreOne ==
    ASSUME QuitsOnStop, ~SecretsCalls
    PROVE  Spec => []OneTunnel
<1>1. ChildInv => OneTunnel
  BY DEF ChildInv, Covered, Unstopped, OneTunnel, Current
<1>. QED
  BY <1>1, ChildInductive, PTL

(***************************************************************************)
(* An openvpn that only exits with status 0 when it is told to stop.  The  *)
(* runs clean_exit_stale and clean_exit_drop show what the daemon makes of *)
(* another one; the theorems below show that this is the only way in which *)
(* the two promises they refute are broken.                                *)
(***************************************************************************)
KeepsTrying ==
    \A p \in Pids : Unstopped(proc, p) /\ proc'[p].st = "exited" => proc'[p].status = "error"

\* An exit that the child watch still has to see is an error or was asked for.
ExitInv ==
    \A p \in Pids :
        proc[p].watched /\ proc[p].st = "exited" /\ ~proc[p].term => proc[p].status = "error"

\* A daemon that has no attempt, or is done with it, has neither openvpn nor
\* fetch.
IdleInv == loop = "quitting" \/ Unused => priv.pid = None /\ priv.fetch = None

\* An attempt whose openvpn was told to stop has given its profile up.
GivenUpInv ==
    svc = "STARTING" /\ (\E p \in Pids : proc[p].watched /\ proc[p].term)
    => ~IsValid(disk[priv.uuid], priv.connection.params)

\* A SIGTERM changes no process that has exited.
LEMMA TerminateExits ==
    ASSUME NEW pr \in Procs, NEW p \in Pids \cup {None}, NEW q \in Pids,
           Terminate(pr, p)[q].st = "exited"
    PROVE  Terminate(pr, p)[q] = pr[q]
<1>1. CASE p \in Pids /\ IsAlive(pr, p)
  <2>1. Terminate(pr, p) = [pr EXCEPT ![p].term = TRUE]
    BY <1>1, ServiceAssumption DEF Terminate
  <2>2. Terminate(pr, p)[p].st = pr[p].st
    BY <1>1, <2>1 DEF Procs, Proc
  <2>3. q # p
    BY <1>1, <2>2 DEF IsAlive
  <2>. QED
    BY <2>1, <2>3 DEF Procs
<1>2. CASE ~(p \in Pids /\ IsAlive(pr, p))
  BY <1>2 DEF Terminate
<1>. QED
  BY <1>1, <1>2

\* Nor does run_openvpn.
LEMMA RunOpenvpnExits ==
    ASSUME NEW pv, NEW pr \in Procs, NEW tb, NEW profile, NEW o,
           RunOpenvpn(pv, pr, tb, profile, o), NEW q \in Pids, proc'[q].st = "exited"
    PROVE  proc'[q] = pr[q]
<1>1. CASE proc' = pr
  BY <1>1
<1>2. ASSUME NEW p \in Pids,
             proc' = [pr EXCEPT ![p] = [FreeProc EXCEPT !.st = "handshake",
                                                        !.watched = TRUE,
                                                        !.profile = profile,
                                                        !.connection = pv.connection]]
      PROVE  proc'[q] = pr[q]
  <2>1. proc'[p].st = "handshake"
    BY <1>2 DEF Procs, FreeProc
  <2>. QED
    BY <1>2, <2>1 DEF Procs
<1>. QED
  BY <1>1, <1>2 DEF RunOpenvpn

\* The child watch finds no second child whose status it could take away.
LEMMA OnlyReaped ==
    ASSUME proc \in Procs, OneChild(proc), NEW p \in Pids, proc[p].watched
    PROVE  ReapedProcs(p) = {[proc EXCEPT ![p] = FreeProc]}
<1>1. Stealable(p) = {}
  BY DEF Stealable, OneChild
<1>. QED
  BY <1>1 DEF ReapedProcs

\* A process that has exited had exited before, or was not told to stop, or
\* fails.
LEMMA ExitStep ==
    ASSUME IndInv, ChildInv, Next, NEW q \in Pids,
           proc'[q].watched, proc'[q].st = "exited", ~proc'[q].term
    PROVE  proc'[q] = proc[q] \/ Unstopped(proc, q) \/ proc'[q].status = "error"
<1>. DEFINE Goal == proc'[q] = proc[q] \/ Unstopped(proc, q) \/ proc'[q].status = "error"
<1>1. proc \in Procs /\ priv \in Priv /\ priv.pid \in Pids \cup {None}
  BY DEF IndInv, TypeOK, Procs, Priv
<1>2. CleanProc(priv, proc) \in Procs /\ (CleanProc(priv, proc)[q].st = "exited"
                                          => CleanProc(priv, proc)[q] = proc[q])
  BY <1>1, TerminateType, TerminateExits DEF CleanProc
<1>3. ASSUME NEW c, NEW ok, ConnectAccepted(c, ok) PROVE Goal
  <2>1. ASSUME NEW pv, NEW tb, NEW profile, NEW o,
               RunOpenvpn(pv, CleanProc(priv, proc), tb, profile, o)
        PROVE  Goal
    BY <1>2, <2>1, RunOpenvpnExits
  <2>. QED
    BY <1>2, <1>3, <2>1 DEF ConnectAccepted
<1>4. ASSUME NEW c \in Connections, Connect(c) \/ NewSecrets(c) PROVE Goal
  BY <1>3, <1>4 DEF Connect, NewSecrets, ConnectRefused
<1>5. CASE Disconnect
  BY <1>2, <1>5 DEF Disconnect, PluginDisconnect
<1>6. CASE FailStop \/ Start \/ \E u \in Uuids : ExpireCache(u)
  BY <1>6 DEF FailStop, Start, ExpireCache
<1>7. CASE ConnectTimeout
  <2>1. proc' = proc \/ proc' = Terminate(proc, priv.pid)
    BY <1>7 DEF ConnectTimeout
  <2>2. CASE proc' = Terminate(proc, priv.pid)
    BY <1>1, <2>2, TerminateExits
  <2>. QED
    BY <2>1, <2>2
<1>8. ASSUME NEW t \in Tasks, FetchDone(t) PROVE Goal
  <2>1. ASSUME NEW pv, NEW profile, UseProfile(pv, profile) PROVE Goal
    BY <1>1, <2>1, RunOpenvpnExits DEF UseProfile
  <2>. QED
    BY <1>8, <2>1 DEF FetchDone, FetchFailed
<1>9. ASSUME NEW p \in Pids, WatchCb(p) PROVE Goal
  <2>. DEFINE pr == [proc EXCEPT ![p] = FreeProc]
              pv == [priv EXCEPT !.pid = None, !.connect_timer = FALSE]
  <2>1. ReapedProcs(p) = {pr}
    BY <1>1, <1>9, OnlyReaped DEF WatchCb, ChildInv
  <2>2. pr \in Procs /\ (pr[q].st = "exited" => pr[q] = proc[q])
    BY <1>1, FreeProcType DEF Procs, FreeProc
  <2>3. CleanProc(pv, pr) = pr
    BY <1>1 DEF CleanProc, Terminate, Priv
  <2>4. proc' = pr
    <3>. HIDE DEF pr, pv
    <3>. QED
      BY <1>9, <2>1, <2>3 DEF WatchCb, PluginDisconnect, pv
  <2>. QED
    BY <2>2, <2>4
<1>10. ASSUME NEW p \in Pids, EnsureKilled(p) \/ HelperConfig(p) PROVE Goal
  BY <1>1, <1>10 DEF EnsureKilled, HelperConfig, Procs, Proc
<1>11. ASSUME NEW p \in Pids, NEW status, IsAlive(proc, p), proc' = Exited(p, status) PROVE Goal
  <2>1. CASE q # p
    BY <1>1, <1>11, <2>1 DEF Exited, Procs
  <2>2. CASE q = p
    <3>1. proc[p].watched /\ proc'[p].term = proc[p].term
      BY <1>1, <1>11, <2>2 DEF Exited, FreeProc, Procs, Proc
    <3>. QED
      BY <1>11, <2>2, <3>1 DEF Unstopped
  <2>. QED
    BY <2>1, <2>2
<1>12. ~Exit /\ ~Crash
  <2>1. ASSUME NEW pr \in Procs, Gone(pr) PROVE ~proc'[q].watched
    BY <2>1 DEF Gone, FreeProc, Procs, Proc
  <2>. QED
    BY <1>1, <1>2, <2>1 DEF Exit, Crash
<1>. QED
  BY <1>4, <1>5, <1>6, <1>7, <1>8, <1>9, <1>10, <1>11, <1>12
  DEF Next, HelperFailure, OpenvpnExit

\* Every step keeps an exit that nobody asked for an error.
LEMMA NextExit ==
    ASSUME IndInv, ChildInv, ExitInv, [Next]_vars, [KeepsTrying]_vars
    PROVE  ExitInv'
<1>1. CASE UNCHANGED vars
  BY <1>1 DEF vars, ExitInv
<1>2. CASE Next /\ KeepsTrying
  BY <1>2, ExitStep DEF ExitInv, KeepsTrying
<1>. QED
  BY <1>1, <1>2

\* Every step keeps an idle daemon idle.
LEMMA NextIdle ==
    ASSUME QuitsOnStop, ~SecretsCalls, IndInv, ChildInv, IdleInv, [Next]_vars
    PROVE  IdleInv'
<1>1. priv \in Priv
  BY DEF IndInv, TypeOK
<1>2. ASSUME priv'.pid = priv.pid \/ priv'.pid = None,
             priv'.fetch = priv.fetch \/ priv'.fetch = None,
             loop' = "quitting" \/ Unused' => loop = "quitting" \/ Unused
      PROVE  IdleInv'
  BY <1>2 DEF IdleInv
<1>3. CASE UNCHANGED vars
  BY <1>2, <1>3 DEF vars, Unused
<1>4. ASSUME NEW c \in Connections, Connect(c) PROVE IdleInv'
  <2>. DEFINE fresh == [CleanPriv(priv) EXCEPT !.connection = c, !.uuid = c.uuid]
  <2>1. loop = "running" /\ loop' = "running" /\ Unused
    BY <1>4 DEF Connect, ChildInv, Unused
  <2>2. fresh \in Priv /\ fresh.pid = None /\ fresh.fetch = None
    <3>1. /\ CleanPriv(priv) \in Priv
          /\ CleanPriv(priv).pid = None /\ CleanPriv(priv).fetch = None
      BY <1>1, CleanPrivType DEF CleanPriv, NewPriv
    <3>. QED
      BY <3>1 DEF Priv, Connections
  <2>3. PICK ok \in BOOLEAN : /\ fail_stop' = ~ok
                              /\ svc' = IF ok THEN "STARTING" ELSE svc
                              /\ (~ok /\ ConnectRefused) \/ ConnectAccepted(c, ok)
    BY <1>4 DEF Connect
  <2>4. CASE ok
    BY <2>1, <2>3, <2>4 DEF IdleInv, Unused
  <2>5. CASE priv' = priv
    BY <1>2, <2>1, <2>5
  <2>6. ASSUME ~ok, ConnectAccepted(c, ok)
        PROVE  priv'.pid = None /\ priv'.fetch = None
    <3>1. priv' \in {fresh, [fresh EXCEPT !.kill_switch_active = FALSE, !.unexpected_drop = FALSE]}
      BY <2>6 DEF ConnectAccepted, RunOpenvpn
    <3>. QED
      BY <2>2, <3>1 DEF Priv
  <2>. QED
    BY <1>2, <2>1, <2>3, <2>4, <2>5, <2>6 DEF ConnectRefused
<1>5. \A c \in Connections : ~NewSecrets(c)
  BY DEF NewSecrets
<1>6. ASSUME NEW pv \in Priv, pv.pid \in {None, priv.pid}, pv.fetch = priv.fetch, NEW pr,
             fail_stop' = fail_stop, loop # "down", PluginDisconnect(pv, pr)
      PROVE  IdleInv'
  <2>1. CASE svc \notin Active
    BY <1>2, <1>6, <2>1 DEF PluginDisconnect, Unused
  <2>2. CASE svc \in Active
    <3>1. priv' = CleanPriv(IdlePriv(pv))
      BY <1>6, <2>2 DEF PluginDisconnect
    <3>. QED
      BY <3>1 DEF IdleInv, CleanPriv, NewPriv
  <2>. QED
    BY <2>1, <2>2
<1>7. CASE Disconnect
  BY <1>1, <1>6, <1>7 DEF Disconnect
<1>8. CASE FailStop
  <2>1. Unused /\ priv'.pid = priv.pid /\ priv'.fetch = priv.fetch
    BY <1>1, <1>8 DEF FailStop, Unused, IdlePriv, Priv
  <2>. QED
    BY <1>2, <2>1
<1>9. ASSUME NEW p \in Pids, WatchCb(p) PROVE IdleInv'
  <2>. DEFINE pv == [priv EXCEPT !.pid = None, !.connect_timer = FALSE]
  <2>1. pv \in Priv /\ pv.pid = None /\ pv.fetch = priv.fetch
    BY <1>1 DEF Priv
  <2>2. CASE UNCHANGED <<loop, svc>> /\ priv' \in {pv, [pv EXCEPT !.unexpected_drop = TRUE]}
    <3>1. priv'.pid = None /\ priv'.fetch = priv.fetch
      BY <2>1, <2>2 DEF Priv
    <3>2. Unused' = Unused
      BY <1>9, <2>2 DEF WatchCb, Unused
    <3>. QED
      BY <1>2, <2>2, <3>1, <3>2
  <2>3. ASSUME NEW pr, PluginDisconnect(pv, pr) PROVE IdleInv'
    BY <1>6, <1>9, <2>1, <2>3 DEF WatchCb
  <2>. QED
    BY <1>9, <2>2, <2>3 DEF WatchCb
<1>10. ASSUME UNCHANGED <<loop, svc, fail_stop>>,
              priv'.pid = priv.pid, priv'.fetch \in {None, priv.fetch}
       PROVE  IdleInv'
  BY <1>2, <1>10 DEF Unused
<1>11. CASE ConnectTimeout
  <2>1. priv'.pid = priv.pid /\ priv'.fetch = priv.fetch
    BY <1>1, <1>11 DEF ConnectTimeout, Priv
  <2>. QED
    BY <1>10, <1>11, <2>1 DEF ConnectTimeout
<1>12. ASSUME NEW t \in Tasks, FetchDone(t) PROVE IdleInv'
  <2>. DEFINE pv == [priv EXCEPT !.fetch = None]
  <2>1. UNCHANGED <<loop, svc, fail_stop>> /\ pv.pid = priv.pid /\ pv.fetch = None
    BY <1>1, <1>12 DEF FetchDone, Priv
  <2>2. CASE priv' \in {priv, pv}
    BY <1>10, <2>1, <2>2
  <2>3. CASE ~task[t].cancelled
    <3>1. priv.fetch # None
      BY <1>12, <2>3, ServiceAssumption DEF FetchDone, IndInv, FetchInv, FetchMatchesAttempt
    <3>. QED
      BY <2>1, <3>1 DEF IdleInv, Unused
  <2>. QED
    BY <1>12, <2>2, <2>3 DEF FetchDone
<1>13. ASSUME NEW p \in Pids, HelperConfig(p) PROVE IdleInv'
  <2>1. priv'.pid = priv.pid /\ priv'.fetch = priv.fetch
    BY <1>1, <1>13 DEF HelperConfig, Priv
  <2>2. loop' = loop /\ (Unused' => Unused)
    BY <1>13 DEF HelperConfig, Unused
  <2>. QED
    BY <1>2, <2>1, <2>2
<1>14. CASE \/ \E p \in Pids : EnsureKilled(p) \/ HelperFailure(p)
            \/ \E p \in Pids, status \in {"ok", "error"} : OpenvpnExit(p, status)
            \/ \E u \in Uuids : ExpireCache(u)
  BY <1>10, <1>14 DEF EnsureKilled, HelperFailure, OpenvpnExit, ExpireCache
<1>15. CASE Start \/ Exit \/ Crash
  BY <1>15 DEF Start, Exit, Crash, Gone, IndInv, DownInv, NewPriv, IdleInv
<1>. QED
  BY <1>3, <1>4, <1>5, <1>7, <1>8, <1>9, <1>11, <1>12, <1>13, <1>14, <1>15 DEF Next

\* A profile that was marked stale is not taken for valid, however old.
LEMMA MarkedIsRefused ==
    ASSUME ~DiskFaults, disk \in Disks, NEW u \in Uuids, disk' \in MarkedStale(TRUE, u), NEW p
    PROVE  ~IsValid(disk'[u], p)
<1>1. disk' = [disk EXCEPT ![u] = MarkStale(disk[u], TRUE)]
  BY ServiceAssumption DEF MarkedStale
<1>2. disk[u] \in Entry /\ disk'[u] = MarkStale(disk[u], TRUE)
  BY <1>1 DEF Disks
<1>. QED
  BY <1>2 DEF MarkStale, Entry, Meta, IsValid, CheckCache

\* Getting older makes no profile valid.
LEMMA ExpiredIsRefused ==
    ASSUME disk \in Disks, NEW u \in Uuids, NEW v \in Uuids, ExpireCache(v),
           NEW p, ~IsValid(disk[u], p)
    PROVE  ~IsValid(disk'[u], p)
<1>1. disk[u] \in Entry /\ disk'[u] \in {disk[u], Expire(disk[u])}
  BY DEF ExpireCache, Disks
<1>. QED
  BY <1>1 DEF Expire, Entry, Meta, IsValid, CheckCache

\* Every step that tells the openvpn of an attempt to stop marks its profile.
LEMMA NextGivenUp ==
    ASSUME QuitsOnStop, ~SecretsCalls, ~DiskFaults, IndInv, ChildInv, GivenUpInv, [Next]_vars
    PROVE  GivenUpInv'
<1>1. /\ priv \in Priv /\ proc \in Procs /\ disk \in Disks
      /\ priv.uuid \in Uuids \cup {None} /\ priv.pid \in Pids \cup {None}
  BY DEF IndInv, TypeOK, Procs, Disks, Priv
<1>2. svc = "STARTING" => priv.uuid \in Uuids /\ ~priv.started
  BY <1>1 DEF IndInv, ConnectionInv, AttemptInv, Priv, Connections
\* Steps without a child to blame, and steps that leave the blame alone.
<1>3. ASSUME \A p \in Pids : ~proc'[p].watched \/ ~proc'[p].term
      PROVE  GivenUpInv'
  BY <1>3 DEF GivenUpInv
<1>4. ASSUME UNCHANGED disk, svc' = "STARTING" => svc = "STARTING",
             priv'.uuid = priv.uuid, priv'.connection = priv.connection,
             \A p \in Pids : proc'[p].watched /\ proc'[p].term
                             => proc[p].watched /\ proc[p].term
      PROVE  GivenUpInv'
  BY <1>4 DEF GivenUpInv
<1>5. CASE svc' # "STARTING"
  BY <1>5 DEF GivenUpInv
<1>6. CASE UNCHANGED vars
  BY <1>6 DEF vars, GivenUpInv
\* run_openvpn without children starts one that nobody has told to stop.
<1>7. ASSUME NEW pv, NEW pr \in Procs, NoChild(pr), NEW tb, NEW profile, NEW o,
             RunOpenvpn(pv, pr, tb, profile, o)
      PROVE  GivenUpInv'
  <2>1. CASE proc' = pr
    BY <1>3, <1>7, <2>1 DEF NoChild
  <2>2. ASSUME NEW p \in Pids,
               proc' = [pr EXCEPT ![p] = [FreeProc EXCEPT !.st = "handshake",
                                                          !.watched = TRUE,
                                                          !.profile = profile,
                                                          !.connection = pv.connection]]
        PROVE  GivenUpInv'
    <3>1. proc'[p].term = FALSE /\ \A q \in Pids \ {p} : proc'[q] = pr[q]
      BY <1>7, <2>2 DEF Procs, FreeProc
    <3>. QED
      BY <1>3, <1>7, <3>1 DEF NoChild
  <2>. QED
    BY <1>7, <2>1, <2>2 DEF RunOpenvpn
<1>8. ASSUME NEW c \in Connections, Connect(c) PROVE GivenUpInv'
  <2>. DEFINE pr == CleanProc(priv, proc)
  <2>1. NoChild(proc)
    BY <1>8 DEF Connect, ChildInv, Unused
  <2>2. pr \in Procs /\ NoChild(pr)
    BY <1>1, <2>1, TerminateType, TerminateChild DEF CleanProc, NoChild
  <2>3. PICK ok \in BOOLEAN : (~ok /\ ConnectRefused) \/ ConnectAccepted(c, ok)
    BY <1>8 DEF Connect
  <2>4. CASE proc' \in {proc, pr}
    BY <1>3, <2>1, <2>2, <2>4 DEF NoChild
  <2>5. ASSUME NEW pv, NEW tb, NEW profile, NEW o, RunOpenvpn(pv, pr, tb, profile, o)
        PROVE  GivenUpInv'
    BY <1>7, <2>2, <2>5
  <2>. HIDE DEF pr
  <2>. QED
    BY <2>3, <2>4, <2>5 DEF ConnectRefused, ConnectAccepted, pr
<1>9. \A c \in Connections : ~NewSecrets(c)
  BY DEF NewSecrets
<1>10. CASE Disconnect
  BY <1>5, <1>10 DEF Disconnect, PluginDisconnect, EnterStopped
<1>11. CASE FailStop
  BY <1>5, <1>11 DEF FailStop, EnterStopped
<1>12. ASSUME NEW p \in Pids, WatchCb(p) PROVE GivenUpInv'
  <2>1. ReapedProcs(p) = {[proc EXCEPT ![p] = FreeProc]}
    BY <1>1, <1>12, OnlyReaped DEF WatchCb, ChildInv
  <2>2. NoChild([proc EXCEPT ![p] = FreeProc])
    BY <1>1, <1>12 DEF WatchCb, ChildInv, OneChild, NoChild, FreeProc, Procs
  <2>3. CASE proc' \in ReapedProcs(p)
    BY <1>3, <2>1, <2>2, <2>3 DEF NoChild
  <2>4. CASE \E pv, pr : PluginDisconnect(pv, pr)
    BY <1>5, <2>4 DEF PluginDisconnect, EnterStopped, Active
  <2>. QED
    BY <1>12, <2>3, <2>4 DEF WatchCb
<1>13. CASE ConnectTimeout
  <2>1. svc' = svc /\ priv'.uuid = priv.uuid /\ priv'.connection = priv.connection
    BY <1>1, <1>13 DEF ConnectTimeout, Priv
  <2>2. CASE svc = "STARTING"
    <3>1. disk' \in MarkedStale(TRUE, priv.uuid)
      BY <1>2, <1>13, <2>2 DEF ConnectTimeout
    <3>2. ~IsValid(disk'[priv.uuid], priv.connection.params)
      BY <1>1, <1>2, <2>2, <3>1, MarkedIsRefused
    <3>. QED
      BY <2>1, <3>2 DEF GivenUpInv
  <2>. QED
    BY <1>5, <2>1, <2>2
<1>14. ASSUME NEW t \in Tasks, FetchDone(t) PROVE GivenUpInv'
  <2>. DEFINE pv == [priv EXCEPT !.fetch = None]
  <2>1. svc' = svc /\ pv.uuid = priv.uuid /\ pv.connection = priv.connection
    BY <1>1, <1>14 DEF FetchDone, Priv
  <2>2. CASE priv' \in {priv, pv} /\ UNCHANGED <<proc, disk>>
    BY <1>4, <2>1, <2>2
  <2>3. CASE ~task[t].cancelled
    <3>1. priv.fetch # None
      BY <1>14, <2>3, ServiceAssumption DEF FetchDone, IndInv, FetchInv, FetchMatchesAttempt
    <3>2. NoChild(proc)
      BY <3>1 DEF ChildInv
    <3>3. CASE proc' = proc
      BY <1>3, <3>2, <3>3 DEF NoChild
    <3>4. ASSUME NEW profile, UseProfile(pv, profile) PROVE GivenUpInv'
      BY <1>1, <1>7, <3>2, <3>4 DEF UseProfile
    <3>. HIDE DEF pv
    <3>. QED
      BY <1>14, <2>3, <3>3, <3>4 DEF FetchDone, FetchFailed, pv
  <2>. QED
    BY <1>14, <2>2, <2>3 DEF FetchDone
<1>15. ASSUME NEW p \in Pids, EnsureKilled(p) PROVE GivenUpInv'
  <2>1. \A q \in Pids : proc'[q].watched = proc[q].watched /\ proc'[q].term = proc[q].term
    BY <1>1, <1>15 DEF EnsureKilled, Procs, Proc
  <2>. QED
    BY <1>4, <1>15, <2>1 DEF EnsureKilled
<1>16. ASSUME NEW p \in Pids, HelperConfig(p) PROVE GivenUpInv'
  <2>1. \A q \in Pids : proc'[q].watched = proc[q].watched
    BY <1>1, <1>16 DEF HelperConfig, Procs, Proc
  <2>2. CASE loop = "down"
    BY <1>3, <2>1, <2>2 DEF ChildInv, NoChild
  <2>3. CASE loop # "down"
    BY <1>5, <1>16, <2>3 DEF HelperConfig
  <2>. QED
    BY <2>2, <2>3
<1>17. ASSUME NEW p \in Pids, NEW status, proc' = Exited(p, status), UNCHANGED <<svc, priv, disk>>
       PROVE  GivenUpInv'
  <2>1. \A q \in Pids : proc'[q].watched /\ proc'[q].term => proc[q].watched /\ proc[q].term
    BY <1>1, <1>17 DEF Exited, FreeProc, Procs, Proc
  <2>. QED
    BY <1>4, <1>17, <2>1
<1>18. ASSUME NEW v \in Uuids, ExpireCache(v) PROVE GivenUpInv'
  <2>1. UNCHANGED <<svc, priv, proc>>
    BY <1>18 DEF ExpireCache
  <2>2. CASE svc = "STARTING" /\ ~IsValid(disk[priv.uuid], priv.connection.params)
    <3>1. ~IsValid(disk'[priv.uuid], priv.connection.params)
      BY <1>1, <1>2, <1>18, <2>2, ExpiredIsRefused
    <3>. QED
      BY <2>1, <3>1 DEF GivenUpInv
  <2>. QED
    BY <2>1, <2>2 DEF GivenUpInv
<1>19. CASE Start
  BY <1>3, <1>19 DEF Start, ChildInv, NoChild
<1>20. CASE Exit \/ Crash
  BY <1>5, <1>20 DEF Exit, Crash, Gone
<1>. QED
  BY <1>6, <1>8, <1>9, <1>10, <1>11, <1>12, <1>13, <1>14, <1>15, <1>16, <1>17, <1>18, <1>19, <1>20
  DEF Next, HelperFailure, OpenvpnExit

\* With such an openvpn, every exit that nobody asked for is an error.
LEMMA ExitHolds ==
    ASSUME QuitsOnStop, ~SecretsCalls
    PROVE  Spec /\ [][KeepsTrying]_vars => []ExitInv
<1>1. Init => ExitInv
  BY DEF Init, ExitInv, FreeProc
<1>2. IndInv /\ ChildInv /\ ExitInv /\ [Next]_vars /\ [KeepsTrying]_vars => ExitInv'
  BY NextExit
<1>. QED
  BY <1>1, <1>2, ChildInductive, IndInvHolds, PTL DEF Spec

\* What an idle daemon has, in every execution.
LEMMA IdleHolds ==
    ASSUME QuitsOnStop, ~SecretsCalls
    PROVE  Spec => []IdleInv
<1>1. Init => IdleInv
  BY DEF Init, IdleInv, NewPriv
<1>2. IndInv /\ ChildInv /\ IdleInv /\ [Next]_vars => IdleInv'
  BY NextIdle
<1>. QED
  BY <1>1, <1>2, ChildInductive, IndInvHolds, PTL DEF Spec

\* An attempt is ended by Disconnect, which marks the profile, or by the exit
\* of an openvpn that was told to stop, whose profile is marked already.
LEMMA RefreshStep ==
    ASSUME ~DiskFaults, IndInv, ChildInv, ExitInv, IdleInv, GivenUpInv, [Next]_vars,
           svc = "STARTING", svc' = "STOPPED", priv.pid # None
    PROVE  ~IsValid(disk'[priv.uuid], priv.connection.params)
<1>. DEFINE Goal == ~IsValid(disk'[priv.uuid], priv.connection.params)
<1>1. /\ priv \in Priv /\ proc \in Procs /\ disk \in Disks
      /\ priv.uuid \in Uuids /\ ~priv.started
  BY DEF IndInv, TypeOK, Procs, Disks, ConnectionInv, AttemptInv, Priv, Connections
<1>2. CASE Disconnect
  <2>1. disk' \in MarkedStale(priv.pid # None /\ ~priv.started, priv.uuid)
    BY <1>2 DEF Disconnect, PluginDisconnect, Active
  <2>2. disk' \in MarkedStale(TRUE, priv.uuid)
    BY <1>1, <2>1 DEF MarkedStale
  <2>. QED
    BY <1>1, <2>2, MarkedIsRefused
<1>3. ASSUME NEW p \in Pids, WatchCb(p) PROVE Goal
  <2>. DEFINE pv == [priv EXCEPT !.pid = None, !.connect_timer = FALSE]
  <2>1. proc[p].watched /\ proc[p].st = "exited" /\ proc[p].status = "ok"
    BY <1>3 DEF WatchCb
  <2>2. PICK pr : PluginDisconnect(pv, pr)
    BY <1>3, <2>1 DEF WatchCb
  <2>3. disk' = disk
    <3>1. pv.pid = None
      BY <1>1 DEF Priv
    <3>. HIDE DEF pv
    <3>. QED
      BY <2>2, <3>1 DEF PluginDisconnect, MarkedStale
  <2>4. proc[p].term
    BY <2>1 DEF ExitInv
  <2>. QED
    BY <2>1, <2>3, <2>4 DEF GivenUpInv
<1>4. ~FailStop
  BY DEF FailStop, IdleInv, Unused
<1>. QED
  BY <1>2, <1>3, <1>4
  DEF Next, vars, Connect, NewSecrets, ConnectTimeout, FetchDone, EnsureKilled, HelperConfig,
      HelperFailure, OpenvpnExit, ExpireCache, Start, Exit, Crash, Gone

\* As NetworkManager runs the daemon, as long as the state directory can be
\* written and openvpn exits with status 0 only when told to, an attempt that
\* ends after openvpn was launched leaves a cache that is not taken for valid.
THEOREM FailedAttemptsAreRefreshed ==
    ASSUME QuitsOnStop, ~SecretsCalls, ~DiskFaults
    PROVE  Spec /\ [][KeepsTrying]_vars => FailedAttemptIsRefreshed
<1>1. Init => GivenUpInv
  BY DEF Init, GivenUpInv
<1>2. IndInv /\ ChildInv /\ GivenUpInv /\ [Next]_vars => GivenUpInv'
  BY NextGivenUp
<1>3. IndInv /\ ChildInv /\ ExitInv /\ IdleInv /\ GivenUpInv /\ [Next]_vars
      => (svc = "STARTING" /\ svc' = "STOPPED" /\ priv.pid # None
          => ~IsValid(disk'[priv.uuid], priv.connection.params))
  BY RefreshStep
<1>. QED
  BY <1>1, <1>2, <1>3, ChildInductive, IndInvHolds, ExitHolds, IdleHolds, PTL
  DEF Spec, FailedAttemptIsRefreshed

\* The child watch takes the exit of an openvpn nobody told to stop for a
\* drop, and leaves the table.
LEMMA LostStep ==
    ASSUME IndInv, ChildInv, BlameInv, ExitInv, IdleInv, FlagMatchesTable, [Next]_vars,
           NEW p \in Pids, svc = "STARTED", priv.pid = p, priv.kill_switch_active,
           proc[p].st = "exited", ~proc[p].term, proc'[p].st = "free"
    PROVE  table' # NoTable
<1>1. priv \in Priv /\ proc \in Procs /\ p # None /\ priv.started
  BY ServiceAssumption DEF IndInv, TypeOK, Procs, BlameInv
<1>2. table # NoTable
  <2>1. loop # "down"
    BY <1>1 DEF IndInv, DownInv, NewPriv
  <2>. QED
    BY <2>1 DEF FlagMatchesTable
<1>3. CASE table' = table
  BY <1>2, <1>3
<1>4. ~Exit
  BY <1>1 DEF Exit, IdleInv
<1>5. ASSUME NEW q \in Pids, WatchCb(q) PROVE table' # NoTable
  <2>. DEFINE pr == [proc EXCEPT ![q] = FreeProc]
  <2>1. ReapedProcs(q) = {pr} /\ proc[q].watched
    BY <1>1, <1>5, OnlyReaped DEF WatchCb, ChildInv
  <2>2. CASE q = p
    <3>1. proc[q].status = "error"
      BY <1>5, <2>1, <2>2 DEF WatchCb, ExitInv
    <3>. QED
      BY <1>2, <1>5, <3>1 DEF WatchCb
  <2>3. CASE q # p
    <3>1. pr[p] = proc[p] /\ proc' # pr
      BY <1>1, <2>3 DEF Procs
    <3>2. CleanProc([priv EXCEPT !.pid = None, !.connect_timer = FALSE], pr) = pr
      BY <1>1 DEF CleanProc, Terminate, Priv
    <3>. HIDE DEF pr
    <3>. QED
      BY <1>5, <2>1, <3>1, <3>2 DEF WatchCb, PluginDisconnect
  <2>. QED
    BY <2>2, <2>3
<1>6. ASSUME NEW t \in Tasks, FetchDone(t) PROVE table' # NoTable
  <2>1. CASE UNCHANGED table
    BY <1>2, <2>1
  <2>2. ASSUME NEW pv, NEW profile, UseProfile(pv, profile) PROVE FALSE
    <3>1. \A o : RunOpenvpn(pv, proc, table, profile, o) => proc'[p].st # "free"
      <4>. SUFFICES ASSUME NEW o, RunOpenvpn(pv, proc, table, profile, o)
                    PROVE  proc'[p].st # "free"
        OBVIOUS
      <4>. QED
        BY <1>1 DEF RunOpenvpn, Procs
    <3>. QED
      BY <2>2, <3>1 DEF UseProfile
  <2>. QED
    BY <1>6, <2>1, <2>2 DEF FetchDone, FetchFailed
<1>7. ASSUME Disconnect PROVE FALSE
  <2>1. proc' \in {proc, CleanProc(priv, proc)}
    BY <1>7 DEF Disconnect, PluginDisconnect
  <2>2. CleanProc(priv, proc)[p] = proc[p]
    BY <1>1 DEF CleanProc, Terminate, IsAlive
  <2>. QED
    BY <2>1, <2>2
<1>8. \A c \in Connections : ~Connect(c) /\ ~NewSecrets(c)
  BY DEF Connect, NewSecrets
<1>9. ~Start
  BY DEF Start
<1>. QED
  BY <1>3, <1>4, <1>5, <1>6, <1>7, <1>8, <1>9
  DEF Next, vars, FailStop, ConnectTimeout, EnsureKilled, HelperConfig,
      HelperFailure, OpenvpnExit, ExpireCache, Crash

\* As NetworkManager runs the daemon, as long as nft works and openvpn exits
\* with status 0 only when told to, losing an established tunnel leaves the
\* table in the kernel.
THEOREM LostTunnelsStayBlocked ==
    ASSUME QuitsOnStop, ~SecretsCalls, ~NftFaults
    PROVE  Spec /\ [][KeepsTrying]_vars => LostTunnelStaysBlocked
<1>. DEFINE Step == \A p \in Pids :
                      /\ svc = "STARTED" /\ priv.pid = p /\ priv.kill_switch_active
                      /\ proc[p].st = "exited" /\ ~proc[p].term /\ proc'[p].st = "free"
                      => table' # NoTable
<1>1. IndInv /\ ChildInv /\ BlameInv /\ ExitInv /\ IdleInv /\ FlagMatchesTable /\ [Next]_vars
      => Step
  BY LostStep
<1>2. Init => BlameInv
  BY DEF Init, BlameInv
<1>3. IndInv /\ ChildInv /\ BlameInv /\ [Next]_vars => BlameInv'
  BY NextBlame
<1>. QED
  BY <1>1, <1>2, <1>3, ChildInductive, IndInvHolds, ExitHolds, IdleHolds, FlagIsTrue, PTL
  DEF Spec, LostTunnelStaysBlocked
==============================================================================
