----------------------------- MODULE AirvpnEditor -----------------------------
(***************************************************************************)
(* The asynchronous life of the connection editor (nm-airvpn-editor.c):    *)
(* the threads behind "Refresh" and "Load devices", the chain of calls to  *)
(* NetworkManager behind "Apply & Reconnect", and the editor object that   *)
(* may be closed while they are under way.                                 *)
(*                                                                         *)
(* Of the settings only the server matters here; AirvpnSettings models the *)
(* others.  NetworkManager's side is reduced to one connection.            *)
(***************************************************************************)
EXTENDS AirvpnServerList

CONSTANTS
    Replies,   \* what curl may bring back from airvpn.org
    MaxPolls   \* how often reconnect_poll_deactivated waits (20)

ASSUME EditorAssumption ==
    /\ \A reply \in Replies :
         LET body == HttpGet(reply)
         IN  HoldsObject(body) => StatusTokens(body) \in Seq(Tokens)
    /\ MaxPolls \in Nat

VARIABLES
    editor,   \* "none", "open", or "closed": kept by the reconnect context only
    priv,     \* AirvpnEditorPrivate: which operations are under way
    widgets,  \* the server combo, the three buttons, whether a key is entered
    tasks,    \* the worker threads, until their callback has run
    ctx,      \* ReconnectCtx, with the server written to ctx->remote
    nm        \* the connection as NetworkManager has it, and one auxiliary part
              \* of the state that no action reads: "owed" is TRUE from when
              \* Apply & Reconnect has committed settings to a connection that
              \* was up, until somebody starts it with them

vars == <<editor, priv, widgets, tasks, ctx, nm>>

TaskKinds == {"refresh", "devices"}

Phases == {"none", "client", "commit", "deactivate", "poll", "activate"}

NoCtx == [phase |-> "none", polls |-> 0, server |-> None]

\* priv->reconnect_cancellable is set and cleared with reconnect_busy.
NewPriv == [cancellable |-> [k \in TaskKinds |-> FALSE], reconnect_busy |-> FALSE]

\* Every variable keeps its type; the poll count stays within its bound and
\* a combo with rows has one of them active.
TypeOK ==
    /\ editor \in {"none", "open", "closed"}
    /\ priv \in [cancellable : [TaskKinds -> BOOLEAN], reconnect_busy : BOOLEAN]
    /\ widgets \in [server    : Combo,
                    sensitive : [TaskKinds -> BOOLEAN],
                    reconnect : BOOLEAN,
                    label     : {"apply", "progress", "failed"},
                    api_key   : BOOLEAN]
    /\ tasks \in [TaskKinds -> {"none", "running", "cancelled"}]
    /\ ctx \in [phase : Phases, polls : 0 .. MaxPolls, server : Tokens \cup {None}]
    /\ nm \in [stored : Tokens \cup {None},
               active : {"inactive", "activating", "active", "deactivating"},
               owed   : BOOLEAN]
    /\ widgets.server.rows # <<>> =>
         \E i \in DOMAIN widgets.server.rows : widgets.server.rows[i] = widgets.server.active

ClosedWidgets == [server    |-> [rows |-> <<>>, active |-> None],
                  sensitive |-> [k \in TaskKinds |-> FALSE],
                  reconnect |-> FALSE, label |-> "apply", api_key |-> FALSE]

\* NetworkManager may or may not have the connection yet.
Init ==
    /\ editor = "none"
    /\ priv = NewPriv
    /\ widgets = ClosedWidgets
    /\ tasks = [k \in TaskKinds |-> "none"]
    /\ ctx = NoCtx
    /\ nm \in [stored : Tokens \cup {None}, active : {"inactive"}, owed : {FALSE}]

(***************************************************************************)
(* The editor object.                                                      *)
(***************************************************************************)
\* The combo of init_editor_plugin: earth, and the saved server if any.
InitialCombo(server) ==
    IF server = None \/ Fold[server] = Fold[Earth]
    THEN [rows |-> <<Earth>>, active |-> Earth]
    ELSE [rows |-> <<Earth, server>>, active |-> server]

\* nm_airvpn_editor_new, which starts a refresh as a click on the button
\* would.  Callbacks of an earlier editor are waited for.
Open ==
    /\ editor = "none"
    /\ \A k \in TaskKinds : tasks[k] = "none"
    /\ editor' = "open"
    /\ \E key \in BOOLEAN :
         widgets' = [server    |-> InitialCombo(nm.stored),
                     sensitive |-> [k \in TaskKinds |-> k # "refresh"],
                     reconnect |-> TRUE, label |-> "apply", api_key |-> key]
    /\ tasks' = [tasks EXCEPT !["refresh"] = "running"]
    /\ priv' = [NewPriv EXCEPT !.cancellable["refresh"] = TRUE]
    /\ nm' = [nm EXCEPT !.owed = FALSE]
    /\ UNCHANGED ctx

\* Mutated form: the device list is not cancelled.
DisposeRefreshOnly ==
    /\ editor' = "none"
    /\ tasks' = [tasks EXCEPT !["refresh"] = IF priv.cancellable["refresh"] THEN "cancelled" ELSE @]
    /\ priv' = NewPriv
    /\ widgets' = ClosedWidgets

\* dispose, when the last reference goes.
Dispose ==
    /\ editor' = "none"
    /\ tasks' = [k \in TaskKinds |-> IF priv.cancellable[k] THEN "cancelled" ELSE tasks[k]]
    /\ priv' = NewPriv
    /\ widgets' = ClosedWidgets

\* The host program lets go of the editor; a reconnect context keeps it.
Close ==
    /\ editor = "open"
    /\ \/ ctx.phase = "none" /\ Dispose
       \/ ctx.phase # "none" /\ editor' = "closed" /\ UNCHANGED <<priv, widgets, tasks>>
    /\ UNCHANGED <<ctx, nm>>

(***************************************************************************)
(* "Refresh" and "Load devices".                                           *)
(***************************************************************************)
\* refresh_button_clicked_cb and devices_button_clicked_cb: nothing while
\* one is under way, and no device list without an API key.
Click(k) ==
    /\ editor = "open"
    /\ widgets.sensitive[k]
    /\ ~priv.cancellable[k]
    /\ k = "devices" => widgets.api_key
    /\ widgets' = [widgets EXCEPT !.sensitive[k] = FALSE]
    /\ priv' = [priv EXCEPT !.cancellable[k] = TRUE]
    /\ tasks' = [tasks EXCEPT ![k] = "running"]
    /\ UNCHANGED <<editor, ctx, nm>>

\* Mutated form: the button stays insensitive after a failure.
EndedIfFetched(k, fetched) == [widgets EXCEPT !.sensitive[k] = fetched]

\* The part of both callbacks that comes before they look at the result.
Ended(k, fetched) == [widgets EXCEPT !.sensitive[k] = TRUE]

\* What the callbacks show of a reply.  The refilled combo keeps the row
\* that is active now, not the one that was when the button was clicked; a
\* list that does not parse changes nothing.  The device list only offers
\* names and never touches the entered text.
Shown(k, reply) ==
    LET body == HttpGet(reply)
        fetched == IF k = "refresh" THEN HoldsObject(body) ELSE DeviceNames(body) # None
    IN  IF k = "refresh" /\ fetched
        THEN [Ended(k, TRUE) EXCEPT
                 !.server = FillCombo(StatusTokens(body), widgets.server.active)]
        ELSE Ended(k, fetched)

\* refresh_done_cb and devices_done_cb.  A cancelled one returns at once.
TaskDone(k) ==
    /\ tasks[k] # "none"
    /\ tasks' = [tasks EXCEPT ![k] = "none"]
    /\ \/ tasks[k] = "cancelled" /\ UNCHANGED <<priv, widgets>>
       \/ /\ tasks[k] = "running"
          /\ priv' = [priv EXCEPT !.cancellable[k] = FALSE]
          /\ \E reply \in Replies : widgets' = Shown(k, reply)
    /\ UNCHANGED <<editor, ctx, nm>>

(***************************************************************************)
(* "Apply & Reconnect".  Each callback either goes on with the next call   *)
(* or ends in reconnect_ctx_finish.  The cancelled branches of the code    *)
(* are not reached: only dispose cancels, and the context keeps the editor *)
(* from being disposed.                                                    *)
(***************************************************************************)
\* Mutated form: the reference of the context is not given back.
FinishKeepingReference(label) ==
    /\ ctx' = NoCtx
    /\ priv' = [priv EXCEPT !.reconnect_busy = FALSE]
    /\ widgets' = [widgets EXCEPT !.reconnect = TRUE, !.label = label]
    /\ UNCHANGED <<editor, tasks>>

\* reconnect_ctx_finish; giving back the reference may dispose the editor.
Finish(label) ==
    /\ ctx' = NoCtx
    /\ \/ editor = "closed" /\ Dispose
       \/ /\ editor # "closed"
          /\ priv' = [priv EXCEPT !.reconnect_busy = FALSE]
          /\ widgets' = [widgets EXCEPT !.reconnect = TRUE, !.label = label]
          /\ UNCHANGED <<editor, tasks>>

Proceed(phase, polls, server) ==
    /\ ctx' = [phase |-> phase, polls |-> polls, server |-> server]
    /\ widgets' = [widgets EXCEPT !.label = "progress"]
    /\ UNCHANGED <<editor, priv, tasks>>

\* reconnect_find_active: the connection is listed from when NetworkManager
\* accepts its activation until it is down.
FindActive == nm.active # "inactive"

\* reconnect_button_clicked_cb.
ClickReconnect ==
    /\ editor = "open"
    /\ widgets.reconnect
    /\ ~priv.reconnect_busy
    /\ priv' = [priv EXCEPT !.reconnect_busy = TRUE]
    /\ widgets' = [widgets EXCEPT !.reconnect = FALSE, !.label = "progress"]
    /\ ctx' = [NoCtx EXCEPT !.phase = "client"]
    /\ UNCHANGED <<editor, tasks, nm>>

\* reconnect_client_ready: no client, no such connection, settings that do
\* not validate; else the widgets of this moment are written to the remote
\* connection and committed.
ClientReady ==
    /\ ctx.phase = "client"
    /\ \/ Finish("failed")
       \/ nm.stored # None /\ Proceed("commit", 0, widgets.server.active)
    /\ UNCHANGED nm

\* reconnect_commit_done.  "Not active: saving was all there is to do."
CommitDone ==
    /\ ctx.phase = "commit"
    /\ \/ Finish("failed") /\ UNCHANGED nm
       \/ /\ nm.stored # None
          /\ nm' = [nm EXCEPT !.stored = ctx.server, !.owed = FindActive]
          /\ \/ ~FindActive /\ Finish("apply")
             \/ FindActive /\ Proceed("deactivate", 0, ctx.server)

\* reconnect_deactivate_done.
DeactivateDone ==
    /\ ctx.phase = "deactivate"
    /\ \/ Finish("failed") /\ UNCHANGED nm
       \/ /\ FindActive
          /\ nm' = [nm EXCEPT !.active = "deactivating"]
          /\ Proceed("poll", 0, ctx.server)

\* Mutated form: giving up is not reported.
PollDeactivatedSilently ==
    /\ ctx.phase = "poll"
    /\ \/ FindActive /\ ctx.polls >= MaxPolls /\ Finish("apply")
       \/ FindActive /\ ctx.polls < MaxPolls /\ Proceed("poll", ctx.polls + 1, ctx.server)
       \/ ~FindActive /\ Proceed("activate", 0, ctx.server)
    /\ UNCHANGED nm

\* Mutated form: the count is reset by every poll.
PollDeactivatedForever ==
    /\ ctx.phase = "poll"
    /\ \/ FindActive /\ Proceed("poll", 0, ctx.server)
       \/ ~FindActive /\ Proceed("activate", 0, ctx.server)
    /\ UNCHANGED nm

\* Mutated form: one poll too many is counted.
PollDeactivatedLate ==
    /\ ctx.phase = "poll"
    /\ \/ FindActive /\ ctx.polls > MaxPolls /\ Finish("failed")
       \/ FindActive /\ ctx.polls <= MaxPolls /\ Proceed("poll", ctx.polls + 1, ctx.server)
       \/ ~FindActive /\ Proceed("activate", 0, ctx.server)
    /\ UNCHANGED nm

\* reconnect_poll_deactivated, every half second.
PollDeactivated ==
    /\ ctx.phase = "poll"
    /\ \/ FindActive /\ ctx.polls >= MaxPolls /\ Finish("failed")
       \/ FindActive /\ ctx.polls < MaxPolls /\ Proceed("poll", ctx.polls + 1, ctx.server)
       \/ ~FindActive /\ Proceed("activate", 0, ctx.server)
    /\ UNCHANGED nm

\* NetworkManager accepts an activation; what becomes of it is seen later.
Activated(state) == [nm EXCEPT !.active = state, !.owed = FALSE]

\* reconnect_activate_done: NetworkManager has returned an active connection
\* object, which is all that success means here.  The connection is on its
\* way, or has come up or failed by the time the callback runs.
ActivateDone ==
    /\ ctx.phase = "activate"
    /\ \/ Finish("failed") /\ UNCHANGED nm
       \/ /\ nm.stored # None
          /\ \E state \in {"activating", "active", "inactive"} : nm' = Activated(state)
          /\ Finish("apply")

(***************************************************************************)
(* The user, the host program and NetworkManager.                          *)
(***************************************************************************)
SelectServer ==
    /\ editor = "open"
    /\ \E i \in DOMAIN widgets.server.rows :
         widgets' = [widgets EXCEPT !.server.active = widgets.server.rows[i]]
    /\ UNCHANGED <<editor, priv, tasks, ctx, nm>>

\* The host's own save button, through update_connection.
HostSave ==
    /\ editor = "open"
    /\ nm' = [nm EXCEPT !.stored = widgets.server.active]
    /\ UNCHANGED <<editor, priv, widgets, tasks, ctx>>

\* The connection is activated (again) by another client, comes up, fails or
\* goes down for reasons of its own, or is deleted.
ConnectionChanges ==
    /\ \/ nm.stored # None /\ nm' = Activated("activating")
       \/ /\ nm.active = "activating"
          /\ nm' = [nm EXCEPT !.active = "active"]
       \/ /\ nm.active # "inactive"
          /\ nm' = [nm EXCEPT !.active = "inactive"]
       \/ nm' = [stored |-> None, active |-> "inactive", owed |-> FALSE]
    /\ UNCHANGED <<editor, priv, widgets, tasks, ctx>>

\* Every step but the opening of an editor.
NextButOpen ==
    \/ Close
    \/ \E k \in TaskKinds : Click(k) \/ TaskDone(k)
    \/ ClickReconnect \/ ClientReady \/ CommitDone \/ DeactivateDone
    \/ PollDeactivated \/ ActivateDone
    \/ SelectServer \/ HostSave \/ ConnectionChanges

Next == Open \/ NextButOpen

Spec == Init /\ [][Next]_vars

(***************************************************************************)
(* Fairness: curl ends a request within 30 s, NetworkManager answers its   *)
(* D-Bus calls, and the poll timer fires.  Nothing is assumed of the user, *)
(* of the connection going down, or of a call succeeding.                  *)
(***************************************************************************)
Fairness ==
    /\ \A k \in TaskKinds : WF_vars(TaskDone(k))
    /\ WF_vars(ClientReady) /\ WF_vars(CommitDone) /\ WF_vars(DeactivateDone)
    /\ WF_vars(PollDeactivated) /\ WF_vars(ActivateDone)

FairSpec == Spec /\ Fairness

(***************************************************************************)
(* Properties.                                                             *)
(***************************************************************************)
\* No callback that uses the editor ever finds it disposed: the threads take
\* no reference and rely on being cancelled, the reconnect chain holds one.
CallbacksFindEditor ==
    /\ \A k \in TaskKinds : tasks[k] = "running" => editor # "none" /\ priv.cancellable[k]
    /\ ctx.phase # "none" => editor # "none" /\ priv.reconnect_busy

\* A button can be pressed exactly when its operation is not under way, on
\* every path of success and failure.
ButtonsTellTruth ==
    editor # "none" =>
        /\ \A k \in TaskKinds : widgets.sensitive[k] <=> tasks[k] = "none"
        /\ widgets.reconnect <=> ctx.phase = "none"
        /\ widgets.label = "progress" <=> ctx.phase # "none"

\* A list that arrives from the network never changes what the user has
\* selected, but for the case of its letters.
SelectionKept ==
    [][ \A k \in TaskKinds :
          tasks[k] = "running" /\ tasks'[k] = "none"
          => Fold[widgets'.server.active] = Fold[widgets.server.active] ]_vars

\* Settings that were committed to a connection that was up are not forgotten
\* half way: until somebody has started it with them, Apply & Reconnect is
\* still at it or its button says that it failed, whatever other clients do
\* to the connection between the callbacks.  Whether an activation that
\* NetworkManager has accepted succeeds is not reported, and not claimed.
OwedRestartIsReported ==
    editor = "open" /\ nm.owed => ctx.phase # "none" \/ widgets.label = "failed"

\* Apply & Reconnect ends, even when the connection never goes down.
ReconnectEnds == (ctx.phase # "none") ~> (ctx.phase = "none")

\* An editor that the host has let go of is freed.
ClosedEditorIsFreed == (editor = "closed") ~> (editor = "none")
==============================================================================
