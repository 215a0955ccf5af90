-------------------------- MODULE AirvpnEditorProofs --------------------------
(***************************************************************************)
(* What holds of the editor for every set of rows, every list the status   *)
(* API may answer, and every number of polls.                              *)
(***************************************************************************)
EXTENDS AirvpnEditorHost, WellFoundedInduction, TLAPS

(***************************************************************************)
(* The server combo.                                                       *)
(***************************************************************************)
\* A nonempty set of row numbers has a last one.
LEMMA LastOfIsLast ==
    ASSUME NEW n \in Nat, NEW S, S \subseteq 1 .. n, S # {}
    PROVE  LastOf(S) \in S
<1> DEFINE Distances == {n - i : i \in S}
           Less == OpToRel(<, Nat)
<1>1. Distances \subseteq Nat /\ Distances # {}
  <2>1. \A i \in S : n - i \in Nat
    OBVIOUS
  <2>2. PICK i \in S : TRUE
    OBVIOUS
  <2>3. n - i \in Distances
    OBVIOUS
  <2> QED
    BY <2>1, <2>3
<1>2. PICK d \in Distances : \A e \in Distances : ~ (<<e, d>> \in Less)
  <2>1. IsWellFoundedOn(Less, Nat)
    BY NatLessThanWellFounded
  <2> HIDE DEF Less, Distances
  <2> QED
    BY <1>1, <2>1, WFMin
<1>3. \A e \in Distances : d <= e
  <2>1. \A x, y \in Nat : x < y => <<x, y>> \in Less
    BY DEF OpToRel
  <2> HIDE DEF Distances, Less
  <2> SUFFICES ASSUME NEW e \in Distances
               PROVE  d <= e
    OBVIOUS
  <2>2. d \in Nat /\ e \in Nat
    BY <1>1
  <2>3. e < d => <<e, d>> \in Less
    BY <2>1, <2>2
  <2> QED
    BY <1>2, <2>2, <2>3
<1>4. PICK i \in S : d = n - i
  OBVIOUS
<1>5. \A j \in S : j <= i
  <2> SUFFICES ASSUME NEW j \in S
               PROVE  j <= i
    OBVIOUS
  <2>1. n - j \in Distances
    OBVIOUS
  <2> QED
    BY <1>3, <1>4, <2>1
<1> HIDE DEF Less
<1> QED
  BY <1>4, <1>5 DEF LastOf

\* A combo as the code leaves it: of known tokens, with an active row.
Filled(combo) ==
    /\ combo \in Combo
    /\ combo.rows # <<>>
    /\ \E i \in DOMAIN combo.rows : combo.rows[i] = combo.active

\* The combo of init_editor_plugin has an active row.
LEMMA InitialComboFilled ==
    ASSUME NEW server \in Tokens \cup {None}
    PROVE  Filled(InitialCombo(server))
<1>1. CASE server = None \/ Fold[server] = Fold[Earth]
  <2>1. <<Earth>> \in Seq(Tokens) /\ <<Earth>> # <<>> /\ DOMAIN <<Earth>> = {1}
    BY TokensAssumption
  <2> QED
    BY <1>1, <2>1, TokensAssumption DEF InitialCombo, Filled, Combo
<1>2. CASE ~(server = None \/ Fold[server] = Fold[Earth])
  <2>1. /\ <<Earth, server>> \in Seq(Tokens) /\ <<Earth, server>> # <<>>
        /\ 2 \in DOMAIN <<Earth, server>> /\ <<Earth, server>>[2] = server
    BY <1>2, TokensAssumption
  <2> QED
    BY <1>2, <2>1, TokensAssumption DEF InitialCombo, Filled, Combo
<1> QED
  BY <1>1, <1>2

\* A refilled combo has an active row, and it is the one asked for, up to
\* the case of its letters.
LEMMA FillComboKeeps ==
    ASSUME NEW list \in Seq(Tokens), NEW select \in Tokens
    PROVE  /\ Filled(FillCombo(list, select))
           /\ Fold[FillCombo(list, select).active] = Fold[select]
<1> DEFINE rows  == <<Earth>> \o list
           found == Matches(rows, select)
<1>1. rows \in Seq(Tokens) /\ rows # <<>> /\ DOMAIN rows = 1 .. Len(rows) /\ Len(rows) \in Nat
  BY TokensAssumption
<1>2. select # None
  BY TokensAssumption
<1>3. CASE found # {}
  <2>1. LastOf(found) \in found
    BY <1>1, <1>3, LastOfIsLast DEF Matches
  <2>2. LastOf(found) \in DOMAIN rows /\ Fold[rows[LastOf(found)]] = Fold[select]
    BY <2>1 DEF Matches
  <2>3. FillCombo(list, select) = [rows |-> rows, active |-> rows[LastOf(found)]]
    BY <1>2, <1>3 DEF FillCombo
  <2>4. rows[LastOf(found)] \in Tokens
    BY <1>1, <2>2
  <2> HIDE DEF rows, found
  <2> QED
    BY <1>1, <2>2, <2>3, <2>4 DEF Filled, Combo
<1>4. CASE found = {}
  <2>1. FillCombo(list, select) = [rows |-> Append(rows, select), active |-> select]
    BY <1>2, <1>4 DEF FillCombo
  <2>2. /\ Append(rows, select) \in Seq(Tokens)
        /\ Append(rows, select) # <<>>
        /\ Len(rows) + 1 \in DOMAIN Append(rows, select)
        /\ Append(rows, select)[Len(rows) + 1] = select
    BY <1>1
  <2> HIDE DEF rows, found
  <2> QED
    BY <2>1, <2>2 DEF Filled, Combo
<1> QED
  BY <1>3, <1>4

(***************************************************************************)
(* The inductive invariant.                                                *)
(***************************************************************************)
\* Cancelling is the last thing an editor does to its threads.
CancelledIsOrphan ==
    \A k \in TaskKinds : tasks[k] = "cancelled" => editor = "none"

\* While there is an editor, its server combo has an active row.
ComboInv == editor # "none" => Filled(widgets.server)

\* The reconnect context is the reference that keeps a closed editor.
ClosedInv == editor = "closed" => ctx.phase # "none"

IndInv ==
    /\ TypeOK
    /\ CallbacksFindEditor
    /\ ButtonsTellTruth
    /\ CancelledIsOrphan
    /\ ComboInv
    /\ ClosedInv

\* The types of the values that handlers assign.
Priv == [cancellable : [TaskKinds -> BOOLEAN], reconnect_busy : BOOLEAN]

WidgetSet == [server    : Combo,
              sensitive : [TaskKinds -> BOOLEAN],
              reconnect : BOOLEAN,
              label     : {"apply", "progress", "failed"},
              api_key   : BOOLEAN]

TaskSet == [TaskKinds -> {"none", "running", "cancelled"}]

CtxSet == [phase : Phases, polls : 0 .. MaxPolls, server : Tokens \cup {None}]

NmSet == [stored : Tokens \cup {None},
          active : {"inactive", "activating", "active", "deactivating"},
          owed   : BOOLEAN]

ActiveRow(w) ==
    w.server.rows # <<>> => \E i \in DOMAIN w.server.rows : w.server.rows[i] = w.server.active

\* TypeOK in the terms of these sets.
TypesHold ==
    /\ editor \in {"none", "open", "closed"}
    /\ priv \in Priv
    /\ widgets \in WidgetSet /\ ActiveRow(widgets)
    /\ tasks \in TaskSet
    /\ ctx \in CtxSet
    /\ nm \in NmSet

\* The two forms are the same, before and after a step.
LEMMA TypeOKSplit == (TypeOK <=> TypesHold) /\ (TypeOK' <=> TypesHold')
  BY DEF TypesHold, TypeOK, Priv, WidgetSet, ActiveRow, TaskSet, CtxSet, NmSet

\* A closed editor's widgets are well formed.
LEMMA ClosedWidgetsType == ClosedWidgets \in WidgetSet /\ ActiveRow(ClosedWidgets)
<1>1. <<>> \in Seq(Tokens)
  OBVIOUS
<1> QED
  BY <1>1, TokensAssumption DEF ClosedWidgets, WidgetSet, ActiveRow, Combo

\* NoCtx and NewPriv are well formed.
LEMMA NewTypes == NoCtx \in CtxSet /\ NewPriv \in Priv
  BY EditorAssumption DEF NoCtx, NewPriv, CtxSet, Priv, Phases

\* The initial states satisfy the invariant.
LEMMA InitIndInv == Init => IndInv
<1> SUFFICES ASSUME Init
             PROVE  IndInv
  OBVIOUS
<1>1. TypeOK
  <2>1. nm \in NmSet
    BY DEF Init, NmSet
  <2> QED
    BY <2>1, ClosedWidgetsType, NewTypes, TypeOKSplit DEF TypesHold, Init, TaskSet
<1>2. CallbacksFindEditor /\ ButtonsTellTruth /\ CancelledIsOrphan /\ ComboInv /\ ClosedInv
  BY DEF Init, CallbacksFindEditor, ButtonsTellTruth, CancelledIsOrphan, ComboInv, ClosedInv,
         NoCtx
<1> QED
  BY <1>1, <1>2 DEF IndInv

(***************************************************************************)
(* The building blocks of the handlers.                                    *)
(***************************************************************************)
\* dispose leaves no thread whose callback would use the editor.
LEMMA DisposeStep ==
    ASSUME IndInv, Dispose, ctx' = NoCtx, nm' \in NmSet
    PROVE  IndInv'
<1>1. TypeOK'
  <2>1. tasks' \in TaskSet
    BY TypeOKSplit DEF TypesHold, IndInv, Dispose, TaskSet
  <2> QED
    BY <2>1, ClosedWidgetsType, NewTypes, TypeOKSplit DEF TypesHold, Dispose
<1>2. CallbacksFindEditor'
  BY DEF IndInv, Dispose, CallbacksFindEditor, NoCtx, TypeOK
<1>3. ButtonsTellTruth' /\ CancelledIsOrphan' /\ ComboInv' /\ ClosedInv'
  BY DEF Dispose, ButtonsTellTruth, CancelledIsOrphan, ComboInv, ClosedInv
<1> QED
  BY <1>1, <1>2, <1>3 DEF IndInv

\* reconnect_ctx_finish makes the button usable or lets the editor go.
LEMMA FinishStep ==
    ASSUME IndInv, ctx.phase # "none", NEW label \in {"apply", "failed"}, Finish(label),
           nm' \in NmSet
    PROVE  IndInv'
<1>1. CASE editor = "closed" /\ Dispose
  BY <1>1, DisposeStep DEF Finish
<1>2. CASE editor # "closed"
  <2>1. /\ ctx' = NoCtx
        /\ priv' = [priv EXCEPT !.reconnect_busy = FALSE]
        /\ widgets' = [widgets EXCEPT !.reconnect = TRUE, !.label = label]
        /\ UNCHANGED <<editor, tasks>>
    BY <1>2 DEF Finish
  <2>2. priv \in Priv /\ widgets \in WidgetSet /\ tasks \in TaskSet
    BY TypeOKSplit DEF TypesHold, IndInv
  <2>3. priv' \in Priv /\ priv'.cancellable = priv.cancellable
    BY <2>1, <2>2 DEF Priv
  <2>4. /\ widgets' \in WidgetSet
        /\ widgets'.server = widgets.server /\ widgets'.sensitive = widgets.sensitive
        /\ widgets'.reconnect = TRUE /\ widgets'.label = label
    BY <2>1, <2>2 DEF WidgetSet
  <2>5. TypeOK'
    BY <2>1, <2>3, <2>4, NewTypes, TypeOKSplit DEF TypesHold, IndInv, ActiveRow
  <2>6. CallbacksFindEditor'
    BY <2>1, <2>3 DEF IndInv, CallbacksFindEditor, NoCtx
  <2>7. ButtonsTellTruth'
    BY <2>1, <2>4 DEF IndInv, ButtonsTellTruth, NoCtx
  <2>8. CancelledIsOrphan' /\ ComboInv' /\ ClosedInv'
    BY <1>2, <2>1, <2>4 DEF IndInv, CancelledIsOrphan, ComboInv, ClosedInv
  <2> QED
    BY <2>5, <2>6, <2>7, <2>8 DEF IndInv
<1> QED
  BY <1>1, <1>2 DEF Finish

\* Going on with the chain keeps editor and context together.
LEMMA ProceedStep ==
    ASSUME IndInv, ctx.phase # "none", NEW phase \in Phases \ {"none"},
           NEW polls \in 0 .. MaxPolls, NEW server \in Tokens \cup {None},
           Proceed(phase, polls, server), nm' \in NmSet
    PROVE  IndInv'
<1>1. /\ ctx' = [phase |-> phase, polls |-> polls, server |-> server]
      /\ widgets' = [widgets EXCEPT !.label = "progress"]
      /\ UNCHANGED <<editor, priv, tasks>>
  BY DEF Proceed
<1>2. widgets \in WidgetSet
  BY TypeOKSplit DEF TypesHold, IndInv
<1>3. /\ widgets' \in WidgetSet
      /\ widgets'.server = widgets.server /\ widgets'.sensitive = widgets.sensitive
      /\ widgets'.reconnect = widgets.reconnect /\ widgets'.label = "progress"
  BY <1>1, <1>2 DEF WidgetSet
<1>4. ctx' \in CtxSet /\ ctx'.phase # "none"
  BY <1>1 DEF CtxSet
<1>5. TypeOK'
  BY <1>1, <1>3, <1>4, TypeOKSplit DEF TypesHold, IndInv, ActiveRow
<1>6. CallbacksFindEditor'
  BY <1>1, <1>4 DEF IndInv, CallbacksFindEditor
<1>7. ButtonsTellTruth'
  BY <1>1, <1>3, <1>4 DEF IndInv, ButtonsTellTruth
<1>8. CancelledIsOrphan' /\ ComboInv' /\ ClosedInv'
  BY <1>1, <1>3, <1>4 DEF IndInv, CancelledIsOrphan, ComboInv, ClosedInv
<1> QED
  BY <1>5, <1>6, <1>7, <1>8 DEF IndInv

(***************************************************************************)
(* Every action preserves the invariant.                                   *)
(***************************************************************************)
\* A new editor starts with one refresh and nothing else under way.
LEMMA OpenStep == ASSUME IndInv, Open PROVE IndInv'
<1>1. TypesHold
  BY TypeOKSplit DEF IndInv
<1>2. /\ ctx = ctx' /\ ctx.phase = "none"
      /\ editor' = "open" /\ nm' = [nm EXCEPT !.owed = FALSE]
      /\ priv' = [NewPriv EXCEPT !.cancellable["refresh"] = TRUE]
      /\ tasks' = [tasks EXCEPT !["refresh"] = "running"]
      /\ \A k \in TaskKinds : tasks[k] = "none"
  BY DEF Open, IndInv, CallbacksFindEditor
<1>3. PICK key \in BOOLEAN :
        widgets' = [server    |-> InitialCombo(nm.stored),
                    sensitive |-> [k \in TaskKinds |-> k # "refresh"],
                    reconnect |-> TRUE, label |-> "apply", api_key |-> key]
  BY DEF Open
<1>4. Filled(InitialCombo(nm.stored))
  BY <1>1, InitialComboFilled DEF TypesHold, NmSet
<1>5. widgets' \in WidgetSet /\ ActiveRow(widgets)' /\ ComboInv'
  BY <1>3, <1>4 DEF WidgetSet, ActiveRow, Filled, ComboInv
<1>6. priv' \in Priv /\ priv'.cancellable = [k \in TaskKinds |-> k = "refresh"]
  BY <1>2 DEF NewPriv, Priv, TaskKinds
<1>7. tasks' = [k \in TaskKinds |-> IF k = "refresh" THEN "running" ELSE "none"]
  BY <1>1, <1>2 DEF TypesHold, TaskSet
<1>8. TypeOK'
  <2>1. tasks' \in TaskSet
    BY <1>7 DEF TaskSet
  <2>2. nm' \in NmSet
    BY <1>1, <1>2 DEF TypesHold, NmSet
  <2> QED
    BY <1>1, <1>2, <1>5, <1>6, <2>1, <2>2, TypeOKSplit DEF TypesHold
<1>9. CallbacksFindEditor' /\ CancelledIsOrphan' /\ ClosedInv'
  BY <1>2, <1>6, <1>7 DEF CallbacksFindEditor, CancelledIsOrphan, ClosedInv, TaskKinds
<1>10. ButtonsTellTruth'
  BY <1>2, <1>3, <1>7 DEF ButtonsTellTruth
<1> QED
  BY <1>5, <1>8, <1>9, <1>10 DEF IndInv

\* Closing disposes the editor unless a reconnect context keeps it.
LEMMA CloseStep == ASSUME IndInv, Close PROVE IndInv'
<1>1. TypesHold
  BY TypeOKSplit DEF IndInv
<1>2. nm' = nm /\ ctx' = ctx /\ nm' \in NmSet
  BY <1>1 DEF Close, TypesHold
<1>3. CASE ctx.phase = "none" /\ Dispose
  <2>1. TypeOK'
    <3>1. tasks' \in TaskSet
      BY <1>1, <1>3 DEF TypesHold, Dispose, TaskSet
    <3> QED
      BY <1>1, <1>2, <1>3, <3>1, ClosedWidgetsType, NewTypes, TypeOKSplit DEF Dispose, TypesHold
  <2>2. CallbacksFindEditor'
    BY <1>2, <1>3 DEF IndInv, Dispose, CallbacksFindEditor, TypeOK
  <2>3. ButtonsTellTruth' /\ CancelledIsOrphan' /\ ComboInv' /\ ClosedInv'
    BY <1>3 DEF Dispose, ButtonsTellTruth, CancelledIsOrphan, ComboInv, ClosedInv
  <2> QED
    BY <2>1, <2>2, <2>3 DEF IndInv
<1>4. CASE ctx.phase # "none" /\ editor' = "closed" /\ UNCHANGED <<priv, widgets, tasks>>
  <2>1. editor = "open"
    BY DEF Close
  <2>2. TypeOK'
    BY <1>1, <1>2, <1>4, TypeOKSplit DEF TypesHold, ActiveRow
  <2>3. CallbacksFindEditor' /\ ButtonsTellTruth'
    BY <1>2, <1>4, <2>1 DEF IndInv, CallbacksFindEditor, ButtonsTellTruth
  <2>4. CancelledIsOrphan' /\ ComboInv' /\ ClosedInv'
    BY <1>2, <1>4, <2>1 DEF IndInv, CancelledIsOrphan, ComboInv, ClosedInv
  <2> QED
    BY <2>2, <2>3, <2>4 DEF IndInv
<1> QED
  BY <1>3, <1>4 DEF Close

\* A click starts a thread that the editor can cancel.
LEMMA ClickStep == ASSUME IndInv, NEW k \in TaskKinds, Click(k) PROVE IndInv'
<1>1. TypesHold
  BY TypeOKSplit DEF IndInv
<1>2. /\ editor = "open" /\ UNCHANGED <<editor, ctx, nm>>
      /\ widgets' = [widgets EXCEPT !.sensitive[k] = FALSE]
      /\ priv' = [priv EXCEPT !.cancellable[k] = TRUE]
      /\ tasks' = [tasks EXCEPT ![k] = "running"]
  BY DEF Click
<1>3. /\ widgets' \in WidgetSet
      /\ widgets'.server = widgets.server /\ widgets'.reconnect = widgets.reconnect
      /\ widgets'.label = widgets.label
      /\ widgets'.sensitive = [widgets.sensitive EXCEPT ![k] = FALSE]
  BY <1>1, <1>2 DEF TypesHold, WidgetSet
<1>4. /\ priv' \in Priv /\ priv'.reconnect_busy = priv.reconnect_busy
      /\ priv'.cancellable = [priv.cancellable EXCEPT ![k] = TRUE]
  BY <1>1, <1>2 DEF TypesHold, Priv
<1>5. tasks' \in TaskSet
  BY <1>1, <1>2 DEF TypesHold, TaskSet
<1>6. TypeOK'
  BY <1>1, <1>2, <1>3, <1>4, <1>5, TypeOKSplit DEF TypesHold, ActiveRow
<1>7. CallbacksFindEditor'
  BY <1>1, <1>2, <1>4 DEF IndInv, CallbacksFindEditor, TypesHold, Priv, TaskSet
<1>8. ButtonsTellTruth'
  BY <1>1, <1>2, <1>3 DEF IndInv, ButtonsTellTruth, TypesHold, WidgetSet, TaskSet
<1>9. CancelledIsOrphan' /\ ComboInv' /\ ClosedInv'
  BY <1>1, <1>2, <1>3 DEF IndInv, CancelledIsOrphan, ComboInv, ClosedInv, TypesHold, TaskSet
<1> QED
  BY <1>6, <1>7, <1>8, <1>9 DEF IndInv

\* What a callback that finds its editor does to the widgets.
TaskEnded(k, fetched, server) ==
    /\ tasks[k] = "running"
    /\ tasks' = [tasks EXCEPT ![k] = "none"]
    /\ priv' = [priv EXCEPT !.cancellable[k] = FALSE]
    /\ widgets' = [Ended(k, fetched) EXCEPT !.server = server]
    /\ UNCHANGED <<editor, ctx, nm>>

\* The callback of a thread, as its three outcomes.
LEMMA TaskDoneCases ==
    ASSUME IndInv, NEW k \in TaskKinds, TaskDone(k)
    PROVE  \/ /\ tasks[k] = "cancelled" /\ tasks' = [tasks EXCEPT ![k] = "none"]
              /\ UNCHANGED <<editor, priv, widgets, ctx, nm>>
           \/ \E fetched \in BOOLEAN : TaskEnded(k, fetched, widgets.server)
           \/ \E list \in Seq(Tokens) :
                 TaskEnded(k, TRUE, FillCombo(list, widgets.server.active))
<1>1. widgets \in WidgetSet
  BY TypeOKSplit DEF IndInv, TypesHold
<1>2. \A f \in BOOLEAN : Ended(k, f) = [Ended(k, f) EXCEPT !.server = widgets.server]
  BY <1>1 DEF Ended, WidgetSet
<1>3. CASE tasks[k] = "cancelled"
  BY <1>3 DEF TaskDone
<1>4. CASE tasks[k] = "running"
  <2> DEFINE Refilled(list) == [Ended(k, TRUE) EXCEPT
                                   !.server = FillCombo(list, widgets.server.active)]
  <2>1. PICK reply \in Replies : widgets' = Shown(k, reply)
    BY <1>4 DEF TaskDone
  <2>2. \/ \E f \in BOOLEAN : widgets' = Ended(k, f)
        \/ \E list \in Seq(Tokens) : widgets' = Refilled(list)
    <3> DEFINE body == HttpGet(reply)
               list == StatusTokens(body)
               devices == DeviceNames(body) # None
    <3>1. CASE k = "refresh" /\ HoldsObject(body)
      <4>1. list \in Seq(Tokens)
        BY <3>1, EditorAssumption
      <4>2. widgets' = Refilled(list)
        BY <2>1, <3>1 DEF Shown
      <4> QED
        BY <4>1, <4>2
    <3>2. CASE k = "refresh" /\ ~HoldsObject(body)
      <4>1. widgets' = Ended(k, HoldsObject(body))
        BY <2>1, <3>2 DEF Shown
      <4>2. HoldsObject(body) = FALSE
        BY <3>2
      <4> QED
        BY <4>1, <4>2
    <3>3. CASE k # "refresh"
      <4>1. widgets' = Ended(k, devices)
        BY <2>1, <3>3 DEF Shown
      <4>2. devices \in BOOLEAN
        OBVIOUS
      <4> QED
        BY <4>1, <4>2
    <3> QED
      BY <3>1, <3>2, <3>3
  <2>3. CASE \E f \in BOOLEAN : widgets' = Ended(k, f)
    BY <1>2, <1>4, <2>3 DEF TaskDone, TaskEnded
  <2>4. CASE \E list \in Seq(Tokens) : widgets' = Refilled(list)
    BY <1>4, <2>4 DEF TaskDone, TaskEnded
  <2> QED
    BY <2>2, <2>3, <2>4
<1> QED
  BY <1>3, <1>4 DEF TaskDone

\* A callback makes its button usable again and leaves an active row.
LEMMA TaskEndedStep ==
    ASSUME IndInv, NEW k \in TaskKinds, NEW fetched, NEW server \in Combo, Filled(server),
           TaskEnded(k, fetched, server)
    PROVE  IndInv'
<1>1. TypesHold
  BY TypeOKSplit DEF IndInv
<1>2. /\ tasks[k] = "running" /\ tasks' = [tasks EXCEPT ![k] = "none"]
      /\ priv' = [priv EXCEPT !.cancellable[k] = FALSE]
      /\ UNCHANGED <<editor, ctx, nm>>
  BY DEF TaskEnded
<1>3. widgets' = [[widgets EXCEPT !.sensitive[k] = TRUE] EXCEPT !.server = server]
  BY DEF TaskEnded, Ended
<1>4. /\ widgets' \in WidgetSet
      /\ widgets'.server = server /\ widgets'.reconnect = widgets.reconnect
      /\ widgets'.label = widgets.label
      /\ widgets'.sensitive = [widgets.sensitive EXCEPT ![k] = TRUE]
  BY <1>1, <1>3 DEF TypesHold, WidgetSet
<1>5. /\ priv' \in Priv /\ priv'.reconnect_busy = priv.reconnect_busy
      /\ priv'.cancellable = [priv.cancellable EXCEPT ![k] = FALSE]
  BY <1>1, <1>2 DEF TypesHold, Priv
<1>6. tasks' \in TaskSet
  BY <1>1, <1>2 DEF TypesHold, TaskSet
<1>7. TypeOK' /\ ComboInv'
  BY <1>1, <1>2, <1>4, <1>5, <1>6, TypeOKSplit DEF TypesHold, ActiveRow, Filled, ComboInv
<1>8. CallbacksFindEditor'
  BY <1>1, <1>2, <1>5 DEF IndInv, CallbacksFindEditor, TypesHold, Priv, TaskSet
<1>9. ButtonsTellTruth'
  BY <1>1, <1>2, <1>4 DEF IndInv, ButtonsTellTruth, TypesHold, WidgetSet, TaskSet
<1>10. CancelledIsOrphan' /\ ClosedInv'
  BY <1>1, <1>2 DEF IndInv, CancelledIsOrphan, ClosedInv, TypesHold, TaskSet
<1> QED
  BY <1>7, <1>8, <1>9, <1>10 DEF IndInv

\* While an editor's callback runs, its combo has a token selected.
LEMMA SelectedToken ==
    ASSUME IndInv, NEW k \in TaskKinds, tasks[k] = "running"
    PROVE  Filled(widgets.server) /\ widgets.server.active \in Tokens
<1>1. Filled(widgets.server)
  BY DEF IndInv, CallbacksFindEditor, ComboInv
<1>2. widgets.server.rows \in Seq(Tokens)
  BY <1>1 DEF Filled, Combo
<1> QED
  BY <1>1, <1>2 DEF Filled

\* Both callbacks, however the request ended.
LEMMA TaskDoneStep == ASSUME IndInv, NEW k \in TaskKinds, TaskDone(k) PROVE IndInv'
<1>1. TypesHold
  BY TypeOKSplit DEF IndInv
<1>2. CASE /\ tasks[k] = "cancelled" /\ tasks' = [tasks EXCEPT ![k] = "none"]
           /\ UNCHANGED <<editor, priv, widgets, ctx, nm>>
  <2>1. editor = "none"
    BY <1>2 DEF IndInv, CancelledIsOrphan
  <2>2. tasks' \in TaskSet
    BY <1>1, <1>2 DEF TypesHold, TaskSet
  <2>3. TypeOK'
    BY <1>1, <1>2, <2>2, TypeOKSplit DEF TypesHold, ActiveRow
  <2>4. CallbacksFindEditor'
    BY <1>1, <1>2 DEF IndInv, CallbacksFindEditor, TypesHold, TaskSet
  <2>5. ButtonsTellTruth' /\ CancelledIsOrphan' /\ ComboInv' /\ ClosedInv'
    BY <1>2, <2>1 DEF ButtonsTellTruth, CancelledIsOrphan, ComboInv, ClosedInv
  <2> QED
    BY <2>3, <2>4, <2>5 DEF IndInv
<1>3. CASE \E fetched \in BOOLEAN : TaskEnded(k, fetched, widgets.server)
  <2>1. tasks[k] = "running"
    BY <1>3 DEF TaskEnded
  <2>2. Filled(widgets.server) /\ widgets.server \in Combo
    BY <2>1, SelectedToken DEF Filled
  <2> QED
    BY <1>3, <2>2, TaskEndedStep
<1>4. CASE \E list \in Seq(Tokens) : TaskEnded(k, TRUE, FillCombo(list, widgets.server.active))
  <2>1. PICK list \in Seq(Tokens) : TaskEnded(k, TRUE, FillCombo(list, widgets.server.active))
    BY <1>4
  <2>2. list \in Seq(Tokens) /\ widgets.server.active \in Tokens
    BY <2>1, SelectedToken DEF TaskEnded
  <2>3. Filled(FillCombo(list, widgets.server.active))
    BY <2>2, FillComboKeeps
  <2>4. FillCombo(list, widgets.server.active) \in Combo
    BY <2>3 DEF Filled
  <2> QED
    BY <2>1, <2>3, <2>4, TaskEndedStep
<1> QED
  BY <1>2, <1>3, <1>4, TaskDoneCases

\* The click on "Apply & Reconnect" starts a chain.
LEMMA ClickReconnectStep == ASSUME IndInv, ClickReconnect PROVE IndInv'
<1>1. TypesHold
  BY TypeOKSplit DEF IndInv
<1>2. /\ editor = "open" /\ UNCHANGED <<editor, tasks, nm>>
      /\ priv' = [priv EXCEPT !.reconnect_busy = TRUE]
      /\ widgets' = [widgets EXCEPT !.reconnect = FALSE, !.label = "progress"]
      /\ ctx' = [NoCtx EXCEPT !.phase = "client"]
  BY DEF ClickReconnect
<1>3. ctx' \in CtxSet /\ ctx'.phase = "client"
  BY <1>2, NewTypes DEF CtxSet, NoCtx, Phases
<1>4. priv' \in Priv /\ priv'.cancellable = priv.cancellable /\ priv'.reconnect_busy = TRUE
  BY <1>1, <1>2 DEF TypesHold, Priv
<1>5. /\ widgets' \in WidgetSet
      /\ widgets'.server = widgets.server /\ widgets'.sensitive = widgets.sensitive
      /\ widgets'.reconnect = FALSE /\ widgets'.label = "progress"
  BY <1>1, <1>2 DEF TypesHold, WidgetSet
<1>6. TypeOK'
  BY <1>1, <1>2, <1>3, <1>4, <1>5, TypeOKSplit DEF TypesHold, ActiveRow
<1>7. CallbacksFindEditor' /\ ButtonsTellTruth'
  BY <1>2, <1>3, <1>4, <1>5 DEF IndInv, CallbacksFindEditor, ButtonsTellTruth
<1>8. CancelledIsOrphan' /\ ComboInv' /\ ClosedInv'
  BY <1>2, <1>3, <1>5 DEF IndInv, CancelledIsOrphan, ComboInv, ClosedInv
<1> QED
  BY <1>6, <1>7, <1>8 DEF IndInv

\* The callbacks of the chain go on or finish, and leave a well-formed
\* connection behind.
LEMMA ChainStep ==
    ASSUME IndInv,
           ClientReady \/ CommitDone \/ DeactivateDone \/ PollDeactivated \/ ActivateDone
    PROVE  IndInv'
<1>1. TypesHold
  BY TypeOKSplit DEF IndInv
<1>2. /\ nm \in NmSet /\ ctx \in CtxSet /\ widgets.server.active \in Tokens \cup {None}
      /\ 0 \in 0 .. MaxPolls
      /\ {"commit", "deactivate", "poll", "activate"} \subseteq Phases \ {"none"}
  BY <1>1, EditorAssumption DEF TypesHold, WidgetSet, Combo, Phases
<1>3. ctx.server \in Tokens \cup {None}
  BY <1>2 DEF CtxSet
<1>4. CASE ClientReady
  BY <1>2, <1>4, FinishStep, ProceedStep DEF ClientReady
<1>5. CASE CommitDone
  <2>1. nm' \in NmSet /\ ctx.phase # "none"
    BY <1>2, <1>3, <1>5 DEF CommitDone, FindActive, NmSet
  <2> QED
    BY <1>2, <1>3, <1>5, <2>1, FinishStep, ProceedStep DEF CommitDone
<1>6. CASE DeactivateDone
  <2>1. nm' \in NmSet /\ ctx.phase # "none"
    BY <1>2, <1>6 DEF DeactivateDone, NmSet
  <2> QED
    BY <1>2, <1>3, <1>6, <2>1, FinishStep, ProceedStep DEF DeactivateDone
<1>7. CASE PollDeactivated
  <2>1. nm' \in NmSet /\ ctx.phase # "none"
    BY <1>2, <1>7 DEF PollDeactivated
  <2>2. ctx.polls < MaxPolls => ctx.polls + 1 \in 0 .. MaxPolls
    BY <1>2, EditorAssumption DEF CtxSet
  <2> QED
    BY <1>2, <1>3, <1>7, <2>1, <2>2, FinishStep, ProceedStep DEF PollDeactivated
<1>8. CASE ActivateDone
  <2>1. nm' \in NmSet /\ ctx.phase # "none"
    BY <1>2, <1>8 DEF ActivateDone, Activated, NmSet
  <2> QED
    BY <1>8, <2>1, FinishStep DEF ActivateDone
<1> QED
  BY <1>4, <1>5, <1>6, <1>7, <1>8

\* Selecting a row, saving, and a connection that changes by itself.
LEMMA EnvironmentStep ==
    ASSUME IndInv, SelectServer \/ HostSave \/ ConnectionChanges
    PROVE  IndInv'
<1>1. TypesHold
  BY TypeOKSplit DEF IndInv
<1>2. CASE SelectServer
  <2>1. PICK i \in DOMAIN widgets.server.rows :
          widgets' = [widgets EXCEPT !.server.active = widgets.server.rows[i]]
    BY <1>2 DEF SelectServer
  <2>2. widgets.server \in Combo /\ widgets.server.rows[i] \in Tokens
    BY <1>1 DEF TypesHold, WidgetSet, Combo
  <2>3. /\ widgets'.server = [widgets.server EXCEPT !.active = widgets.server.rows[i]]
        /\ widgets'.sensitive = widgets.sensitive /\ widgets'.reconnect = widgets.reconnect
        /\ widgets'.label = widgets.label /\ widgets'.api_key = widgets.api_key
    BY <1>1, <2>1 DEF TypesHold, WidgetSet
  <2>4. /\ widgets'.server \in Combo /\ widgets'.server.rows = widgets.server.rows
        /\ widgets'.server.active = widgets.server.rows[i]
    BY <2>2, <2>3 DEF Combo
  <2>5. widgets' \in WidgetSet
    BY <1>1, <2>1, <2>2 DEF TypesHold, WidgetSet, Combo
  <2>6. TypeOK'
    BY <1>1, <1>2, <2>4, <2>5, TypeOKSplit DEF TypesHold, ActiveRow, SelectServer
  <2>7. CallbacksFindEditor' /\ ButtonsTellTruth'
    BY <1>2, <2>3 DEF IndInv, CallbacksFindEditor, ButtonsTellTruth, SelectServer
  <2>8. ComboInv'
    BY <1>2, <2>4 DEF IndInv, ComboInv, Filled, SelectServer
  <2>9. CancelledIsOrphan' /\ ClosedInv'
    BY <1>2 DEF IndInv, CancelledIsOrphan, ClosedInv, SelectServer
  <2> QED
    BY <2>6, <2>7, <2>8, <2>9 DEF IndInv
<1>3. CASE HostSave \/ ConnectionChanges
  <2>1. UNCHANGED <<editor, priv, widgets, tasks, ctx>>
    BY <1>3 DEF HostSave, ConnectionChanges
  <2>2. widgets.server.active \in Tokens \cup {None}
    BY <1>1 DEF TypesHold, WidgetSet, Combo
  <2>3. nm' \in NmSet
    <3>1. CASE HostSave
      BY <1>1, <2>2, <3>1 DEF TypesHold, NmSet, HostSave
    <3>2. CASE ConnectionChanges
      <4>1. nm \in NmSet
        BY <1>1 DEF TypesHold
      <4>2. CASE nm' = Activated("activating")
        BY <4>1, <4>2 DEF Activated, NmSet
      <4>3. CASE nm' = [nm EXCEPT !.active = "active"] \/ nm' = [nm EXCEPT !.active = "inactive"]
        BY <4>1, <4>3 DEF NmSet
      <4>4. CASE nm' = [stored |-> None, active |-> "inactive", owed |-> FALSE]
        BY <4>4 DEF NmSet
      <4> QED
        BY <3>2, <4>2, <4>3, <4>4 DEF ConnectionChanges
    <3> QED
      BY <1>3, <3>1, <3>2
  <2>4. TypeOK'
    BY <1>1, <2>1, <2>3, TypeOKSplit DEF TypesHold, ActiveRow
  <2>5. CallbacksFindEditor' /\ ButtonsTellTruth' /\ CancelledIsOrphan' /\ ComboInv' /\ ClosedInv'
    BY <2>1 DEF IndInv, CallbacksFindEditor, ButtonsTellTruth, CancelledIsOrphan, ComboInv, ClosedInv
  <2> QED
    BY <2>4, <2>5 DEF IndInv
<1> QED
  BY <1>2, <1>3

\* A step that changes nothing.
LEMMA StutterStep == ASSUME IndInv, UNCHANGED vars PROVE IndInv'
<1>1. TypeOK'
  BY TypeOKSplit DEF IndInv, TypesHold, ActiveRow, vars
<1>2. CallbacksFindEditor' /\ ButtonsTellTruth' /\ CancelledIsOrphan' /\ ComboInv' /\ ClosedInv'
  BY DEF IndInv, CallbacksFindEditor, ButtonsTellTruth, CancelledIsOrphan, ComboInv, ClosedInv, vars
<1> QED
  BY <1>1, <1>2 DEF IndInv

\* The invariant is inductive.
LEMMA NextIndInv == IndInv /\ [Next]_vars => IndInv'
<1> SUFFICES ASSUME IndInv, [Next]_vars
             PROVE  IndInv'
  OBVIOUS
<1>1. CASE Open
  BY <1>1, OpenStep
<1>2. CASE Close
  BY <1>2, CloseStep
<1>3. CASE \E k \in TaskKinds : Click(k) \/ TaskDone(k)
  BY <1>3, ClickStep, TaskDoneStep
<1>4. CASE ClickReconnect
  BY <1>4, ClickReconnectStep
<1>5. CASE ClientReady \/ CommitDone \/ DeactivateDone \/ PollDeactivated \/ ActivateDone
  BY <1>5, ChainStep
<1>6. CASE SelectServer \/ HostSave \/ ConnectionChanges
  BY <1>6, EnvironmentStep
<1>7. CASE UNCHANGED vars
  BY <1>7, StutterStep
<1> QED
  BY <1>1, <1>2, <1>3, <1>4, <1>5, <1>6, <1>7 DEF Next, NextButOpen

\* The invariant holds in every reachable state.
LEMMA Inductive == Spec => []IndInv
  BY InitIndInv, NextIndInv, PTL DEF Spec

(***************************************************************************)
(* Theorems.                                                               *)
(***************************************************************************)
\* Every variable keeps its type: the poll count of reconnect_poll_deactivated
\* stays within its bound, and a combo with rows has one of them active.
THEOREM EditorTypeCorrect == Spec => []TypeOK
<1>1. IndInv => TypeOK
  BY DEF IndInv
<1> QED
  BY <1>1, Inductive, PTL

\* No callback of the worker threads or of the reconnect chain finds the
\* editor disposed, whenever the host closes it.
THEOREM CallbacksAlwaysFindEditor == Spec => []CallbacksFindEditor
<1>1. IndInv => CallbacksFindEditor
  BY DEF IndInv
<1> QED
  BY <1>1, Inductive, PTL

\* The three buttons of the editor can be pressed exactly when what they
\* start is not under way.
THEOREM ButtonsAlwaysTellTruth == Spec => []ButtonsTellTruth
<1>1. IndInv => ButtonsTellTruth
  BY DEF IndInv
<1> QED
  BY <1>1, Inductive, PTL

\* Only the callback of a thread makes it one that has ended.
LEMMA OnlyTaskDoneEnds ==
    ASSUME IndInv, [Next]_vars, NEW k \in TaskKinds, tasks[k] = "running", tasks'[k] = "none"
    PROVE  TaskDone(k)
<1>1. tasks \in TaskSet
  BY TypeOKSplit DEF IndInv, TypesHold
<1>2. ~UNCHANGED tasks
  OBVIOUS
<1>3. ~Dispose
  BY <1>1 DEF Dispose, TaskSet
<1>4. ASSUME NEW label, Finish(label)
      PROVE  FALSE
  BY <1>2, <1>3, <1>4 DEF Finish
<1>5. CASE Open
  BY <1>1, <1>5 DEF Open, TaskSet
<1>6. CASE Close
  BY <1>2, <1>3, <1>6 DEF Close
<1>7. CASE \E j \in TaskKinds : Click(j)
  BY <1>1, <1>7 DEF Click, TaskSet
<1>8. CASE \E j \in TaskKinds : TaskDone(j)
  BY <1>1, <1>8 DEF TaskDone, TaskSet
<1>9. CASE ClickReconnect \/ SelectServer \/ HostSave \/ ConnectionChanges
  BY <1>2, <1>9 DEF ClickReconnect, SelectServer, HostSave, ConnectionChanges
<1>10. CASE ClientReady \/ CommitDone \/ DeactivateDone \/ PollDeactivated \/ ActivateDone
  BY <1>2, <1>4, <1>10 DEF ClientReady, CommitDone, DeactivateDone, PollDeactivated,
     ActivateDone, Proceed
<1> QED
  BY <1>2, <1>5, <1>6, <1>7, <1>8, <1>9, <1>10 DEF Next, NextButOpen, vars

\* refresh_done_cb and devices_done_cb keep the selected server, whatever
\* list arrives, but for the case of its letters.
THEOREM ArrivingListKeepsSelection == Spec => SelectionKept
<1> DEFINE Kept == \A k \in TaskKinds :
                     tasks[k] = "running" /\ tasks'[k] = "none"
                     => Fold[widgets'.server.active] = Fold[widgets.server.active]
<1>1. IndInv /\ [Next]_vars => Kept
  <2> SUFFICES ASSUME IndInv, [Next]_vars, NEW k \in TaskKinds,
                      tasks[k] = "running", tasks'[k] = "none"
               PROVE  Fold[widgets'.server.active] = Fold[widgets.server.active]
    OBVIOUS
  <2>1. TaskDone(k)
    BY OnlyTaskDoneEnds
  <2>2. widgets \in WidgetSet
    BY TypeOKSplit DEF IndInv, TypesHold
  <2>3. ASSUME NEW fetched, NEW server \in Combo, TaskEnded(k, fetched, server)
        PROVE  widgets'.server = server
    BY <2>2, <2>3 DEF TaskEnded, Ended, WidgetSet
  <2>4. CASE \E fetched \in BOOLEAN : TaskEnded(k, fetched, widgets.server)
    BY <2>2, <2>3, <2>4 DEF WidgetSet
  <2>5. CASE \E list \in Seq(Tokens) : TaskEnded(k, TRUE, FillCombo(list, widgets.server.active))
    <3>1. PICK list \in Seq(Tokens) : TaskEnded(k, TRUE, FillCombo(list, widgets.server.active))
      BY <2>5
    <3>2. list \in Seq(Tokens) /\ widgets.server.active \in Tokens
      BY SelectedToken
    <3>3. /\ FillCombo(list, widgets.server.active) \in Combo
          /\ Fold[FillCombo(list, widgets.server.active).active] = Fold[widgets.server.active]
      BY <3>2, FillComboKeeps DEF Filled
    <3> QED
      BY <2>3, <3>1, <3>3
  <2> QED
    BY <2>1, <2>4, <2>5, TaskDoneCases
<1> QED
  BY <1>1, Inductive, PTL DEF Spec, SelectionKept

\* Settings that Apply & Reconnect committed to a connection that was up reach
\* it by an activation, or are on their way, or the button says that it failed.
THEOREM OwedRestartsAreReported == Spec => []OwedRestartIsReported
<1>1. Init => OwedRestartIsReported
  BY DEF Init, OwedRestartIsReported
<1>2. IndInv /\ OwedRestartIsReported /\ [Next]_vars => OwedRestartIsReported'
  <2> SUFFICES ASSUME IndInv, OwedRestartIsReported, [Next]_vars, editor' = "open", nm'.owed
               PROVE  ctx'.phase # "none" \/ widgets'.label = "failed"
    BY DEF OwedRestartIsReported
  <2>1. widgets \in WidgetSet /\ nm \in NmSet
    BY TypeOKSplit DEF IndInv, TypesHold
  <2>2. ASSUME Finish("failed")
        PROVE  widgets'.label = "failed"
    BY <2>1, <2>2 DEF Finish, Dispose, WidgetSet
  <2>3. ASSUME NEW phase \in Phases \ {"none"}, NEW polls, NEW server, Proceed(phase, polls, server)
        PROVE  ctx'.phase # "none"
    BY <2>3 DEF Proceed
  <2>4. {"client", "commit", "deactivate", "poll", "activate"} \subseteq Phases \ {"none"}
    BY DEF Phases
  <2>5. ASSUME editor = "open", ctx' = ctx, widgets'.label = widgets.label, nm'.owed => nm.owed
        PROVE  ctx'.phase # "none" \/ widgets'.label = "failed"
    BY <2>5 DEF OwedRestartIsReported
  <2>6. CASE Open \/ Close
    BY <2>1, <2>6 DEF Open, Close, Dispose, NmSet
  <2>7. ASSUME NEW k \in TaskKinds, Click(k)
        PROVE  ctx'.phase # "none" \/ widgets'.label = "failed"
    BY <2>1, <2>5, <2>7 DEF Click, WidgetSet
  <2>8. ASSUME NEW k \in TaskKinds, TaskDone(k)
        PROVE  ctx'.phase # "none" \/ widgets'.label = "failed"
    <3>1. UNCHANGED <<editor, ctx, nm>>
      BY <2>8 DEF TaskDone
    <3>2. ASSUME NEW fetched
          PROVE  Ended(k, fetched) \in WidgetSet /\ Ended(k, fetched).label = widgets.label
      BY <2>1 DEF Ended, WidgetSet
    <3>3. ASSUME NEW reply \in Replies, widgets' = Shown(k, reply)
          PROVE  widgets'.label = widgets.label
      BY <3>2, <3>3 DEF Shown, WidgetSet
    <3>4. widgets'.label = widgets.label
      BY <2>8, <3>3 DEF TaskDone
    <3> QED
      BY <2>5, <3>1, <3>4
  <2>9. CASE ClickReconnect
    BY <2>9 DEF ClickReconnect, NoCtx
  <2>10. CASE ClientReady
    BY <2>2, <2>3, <2>4, <2>10 DEF ClientReady
  <2>11. CASE CommitDone
    BY <2>1, <2>2, <2>3, <2>4, <2>11 DEF CommitDone, NmSet
  <2>12. CASE DeactivateDone
    BY <2>2, <2>3, <2>4, <2>12 DEF DeactivateDone
  <2>13. CASE PollDeactivated
    BY <2>2, <2>3, <2>4, <2>13 DEF PollDeactivated
  <2>14. CASE ActivateDone
    BY <2>1, <2>2, <2>14 DEF ActivateDone, Activated, NmSet
  <2>15. CASE SelectServer
    BY <2>1, <2>5, <2>15 DEF SelectServer, WidgetSet
  <2>16. CASE HostSave \/ ConnectionChanges
    <3>1. UNCHANGED <<editor, ctx, widgets>>
      BY <2>16 DEF HostSave, ConnectionChanges
    <3>2. \/ \E server : nm' = [nm EXCEPT !.stored = server]
          \/ nm' = Activated("activating")
          \/ \E state : nm' = [nm EXCEPT !.active = state]
          \/ nm' = [stored |-> None, active |-> "inactive", owed |-> FALSE]
      BY <2>16 DEF HostSave, ConnectionChanges
    <3>3. ASSUME \E server : nm' = [nm EXCEPT !.stored = server]
          PROVE  nm'.owed => nm.owed
      BY <2>1, <3>3 DEF NmSet
    <3>4. ASSUME nm' = Activated("activating")
          PROVE  nm'.owed => nm.owed
      BY <2>1, <3>4 DEF Activated, NmSet
    <3>5. ASSUME \E state : nm' = [nm EXCEPT !.active = state]
          PROVE  nm'.owed => nm.owed
      BY <2>1, <3>5 DEF NmSet
    <3>6. ASSUME nm' = [stored |-> None, active |-> "inactive", owed |-> FALSE]
          PROVE  nm'.owed => nm.owed
      BY <3>6
    <3>7. nm'.owed => nm.owed
      BY <3>2, <3>3, <3>4, <3>5, <3>6
    <3> QED
      BY <2>5, <3>1, <3>7
  <2>17. CASE UNCHANGED vars
    BY <2>5, <2>17 DEF vars
  <2> QED
    BY <2>6, <2>7, <2>8, <2>9, <2>10, <2>11, <2>12, <2>13, <2>14, <2>15, <2>16, <2>17
    DEF Next, NextButOpen
<1> QED
  BY <1>1, <1>2, Inductive, PTL DEF Spec

(***************************************************************************)
(* The host program.                                                       *)
(***************************************************************************)
\* Every step of the host is one of the editor or leaves the editor alone.
LEMMA HostStep == [HostNext]_hostVars => [Next]_vars
<1> SUFFICES ASSUME [HostNext]_hostVars
             PROVE  [Next]_vars
  OBVIOUS
<1>1. CASE GetEditor
  BY <1>1 DEF GetEditor, Next
<1>2. CASE NextButOpen
  BY <1>2 DEF Next
<1>3. CASE LoadGtk3
  BY <1>3 DEF LoadGtk3, vars
<1>4. CASE UNCHANGED hostVars
  BY <1>4 DEF hostVars, vars
<1> QED
  BY <1>1, <1>2, <1>3, <1>4 DEF HostNext

\* The editor keeps its promises in every host: loading the plugin, failing
\* to, and trying again are stuttering steps of the editor's specification,
\* so that all theorems above hold of HostSpec.
THEOREM HostImplementsEditor == HostSpec => Spec
<1>1. HostInit => Init
  BY DEF HostInit
<1> QED
  BY <1>1, HostStep, PTL DEF HostSpec, Spec

HostInv ==
    /\ gtk3 \in BOOLEAN
    /\ cached \in Module \cup {None}
    /\ OneModuleLoaded

LEMMA HostInductive == HostSpec => []HostInv
<1>1. HostInit => HostInv
  BY DEF HostInit, HostInv, OneModuleLoaded
<1>2. HostInv /\ [HostNext]_hostVars => HostInv'
  <2> SUFFICES ASSUME HostInv, [HostNext]_hostVars
               PROVE  HostInv'
    OBVIOUS
  <2>1. CASE UNCHANGED <<cached, mapped>> /\ gtk3' \in BOOLEAN
    BY <2>1 DEF HostInv, OneModuleLoaded
  <2>2. CASE GetEditor
    <3>1. gtk3' = gtk3 /\ gtk3 \in BOOLEAN
      BY <2>2 DEF GetEditor, HostInv
    <3>2. PICK outcome \in {"made", "failed", "refused"} : LoadEditor(gtk3, outcome)
      BY <2>2 DEF GetEditor
    <3>3. CASE UNCHANGED <<cached, mapped>>
      BY <2>1, <3>1, <3>3
    <3>4. CASE ~UNCHANGED <<cached, mapped>>
      <4>1. /\ cached = None
            /\ \E version \in Versions :
                 /\ cached' = [gtk3 |-> gtk3, version |-> version]
                 /\ mapped' = mapped \cup {cached'}
        BY <3>2, <3>4 DEF LoadEditor
      <4>2. mapped = {}
        BY <4>1 DEF HostInv, OneModuleLoaded
      <4>3. cached' \in Module
        BY <3>1, <4>1 DEF Module
      <4>4. cached' # None
        BY <4>3, HostAssumption
      <4> QED
        BY <3>1, <4>1, <4>2, <4>3, <4>4 DEF HostInv, OneModuleLoaded
    <3> QED
      BY <3>3, <3>4
  <2>3. CASE NextButOpen /\ UNCHANGED <<gtk3, cached, mapped>>
    BY <2>1, <2>3 DEF HostInv
  <2>4. CASE LoadGtk3
    BY <2>1, <2>4 DEF LoadGtk3
  <2>5. CASE UNCHANGED hostVars
    BY <2>1, <2>5 DEF hostVars, HostInv
  <2> QED
    BY <2>2, <2>3, <2>4, <2>5 DEF HostNext
<1> QED
  BY <1>1, <1>2, PTL DEF HostSpec

\* load_editor never leaves two modules in one process, whatever is upgraded,
\* missing or broken when an editor is asked for, and whichever toolkit the
\* host shows at that moment.
THEOREM AtMostOneModule == HostSpec => []OneModuleLoaded
<1>1. HostInv => OneModuleLoaded
  BY DEF HostInv
<1> QED
  BY <1>1, HostInductive, PTL

\* The editor and what the host keeps of its plugin have their types.
THEOREM HostTypeCorrect == HostSpec => []HostTypeOK
<1>1. HostInv => mapped \subseteq Module
  BY DEF HostInv, OneModuleLoaded
<1>2. HostInv /\ TypeOK => HostTypeOK
  BY <1>1 DEF HostInv, HostTypeOK
<1> QED
  BY <1>2, HostImplementsEditor, EditorTypeCorrect, HostInductive, PTL
==============================================================================
