------------------------ MODULE AirvpnActivationProofs ------------------------
(***************************************************************************)
(* What holds of an activation for all keys, devices, profiles, networks   *)
(* and scenarios: how the API key is found, which device a profile is for, *)
(* and what the three clocks make of an attempt.                           *)
(***************************************************************************)
EXTENDS AirvpnActivation, TLAPS

(***************************************************************************)
(* The secrets.                                                            *)
(***************************************************************************)
\* The dialog looks for a saved key.
Looked == "not_saved" \notin flags /\ "not_required" \notin flags

NothingSaved == keyring \in {None, ""}

\* Nobody is asked before the second round of the dialog.
AskedInv == /\ Looked /\ pass = "new" => NothingSaved
            /\ pass = "system" => dialog = None

\* An answer that comes in the first round is the saved key.
AnswerInv == /\ Looked /\ pass = "existing" /\ dialog # None =>
                   dialog.out # None \/ key # None \/ NothingSaved
             /\ "not_saved" \in flags /\ dialog # None /\ dialog.out # None => asked

SecretsInv == SecretsTypeOK /\ FlagsAreHonoured /\ AskedInv /\ AnswerInv

\* Before anything is asked.
LEMMA SecretsInitHolds == SecretsInit => SecretsInv
<1>. SUFFICES ASSUME SecretsInit PROVE SecretsInv
  OBVIOUS
<1>1. SecretsTypeOK
  BY DEF SecretsInit, SecretsTypeOK
<1>2. FlagsAreHonoured
  BY DEF SecretsInit, FlagsAreHonoured
<1>. QED
  BY <1>1, <1>2 DEF SecretsInit, SecretsInv, AskedInv, AnswerInv

\* Every answer of the dialog is a key or none.
LEMMA AnswersType ==
    ASSUME NEW fl, NEW pw \in Keys \cup {None}, NEW retry, NEW interaction, NEW external,
           NEW out \in Answers(fl, pw, retry, interaction, external)
    PROVE  out \in Keys \cup {None}
  BY DEF Answers

\* The dialog runs, and asks only if it may.
LEMMA RunDialogStep ==
    ASSUME SecretsInv, RunDialog
    PROVE  SecretsInv'
<1>. DEFINE pw == Existing(flags, key)
            interaction == pass = "new"
<1>1. PICK external \in BOOLEAN, retry \in BOOLEAN :
        /\ asked' = (asked \/ ShouldAsk(flags, pw, retry, interaction, external))
        /\ \E out \in Answers(flags, pw, retry, interaction, external) :
             dialog' = [out |-> out, stdin |-> IF external THEN "quit" ELSE "open"]
  BY DEF RunDialog
<1>2. PICK out \in Answers(flags, pw, retry, interaction, external) :
        dialog' = [out |-> out, stdin |-> IF external THEN "quit" ELSE "open"]
  BY <1>1
<1>3. dialog'.out = out
  BY <1>2
<1>4. pass \in {"existing", "new"} /\ UNCHANGED <<flags, keyring, key, pass>>
  BY DEF RunDialog
<1>5. SecretsTypeOK'
  <2>1. pw \in Keys \cup {None} /\ SecretsTypeOK
    BY DEF Existing, SecretsInv, SecretsTypeOK
  <2>2. dialog' \in Dialog
    BY <1>2, <2>1, AnswersType DEF Dialog
  <2>3. asked' \in BOOLEAN
    BY <1>1
  <2>. QED
    BY <1>4, <2>1, <2>2, <2>3 DEF SecretsTypeOK
<1>6. (asked => asked') /\ (asked' => asked \/ ShouldAsk(flags, pw, retry, interaction, external))
  BY <1>1
<1>7. AskedInv'
  BY <1>4 DEF SecretsInv, AskedInv, Looked, NothingSaved
<1>. HIDE DEF pw
<1>8. CASE "not_required" \in flags
  <2>1. ~asked' /\ out = None
    BY <1>6, <1>8 DEF ShouldAsk, Answers, SecretsInv, FlagsAreHonoured
  <2>2. FlagsAreHonoured'
    BY <1>4, <1>6, <2>1 DEF SecretsInv, FlagsAreHonoured
  <2>3. AnswerInv'
    BY <1>3, <1>4, <1>8, <2>1 DEF AnswerInv, Looked
  <2>. QED
    BY <1>5, <1>7, <2>2, <2>3 DEF SecretsInv
<1>9. CASE "not_required" \notin flags /\ "not_saved" \in flags
  <2>1. pw = None
    BY <1>9 DEF Existing, pw
  <2>2. out # None => asked'
    BY <1>1, <1>9, <2>1 DEF Answers
  <2>3. FlagsAreHonoured'
    BY <1>4, <1>6, <1>9 DEF SecretsInv, FlagsAreHonoured
  <2>4. AnswerInv'
    BY <1>3, <1>4, <1>9, <2>2 DEF AnswerInv, Looked
  <2>. QED
    BY <1>5, <1>7, <2>3, <2>4 DEF SecretsInv
<1>10. CASE Looked
  <2>1. pass = "new" => NothingSaved
    BY <1>10 DEF SecretsInv, AskedInv
  <2>2. asked' => NothingSaved
    BY <1>6, <1>10, <2>1 DEF ShouldAsk, SecretsInv, FlagsAreHonoured, Looked, NothingSaved
  <2>3. FlagsAreHonoured'
    BY <1>4, <1>10, <2>2 DEF FlagsAreHonoured, Looked, NothingSaved
  <2>4. pass = "existing" => out # None \/ key # None \/ NothingSaved
    <3>1. pass = "existing" => ~ShouldAsk(flags, pw, retry, interaction, external)
      BY DEF ShouldAsk
    <3>2. pass = "existing" => out = IF external /\ pw = "" THEN None ELSE pw
      BY <1>10, <3>1 DEF Answers, Looked
    <3>3. key = None => pw = keyring
      BY <1>10 DEF Existing, Looked, pw
    <3>. QED
      BY <3>2, <3>3 DEF NothingSaved
  <2>5. AnswerInv'
    BY <1>3, <1>4, <1>10, <2>4 DEF AnswerInv, Looked, NothingSaved
  <2>. QED
    BY <1>5, <1>7, <2>3, <2>5 DEF SecretsInv
<1>. QED
  BY <1>8, <1>9, <1>10 DEF Looked

\* The dialog hands its answer on, and NetworkManager asks the daemon again.
LEMMA DialogExitsStep ==
    ASSUME SecretsInv, DialogExits
    PROVE  SecretsInv'
<1>1. /\ dialog # None /\ dialog' = None
      /\ key' = IF dialog.out # None THEN dialog.out ELSE key
      /\ pass' = IF NeedSecrets(flags, key')
                 THEN IF pass = "existing" THEN "new" ELSE "no_secrets"
                 ELSE "connect"
      /\ UNCHANGED <<flags, keyring, asked>>
  BY DEF DialogExits, AfterRound
<1>2. "not_saved" \in flags /\ key' # None => asked
  BY <1>1 DEF SecretsInv, FlagsAreHonoured, AnswerInv
<1>3. pass' = "new" => pass = "existing" /\ key' = None
  BY <1>1 DEF NeedSecrets
<1>4. Looked /\ pass' = "new" => NothingSaved
  BY <1>1, <1>3 DEF SecretsInv, AnswerInv
<1>5. SecretsTypeOK'
  BY <1>1 DEF SecretsInv, SecretsTypeOK, Dialog
<1>6. FlagsAreHonoured'
  BY <1>1, <1>2 DEF SecretsInv, FlagsAreHonoured
<1>7. AskedInv' /\ AnswerInv'
  BY <1>1, <1>4 DEF AskedInv, AnswerInv, Looked, NothingSaved
<1>. QED
  BY <1>5, <1>6, <1>7 DEF SecretsInv

\* Every step of the search for the key keeps the flags honoured.
LEMMA SecretsStep ==
    ASSUME SecretsInv, [SecretsNext]_secretsVars
    PROVE  SecretsInv'
<1>1. CASE UNCHANGED secretsVars
  BY <1>1 DEF secretsVars, SecretsInv, SecretsTypeOK, FlagsAreHonoured, AskedInv, AnswerInv,
              Looked, NothingSaved
<1>2. CASE SystemRound
  <2>1. /\ UNCHANGED <<flags, keyring, key, asked, dialog>> /\ dialog = None
        /\ pass' \in {"existing", "connect"}
    BY <1>2 DEF SystemRound, AfterRound, SecretsInv, AskedInv
  <2>2. SecretsTypeOK' /\ FlagsAreHonoured'
    BY <2>1 DEF SecretsInv, SecretsTypeOK, FlagsAreHonoured
  <2>. QED
    BY <2>1, <2>2 DEF SecretsInv, AskedInv, AnswerInv
<1>3. CASE AgentHangsUp
  <2>1. PICK stdin \in {"quit", "closed"} : dialog' = [dialog EXCEPT !.stdin = stdin]
    BY <1>3 DEF AgentHangsUp
  <2>2. /\ dialog # None /\ dialog \in Dialog /\ pass # "system"
        /\ UNCHANGED <<flags, keyring, key, pass, asked>>
    BY <1>3 DEF AgentHangsUp, SecretsInv, SecretsTypeOK, AskedInv
  <2>3. dialog' \in Dialog /\ dialog'.out = dialog.out
    BY <2>1, <2>2 DEF Dialog
  <2>4. SecretsTypeOK' /\ FlagsAreHonoured' /\ AskedInv'
    BY <2>2, <2>3
    DEF SecretsInv, SecretsTypeOK, FlagsAreHonoured, AskedInv, Looked, NothingSaved
  <2>5. AnswerInv
    BY DEF SecretsInv
  <2>6. AnswerInv'
    BY <2>2, <2>3, <2>5 DEF AnswerInv, Looked, NothingSaved
  <2>. QED
    BY <2>4, <2>6 DEF SecretsInv
<1>. QED
  BY <1>1, <1>2, <1>3, RunDialogStep, DialogExitsStep DEF SecretsNext

\* No step of the rest of the attempt touches the search for the key.
LEMMA NextKeepsSecrets == [Next]_vars => [SecretsNext]_secretsVars
<1>. SUFFICES ASSUME [Next]_vars PROVE [SecretsNext]_secretsVars
  OBVIOUS
<1>1. CASE UNCHANGED vars
  BY <1>1 DEF vars
<1>2. CASE SecretsNext
  BY <1>2
<1>3. CASE FetchNext /\ UNCHANGED <<secretsVars, rest>>
  BY <1>3
<1>4. CASE Connect
  BY <1>4 DEF Connect
<1>5. CASE FetchDone
  BY <1>5 DEF FetchDone
<1>6. CASE Disconnect \/ ConnectTimeoutCb \/ WatchCb
  BY <1>6 DEF Disconnect, ConnectTimeoutCb, WatchCb
<1>7. CASE OpenvpnContacts \/ OpenvpnTriesAgain \/ OpenvpnIsUp \/ OpenvpnExits
  BY <1>7 DEF OpenvpnContacts, OpenvpnTriesAgain, OpenvpnIsUp, OpenvpnExits
<1>8. CASE HelperCall \/ HelperEnds \/ Tick \/ DnsChanges
  BY <1>8 DEF HelperCall, HelperEnds, Tick, DnsChanges
<1>. QED
  BY <1>1, <1>2, <1>3, <1>4, <1>5, <1>6, <1>7, <1>8 DEF Next

\* Whatever the flags, the saved key and the answers of dialog, agent and
\* user are: nobody is asked for a key that is saved or not required, and
\* a key that is not to be saved is asked for (should_ask of the dialog,
\* real_need_secrets).
THEOREM FlagsAlwaysHonoured == Spec => []FlagsAreHonoured
<1>1. Init => SecretsInv
  BY SecretsInitHolds DEF Init
<1>2. SecretsInv /\ [Next]_vars => SecretsInv'
  BY NextKeepsSecrets, SecretsStep
<1>3. SecretsInv => FlagsAreHonoured
  BY DEF SecretsInv
<1>. QED
  BY <1>1, <1>2, <1>3, PTL DEF Spec

(***************************************************************************)
(* The fetch.                                                              *)
(***************************************************************************)
\* A task that has come to the generator has no device, or a listed one; it
\* reports the cancellation only of what was cancelled.
TaskInv ==
    fetch # None =>
        /\ fetch.at = "generator" => fetch.device = "" \/ fetch.listed
        /\ fetch.profile # None => fetch.profile.device = fetch.device \/ fetch.listed
        /\ fetch.error = "cancelled" => fetch.cancelled

FetchInv == connection \in Connection /\ FetchTypeOK /\ TaskInv

\* A task starts with the configured device.
LEMMA StartedTask ==
    ASSUME NEW device \in Devices, clock \in Nat, fetch' = Started(device)
    PROVE  /\ fetch' \in Fetch
           /\ fetch'.at = "devices" => fetch'.device # ""
           /\ fetch'.at # "returned" /\ fetch'.profile = None /\ fetch'.error = None
           /\ TaskInv'
<1>1. /\ fetch'.device = device /\ fetch'.at = (IF device = "" THEN "generator" ELSE "devices")
      /\ fetch'.profile = None /\ fetch'.error = None
  BY DEF Started
<1>2. fetch' \in Fetch
  BY DEF Started, Fetch
<1>3. None # "cancelled"
  BY NoneIsNoResult DEF Failures
<1>. QED
  BY <1>1, <1>2, <1>3 DEF TaskInv

\* The type of the task is all that a step has to keep.
LEMMA TaskTyped ==
    ASSUME FetchTypeOK, UNCHANGED <<net, account, revoked, served>>, clock' \in Nat,
           fetch' \in Fetch,
           fetch'.at = "devices" => fetch'.device # "",
           fetch'.at = "returned" => (fetch'.profile = None <=> fetch'.error # None),
           fetch'.at # "returned" => fetch'.profile = None /\ fetch'.error = None
    PROVE  FetchTypeOK'
  BY DEF FetchTypeOK

\* A task that returns nothing keeps the invariant.
LEMMA ReturnsNothing ==
    ASSUME FetchInv, fetch # None, NEW error \in Failures, Return(None, error),
           error = "cancelled" => fetch.cancelled,
           UNCHANGED <<connection, clock, net, account, revoked, served>>
    PROVE  FetchInv' /\ fetch' \in Fetch
<1>1. fetch \in Fetch
  BY DEF FetchInv, FetchTypeOK
<1>2. /\ fetch' \in Fetch
      /\ fetch'.at = "returned" /\ fetch'.profile = None /\ fetch'.error = error
      /\ fetch'.cancelled = fetch.cancelled
  BY <1>1 DEF Return, Fetch
<1>3. error # None
  BY NoneIsNoResult
<1>4. FetchTypeOK'
  BY <1>2, <1>3 DEF FetchInv, FetchTypeOK
<1>5. TaskInv'
  BY <1>2 DEF TaskInv
<1>. QED
  BY <1>2, <1>4, <1>5 DEF FetchInv

\* Every step of the thread.
LEMMA FetchStep ==
    ASSUME FetchInv, fetch # None, FetchNext, UNCHANGED connection
    PROVE  FetchInv' /\ fetch' \in Fetch
<1>0. fetch \in Fetch /\ FetchTypeOK /\ TaskInv
  BY DEF FetchInv, FetchTypeOK
<1>2. CASE RequestFails
  BY <1>2, ReturnsNothing DEF RequestFails, Failures
<1>3. CASE KeyRejected
  BY <1>3, ReturnsNothing DEF KeyRejected, Failures
<1>4. CASE DevicesAnswer
  <2>0. /\ UNCHANGED <<connection, clock, net, account, revoked, served>>
        /\ fetch.profile = None /\ fetch.error = None /\ clock \in Nat
    BY <1>0, <1>4 DEF DevicesAnswer, InRequest, FetchTypeOK
  <2>1. CASE Return(None, "failed") \/ (fetch.cancelled /\ Return(None, "cancelled"))
    BY <2>0, <2>1, ReturnsNothing DEF Failures
  <2>2. CASE /\ DeviceListed(fetch.device)
             /\ fetch' = [fetch EXCEPT !.at = "generator", !.since = clock,
                                       !.listed = Known(fetch.device)]
    <3>1. Known(fetch.device) <=> TRUE
      BY <2>2 DEF DeviceListed
    <3>2. Known(fetch.device) \in BOOLEAN
      BY DEF Known
    <3>3. /\ fetch' \in Fetch /\ fetch'.listed /\ fetch'.at = "generator"
          /\ fetch'.profile = fetch.profile /\ fetch'.error = fetch.error
          /\ fetch'.cancelled = fetch.cancelled
      BY <1>0, <2>0, <2>2, <3>1, <3>2 DEF Fetch
    <3>4. FetchTypeOK'
      BY <1>0, <2>0, <3>3, TaskTyped
    <3>5. TaskInv'
      BY <1>0, <2>0, <3>3 DEF TaskInv
    <3>. QED
      BY <3>3, <3>4, <3>5 DEF FetchInv
  <2>. QED
    BY <1>4, <2>1, <2>2 DEF DevicesAnswer
<1>5. CASE GeneratorAnswer
  <2>0. /\ UNCHANGED <<connection, clock, net, account, revoked, served>>
        /\ fetch.at = "generator"
    BY <1>5 DEF GeneratorAnswer
  <2>1. CASE fetch.cancelled /\ Return(None, "cancelled")
    BY <2>0, <2>1, ReturnsNothing DEF Failures
  <2>2. CASE Return([device |-> IF Known(fetch.device) THEN fetch.device ELSE "",
                     text   |-> served], None)
    <3>. DEFINE profile == [device |-> IF Known(fetch.device) THEN fetch.device ELSE "",
                            text   |-> served]
    <3>1. fetch.device \in Devices /\ "" \in Devices
      BY <1>0, FetchAssumption DEF Fetch
    <3>2. profile \in Profile
      BY <1>0, <3>1 DEF FetchTypeOK, Profile
    <3>9. profile # None
      BY <3>2, NoneIsNoResult
    <3>3. fetch.device = "" \/ fetch.listed
      BY <1>0, <2>0 DEF TaskInv
    <3>4. profile.device = fetch.device \/ fetch.listed
      BY <3>3
    <3>. HIDE DEF profile
    <3>5. fetch' = [fetch EXCEPT !.at = "returned", !.profile = profile, !.error = None]
      BY <2>2 DEF Return, profile
    <3>6. /\ fetch' \in Fetch /\ fetch'.at = "returned" /\ fetch'.profile = profile
          /\ fetch'.error = None
          /\ fetch'.device = fetch.device /\ fetch'.listed = fetch.listed
      BY <1>0, <3>2, <3>5 DEF Fetch
    <3>7. FetchTypeOK'
      BY <1>0, <2>0, <3>9, <3>6 DEF FetchTypeOK
    <3>8. None # "cancelled"
      BY NoneIsNoResult DEF Failures
    <3>10. TaskInv'
      BY <3>4, <3>6, <3>8 DEF TaskInv
    <3>. QED
      BY <2>0, <3>6, <3>7, <3>10 DEF FetchInv
  <2>. QED
    BY <1>5, <2>1, <2>2 DEF GeneratorAnswer
<1>6. CASE DeviceRemoved
  BY <1>0, <1>6 DEF DeviceRemoved, FetchInv, FetchTypeOK, TaskInv
<1>. QED
  BY <1>2, <1>3, <1>4, <1>5, <1>6 DEF FetchNext

\* What a step of the attempt does to the task: the daemon starts, cancels
\* and ends it, and leaves the circumstances of the attempt alone.
LEMMA NextOnFetch ==
    ASSUME [Next]_vars
    PROVE  /\ UNCHANGED <<connection, nameservers, pushed, net, revoked, served>>
           /\ \/ fetch # None /\ FetchNext /\ UNCHANGED rest
              \/ /\ UNCHANGED account
                 /\ \/ UNCHANGED fetch /\ clock' \in {clock, clock + 1, 0}
                    \/ fetch' = None /\ clock' \in {clock, 0}
                    \/ svc = "INIT" /\ fetch' = Started(connection.device) /\ clock' = clock
                    \/ fetch # None /\ fetch' = [fetch EXCEPT !.cancelled = TRUE] /\ clock' \in {clock, 0}
<1>1. CASE UNCHANGED vars
  BY <1>1 DEF vars, fetchVars, scenarioVars
<1>2. CASE SecretsNext /\ UNCHANGED <<fetchVars, rest>>
  BY <1>2 DEF fetchVars, rest, scenarioVars
<1>3. CASE fetch # None /\ FetchNext /\ UNCHANGED <<secretsVars, rest>>
  BY <1>3 DEF rest, scenarioVars, FetchNext, RequestFails, KeyRejected, DevicesAnswer,
              GeneratorAnswer, DeviceRemoved
<1>4. CASE Connect
  BY <1>4 DEF Connect, scenarioVars
<1>5. CASE FetchDone
  BY <1>5 DEF FetchDone, scenarioVars
<1>6. CASE Disconnect \/ WatchCb
  BY <1>6 DEF Disconnect, WatchCb, PluginDisconnect, scenarioVars
<1>7. CASE ConnectTimeoutCb \/ OpenvpnContacts \/ OpenvpnTriesAgain \/ OpenvpnIsUp
           \/ OpenvpnExits \/ HelperEnds \/ DnsChanges
  BY <1>7 DEF ConnectTimeoutCb, OpenvpnContacts, OpenvpnTriesAgain, OpenvpnIsUp, OpenvpnExits,
              HelperEnds, DnsChanges, fetchVars, scenarioVars
<1>8. CASE HelperCall \/ Tick
  BY <1>8 DEF HelperCall, Tick, scenarioVars
<1>. QED
  BY <1>1, <1>2, <1>3, <1>4, <1>5, <1>6, <1>7, <1>8 DEF Next

\* Every step of the attempt.
LEMMA AttemptStep ==
    ASSUME FetchInv, [Next]_vars
    PROVE  FetchInv'
<1>0. /\ UNCHANGED <<connection, net, revoked, served>> /\ connection.device \in Devices
      /\ clock \in Nat /\ FetchTypeOK /\ TaskInv
  BY NextOnFetch DEF FetchInv, FetchTypeOK, Connection
<1>1. CASE fetch # None /\ FetchNext
  BY <1>0, <1>1, FetchStep
<1>2. CASE UNCHANGED account /\ fetch' \in {fetch, None} /\ clock' \in {clock, clock + 1, 0}
  <2>1. clock' \in Nat
    <3>1. clock \in Nat
      BY <1>0
    <3>2. clock' \in {clock, clock + 1, 0}
      BY <1>2
    <3>. QED
      BY <3>1, <3>2
  <2>2. FetchTypeOK'
    <3>1. UNCHANGED <<account, net, revoked, served>> /\ FetchTypeOK
      BY <1>0, <1>2
    <3>2. CASE fetch' = None
      BY <2>1, <3>1, <3>2 DEF FetchTypeOK
    <3>3. CASE fetch' = fetch
      BY <2>1, <3>1, <3>3 DEF FetchTypeOK
    <3>. QED
      BY <1>2, <3>2, <3>3
  <2>3. TaskInv'
    BY <1>0, <1>2 DEF TaskInv
  <2>. QED
    BY <1>0, <2>2, <2>3 DEF FetchInv
<1>3. CASE UNCHANGED account /\ fetch' = Started(connection.device) /\ clock' = clock
  <2>1. FetchTypeOK'
    BY <1>0, <1>3, StartedTask, TaskTyped
  <2>. QED
    BY <1>0, <1>3, <2>1, StartedTask DEF FetchInv
<1>4. CASE /\ UNCHANGED account /\ clock' \in {clock, 0}
           /\ fetch # None /\ fetch' = [fetch EXCEPT !.cancelled = TRUE]
  <2>1. clock' \in Nat
    BY <1>0, <1>4
  <2>2. fetch \in Fetch
    BY <1>0, <1>4 DEF FetchTypeOK
  <2>3. /\ fetch' \in Fetch /\ fetch'.cancelled
        /\ \A field \in {"at", "device", "listed", "profile", "error"} : fetch'[field] = fetch[field]
    BY <1>4, <2>2 DEF Fetch
  <2>4. FetchTypeOK'
    BY <1>0, <1>4, <2>1, <2>3 DEF FetchTypeOK
  <2>5. TaskInv'
    BY <1>0, <1>4, <2>3 DEF TaskInv
  <2>. QED
    BY <1>0, <2>4, <2>5 DEF FetchInv
<1>. QED
  BY <1>1, <1>2, <1>3, <1>4, NextOnFetch

\* Before the attempt.
LEMMA FetchInitHolds == Init => FetchInv
<1>. SUFFICES ASSUME Init PROVE FetchInv
  OBVIOUS
<1>1. connection \in Connection
  BY ScenariosAssumption DEF Init
<1>2. /\ fetch = None /\ clock = 0 /\ net \in {"ok", "down", "stalled"}
      /\ account \in SUBSET Devices /\ revoked \in BOOLEAN /\ served \in Texts
  BY DEF Init, FetchInit
<1>3. clock \in Nat
  BY <1>2
<1>. QED
  BY <1>1, <1>2, <1>3 DEF FetchInv, FetchTypeOK, TaskInv

\* For any account, and whenever its devices are removed: a profile of
\* another device than the configured one comes only of a device that the
\* account listed when it was asked (validate_device before the generator).
THEOREM DevicesAreChecked == Spec => []DeviceIsChecked
<1>1. Init => FetchInv
  BY FetchInitHolds
<1>2. FetchInv /\ [Next]_vars => FetchInv'
  BY AttemptStep
<1>3. FetchInv => DeviceIsChecked
  BY DEF FetchInv, TaskInv, DeviceIsChecked
<1>. QED
  BY <1>1, <1>2, <1>3, PTL DEF Spec

(***************************************************************************)
(* The attempt.                                                            *)
(***************************************************************************)
OvpnInv ==
    /\ ovpn = [st |-> ovpn.st, text |-> ovpn.text, status |-> ovpn.status,
               restart |-> ovpn.restart, contact |-> ovpn.contact]
    /\ ovpn.st \in {"none", "looking", "contacting", "up", "exited", "gone"}
    /\ ovpn.text \in Texts \cup {None}
    /\ ovpn.status \in Statuses \cup {None}
    /\ ovpn.restart \in BOOLEAN

\* A fetch is for the attempt that waits for it, or cancelled; openvpn is
\* only started when the fetch is over, of a cached profile, and
\* runs while NetworkManager has the connection; its helper runs while it
\* is up.  An attempt that has lost it has marked its profile stale.
LifeInv ==
    /\ svc \in {"INIT", "STARTING", "STARTED", "STOPPED", "crashed"}
    /\ cache \in Cached \cup {None}
    /\ svc = "INIT" => fetch = None /\ ovpn.st = "none"
    /\ fetch # None => ovpn.st = "none" /\ (svc = "STARTING" \/ fetch.cancelled)
    /\ ovpn.st # "none" => cache # None /\ ovpn.text \in Texts
    /\ Running => svc \in {"STARTING", "STARTED"}
    /\ svc = "STARTING" /\ ovpn.st = "gone" => cache.stale
    /\ helper # None => ovpn.st = "up"

AttemptInv == FetchInv /\ OvpnInv /\ LifeInv

\* Before the attempt.
LEMMA AttemptInitHolds == Init => AttemptInv
<1>. SUFFICES ASSUME Init PROVE AttemptInv
  OBVIOUS
<1>1. /\ svc = "INIT" /\ fetch = None /\ helper = None
      /\ ovpn = [st |-> "none", text |-> None, status |-> None, restart |-> FALSE, contact |-> None]
      /\ cache \in Cached \cup {None}
  BY ScenariosAssumption DEF Init, FetchInit
<1>2. OvpnInv
  BY <1>1 DEF OvpnInv
<1>3. LifeInv
  BY <1>1 DEF LifeInv, Running
<1>. QED
  BY <1>2, <1>3, FetchInitHolds DEF AttemptInv

\* openvpn is started with the connect timer, behind the rules of one way to
\* read its profile, or nothing changes.
LEMMA RunOpenvpnStep ==
    ASSUME NEW text, NEW outcome, RunOpenvpn(text, outcome)
    PROVE  \/ /\ outcome \in {"crashed", "refused"}
              /\ UNCHANGED <<table, armed_era, ovpn, timer>>
           \/ /\ outcome = "spawned"
              /\ ovpn' = [ovpn EXCEPT !.st = "looking", !.text = text]
              /\ armed_era' = era /\ timer' = clock + ConnectTimeout
              /\ table' # None =>
                    \E remotes \in ParseRemotes(Lines[text]) :
                        table' = Arm(remotes, connection.allow_lan, Names[era], nameservers)
<1>1. PICK remotes \in ParseRemotes(Lines[text]) :
        LET wanted == connection.kill_switch
            rules == Arm(remotes, connection.allow_lan, Names[era], nameservers)
        IN  \/ /\ outcome \in {"crashed", "refused"}
               /\ UNCHANGED <<table, armed_era, ovpn, timer>>
            \/ /\ outcome = "spawned"
               /\ table' = IF wanted THEN rules ELSE None
               /\ armed_era' = era
               /\ ovpn' = [ovpn EXCEPT !.st = "looking", !.text = text]
               /\ timer' = clock + ConnectTimeout
  BY DEF RunOpenvpn
<1>. QED
  BY <1>1

\* Starting openvpn once the fetch is over.
LEMMA SpawnStep ==
    ASSUME AttemptInv, NEW text \in Texts, NEW outcome, RunOpenvpn(text, outcome),
           fetch' = None, UNCHANGED helper, cache' \in Cached, ovpn.st = "none",
           svc' \in {"STARTING", "STOPPED", "crashed"},
           outcome = "spawned" => svc' = "STARTING"
    PROVE  OvpnInv' /\ LifeInv'
<1>1. cache' # None /\ helper = None
  BY NoneIsNotCached DEF AttemptInv, LifeInv
<1>2. CASE UNCHANGED ovpn
  <2>1. OvpnInv'
    BY <1>2 DEF AttemptInv, OvpnInv
  <2>2. LifeInv'
    BY <1>1, <1>2 DEF LifeInv, Running
  <2>. QED
    BY <2>1, <2>2
<1>3. CASE outcome = "spawned" /\ ovpn' = [ovpn EXCEPT !.st = "looking", !.text = text]
  <2>1. OvpnInv'
    BY <1>3 DEF AttemptInv, OvpnInv
  <2>2. ovpn'.st = "looking" /\ ovpn'.text = text
    BY <1>3 DEF AttemptInv, OvpnInv
  <2>3. LifeInv'
    BY <1>1, <1>3, <2>2 DEF LifeInv, Running
  <2>. QED
    BY <2>1, <2>3
<1>. QED
  BY <1>2, <1>3, RunOpenvpnStep

\* A profile that is there can be run.
LEMMA CachedProfiles ==
    /\ \A p \in Profile : p.text \in Texts /\ [profile |-> p, stale |-> FALSE] \in Cached
    /\ \A c \in Cached : c.profile.text \in Texts
  BY DEF Cached, Profile

\* What marking does.
LEMMA MarkedCache ==
    ASSUME cache \in Cached \cup {None}
    PROVE  /\ Marked \in Cached \cup {None}
           /\ cache # None => Marked # None /\ Marked.stale
<1>1. CASE cache = None
  BY <1>1 DEF Marked
<1>2. CASE cache # None
  <2>1. Marked \in Cached /\ Marked.stale
    BY <1>2 DEF Marked, Cached
  <2>. QED
    BY <2>1, NoneIsNotCached
<1>. QED
  BY <1>1, <1>2

\* NetworkManager lets the connection go.
LEMMA DisconnectStep ==
    ASSUME AttemptInv, NEW pid, PluginDisconnect(pid)
    PROVE  OvpnInv' /\ LifeInv'
<1>1. /\ svc' = "STOPPED" /\ helper' = None
      /\ cache' \in {cache, Marked}
      /\ fetch = None => fetch' = None
      /\ fetch # None => fetch'.cancelled
      /\ ovpn' = IF ovpn.st = "none" THEN ovpn ELSE [ovpn EXCEPT !.st = "gone"]
  BY DEF PluginDisconnect, Blamed, AttemptInv, FetchInv, FetchTypeOK, Fetch
<1>2. /\ OvpnInv'
      /\ ovpn'.st = (IF ovpn.st = "none" THEN "none" ELSE "gone") /\ ovpn'.text = ovpn.text
  <2>1. CASE ovpn.st = "none"
    BY <1>1, <2>1 DEF AttemptInv, OvpnInv
  <2>2. CASE ovpn.st # "none"
    <3>1. ovpn' = [ovpn EXCEPT !.st = "gone"]
      BY <1>1, <2>2
    <3>. QED
      BY <2>2, <3>1 DEF AttemptInv, OvpnInv
  <2>. QED
    BY <2>1, <2>2
<1>3. cache' \in Cached \cup {None} /\ (cache # None => cache' # None)
  BY <1>1, MarkedCache DEF AttemptInv, LifeInv
<1>4. LifeInv'
  BY <1>1, <1>2, <1>3 DEF AttemptInv, LifeInv, Running
<1>. QED
  BY <1>2, <1>4

\* The thread does not touch its cancellation, nor the time of its request
\* but for the next one, which is there when the network is.
LEMMA ThreadStep ==
    ASSUME fetch \in Fetch, FetchNext
    PROVE  /\ fetch'.cancelled = fetch.cancelled
           /\ clock' = clock
           /\ net # "ok" => fetch'.since = fetch.since
  BY DEF FetchNext, RequestFails, KeyRejected, DevicesAnswer, GeneratorAnswer, DeviceRemoved,
         Return, Fetch

\* Every step of the attempt.
LEMMA LifeStep ==
    ASSUME AttemptInv, [Next]_vars
    PROVE  OvpnInv' /\ LifeInv'
<1>0. OvpnInv /\ LifeInv /\ cache \in Cached \cup {None}
  BY DEF AttemptInv, LifeInv
<1>1. CASE UNCHANGED <<fetch, svc, cache, ovpn, helper>>
  BY <1>0, <1>1 DEF OvpnInv, LifeInv, Running
<1>2. CASE fetch # None /\ FetchNext /\ UNCHANGED <<secretsVars, rest>>
  <2>1. UNCHANGED <<svc, cache, ovpn, helper>> /\ fetch'.cancelled = fetch.cancelled
    BY <1>2, ThreadStep DEF AttemptInv, FetchInv, FetchTypeOK, rest, daemonVars, tunnelVars
  <2>. QED
    BY <1>0, <1>2, <2>1 DEF OvpnInv, LifeInv, Running
<1>3. CASE Connect
  <2>0. /\ svc = "INIT" /\ fetch = None /\ ovpn.st = "none" /\ helper = None
        /\ UNCHANGED <<cache, helper>>
    BY <1>0, <1>3 DEF Connect, LifeInv
  <2>1. CASE /\ svc' = "STARTING" \/ (svc' = "STOPPED" /\ fetch' = None)
             /\ UNCHANGED ovpn
    BY <1>0, <2>0, <2>1 DEF OvpnInv, LifeInv, Running
  <2>2. CASE /\ IsValid /\ UNCHANGED fetch
             /\ \E outcome \in RunOutcomes :
                  /\ RunOpenvpn(cache.profile.text, outcome)
                  /\ svc' = CASE outcome = "crashed" -> "crashed"
                              [] outcome = "refused" -> "STOPPED"
                              [] outcome = "spawned" -> "STARTING"
    <3>1. PICK outcome \in RunOutcomes :
            /\ RunOpenvpn(cache.profile.text, outcome)
            /\ svc' = CASE outcome = "crashed" -> "crashed"
                        [] outcome = "refused" -> "STOPPED"
                        [] outcome = "spawned" -> "STARTING"
      BY <2>2
    <3>2. svc' \in {"STARTING", "STOPPED", "crashed"} /\ (outcome = "spawned" => svc' = "STARTING")
      BY <3>1 DEF RunOutcomes
    <3>3. cache' \in Cached /\ cache.profile.text \in Texts
      BY <1>0, <2>0, <2>2, CachedProfiles DEF IsValid
    <3>. QED
      BY <2>0, <2>2, <3>1, <3>2, <3>3, SpawnStep
  <2>. QED
    BY <1>3, <2>0, <2>1, <2>2 DEF Connect
<1>4. CASE svc # "crashed" /\ FetchDone
  <2>0. /\ fetch # None /\ fetch' = None /\ ovpn.st = "none" /\ UNCHANGED helper
        /\ fetch \in Fetch /\ helper = None
    BY <1>0, <1>4 DEF FetchDone, LifeInv, AttemptInv, FetchInv, FetchTypeOK
  <2>1. svc # "INIT" /\ svc \in {"INIT", "STARTING", "STARTED", "STOPPED", "crashed"}
    BY <1>0, <2>0 DEF LifeInv
  <2>2. CASE UNCHANGED <<svc, cache, ovpn>>
    BY <1>0, <2>0, <2>2 DEF OvpnInv, LifeInv, Running
  <2>3. ASSUME NEW profile \in Profile, cache' \in Cached, ~fetch.cancelled, UseProfile(profile)
        PROVE  OvpnInv' /\ LifeInv'
    <3>1. PICK outcome \in RunOutcomes :
            /\ RunOpenvpn(profile.text, outcome)
            /\ svc' = IF outcome = "crashed" THEN "crashed" ELSE svc
      BY <2>3 DEF UseProfile
    <3>2. svc = "STARTING" /\ profile.text \in Texts
      BY <1>0, <2>0, <2>3, CachedProfiles DEF LifeInv
    <3>. QED
      BY <2>0, <2>3, <3>1, <3>2, SpawnStep
  <2>4. CASE /\ ~Cancelled(fetch) /\ ~NoProfile(fetch)
             /\ cache' = [profile |-> fetch.profile, stale |-> FALSE]
             /\ UseProfile(fetch.profile)
    <3>1. fetch.profile \in Profile /\ ~fetch.cancelled
      BY <2>0, <2>4 DEF Cancelled, NoProfile, Fetch
    <3>. QED
      BY <2>3, <2>4, <3>1, CachedProfiles
  <2>5. CASE ~Cancelled(fetch) /\ cache # None /\ UNCHANGED cache /\ UseProfile(cache.profile)
    BY <1>0, <2>3, <2>5 DEF Cancelled, Cached
  <2>. QED
    BY <1>4, <2>2, <2>4, <2>5 DEF FetchDone
<1>5. CASE Disconnect
  BY <1>5, DisconnectStep DEF Disconnect
<1>6. CASE ConnectTimeoutCb
  <2>1. UNCHANGED <<fetch, svc, ovpn, helper>> /\ cache' = Marked
    BY <1>6 DEF ConnectTimeoutCb, fetchVars, tunnelVars
  <2>. QED
    BY <1>0, <2>1, MarkedCache DEF OvpnInv, LifeInv, Running
<1>7. CASE WatchCb
  <2>1. CASE PluginDisconnect(FALSE)
    BY <2>1, DisconnectStep
  <2>2. CASE /\ ovpn.st = "exited" /\ ovpn' = [ovpn EXCEPT !.st = "gone"]
             /\ cache' = IF svc = "STARTED" THEN cache ELSE Marked
             /\ UNCHANGED <<svc, fetch, helper>>
    <3>1. OvpnInv' /\ ovpn'.st = "gone" /\ ovpn'.text = ovpn.text
      BY <1>0, <2>2 DEF OvpnInv
    <3>2. cache' # None /\ cache' \in Cached \cup {None} /\ (svc = "STARTING" => cache'.stale)
      BY <1>0, <2>2, MarkedCache DEF LifeInv
    <3>3. LifeInv'
      BY <1>0, <2>2, <3>1, <3>2 DEF LifeInv, Running
    <3>. QED
      BY <3>1, <3>3
  <2>. QED
    BY <1>7, <2>1, <2>2 DEF WatchCb
<1>8. CASE OpenvpnContacts \/ OpenvpnTriesAgain \/ OpenvpnIsUp \/ OpenvpnExits
  <2>1. UNCHANGED <<fetch, svc, cache>> /\ Running
    BY <1>8 DEF OpenvpnContacts, OpenvpnTriesAgain, OpenvpnIsUp, OpenvpnExits, fetchVars,
                daemonVars, Running
  <2>2. /\ OvpnInv' /\ ovpn'.text = ovpn.text
        /\ ovpn'.st \in {"looking", "contacting", "up", "exited"}
    BY <1>0, <1>8
    DEF OpenvpnContacts, OpenvpnTriesAgain, OpenvpnIsUp, OpenvpnExits, OvpnInv, Statuses
  <2>3. helper' # None => ovpn'.st = "up"
    BY <1>0, <1>8
    DEF OpenvpnContacts, OpenvpnTriesAgain, OpenvpnIsUp, OpenvpnExits, OvpnInv, LifeInv
  <2>. QED
    BY <1>0, <2>1, <2>2, <2>3 DEF LifeInv, Running
<1>9. CASE HelperCall \/ HelperEnds
  <2>1. UNCHANGED <<fetch, cache, ovpn>> /\ helper # None /\ svc' \in {svc, "STARTED"}
    BY <1>9 DEF HelperCall, HelperEnds, fetchVars, daemonVars
  <2>. QED
    BY <1>0, <2>1 DEF OvpnInv, LifeInv, Running
<1>10. [Next]_vars => \/ UNCHANGED <<fetch, svc, cache, ovpn, helper>>
                      \/ fetch # None /\ FetchNext /\ UNCHANGED <<secretsVars, rest>>
                      \/ Connect \/ (svc # "crashed" /\ FetchDone) \/ Disconnect
                      \/ ConnectTimeoutCb \/ WatchCb
                      \/ OpenvpnContacts \/ OpenvpnTriesAgain \/ OpenvpnIsUp \/ OpenvpnExits
                      \/ HelperCall \/ HelperEnds
  BY DEF Next, vars, fetchVars, daemonVars, tunnelVars, rest, Tick, DnsChanges
<1>. QED
  BY <1>1, <1>2, <1>3, <1>4, <1>5, <1>6, <1>7, <1>8, <1>9, <1>10

\* Of what ends an attempt, a connect timer, the limit of libnm, a failing
\* openvpn or helper, none leaves its profile valid, in any order of the
\* three timers (real_disconnect, connect_timeout_cb, openvpn_watch_cb).
THEOREM TimedOutAttemptsAreStale == Spec => TimedOutAttemptIsStale
<1>1. AttemptInv /\ [Next]_vars => AttemptInv'
  BY AttemptStep, LifeStep DEF AttemptInv
<1>2. ASSUME AttemptInv, [Next]_vars,
             svc = "STARTING", svc' = "STOPPED", ovpn.st # "none", ovpn.status # "ok"
      PROVE  cache'.stale
  <2>1. cache \in Cached /\ fetch = None /\ cache # None
    BY <1>2 DEF AttemptInv, LifeInv
  <2>2. Disconnect
    <3>1. ~UNCHANGED svc
      BY <1>2
    <3>2. ~Connect /\ ~(fetch # None)
      BY <1>2, <2>1 DEF Connect
    <3>3. ~HelperCall
      BY <1>2 DEF HelperCall
    <3>4. ~WatchCb
      BY <1>2, <3>1 DEF WatchCb
    <3>. QED
      BY <1>2, <3>1, <3>2, <3>3, <3>4
      DEF Next, vars, daemonVars, rest, FetchDone, ConnectTimeoutCb, OpenvpnContacts,
          OpenvpnTriesAgain, OpenvpnIsUp, OpenvpnExits, HelperEnds, Tick, DnsChanges
  <2>3. cache' = IF Running THEN Marked ELSE cache
    BY <1>2, <2>2 DEF Disconnect, PluginDisconnect, Blamed
  <2>4. ~Running => ovpn.st = "gone"
    BY <1>2 DEF AttemptInv, OvpnInv, Running
  <2>. QED
    BY <1>2, <2>1, <2>3, <2>4, MarkedCache DEF AttemptInv, LifeInv
<1>. QED
  BY <1>1, <1>2, AttemptInitHolds, PTL DEF Spec, TimedOutAttemptIsStale

\* While nothing answers, the task is in its first request, for which the
\* limit on connecting stands; when it is over openvpn is running on the
\* cached profile, or its failure is on the way.
InTime == clock <= ConnectLimit

FallbackInv ==
    /\ svc = "INIT" => clock = 0
    /\ svc = "STARTING" /\ fetch # None => ~fetch.cancelled
    /\ net = "down" /\ svc = "STARTING" /\ fetch # None => fetch.since = 0 /\ InTime
    /\ net = "down" /\ svc = "STARTING" /\ cache # None /\ ovpn.st = "none" /\ fetch = None =>
           failed /\ InTime

\* Time passes.
LEMMA TickInTime ==
    ASSUME AttemptInv, FallbackInv, Tick, net = "down"
    PROVE  fetch # None => InTime'
<1>. SUFFICES ASSUME fetch # None PROVE InTime'
  OBVIOUS
<1>1. fetch.since = 0 /\ clock < fetch.since + Patience /\ clock' = clock + 1
  BY DEF Tick, FallbackInv, InRequest
<1>2. clock < 0 + ConnectLimit
  BY <1>1 DEF Patience, ConnectTime
<1>3. clock \in Nat /\ ConnectLimit \in Nat
  BY FetchAssumption DEF AttemptInv, FetchInv, FetchTypeOK
<1>4. clock' = clock + 1
  BY <1>1
<1>. HIDE DEF InTime
<1>5. clock + 1 <= ConnectLimit
  BY <1>2, <1>3
<1>. QED
  BY <1>4, <1>5 DEF InTime

\* Every step of the attempt.
LEMMA FallbackStep ==
    ASSUME AttemptInv, FallbackInv, [Next]_vars
    PROVE  FallbackInv'
<1>. USE DEF FallbackInv
<1>0. /\ AttemptInv /\ LifeInv /\ net' = net /\ FallbackInv
      /\ (fetch # None => fetch \in Fetch)
  BY NextOnFetch DEF AttemptInv, FetchInv, FetchTypeOK
<1>1. CASE UNCHANGED <<fetch, clock, svc, cache, ovpn>> /\ failed' \in {failed, TRUE}
  BY <1>0, <1>1 DEF InTime
<1>2. CASE fetch # None /\ FetchNext /\ UNCHANGED <<secretsVars, rest>>
  <2>1. fetch' \in Fetch /\ fetch' # None
    BY <1>0, <1>2, FetchStep, NoneIsNoTask DEF AttemptInv, rest, scenarioVars
  <2>2. /\ fetch'.cancelled = fetch.cancelled /\ clock' = clock
        /\ net = "down" => fetch'.since = fetch.since
    BY <1>0, <1>2, ThreadStep
  <2>3. UNCHANGED svc
    BY <1>2 DEF rest, daemonVars
  <2>. QED
    BY <1>0, <1>2, <2>1, <2>2, <2>3 DEF InTime
<1>3. CASE Connect
  <2>0. svc = "INIT" /\ clock = 0 /\ fetch = None /\ UNCHANGED <<clock, cache>>
    BY <1>0, <1>3 DEF Connect, LifeInv
  <2>1. InTime'
    <3>1. clock' = 0 /\ UNCHANGED ConnectLimit
      BY <2>0
    <3>2. ConnectLimit \in Nat
      BY FetchAssumption
    <3>. QED
      BY <3>1, <3>2 DEF InTime
  <2>2. svc' # "INIT"
    <3>1. CASE \E outcome \in RunOutcomes :
                 svc' = CASE outcome = "crashed" -> "crashed"
                          [] outcome = "refused" -> "STOPPED"
                          [] outcome = "spawned" -> "STARTING"
      BY <3>1 DEF RunOutcomes
    <3>2. CASE svc' \in {"STARTING", "STOPPED"}
      BY <3>2
    <3>. QED
      BY <1>3, <3>1, <3>2 DEF Connect
  <2>3. CASE fetch' = Started(connection.device)
    <3>1. clock \in Nat /\ connection.device \in Devices
      BY DEF AttemptInv, FetchInv, FetchTypeOK, Connection
    <3>2. fetch' # None
      BY <2>3, <3>1, StartedTask, NoneIsNoTask
    <3>3. fetch'.since = clock /\ fetch'.cancelled = FALSE
      BY <2>3 DEF Started
    <3>. QED
      BY <2>0, <2>1, <2>2, <3>2, <3>3
  <2>4. CASE fetch' = None /\ svc' # "STARTING"
    BY <2>2, <2>4
  <2>5. CASE ValidateSecrets(key) /\ IsValid /\ UNCHANGED fetch
    <3>1. PICK outcome \in RunOutcomes :
            /\ RunOpenvpn(cache.profile.text, outcome)
            /\ svc' = CASE outcome = "crashed" -> "crashed"
                        [] outcome = "refused" -> "STOPPED"
                        [] outcome = "spawned" -> "STARTING"
      BY <1>3, <2>5 DEF Connect
    <3>2. outcome = "spawned" => ovpn'.st = "looking"
      BY <3>1, RunOpenvpnStep DEF AttemptInv, OvpnInv
    <3>3. svc' = "STARTING" => outcome = "spawned"
      BY <3>1 DEF RunOutcomes
    <3>. QED
      BY <2>0, <2>2, <2>5, <3>2, <3>3
  <2>. QED
    BY <1>3, <2>0, <2>3, <2>4, <2>5 DEF Connect
<1>4. CASE svc # "crashed" /\ FetchDone
  <2>0. /\ fetch # None /\ fetch' = None /\ UNCHANGED clock /\ fetch \in Fetch
        /\ svc' \in {svc, "crashed"} /\ svc # "INIT"
    BY <1>0, <1>4 DEF FetchDone, UseProfile, LifeInv
  <2>1. CASE svc' # "STARTING"
    BY <2>0, <2>1
  <2>2. CASE svc = "STARTING" /\ svc' = svc
    <3>1. ~Cancelled(fetch)
      BY <2>0, <2>2 DEF Cancelled, AttemptInv, FetchInv, TaskInv
    <3>2. net = "down" => InTime'
      BY <2>0, <2>2 DEF InTime
    <3>3. ASSUME NEW profile, UseProfile(profile)
          PROVE  failed' \/ ovpn'.st # "none"
      <4>1. PICK outcome \in RunOutcomes :
              /\ RunOpenvpn(profile.text, outcome)
              /\ svc' = IF outcome = "crashed" THEN "crashed" ELSE svc
              /\ failed' = (failed \/ outcome = "refused")
        BY <3>3 DEF UseProfile
      <4>2. outcome # "crashed"
        BY <2>2, <4>1
      <4>3. CASE outcome = "refused"
        BY <4>1, <4>3
      <4>4. CASE outcome = "spawned"
        BY <4>1, <4>4, RunOpenvpnStep DEF AttemptInv, OvpnInv
      <4>. QED
        BY <4>2, <4>3, <4>4 DEF RunOutcomes
    <3>4. cache' # None => failed' \/ ovpn'.st # "none"
      BY <1>4, <3>1, <3>3 DEF FetchDone
    <3>. QED
      BY <1>0, <2>0, <2>2, <3>2, <3>4
  <2>. QED
    BY <2>0, <2>1, <2>2
<1>5. CASE svc' = "STOPPED" /\ (Disconnect \/ WatchCb)
  BY <1>5
<1>6. CASE svc' # "STOPPED" /\ WatchCb
  <2>1. /\ ovpn.st = "exited" /\ ovpn' = [ovpn EXCEPT !.st = "gone"]
        /\ UNCHANGED <<svc, fetch, clock>>
    BY <1>6 DEF WatchCb, PluginDisconnect
  <2>2. ovpn'.st = "gone" /\ fetch = None
    BY <1>0, <2>1 DEF AttemptInv, OvpnInv, LifeInv
  <2>. QED
    BY <1>0, <2>1, <2>2
<1>7. CASE ConnectTimeoutCb
  <2>1. UNCHANGED <<fetch, clock, svc, ovpn>> /\ cache' = Marked /\ failed' = TRUE
    BY <1>7 DEF ConnectTimeoutCb, fetchVars, tunnelVars
  <2>2. cache = None => cache' = None
    BY <2>1 DEF Marked
  <2>. QED
    BY <1>0, <2>1, <2>2 DEF InTime
<1>8. CASE OpenvpnContacts \/ OpenvpnTriesAgain \/ OpenvpnIsUp \/ OpenvpnExits
  <2>1. UNCHANGED <<fetch, clock, svc, cache>> /\ fetch = None /\ ovpn.st # "none"
    BY <1>0, <1>8 DEF OpenvpnContacts, OpenvpnTriesAgain, OpenvpnIsUp, OpenvpnExits, fetchVars,
                      daemonVars, LifeInv
  <2>2. ovpn'.st # "none"
    BY <1>8 DEF OpenvpnContacts, OpenvpnTriesAgain, OpenvpnIsUp, OpenvpnExits, AttemptInv, OvpnInv
  <2>. QED
    BY <1>0, <2>1, <2>2
<1>9. CASE HelperCall
  <2>1. UNCHANGED <<fetch, cache, ovpn>> /\ helper # None
    BY <1>9 DEF HelperCall
  <2>2. fetch = None /\ ovpn.st = "up" /\ svc # "INIT"
    BY <1>0, <2>1 DEF LifeInv
  <2>3. svc' # "INIT"
    BY <1>9, <2>2 DEF HelperCall
  <2>. QED
    BY <1>0, <2>1, <2>2, <2>3
<1>10. CASE Tick
  <2>1. UNCHANGED <<fetch, svc, cache, ovpn>> /\ svc = "STARTING" /\ ~failed
    BY <1>10 DEF Tick, daemonVars, tunnelVars
  <2>. QED
    BY <1>0, <1>10, <2>1, TickInTime
<1>11. [Next]_vars =>
          \/ UNCHANGED <<fetch, clock, svc, cache, ovpn>> /\ failed' \in {failed, TRUE}
          \/ fetch # None /\ FetchNext /\ UNCHANGED <<secretsVars, rest>>
          \/ Connect \/ (svc # "crashed" /\ FetchDone) \/ Disconnect
          \/ ConnectTimeoutCb \/ WatchCb
          \/ OpenvpnContacts \/ OpenvpnTriesAgain \/ OpenvpnIsUp \/ OpenvpnExits
          \/ HelperCall \/ Tick
  BY DEF Next, vars, fetchVars, daemonVars, tunnelVars, rest, HelperEnds, DnsChanges
<1>12. Disconnect => svc' = "STOPPED"
  BY DEF Disconnect, PluginDisconnect
<1>. QED
  BY <1>1, <1>2, <1>3, <1>4, <1>5, <1>6, <1>7, <1>8, <1>9, <1>10, <1>11, <1>12

\* With nothing answering, the limit on connecting leaves the attempt the
\* time to fall back to the cached profile before libnm gives it up, for
\* all limits in that order (CURLOPT_CONNECTTIMEOUT, fetch_done_cb).
THEOREM UnreachableAlwaysFallsBack == Spec => UnreachableFallsBack
<1>. DEFINE Inv == AttemptInv /\ FallbackInv
<1>1. Init => Inv
  <2>1. Init => svc = "INIT" /\ clock = 0
    BY DEF Init, FetchInit
  <2>2. Init => FallbackInv
    BY <2>1 DEF FallbackInv
  <2>. QED
    BY <2>2, AttemptInitHolds
<1>2. Inv /\ [Next]_vars => Inv'
  BY AttemptStep, LifeStep, FallbackStep DEF AttemptInv
<1>3. ASSUME Inv, svc = "STARTING", clock = NmTimeout, net = "down", cache # None
      PROVE  ovpn.st # "none"
  <2>1. SUFFICES ASSUME ovpn.st = "none" PROVE FALSE
    OBVIOUS
  <2>2. clock <= ConnectLimit
    BY <1>3, <2>1 DEF FallbackInv, InTime
  <2>3. NmTimeout <= ConnectLimit
    BY <1>3, <2>2
  <2>4. ConnectLimit \in Nat /\ NmTimeout \in Nat /\ ConnectLimit < NmTimeout
    BY ActivationAssumption, FetchAssumption
  <2>. QED
    BY <2>3, <2>4
<1>. QED
  BY <1>1, <1>2, <1>3, PTL DEF Spec, UnreachableFallsBack
===============================================================================
