----------------------------- MODULE AirvpnSecrets -----------------------------
(***************************************************************************)
(* How the API key gets to the daemon: NetworkManager asks the daemon      *)
(* whether it needs secrets (real_need_secrets), has an agent run the      *)
(* authentication dialog (auth-dialog/main.c), and asks again, once with   *)
(* what is saved and once with the user.                                   *)
(***************************************************************************)
EXTENDS AirvpnNull, Integers, FiniteSets

CONSTANTS
    Keys   \* API keys, the empty text included

ASSUME KeysAssumption == "" \in Keys /\ None \notin Keys

VARIABLES
    flags,    \* NMSettingSecretFlags of the key
    keyring,  \* the key saved in the user's keyring
    key,      \* the key NetworkManager has
    pass,     \* NetworkManager's rounds of asking
    asked,    \* the user has been asked
    dialog    \* the dialog process, None if there is none

secretsVars == <<flags, keyring, key, pass, asked, dialog>>

SecretFlags == {"agent_owned", "not_saved", "not_required"}

\* "out" is what it printed, "stdin" what the agent has done to its input.
Dialog == [out : Keys \cup {None}, stdin : {"open", "quit", "closed"}]

SecretsTypeOK ==
    /\ flags \in SUBSET SecretFlags
    /\ keyring \in Keys \cup {None}
    /\ key \in Keys \cup {None}
    /\ pass \in {"system", "existing", "new", "connect", "no_secrets"}
    /\ asked \in BOOLEAN
    /\ dialog \in Dialog \cup {None}

\* NetworkManager keeps the key itself when no flag is set.
SecretsInit ==
    /\ flags \in SUBSET SecretFlags
    /\ keyring \in Keys \cup {None}
    /\ key \in IF flags = {} THEN Keys \cup {None} ELSE {None}
    /\ pass = "system"
    /\ asked = FALSE
    /\ dialog = None

(***************************************************************************)
(* The daemon's side: real_need_secrets and validate_secrets.              *)
(***************************************************************************)
\* Mutated form: the flags are not looked at.
NeedSecretsAlways(fl, k) == k = None

NeedSecrets(fl, k) == "not_required" \notin fl /\ k = None

ValidateSecrets(k) == k # None

(***************************************************************************)
(* get_secrets of the dialog.  In external UI mode it only describes the   *)
(* question and the shell asks it, or, when it should not, takes the value *)
(* it is shown, leaving out an empty one.                                  *)
(***************************************************************************)
\* Mutated form: a key that is not to be saved is looked up as well.
ExistingWithoutFlags(fl, in) ==
    IF "not_required" \in fl THEN None ELSE IF in # None THEN in ELSE keyring

Existing(fl, in) ==
    IF fl \cap {"not_saved", "not_required"} # {} THEN None
    ELSE IF in # None THEN in ELSE keyring

ShouldAsk(fl, pw, retry, interaction, external) ==
    /\ "not_required" \notin fl
    /\ interaction
    /\ external \/ retry \/ pw = None \/ "not_saved" \in fl

\* What may be answered: nothing, when the user cancels.
Answers(fl, pw, retry, interaction, external) ==
    IF "not_required" \in fl THEN {None}
    ELSE IF ShouldAsk(fl, pw, retry, interaction, external)
    THEN (IF external THEN Keys \ {""} ELSE Keys) \cup {None}
    ELSE {IF external /\ pw = "" THEN None ELSE pw}

(***************************************************************************)
(* NetworkManager's rounds.  Each ends with a question to the daemon.      *)
(***************************************************************************)
AfterRound(k, next) == pass' = IF NeedSecrets(flags, k) THEN next ELSE "connect"

SystemRound ==
    /\ pass = "system"
    /\ AfterRound(key, "existing")
    /\ UNCHANGED <<flags, keyring, key, asked, dialog>>

\* An agent starts the dialog; it prints its answer and, unless in external
\* UI mode, waits for QUIT.
RunDialog ==
    /\ pass \in {"existing", "new"}
    /\ dialog = None
    /\ \E external \in BOOLEAN, retry \in IF pass = "new" THEN BOOLEAN ELSE {FALSE} :
         LET pw == Existing(flags, key)
             interaction == pass = "new"
         IN  /\ asked' = (asked \/ ShouldAsk(flags, pw, retry, interaction, external))
             /\ \E out \in Answers(flags, pw, retry, interaction, external) :
                  dialog' = [out |-> out, stdin |-> IF external THEN "quit" ELSE "open"]
    /\ UNCHANGED <<flags, keyring, key, pass>>

\* The agent writes QUIT when it has read the answer, or goes away.
AgentHangsUp ==
    /\ dialog # None
    /\ dialog.stdin = "open"
    /\ \E stdin \in {"quit", "closed"} : dialog' = [dialog EXCEPT !.stdin = stdin]
    /\ UNCHANGED <<flags, keyring, key, pass, asked>>

\* Mutated form: the end of the input is waited out without a limit.
QuitSeenOnly(stdin) == stdin = "quit"

\* wait_for_quit: a read of an open input blocks; an end of the input is
\* polled again until 20 seconds are over.
QuitSeen(stdin) == stdin \in {"quit", "closed"}

\* The dialog exits and the agent hands its answer to NetworkManager.
DialogExits ==
    /\ dialog # None
    /\ QuitSeen(dialog.stdin)
    /\ dialog' = None
    /\ key' = IF dialog.out # None THEN dialog.out ELSE key
    /\ AfterRound(key', IF pass = "existing" THEN "new" ELSE "no_secrets")
    /\ UNCHANGED <<flags, keyring, asked>>

SecretsNext == SystemRound \/ RunDialog \/ AgentHangsUp \/ DialogExits

SecretsFairness == WF_secretsVars(AgentHangsUp) /\ WF_secretsVars(DialogExits)

(***************************************************************************)
(* Properties.                                                             *)
(***************************************************************************)
\* Secret flags are honoured on the whole way between keyring, dialog,
\* NetworkManager and daemon: who has saved a key is not asked ("don't ask
\* if we already have a saved key"), a key that is not to be saved is asked
\* for each time, and one that is not required never.
FlagsAreHonoured ==
    /\ asked /\ "not_saved" \notin flags => keyring \in {None, ""}
    /\ "not_saved" \in flags /\ key # None => asked
    /\ "not_required" \in flags => ~asked

\* The dialog ends once its agent is done with it, so that the agent can
\* hand the key on (wait_for_quit).
DialogEnds == dialog # None ~> dialog = None
=============================================================================
