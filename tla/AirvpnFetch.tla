------------------------------ MODULE AirvpnFetch ------------------------------
(***************************************************************************)
(* The generator client (nm-airvpn-api.c): the worker thread of one fetch, *)
(* with the requests it blocks in, between the main loop that may cancel   *)
(* it, the network and the user's AirVPN account.                          *)
(*                                                                         *)
(* Time is counted in ticks since the attempt began; a request in flight   *)
(* keeps the clock from passing the limit libcurl puts on it.              *)
(***************************************************************************)
EXTENDS AirvpnNull, Integers, Sequences, FiniteSets

CONSTANTS
    Devices,         \* device names
    FoldName,        \* ASCII lower case of device names
    Texts,           \* OpenVPN profiles the generator may write
    ConnectLimit,    \* CURLOPT_CONNECTTIMEOUT
    RequestLimit    \* CURLOPT_TIMEOUT

ASSUME FetchAssumption ==
    /\ {ConnectLimit, RequestLimit} \subseteq Nat /\ ConnectLimit <= RequestLimit
    /\ "" \in Devices /\ None \notin Devices
    /\ FoldName \in [Devices -> Devices]

VARIABLES
    clock,     \* ticks since the attempt began
    net,       \* "ok", "down": no connection, "stalled": no answer
    account,   \* the devices of the account
    revoked,   \* the account does not accept the key
    served,    \* the profile the generator writes
    fetch      \* the task, None before it is started and after it is done

fetchVars == <<clock, net, account, revoked, served, fetch>>

\* A profile is for a device, the account's default one if that is "".
Profile == [device : Devices, text : Texts]

\* Why a task returns no profile.  "login": the message blames the API key.
Failures == {"failed", "login", "cancelled"}

ASSUME NoneIsNoResult == None \notin Profile /\ None \notin Failures

\* "at" is where the thread is: in a request, or "returned".
Fetch == [device    : Devices,
          at        : {"devices", "generator", "returned"},
          since     : Nat,
          cancelled : BOOLEAN,
          listed    : BOOLEAN,
          profile   : Profile \cup {None},
          error     : Failures \cup {None}]

ASSUME NoneIsNoTask == None \notin Fetch

FetchTypeOK ==
    /\ clock \in Nat
    /\ net \in {"ok", "down", "stalled"}
    /\ account \in SUBSET Devices
    /\ revoked \in BOOLEAN
    /\ served \in Texts
    /\ fetch \in Fetch \cup {None}
    /\ fetch # None =>
          /\ fetch.at = "devices" => fetch.device # ""
          /\ fetch.at = "returned" => (fetch.profile = None <=> fetch.error # None)
          /\ fetch.at # "returned" => fetch.profile = None /\ fetch.error = None

FetchInit ==
    /\ clock = 0
    /\ net \in {"ok", "down", "stalled"}
    /\ account \in SUBSET (Devices \ {""})
    /\ revoked \in BOOLEAN
    /\ served \in Texts
    /\ fetch = None

\* Mutated form: a device is looked for even when none is configured.
StartedValidating(device) ==
    [device |-> device, at |-> "devices",
     since |-> clock, cancelled |-> FALSE, listed |-> FALSE, profile |-> None, error |-> None]

\* nm_airvpn_generator_fetch_async; only a device is validated first.
Started(device) ==
    [device |-> device, at |-> IF device = "" THEN "generator" ELSE "devices",
     since |-> clock, cancelled |-> FALSE, listed |-> FALSE, profile |-> None, error |-> None]

Return(profile, error) ==
    fetch' = [fetch EXCEPT !.at = "returned", !.profile = profile, !.error = error]

InRequest == fetch # None /\ fetch.at # "returned"

Known(device) == \E d \in account : FoldName[d] = FoldName[device]

\* Mutated form: libcurl's own limit, five minutes, is left on connecting.
ConnectUnlimited == RequestLimit

ConnectTime == ConnectLimit

\* How long http_get may be in a request.
Patience == IF net = "down" THEN ConnectTime ELSE RequestLimit

\* A request in which libcurl gives up, http_get finds another status than
\* 200, or the answer is not what was asked for.
RequestFails ==
    /\ InRequest
    /\ net # "ok" /\ ~fetch.cancelled => clock = fetch.since + Patience
    /\ Return(None, "failed")
    /\ UNCHANGED <<clock, net, account, revoked, served>>

\* "Not authorized", in a body that check_json_error finds.
KeyRejected ==
    /\ InRequest
    /\ net = "ok"
    /\ revoked
    /\ Return(None, "login")
    /\ UNCHANGED <<clock, net, account, revoked, served>>

\* Mutated form: the answer is taken without a look for the device.
DeviceListedUnread(device) == TRUE

\* "validate the configured name instead": compared without case.
DeviceListed(device) == Known(device)

\* validate_device and the check for cancellation that follows it.
DevicesAnswer ==
    /\ InRequest
    /\ fetch.at = "devices"
    /\ net = "ok" /\ ~revoked
    /\ IF ~DeviceListed(fetch.device) THEN Return(None, "failed")
       ELSE IF fetch.cancelled THEN Return(None, "cancelled")
       ELSE fetch' = [fetch EXCEPT !.at = "generator", !.since = clock,
                                   !.listed = Known(fetch.device)]
    /\ UNCHANGED <<clock, net, account, revoked, served>>

\* The generator "silently falls back to the Default device identity for
\* unknown device names"; then the check for cancellation.
GeneratorAnswer ==
    /\ InRequest
    /\ fetch.at = "generator"
    /\ net = "ok" /\ ~revoked
    /\ IF fetch.cancelled THEN Return(None, "cancelled")
       ELSE Return([device |-> IF Known(fetch.device) THEN fetch.device ELSE "",
                    text   |-> served], None)
    /\ UNCHANGED <<clock, net, account, revoked, served>>

\* The user removes a device of the account.
DeviceRemoved ==
    /\ \E d \in account : account' = account \ {d}
    /\ UNCHANGED <<clock, net, revoked, served, fetch>>

NoProfile(task) == task.profile = None

\* A cancelled task yields nothing but the cancellation.
Cancelled(task) == task.cancelled \/ task.error = "cancelled"

FetchNext ==
    \/ RequestFails
    \/ KeyRejected
    \/ DevicesAnswer
    \/ GeneratorAnswer
    \/ DeviceRemoved
=============================================================================
