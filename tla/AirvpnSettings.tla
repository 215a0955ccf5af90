---------------------------- MODULE AirvpnSettings ----------------------------
(***************************************************************************)
(* The settings of a connection on their way between the places that read  *)
(* and write them: what validation accepts (nm-airvpn-properties.c), what  *)
(* the daemon makes of it (get_generator_params and run_openvpn in         *)
(* nm-airvpn-service.c, build_generator_url in nm-airvpn-api.c), and what  *)
(* the editor shows and saves (nm-airvpn-editor.c).                        *)
(*                                                                         *)
(* A value is a text; the functions below say what the code reads in it.   *)
(***************************************************************************)
EXTENDS Integers

CONSTANTS
    Texts,       \* values of data items, "" and the literals included
    Fold,        \* ASCII lower case
    Strtol,      \* the number a text starts with, 0 if none
    Format,      \* the text of a number of seconds
    TunesPing,   \* directives that contain "keepalive" or "ping"
    MaxSeconds,       \* 3600 in the code
    TypedSeconds,     \* numbers the user may enter in a spin button
    InitialSettings,  \* what NetworkManager may hold, by way of nmcli
    MaxEdits,    \* bound on the user's edits of an open editor
    None         \* NULL: no such item

Literals == {"", "earth", "udp", "tcp", "443", "10", "60", "yes", "no"}

Ports == 1 .. 65535

Seconds == 1 .. MaxSeconds

ASSUME SecondsAssumption == MaxSeconds \in Nat /\ MaxSeconds >= 60

ASSUME TextsAssumption ==
    /\ Literals \subseteq Texts
    /\ None \notin Texts
    /\ Fold \in [Texts -> Texts]
    /\ Strtol \in [Texts -> Int]
    /\ Format \in [Seconds -> Texts]
    /\ \A n \in Seconds : Strtol[Format[n]] = n
    /\ TypedSeconds \subseteq Seconds
    /\ TunesPing \subseteq Texts \ {""}
    /\ Fold["earth"] = "earth"
    /\ Strtol[""] = 0 /\ Strtol["443"] = 443 /\ Strtol["10"] = 10 /\ Strtol["60"] = 60
    /\ MaxEdits \in Nat

Value == Texts \cup {None}

\* NMSettingSecretFlags of the API key, as the storage menu offers them.
Flags == {"none", "agent_owned", "not_saved", "not_required"}

\* NMSettingVpn.  "unknown": it has an item that no table lists.
Setting == [server : Value, device : Value, protocol : Value, port : Value,
            custom_directives : Value, keepalive : Value, ping_interval : Value,
            ping_restart : Value, kill_switch : Value, allow_lan : Value,
            unknown : BOOLEAN, api_key : Value, flags : Flags]

ASSUME SettingsAssumption == InitialSettings \subseteq Setting

Default(value, default) == IF value \in {None, ""} THEN default ELSE value

(***************************************************************************)
(* Validation.                                                             *)
(***************************************************************************)
InRange(value, range) == value # None => Strtol[value] \in range

\* nm_airvpn_properties_validate: the server is required, present but empty
\* is present, and numbers may be followed by anything.
Validate(s) ==
    /\ ~s.unknown
    /\ s.server # None
    /\ s.protocol \in {None, "udp", "tcp"}
    /\ InRange(s.port, Ports)
    /\ {s.keepalive, s.kill_switch, s.allow_lan} \subseteq {None, "yes", "no"}
    /\ InRange(s.ping_interval, Seconds)
    /\ InRange(s.ping_restart, Seconds)

(***************************************************************************)
(* What a connection does: the request to the generator, the cached        *)
(* profiles that are as good as an answer to it, the keepalive arguments   *)
(* of openvpn, which reads them as numbers, and the kill switch.           *)
(***************************************************************************)
\* build_generator_url.
Request(s) ==
    [server     |-> s.server,
     device     |-> Default(s.device, None),
     protocol   |-> Default(s.protocol, "udp"),
     port       |-> Default(s.port, "443"),
     directives |-> Default(s.custom_directives, None)]

\* What params_hash hashes: the items as they are stored, none of them folded
\* or replaced by its default.  A profile cached under another key is neither
\* valid nor a fallback (check_cache).  That two keys may be joined to one
\* text is the business of AirvpnCache.
CacheKey(s) ==
    [server     |-> Default(s.server, ""),
     device     |-> Default(s.device, ""),
     protocol   |-> Default(s.protocol, ""),
     port       |-> Default(s.port, ""),
     directives |-> Default(s.custom_directives, "")]

\* The --keepalive arguments of run_openvpn.
Keepalive(s) ==
    IF s.keepalive = "no" \/ s.protocol \notin {None, "udp"} \/ s.custom_directives \in TunesPing
    THEN None
    ELSE [interval |-> Strtol[Default(s.ping_interval, "10")],
          restart  |-> Strtol[Default(s.ping_restart, "60")]]

\* Whether run_openvpn arms the table, and with the exception for the LAN.
KillSwitch(s) ==
    [on  |-> s.kill_switch = "yes",
     lan |-> s.kill_switch = "yes" /\ s.allow_lan = "yes"]

Effect(s) == [request |-> Request(s), profile |-> CacheKey(s),
              keepalive |-> Keepalive(s), kill_switch |-> KillSwitch(s)]

(***************************************************************************)
(* The editor's widgets.                                                   *)
(***************************************************************************)
Widgets == [server : Texts, device : Texts, protocol : {"udp", "tcp"}, port : Texts,
            directives : Texts, keepalive : BOOLEAN, interval : Seconds, restart : Seconds,
            kill : BOOLEAN, lan : BOOLEAN, api_key : Texts, storage : Flags]

\* The adjustments of the spin buttons run from 1 to MaxSeconds.
Clamp(n) == IF n < 1 THEN 1 ELSE IF n > MaxSeconds THEN MaxSeconds ELSE n

\* Mutated form: the adjustment does not limit what is loaded.
SpinUnlimited(value, default) == IF value \in {None, ""} THEN default ELSE Strtol[value]

Spin(value, default) == IF value \in {None, ""} THEN default ELSE Clamp(Strtol[value])

\* Mutated form: a keepalive that is not set counts as off.
LoadKeepaliveIfYes(s, nft) ==
    [server     |-> IF s.server \in {None, ""} \/ Fold[s.server] = "earth" THEN "earth" ELSE s.server,
     device     |-> Default(s.device, ""),
     protocol   |-> IF s.protocol = "tcp" THEN "tcp" ELSE "udp",
     port       |-> Default(s.port, "443"),
     directives |-> Default(s.custom_directives, ""),
     keepalive  |-> s.keepalive = "yes",
     interval   |-> Spin(s.ping_interval, 10),
     restart    |-> Spin(s.ping_restart, 60),
     kill       |-> nft /\ s.kill_switch = "yes",
     lan        |-> s.allow_lan = "yes",
     api_key    |-> Default(s.api_key, ""),
     storage    |-> s.flags]

\* init_editor_plugin; nft is whether the binary is installed.
Load(s, nft) ==
    [server     |-> IF s.server \in {None, ""} \/ Fold[s.server] = "earth" THEN "earth" ELSE s.server,
     device     |-> Default(s.device, ""),
     protocol   |-> IF s.protocol = "tcp" THEN "tcp" ELSE "udp",
     port       |-> Default(s.port, "443"),
     directives |-> Default(s.custom_directives, ""),
     keepalive  |-> s.keepalive # "no",
     interval   |-> Spin(s.ping_interval, 10),
     restart    |-> Spin(s.ping_restart, 60),
     kill       |-> nft /\ s.kill_switch = "yes",
     lan        |-> s.allow_lan = "yes",
     api_key    |-> Default(s.api_key, ""),
     storage    |-> s.flags]

Item(text) == IF text = "" THEN None ELSE text

\* Mutated form: switching keepalive off only drops its two numbers.
UpdateKeepaliveSilently(w) ==
    [server            |-> w.server,
     device            |-> Item(w.device),
     protocol          |-> w.protocol,
     port              |-> w.port,
     custom_directives |-> Item(w.directives),
     keepalive         |-> None,
     ping_interval     |-> IF w.keepalive THEN Format[w.interval] ELSE None,
     ping_restart      |-> IF w.keepalive THEN Format[w.restart] ELSE None,
     kill_switch       |-> IF w.kill THEN "yes" ELSE None,
     allow_lan         |-> IF w.kill /\ w.lan THEN "yes" ELSE None,
     unknown           |-> FALSE,
     api_key           |-> IF w.storage \in {"none", "agent_owned"} THEN Item(w.api_key) ELSE None,
     flags             |-> w.storage]

\* Mutated form: the default protocol is not written.
UpdateOmittingUdp(w) ==
    [server            |-> w.server,
     device            |-> Item(w.device),
     protocol          |-> IF w.protocol = "udp" THEN None ELSE w.protocol,
     port              |-> w.port,
     custom_directives |-> Item(w.directives),
     keepalive         |-> IF w.keepalive THEN None ELSE "no",
     ping_interval     |-> IF w.keepalive THEN Format[w.interval] ELSE None,
     ping_restart      |-> IF w.keepalive THEN Format[w.restart] ELSE None,
     kill_switch       |-> IF w.kill THEN "yes" ELSE None,
     allow_lan         |-> IF w.kill /\ w.lan THEN "yes" ELSE None,
     unknown           |-> FALSE,
     api_key           |-> IF w.storage \in {"none", "agent_owned"} THEN Item(w.api_key) ELSE None,
     flags             |-> w.storage]

\* update_connection builds the setting anew; the key leaves the editor only
\* to be saved.
Update(w) ==
    [server            |-> w.server,
     device            |-> Item(w.device),
     protocol          |-> w.protocol,
     port              |-> w.port,
     custom_directives |-> Item(w.directives),
     keepalive         |-> IF w.keepalive THEN None ELSE "no",
     ping_interval     |-> IF w.keepalive THEN Format[w.interval] ELSE None,
     ping_restart      |-> IF w.keepalive THEN Format[w.restart] ELSE None,
     kill_switch       |-> IF w.kill THEN "yes" ELSE None,
     allow_lan         |-> IF w.kill /\ w.lan THEN "yes" ELSE None,
     unknown           |-> FALSE,
     api_key           |-> IF w.storage \in {"none", "agent_owned"} THEN Item(w.api_key) ELSE None,
     flags             |-> w.storage]

\* What a user reads off the widgets: the labels and tooltips say that the
\* keepalive is for UDP and that the local network is an exception from the
\* kill switch; directives that tune ping are the user's own keepalive.  A
\* cached profile is good if it was fetched for the texts that are shown.
Shown(w) ==
    [request     |-> [server     |-> w.server,
                      device     |-> Item(w.device),
                      protocol   |-> w.protocol,
                      port       |-> w.port,
                      directives |-> Item(w.directives)],
     profile     |-> [server     |-> w.server,
                      device     |-> w.device,
                      protocol   |-> w.protocol,
                      port       |-> w.port,
                      directives |-> w.directives],
     keepalive   |-> IF w.keepalive /\ w.protocol = "udp" /\ w.directives \notin TunesPing
                     THEN [interval |-> w.interval, restart |-> w.restart]
                     ELSE None,
     kill_switch |-> [on |-> w.kill, lan |-> w.kill /\ w.lan]]

(***************************************************************************)
(* One connection, edited and saved over and over.                         *)
(***************************************************************************)
VARIABLES
    stored,   \* the setting NetworkManager holds
    widgets,  \* the widgets of the open editor, or None
    edits,    \* how many edits the user has made in it
    nft,      \* whether the nft binary is installed
    result    \* "none" since the editor was opened; "saved" or "refused" by
              \* a save; "edited" since then

vars == <<stored, widgets, edits, nft, result>>

\* Every variable keeps its type; in particular the spin buttons stay within
\* their adjustments whatever nmcli had stored.
TypeOK ==
    /\ stored \in Setting
    /\ widgets = None \/ widgets \in Widgets
    /\ edits \in 0 .. MaxEdits
    /\ nft \in BOOLEAN
    /\ result \in {"none", "saved", "refused", "edited"}

Init ==
    /\ stored \in InitialSettings
    /\ widgets = None
    /\ edits = 0
    /\ nft \in BOOLEAN
    /\ result = "none"

\* nm_airvpn_editor_new on what NetworkManager holds.
Open ==
    /\ widgets = None
    /\ widgets' = Load(stored, nft)
    /\ edits' = 0
    /\ result' = "none"
    /\ UNCHANGED <<stored, nft>>

\* An edit, of a widget that is sensitive: the numbers while keepalive is
\* on, the kill switch if nft was found, the exception while it is on.
Edit ==
    /\ widgets # None
    /\ edits < MaxEdits
    /\ edits' = edits + 1
    /\ result' = "edited"
    /\ \/ \E p \in {"udp", "tcp"} : widgets' = [widgets EXCEPT !.protocol = p]
       \/ widgets' = [widgets EXCEPT !.server = "earth"]
       \/ widgets' = [widgets EXCEPT !.device = ""]
       \/ widgets' = [widgets EXCEPT !.port = "443"]
       \/ \E d \in TunesPing \cup {""} : widgets' = [widgets EXCEPT !.directives = d]
       \/ widgets' = [widgets EXCEPT !.keepalive = ~@]
       \/ /\ widgets.keepalive
          /\ \E n \in TypedSeconds : \/ widgets' = [widgets EXCEPT !.interval = n]
                                     \/ widgets' = [widgets EXCEPT !.restart = n]
       \/ nft /\ widgets' = [widgets EXCEPT !.kill = ~@]
       \/ widgets.kill /\ widgets' = [widgets EXCEPT !.lan = ~@]
       \/ \E f \in Flags : widgets' = [widgets EXCEPT !.storage = f]
    /\ UNCHANGED <<stored, nft>>

\* refresh_done_cb: the list that every editor asks for when it opens (and
\* again by a button) may spell the selected server with another case, and
\* its spelling is then the one selected (FillCombo of AirvpnServerList).
ListArrives ==
    /\ widgets # None
    /\ \E t \in Texts : /\ Fold[t] = Fold[widgets.server]
                        /\ widgets' = [widgets EXCEPT !.server = t]
    /\ result' = IF result = "none" THEN "none" ELSE "edited"
    /\ UNCHANGED <<stored, edits, nft>>

\* update_connection, and NetworkManager storing what it returns.
Save ==
    /\ widgets # None
    /\ LET s == Update(widgets)
       IN  \/ Validate(s) /\ stored' = s /\ result' = "saved"
           \/ ~Validate(s) /\ stored' = stored /\ result' = "refused"
    /\ UNCHANGED <<widgets, edits, nft>>

Close ==
    /\ widgets # None
    /\ widgets' = None
    /\ edits' = 0
    /\ result' = "none"
    /\ UNCHANGED <<stored, nft>>

\* The nft package comes or goes while no editor is open.
NftChanges ==
    /\ widgets = None
    /\ nft' = ~nft
    /\ UNCHANGED <<stored, widgets, edits, result>>

Next == Open \/ Edit \/ ListArrives \/ Save \/ Close \/ NftChanges

Spec == Init /\ [][Next]_vars

(***************************************************************************)
(* Properties.                                                             *)
(***************************************************************************)
\* A save that nothing but the arrival of the list preceded, of a connection
\* that the daemon accepts.  Excepted are a kill switch on a host without nft,
\* which the editor shows as off, and an empty server, with which nothing can
\* be done.
UntouchedSave ==
    /\ widgets # None
    /\ result = "none" /\ result' \in {"saved", "refused"}
    /\ Validate(stored) /\ stored.server # ""
    /\ nft \/ stored.kill_switch # "yes"

\* The daemon asks the generator for the same, up to the case of the server,
\* and runs openvpn with the same keepalive and kill switch; a key that is to
\* be saved is the same.
SameEffect(s, t) ==
    /\ Fold[Request(s).server] = Fold[Request(t).server]
    /\ \A item \in {"device", "protocol", "port", "directives"} : Request(s)[item] = Request(t)[item]
    /\ Keepalive(s) = Keepalive(t)
    /\ KillSwitch(s) = KillSwitch(t)
    /\ s.flags = t.flags
    /\ s.flags \in {"none", "agent_owned"} => Default(s.api_key, None) = Default(t.api_key, None)

\* An untouched save (update_connection of what init_editor_plugin loaded) is
\* accepted and keeps what the daemon asks for and does, whatever items are
\* absent, odd or pointless.  Of the cached profile the next property speaks.
UntouchedSaveKeepsEffect ==
    [][ UntouchedSave => result' = "saved" /\ SameEffect(stored', stored) ]_vars

\* The cached profile survives an untouched save only if the connection names
\* its protocol and port and the editor kept the spelling of the server: the
\* editor writes out the defaults of items that nmcli may have left out, and
\* params_hash tells an absent item from its default.  The next Connect then
\* has to reach the generator, as no fallback is left.
UntouchedSaveKeepsProfile ==
    [][ UntouchedSave =>
          (CacheKey(stored') = CacheKey(stored)
             <=> /\ stored.protocol # None /\ stored.port # None
                 /\ widgets.server = stored.server) ]_vars

\* What the user sees is what the daemon does: the editor's and the daemon's
\* readings of absent items, of the protocol and of custom directives agree.
ShownIsApplied ==
    result = "saved" => Effect(stored) = Shown(widgets)
==============================================================================
