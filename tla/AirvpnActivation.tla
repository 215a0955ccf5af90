--------------------------- MODULE AirvpnActivation ---------------------------
(***************************************************************************)
(* One activation from end to end: the API key is found or asked for, the  *)
(* daemon connects, fetches a profile or falls back to the cached one,     *)
(* arms the kill switch and starts openvpn, which looks for its server     *)
(* behind that table, is told the tunnel's configuration, has its up       *)
(* helper pass it on, and later restarts.                                  *)
(*                                                                         *)
(* AirvpnService has the daemon's handlers over many attempts, in any      *)
(* order and without time or contents; here is a single attempt with the   *)
(* contents that go through it and with the limits of its three clocks.    *)
(* Time is counted in ticks of five seconds while the attempt lasts.       *)
(***************************************************************************)
EXTENDS AirvpnSecrets, AirvpnFetch, AirvpnRuleset, AirvpnHelper

CONSTANTS
    Lines,           \* the lines of a profile
    Names,           \* the states of the domain name system
    ConnectTimeout,  \* CONNECT_TIMEOUT_SECONDS
    NmTimeout,       \* libnm's own limit on STARTING
    Scenarios        \* the circumstances of an attempt that are looked at

\* 20, 45 and 60 seconds in the code.
ASSUME ActivationAssumption ==
    /\ {ConnectTimeout, NmTimeout} \subseteq Nat /\ ConnectLimit < NmTimeout

ASSUME LinesAssumption == IsList(Names) /\ \A text \in Texts : IsProfile(Lines[text])

VARIABLES
    connection,   \* the settings of the connection
    nameservers,  \* those in /etc/resolv.conf
    pushed,       \* the configuration that the server pushes
    era,          \* the state of the domain name system
    svc,          \* NMVpnServiceState
    failed,       \* NetworkManager got a Failure signal it has not acted on
    drop,         \* priv->unexpected_drop
    timer,        \* when priv->connect_timer is due, or None
    cache,        \* the cached profile of the connection, or None
    table,        \* the rules in the kernel, None without the table
    armed_era,    \* the era in which they were written
    ovpn,         \* the openvpn process
    helper,       \* the calls its up helper has still to make, or None
    nm,           \* the configurations the daemon has got, by method
    got           \* those since the last SetConfig

scenarioVars == <<connection, nameservers, pushed>>
daemonVars == <<svc, failed, drop, timer, cache>>
tableVars == <<table, armed_era>>
tunnelVars == <<ovpn, helper, nm, got>>
vars == <<secretsVars, fetchVars, scenarioVars, era, daemonVars, tableVars, tunnelVars>>

(***************************************************************************)
(* Values.                                                                 *)
(***************************************************************************)
Connection == [device : Devices, kill_switch : BOOLEAN, allow_lan : BOOLEAN]

Cached == [profile : Profile, stale : BOOLEAN]

ASSUME NoneIsNotCached == None \notin Cached

\* The variables openvpn sets for its up script.
Variables == {"trusted_ip", "trusted_ip6", "remote_1", "route_vpn_gateway", "dev", "tun_mtu",
              "ifconfig_local", "ifconfig_remote", "ifconfig_netmask", "ifconfig_ipv6_local",
              "ifconfig_ipv6_remote", "ifconfig_ipv6_netbits", "routes", "routes6", "options"}

\* openvpn sets addresses it could parse, either a netmask or a peer, and
\* numbers the options without a gap.
Environment(env) ==
    /\ env = [v \in Variables |-> env[v]]
    /\ env.dev \notin {None, ""}
    /\ {env.ifconfig_local, env.ifconfig_remote} \subseteq V4 \cup {None}
    /\ env.ifconfig_netmask \in Masks \cup {None}
    /\ None \in {env.ifconfig_netmask, env.ifconfig_remote}
    /\ env.ifconfig_ipv6_local \in V6 \cup {None}
    /\ \A i \in DOMAIN env.options : env.options[i].kind \notin {None, ""}

ASSUME ScenariosAssumption ==
    \A s \in Scenarios :
        /\ s.connection \in Connection
        /\ s.cache \in Cached \cup {None}
        /\ s.era \in DOMAIN Names
        /\ Environment(s.pushed)

\* The arguments of the up script, the lists that options can make, and
\* what a SetConfig call can carry.
Arguments == (V4 \cup {""}) \X (V4 \cup {""})

Lists(options) ==
    UNION {[numbers -> {options[i].value : i \in numbers}] : numbers \in SUBSET DOMAIN options}

Configs(env) ==
    [gateway : V4 \cup V6, can_persist : BOOLEAN, tundev : {env.dev},
     mtu : Numbers \cup {None}, families : SUBSET {"has-ip4", "has-ip6"}]

ASSUME NoneIsNotSent ==
    /\ None \notin Arguments
    /\ \A s \in Scenarios : None \notin Lists(s.pushed.options) /\ None \notin Configs(s.pushed)

\* What openvpn can contact are addresses.
ASSUME ContactsAssumption ==
    \A text \in Texts, e \in DOMAIN Names :
        \A remote \in OpenvpnRemotes(Lines[text]) :
            Addresses(remote.host, Names[e]) \subseteq V4 \cup V6

\* "none" before it is started, "gone" once the daemon has forgotten it.
\* The status "helper" is the error of an openvpn whose up helper failed;
\* "restart": the peer was lost, the tunnel device kept.
Statuses == {"ok", "error", "helper"}

ASSUME NoneIsNoStatus == None \notin Statuses

Ovpn == [st      : {"none", "looking", "contacting", "up", "exited", "gone"},
         text    : Texts \cup {None},
         status  : Statuses \cup {None},
         restart : BOOLEAN]

Methods == {"SetConfig", "SetIp4Config", "SetIp6Config"}

TypeOK ==
    /\ SecretsTypeOK
    /\ FetchTypeOK
    /\ connection \in Connection
    /\ era \in DOMAIN Names
    /\ svc \in {"INIT", "STARTING", "STARTED", "STOPPED", "crashed"}
    /\ failed \in BOOLEAN
    /\ drop \in BOOLEAN
    /\ timer \in Nat \cup {None}
    /\ cache \in Cached \cup {None}
    /\ armed_era \in DOMAIN Names
    /\ [st |-> ovpn.st, text |-> ovpn.text, status |-> ovpn.status, restart |-> ovpn.restart] \in Ovpn
    /\ DOMAIN nm = Methods
    /\ got \subseteq Methods

Init ==
    /\ \E s \in Scenarios :
         /\ flags = s.flags /\ keyring = s.keyring /\ key = s.key
         /\ net = s.net /\ account = s.account /\ revoked = s.revoked /\ served = s.served
         /\ connection = s.connection /\ cache = s.cache
         /\ nameservers = s.nameservers /\ era = s.era /\ pushed = s.pushed
    /\ SecretsInit
    /\ FetchInit
    /\ svc = "INIT"
    /\ failed = FALSE
    /\ drop = FALSE
    /\ timer = None
    /\ table = None
    /\ armed_era = era
    /\ ovpn = [st |-> "none", text |-> None, status |-> None, restart |-> FALSE, contact |-> None]
    /\ helper = None
    /\ nm = [m \in Methods |-> None]
    /\ got = {}

(***************************************************************************)
(* run_openvpn on a profile: it may die over the remotes of the profile,   *)
(* refuse because it cannot arm the table (or find or start openvpn), or   *)
(* start openvpn and the connect timer.                                    *)
(***************************************************************************)
RunOutcomes == {"crashed", "refused", "spawned"}

RunOpenvpn(text, outcome) ==
    \E remotes \in ParseRemotes(Lines[text]) :
        LET wanted == connection.kill_switch
            rules == Arm(remotes, connection.allow_lan, Names[era], nameservers)
        IN  \/ /\ outcome = "crashed"
               /\ wanted /\ Crashes(remotes)
               /\ UNCHANGED <<table, armed_era, ovpn, timer>>
            \/ /\ outcome = "refused"
               /\ wanted => ~Crashes(remotes)
               /\ UNCHANGED <<table, armed_era, ovpn, timer>>
            \/ /\ outcome = "spawned"
               /\ wanted => ~Crashes(remotes) /\ rules # None
               /\ table' = IF wanted THEN rules ELSE None
               /\ armed_era' = era
               /\ ovpn' = [ovpn EXCEPT !.st = "looking", !.text = text]
               /\ timer' = clock + ConnectTimeout

(***************************************************************************)
(* The daemon.                                                             *)
(***************************************************************************)
IsValid == cache # None /\ ~cache.stale

\* Connect: refused, with a valid cached profile, or without.
Connect ==
    /\ svc = "INIT"
    /\ pass = "connect"
    /\ \/ /\ ~ValidateSecrets(key)
          /\ svc' = "STOPPED"
          /\ UNCHANGED <<fetch, timer, ovpn, tableVars>>
       \/ /\ ValidateSecrets(key)
          /\ IsValid
          /\ \E outcome \in RunOutcomes :
               /\ RunOpenvpn(cache.profile.text, outcome)
               /\ svc' = CASE outcome = "crashed" -> "crashed"
                           [] outcome = "refused" -> "STOPPED"
                           [] outcome = "spawned" -> "STARTING"
          /\ UNCHANGED fetch
       \/ /\ ValidateSecrets(key)
          /\ ~IsValid
          /\ svc' = IF key = "" THEN "STOPPED" ELSE "STARTING"
          /\ fetch' = IF key = "" THEN None ELSE Started(connection.device)
          /\ UNCHANGED <<timer, ovpn, tableVars>>
    /\ UNCHANGED <<secretsVars, scenarioVars, era, failed, drop, cache, helper, nm, got,
                   clock, net, account, revoked, served>>

\* fetch_done_cb, when the profile is there or the cached one has to do.
UseProfile(profile) ==
    \E outcome \in RunOutcomes :
        /\ RunOpenvpn(profile.text, outcome)
        /\ svc' = IF outcome = "crashed" THEN "crashed" ELSE svc
        /\ failed' = (failed \/ outcome = "refused")

\* fetch_done_cb: a matching cached profile is used "even a stale one".
FetchDone ==
    /\ fetch # None
    /\ fetch.at = "returned"
    /\ fetch' = None
    /\ \/ /\ Cancelled(fetch)
          /\ UNCHANGED <<svc, failed, timer, cache, ovpn, tableVars>>
       \/ /\ ~Cancelled(fetch) /\ ~NoProfile(fetch)
          /\ cache' = [profile |-> fetch.profile, stale |-> FALSE]
          /\ UseProfile(fetch.profile)
       \/ /\ ~Cancelled(fetch) /\ NoProfile(fetch)
          /\ cache # None
          /\ UNCHANGED cache
          /\ UseProfile(cache.profile)
       \/ /\ ~Cancelled(fetch) /\ NoProfile(fetch)
          /\ cache = None
          /\ failed' = TRUE
          /\ UNCHANGED <<svc, timer, cache, ovpn, tableVars>>
    /\ UNCHANGED <<secretsVars, scenarioVars, era, drop, helper, nm, got,
                   clock, net, account, revoked, served>>

Marked == IF cache = None THEN None ELSE [cache EXCEPT !.stale = TRUE]

Running == ovpn.st \in {"looking", "contacting", "up", "exited"}

\* Mutated form: real_disconnect leaves the blame to the connect timer.
BlamedNever(tried) == cache

\* The cache after real_disconnect.
Blamed(tried) == IF tried THEN Marked ELSE cache

\* nm_vpn_service_plugin_disconnect with real_disconnect and cleanup_plugin.
PluginDisconnect(pid) ==
    /\ svc' = "STOPPED"
    /\ cache' = Blamed(pid /\ svc # "STARTED")
    /\ fetch' = IF fetch = None THEN None ELSE [fetch EXCEPT !.cancelled = TRUE]
    /\ ovpn' = IF ovpn.st = "none" THEN ovpn ELSE [ovpn EXCEPT !.st = "gone"]
    /\ helper' = None
    /\ timer' = None
    /\ table' = IF drop THEN table ELSE None
    /\ failed' = FALSE
    /\ clock' = 0

\* NetworkManager acts on a Failure, or libnm's 60 seconds are over.
Disconnect ==
    /\ \/ svc \in {"STARTING", "STARTED"} /\ failed
       \/ svc = "STARTING" /\ clock >= NmTimeout
    /\ PluginDisconnect(Running)
    /\ UNCHANGED <<secretsVars, scenarioVars, era, drop, armed_era, nm, got,
                   net, account, revoked, served>>

\* connect_timeout_cb; its SIGTERM lets openvpn exit, as it may at any time.
ConnectTimeoutCb ==
    /\ timer # None
    /\ clock >= timer
    /\ timer' = None
    /\ cache' = Marked
    /\ failed' = TRUE
    /\ UNCHANGED <<secretsVars, fetchVars, scenarioVars, era, svc, drop, tableVars, tunnelVars>>

\* openvpn_watch_cb.
WatchCb ==
    /\ ovpn.st = "exited"
    /\ \/ /\ ovpn.status = "ok"
          /\ PluginDisconnect(FALSE)
          /\ UNCHANGED drop
       \/ /\ ovpn.status \in {"error", "helper"}
          /\ ovpn' = [ovpn EXCEPT !.st = "gone"]
          /\ timer' = None
          /\ failed' = TRUE
          /\ cache' = IF svc = "STARTED" THEN cache ELSE Marked
          /\ drop' = (svc = "STARTED")
          /\ UNCHANGED <<svc, fetch, helper, table, clock>>
    /\ UNCHANGED <<secretsVars, scenarioVars, era, armed_era, nm, got,
                   net, account, revoked, served>>

(***************************************************************************)
(* openvpn, which resolves the names of its remotes itself.                *)
(***************************************************************************)
Query(nameserver, proto) == [daddr |-> nameserver, proto |-> proto, dport |-> "53"]

CanResolve(host) ==
    \/ host \in Literals
    \/ \E n \in nameservers : Accepts(table, Query(n, "udp"))

\* It picks a remote and an address of it.
OpenvpnContacts ==
    /\ ovpn.st = "looking"
    /\ \E remote \in OpenvpnRemotes(Lines[ovpn.text]) :
         /\ CanResolve(remote.host)
         /\ \E contact \in Contacts(remote, Names[era]) :
              ovpn' = [ovpn EXCEPT !.st = "contacting", !.contact = contact]
    /\ UNCHANGED <<secretsVars, fetchVars, scenarioVars, era, daemonVars, tableVars, helper, nm, got>>

\* A contact that does not answer, and a peer that is lost.
OpenvpnTriesAgain ==
    /\ ovpn.st \in {"contacting", "up"}
    /\ ovpn.st = "up" => svc = "STARTED" /\ helper = None
    /\ ovpn' = [ovpn EXCEPT !.st = "looking", !.contact = None,
                            !.restart = ovpn.restart \/ ovpn.st = "up"]
    /\ UNCHANGED <<secretsVars, fetchVars, scenarioVars, era, daemonVars, tableVars, helper, nm, got>>

\* The variables of the tunnel device, which a restart may not set again.
WithoutDevice(env) ==
    [env EXCEPT !.ifconfig_local = None, !.ifconfig_remote = None, !.ifconfig_netmask = None,
                !.ifconfig_ipv6_local = None, !.ifconfig_ipv6_remote = None,
                !.ifconfig_ipv6_netbits = None, !.routes = <<>>, !.routes6 = <<>>]

WithPeer(env, address) ==
    [env EXCEPT !.trusted_ip = IF address \in V4 THEN address ELSE None,
                !.trusted_ip6 = IF address \in V6 THEN address ELSE None]

Text(value) == IF value = None THEN "" ELSE value

\* The fourth and fifth argument of the up script.
UpArgs(env) ==
    <<Text(env.ifconfig_local),
      Text(IF env.ifconfig_netmask # None THEN env.ifconfig_netmask ELSE env.ifconfig_remote)>>

HelperArgs == IF ovpn.restart THEN UpArgs(pushed) ELSE None

\* The peer answers, so the table lets its traffic pass; openvpn runs the
\* up script, whose failure ends it.
OpenvpnIsUp ==
    /\ ovpn.st = "contacting"
    /\ Accepts(table, ovpn.contact)
    /\ \E env \in {pushed} \cup (IF ovpn.restart THEN {WithoutDevice(pushed)} ELSE {}) :
         LET own == WithPeer(env, ovpn.contact.daddr)
         IN  IF HelperError(own, HelperArgs) = None
             THEN /\ ovpn' = [ovpn EXCEPT !.st = "up"]
                  /\ helper' = [calls |-> Calls(own, HelperArgs), lost |-> FALSE]
                  /\ UNCHANGED failed
             ELSE /\ ovpn' = [ovpn EXCEPT !.st = "exited", !.status = "helper"]
                  /\ failed' = TRUE
                  /\ UNCHANGED helper
    /\ UNCHANGED <<secretsVars, fetchVars, scenarioVars, era, svc, drop, timer, cache, tableVars, nm, got>>

OpenvpnExits ==
    /\ ovpn.st \in {"looking", "contacting", "up"}
    /\ \E status \in {"ok", "error"} :
         ovpn' = [ovpn EXCEPT !.st = "exited", !.status = status]
    /\ helper' = None
    /\ UNCHANGED <<secretsVars, fetchVars, scenarioVars, era, daemonVars, tableVars, nm, got>>

(***************************************************************************)
(* The helper's calls, one after the other; one that fails is passed over. *)
(* libnm enters STARTED when it has got what the last SetConfig announced. *)
(***************************************************************************)
Announced(config) ==
    {m \in {"SetIp4Config", "SetIp6Config"} :
        (IF m = "SetIp4Config" THEN "has-ip4" ELSE "has-ip6") \in config.families}

AnnouncedSoFar(configs) ==
    IF configs.SetConfig = None THEN {} ELSE Announced(configs.SetConfig)

HelperCall ==
    /\ helper # None
    /\ helper.calls # <<>>
    /\ LET call == Head(helper.calls)
       IN  \/ /\ helper' = [calls |-> Tail(helper.calls), lost |-> TRUE]
              /\ UNCHANGED <<svc, timer, clock, nm, got>>
           \/ /\ helper' = [helper EXCEPT !.calls = Tail(@)]
              /\ nm' = [nm EXCEPT ![call[1]] = call[2]]
              /\ got' = IF call[1] = "SetConfig" THEN {} ELSE got \cup {call[1]}
              /\ IF got' = AnnouncedSoFar(nm')
                 THEN svc' = "STARTED" /\ timer' = None /\ clock' = 0
                 ELSE UNCHANGED <<svc, timer, clock>>
    /\ UNCHANGED <<secretsVars, net, account, revoked, served, fetch, scenarioVars, era,
                   failed, drop, cache, tableVars, ovpn>>

HelperEnds ==
    /\ helper # None
    /\ helper.calls = <<>>
    /\ helper' = None
    /\ UNCHANGED <<secretsVars, fetchVars, scenarioVars, era, daemonVars, tableVars, ovpn, nm, got>>

(***************************************************************************)
(* The world.  Five seconds pass unless a limit is reached or the main     *)
(* loop has something to do; the clock stops with the attempt.             *)
(***************************************************************************)
Tick ==
    /\ svc = "STARTING"
    /\ ~failed
    /\ clock < NmTimeout
    /\ timer # None => clock < timer
    /\ InRequest => clock < fetch.since + Patience
    /\ fetch # None => fetch.at # "returned"
    /\ clock' = clock + 1
    /\ UNCHANGED <<secretsVars, net, account, revoked, served, fetch, scenarioVars, era,
                   daemonVars, tableVars, tunnelVars>>

\* The addresses of the names change.
DnsChanges ==
    /\ era < Len(Names)
    /\ svc \in {"STARTING", "STARTED"}
    /\ era' = era + 1
    /\ UNCHANGED <<secretsVars, fetchVars, scenarioVars, daemonVars, tableVars, tunnelVars>>

rest == <<scenarioVars, era, daemonVars, tableVars, tunnelVars>>

Next ==
    \/ svc = "INIT" /\ SecretsNext /\ UNCHANGED <<fetchVars, rest>>
    \/ fetch # None /\ FetchNext /\ UNCHANGED <<secretsVars, rest>>
    \/ Connect
    \/ svc # "crashed" /\ FetchDone
    \/ Disconnect
    \/ ConnectTimeoutCb
    \/ WatchCb
    \/ OpenvpnContacts
    \/ OpenvpnTriesAgain
    \/ OpenvpnIsUp
    \/ OpenvpnExits
    \/ HelperCall
    \/ HelperEnds
    \/ Tick
    \/ DnsChanges

Spec == Init /\ [][Next]_vars

\* The agent is done with its dialog at some time, and processes run.
FairSpec == Spec /\ SecretsFairness

(***************************************************************************)
(* Properties.                                                             *)
(***************************************************************************)
\* Arming the table never locks openvpn out: as long as the names have the
\* addresses they had then, whatever openvpn contacts of a profile as the
\* generator writes it is accepted, and so are the queries to the name
\* servers it needs for it (append_remote_rules, append_resolver_rules).
OwnRemotesAccepted ==
    /\ ovpn.st = "contacting" /\ Plain(Lines[ovpn.text]) /\ era = armed_era
           => Accepts(table, ovpn.contact)
    /\ \A n \in nameservers \cap Literals, proto \in {"udp", "tcp"} :
           Accepts(table, Query(n, proto))

\* "A "proto" directive, when present, applies to every "remote" that
\* doesn't specify its own protocol as a third field": the table has rules
\* for it, and the daemon lives to load them.
DefaultProtoApplies ==
    /\ svc # "crashed"
    /\ table # None =>
           \A line \in {Lines[ovpn.text][i] : i \in DOMAIN Lines[ovpn.text]} :
               Directive(line, "remote") /\ Len(line.words) < 4 =>
                   \E r \in table : /\ r.dport = Or(Word(line, 3), "443")
                                    /\ r.proto = NftProto(DefaultProto(Lines[ovpn.text]))

\* The helper announces exactly what it sends: when no call of it was lost,
\* the attempt is established, with whatever mixture of addresses the
\* server pushed (has-ip4 and has-ip6 against the configurations that
\* follow them).
DeliveredIsStarted ==
    helper # None /\ helper.calls = <<>> /\ ~helper.lost => svc = "STARTED"

\* A restart of the tunnel, which may tell the helper the addresses by its
\* arguments only, does not make it fail, and it sends the IPv4 address
\* that it sent at the start ("if (!tmp && is_restart) tmp = argv[4]").
RestartKeepsAddress ==
    HasIp4Address(pushed, None) =>
        /\ ovpn.status # "helper"
        /\ nm.SetIp4Config # None =>
               \A k \in {"address", "prefix", "ptp"} :
                   nm.SetIp4Config[k] = Ip4Config(pushed, None)[k]

Pushed(kind, family) ==
    {pushed.options[i].value :
        i \in {j \in DOMAIN pushed.options : /\ pushed.options[j].kind = kind
                                            /\ pushed.options[j].value \in family}}

Arrived(method, name) ==
    LET list == nm[method][name]
    IN  {list[i] : i \in IF list = None THEN {} ELSE DOMAIN list}

\* The name servers of an established tunnel are those that the server
\* pushed as DNS, each with the configuration of its own family, whatever is
\* pushed between them.  They are no others: one that is pushed as DNS6,
\* which openvpn knows as well, is silently lost.
DnsOptionsArrive ==
    svc = "STARTED" =>
        /\ nm.SetIp4Config # None => Arrived("SetIp4Config", "dns") = Pushed("DNS", V4)
        /\ nm.SetIp6Config # None => Arrived("SetIp6Config", "dns") = Pushed("DNS", V6)

\* "validate the configured name instead": a profile of another device than
\* the configured one only ever comes from a device that vanished between
\* the two requests.
DeviceIsChecked ==
    fetch # None /\ fetch.profile # None =>
        fetch.profile.device = fetch.device \/ fetch.listed

\* "Generator unreachable [...]: fall back to a matching cached profile":
\* when nothing answers, the limit on connecting leaves the fallback time
\* before libnm gives the attempt up.
UnreachableFallsBack ==
    [][ /\ svc = "STARTING" /\ svc' = "STOPPED" /\ clock = NmTimeout
        /\ net = "down" /\ cache # None
        => ovpn.st # "none" ]_vars

\* Whichever of the connect timer, libnm's timer and a failing openvpn or
\* helper ends an attempt that had openvpn running, the next one will not
\* take the profile for valid.
TimedOutAttemptIsStale ==
    [][ /\ svc = "STARTING" /\ svc' = "STOPPED"
        /\ ovpn.st # "none" /\ ovpn.status # "ok"
        => cache'.stale ]_vars
================================================================================
