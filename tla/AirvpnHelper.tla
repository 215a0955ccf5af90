----------------------------- MODULE AirvpnHelper -----------------------------
(***************************************************************************)
(* nm-airvpn-service-openvpn-helper: from the environment and arguments    *)
(* that openvpn gives its up script to the configurations NetworkManager   *)
(* gets.  A variable that is not set is None.  A dictionary is a record,   *)
(* in which a key that was not added is None: of a key added twice the     *)
(* first value is there, which is the one a reader finds.  A list has its  *)
(* elements under the numbers of the variables they come from.             *)
(*                                                                         *)
(* run_openvpn passes --tun, so tapdev is always 0, and --bus-name, so the *)
(* helper speaks to the daemon that started its openvpn.                   *)
(***************************************************************************)
EXTENDS AirvpnNull, Integers, Sequences, FiniteSets

CONSTANTS
    V4,        \* texts that inet_pton takes for an IPv4 address
    V6,        \* texts that inet_pton takes for an IPv6 address
    Masks,     \* the IPv4 addresses that start with "255."
    Prefix,    \* nm_utils_ip4_netmask_to_prefix
    HostOf,    \* the IPv4 address getaddrinfo finds for a name, or None
    Numbers   \* texts that are numbers in the range asked for

\* What helper_failed may name.
HelperErrors ==
    {"VPN Gateway", "Tunnel Device", "IP4 Address", "IP6 Address", "IPv4 or IPv6 configuration"}

\* inet_pton takes only digits and dots for IPv4, which makes no name.
HelperAssumption ==
    /\ None \notin HelperErrors
    /\ Masks \subseteq V4 /\ V4 \cap V6 = {}
    /\ {None, ""} \cap (V4 \cup V6) = {}
    /\ V4 \cap DOMAIN HostOf = {}

ASSUME HelperAssumption

When(condition, value) == IF condition THEN value ELSE None

NonEmpty(list) == When(DOMAIN list # {}, list)

(***************************************************************************)
(* trusted_remote_to_gvariant: the address openvpn talks to, IPv6 first;   *)
(* a name, which only remote_1 can be, is looked up for IPv4 only.         *)
(***************************************************************************)
TrustedRemote(env) ==
    LET peer == IF env.trusted_ip # None THEN env.trusted_ip ELSE env.remote_1
    IN  CASE env.trusted_ip6 # None -> IF env.trusted_ip6 \in V6 THEN env.trusted_ip6 ELSE None
          [] env.trusted_ip6 = None /\ peer \in DOMAIN HostOf -> HostOf[peer]
          [] env.trusted_ip6 = None /\ peer \notin DOMAIN HostOf ->
                 IF peer \in V4 THEN peer ELSE None

(***************************************************************************)
(* The routes: variables are numbered from 1, the first missing one ends   *)
(* the list, one that cannot be read is left out.                          *)
(***************************************************************************)
Before(list, gaps) == {i \in DOMAIN list : \A j \in gaps : i < j}

Numbered(routes) == Before(routes, {i \in DOMAIN routes : routes[i].network \in {None, ""}})

Readable4(r) ==
    /\ r.network \in V4
    /\ r.netmask \in V4
    /\ r.gateway \in V4 \cup {None}
    /\ r.metric \in Numbers \cup {None, ""}

Ip4Routes(env) == [i \in {j \in Numbered(env.routes) : Readable4(env.routes[j])} |-> env.routes[i]]

\* A route without a gateway goes through ifconfig_ipv6_remote.
Ip6Routes(env) ==
    LET Gateway(r) == IF r.gateway # None THEN r.gateway ELSE env.ifconfig_ipv6_remote
        kept == {i \in Numbered(env.routes6) : /\ env.routes6[i].network \in V6
                                               /\ Gateway(env.routes6[i]) \in V6 \cup {None}}
    IN  [i \in kept |-> [network |-> env.routes6[i].network, gateway |-> Gateway(env.routes6[i])]]

(***************************************************************************)
(* The pushed options.                                                     *)
(***************************************************************************)
\* Mutated form: an option of another kind ends the list.
OptionsUptoOther(env, kind) ==
    LET others == {i \in DOMAIN env.options : env.options[i].kind # kind}
    IN  [i \in Before(env.options, others) |-> env.options[i].value]

\* The kind of an option is the word after "dhcp-option".  main looks for
\* DNS, WINS, DOMAIN and DOMAIN-SEARCH; every other kind, DNS6 among them, is
\* passed over, like an option that is no dhcp-option.
Options(env, kind) ==
    LET gaps == {i \in DOMAIN env.options : env.options[i].kind \in {None, ""}}
    IN  [i \in {j \in Before(env.options, gaps) : env.options[j].kind = kind} |->
            env.options[i].value]

Within(list, values) == [i \in {j \in DOMAIN list : list[j] \in values} |-> list[i]]

Dns(env, family) == Within(Options(env, "DNS"), family)

Wins(env) == Within(Options(env, "WINS"), V4)

IsDomainValid(name) == name # ""

ValidDomains(list) == [i \in {j \in DOMAIN list : IsDomainValid(list[j])} |-> list[i]]

\* Those of DOMAIN-SEARCH follow those of DOMAIN.
Domains(env) ==
    LET domains == ValidDomains(Options(env, "DOMAIN"))
        searched == ValidDomains(Options(env, "DOMAIN-SEARCH"))
    IN  When(DOMAIN domains \cup DOMAIN searched # {}, <<domains, searched>>)

(***************************************************************************)
(* main, over the environment and, when openvpn restarts the tunnel (args  *)
(* is not None), the addresses it passes as arguments 4 and 5.             *)
(***************************************************************************)
\* Mutated form: the arguments of a restart are not looked at.
FromArgsNever(value, args, i) == value

FromArgs(value, args, i) == IF value = None /\ args # None THEN args[i] ELSE value

Local4(env, args) == FromArgs(env.ifconfig_local, args, 1)

HasIp4Address(env, args) == Local4(env, args) \in V4

HasIp6Address(env) == env.ifconfig_ipv6_local \in V6

Remote4(env, args) == FromArgs(env.ifconfig_remote, args, 2)

\* "probably a netmask, not a PTP address; topology == subnet".
Ip4Prefix(env, args) ==
    IF Remote4(env, args) \in Masks THEN Prefix[Remote4(env, args)]
    ELSE IF env.ifconfig_netmask \in V4 THEN Prefix[env.ifconfig_netmask]
    ELSE When(HasIp4Address(env, args), "32")

\* An empty list is not sent; a restart then keeps the routes there are.
PreserveRoutes(routes, args) == When(DOMAIN routes = {} /\ args # None, TRUE)

Ip4Config(env, args) ==
    [gateway  |-> When(env.route_vpn_gateway \in V4, env.route_vpn_gateway),
     address  |-> When(HasIp4Address(env, args), Local4(env, args)),
     prefix   |-> Ip4Prefix(env, args),
     ptp      |-> When(Remote4(env, args) \in V4 \ Masks, Remote4(env, args)),
     routes   |-> NonEmpty(Ip4Routes(env)),
     preserve |-> PreserveRoutes(Ip4Routes(env), args),
     dns      |-> NonEmpty(Dns(env, V4)),
     nbns     |-> NonEmpty(Wins(env)),
     domains  |-> Domains(env)]

Ip6Config(env, args) ==
    [gateway  |-> When(env.route_vpn_gateway \in V6, env.route_vpn_gateway),
     address  |-> When(HasIp6Address(env), env.ifconfig_ipv6_local),
     prefix   |-> When(env.ifconfig_ipv6_netbits \in Numbers, env.ifconfig_ipv6_netbits),
     routes   |-> NonEmpty(Ip6Routes(env)),
     preserve |-> PreserveRoutes(Ip6Routes(env), args),
     dns      |-> When(HasIp6Address(env), NonEmpty(Dns(env, V6))),
     domains  |-> When(HasIp6Address(env), Domains(env))]

Mtu(env) == When(env.tun_mtu \in Numbers, env.tun_mtu)

\* Mutated form: an IPv4 configuration is announced whatever is in it.
FamiliesWithAnyIp4(env, args) ==
    LET ip4 == Ip4Config(env, args)
    IN  {f \in {"has-ip4", "has-ip6"} :
            IF f = "has-ip4" THEN \E k \in DOMAIN ip4 : ip4[k] # None ELSE HasIp6Address(env)}

\* A configuration without an address is neither announced nor sent.
Families(env, args) ==
    {f \in {"has-ip4", "has-ip6"} :
        IF f = "has-ip4" THEN HasIp4Address(env, args) ELSE HasIp6Address(env)}

\* The general configuration announces those that follow it.
Config(env, args) ==
    [gateway |-> TrustedRemote(env), can_persist |-> TRUE, tundev |-> env.dev, mtu |-> Mtu(env),
     families |-> Families(env, args)]

\* helper_failed ends the helper, which checks in this order.
HelperError(env, args) ==
    IF TrustedRemote(env) = None THEN "VPN Gateway"
    ELSE IF env.dev \in {None, ""} THEN "Tunnel Device"
    ELSE IF Local4(env, args) \notin V4 \cup {None, ""} THEN "IP4 Address"
    ELSE IF env.ifconfig_ipv6_local \notin V6 \cup {None, ""} THEN "IP6 Address"
    ELSE IF ~HasIp4Address(env, args) /\ ~HasIp6Address(env) THEN "IPv4 or IPv6 configuration"
    ELSE None

\* send_config: the calls <<method, dictionary>>, one after the other; one
\* of the addresses is there.
Calls(env, args) ==
    LET general == <<"SetConfig", Config(env, args)>>
        ip4 == <<"SetIp4Config", Ip4Config(env, args)>>
        ip6 == <<"SetIp6Config", Ip6Config(env, args)>>
    IN  IF ~HasIp6Address(env) THEN <<general, ip4>>
        ELSE IF ~HasIp4Address(env, args) THEN <<general, ip6>>
        ELSE <<general, ip4, ip6>>
=============================================================================
