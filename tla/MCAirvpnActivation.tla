-------------------------- MODULE MCAirvpnActivation --------------------------
(***************************************************************************)
(* Small instances of AirvpnActivation.  The scenarios vary one part of    *)
(* the way at a time: the secrets, the fetch, the profile, the tunnel.     *)
(***************************************************************************)
EXTENDS AirvpnActivation

MCKeys == {"", "k1"}
MCDevices == {"", "laptop", "Laptop", "phone"}
MCFoldName == [d \in MCDevices |-> IF d = "Laptop" THEN "laptop" ELSE d]

\* "one.org" has an address of each family, and one of them changes.
MCNames == <<[one |-> {"a4", "a6"}, nowhere |-> {}], [one |-> {"b4", "a6"}, nowhere |-> {}]>>

MCLiterals == {"p4", "n4", "fe80::1%eth0"}
MCLoadable == {"a4", "a6", "b4", "p4", "n4", "53", "443", "1194"}
MCPrivate == {"n4"}
MCTcpProtos == {"tcp", "tcp-client"}

MCV4 == {"a4", "b4", "p4", "n4", "t4", "g4", "d4", "255.255.255.0"}
MCV6 == {"a6", "t6", "d6", "e6"}
MCMasks == {"255.255.255.0"}
MCPrefix == [m \in MCMasks |-> "24"]
MCHostOf == [h \in {} |-> None]
MCNumbers == {"64", "1500"}

Line(w) == [blank |-> " ", words |-> w]

MCTexts == {"udp", "tcp", "named", "spaced", "lost", "bare"}
MCLines ==
    [t \in MCTexts |->
        CASE t = "udp" -> <<Line(<<"remote", "one", "443", "udp">>), Line(<<"remote", "p4", "443">>)>>
          [] t = "tcp" -> <<Line(<<"remote", "p4", "443">>), Line(<<"proto", "tcp-client">>)>>
          [] t = "named" -> <<Line(<<"remote", "one", "443">>), Line(<<"proto", "udp">>)>>
          [] t = "spaced" -> <<Line(<<"remote", "", "p4", "443">>)>>
          [] t = "lost" -> <<Line(<<"remote", "nowhere", "443">>)>>
          [] t = "bare" -> <<Line(<<"remote", "p4">>), Line(<<"proto", "tcp">>)>>]

Env == [trusted_ip |-> None, trusted_ip6 |-> None, remote_1 |-> None,
        route_vpn_gateway |-> "g4", dev |-> "tun0", tun_mtu |-> "1500",
        ifconfig_local |-> None, ifconfig_remote |-> None, ifconfig_netmask |-> None,
        ifconfig_ipv6_local |-> None, ifconfig_ipv6_remote |-> None,
        ifconfig_ipv6_netbits |-> None, routes |-> <<>>, routes6 |-> <<>>,
        options |-> <<[kind |-> "DOMAIN", value |-> "lan"], [kind |-> "DNS", value |-> "d4"],
                      [kind |-> "DNS", value |-> "d6"]>>]

Route(n) == [network |-> n, netmask |-> "255.255.255.0", gateway |-> None, metric |-> None]

Subnet == [Env EXCEPT !.ifconfig_local = "t4", !.ifconfig_netmask = "255.255.255.0",
                      !.routes = <<Route("bad"), Route("t4")>>]
PeerToPeer == [Env EXCEPT !.ifconfig_local = "t4", !.ifconfig_remote = "g4"]
V6Only == [Env EXCEPT !.ifconfig_ipv6_local = "t6", !.ifconfig_ipv6_netbits = "64"]
Dual == [Subnet EXCEPT !.ifconfig_ipv6_local = "t6", !.ifconfig_ipv6_netbits = "64"]
Addressless == Env

\* Every kind of option that the helper knows, and one that it does not.
Option(k, v) == [kind |-> k, value |-> v]
Mixed == [Dual EXCEPT !.options =
             <<Option("DOMAIN-SEARCH", "lan"), Option("DNS6", "e6"), Option("DNS", "d6"),
               Option("WINS", "d4"), Option("DNS", "d4"), Option("DOMAIN", "lan")>>]
MixedV6 == [Mixed EXCEPT !.ifconfig_local = None, !.ifconfig_netmask = None]

Usual == [flags |-> {}, keyring |-> None, key |-> "k1", net |-> "ok", account |-> {"laptop"},
          revoked |-> FALSE, served |-> "udp",
          connection |-> [device |-> "", kill_switch |-> TRUE, allow_lan |-> FALSE],
          cache |-> [profile |-> [device |-> "", text |-> "udp"], stale |-> FALSE],
          nameservers |-> {"n4"}, era |-> 2, pushed |-> PeerToPeer]

Without(d) == [device |-> d, kill_switch |-> FALSE, allow_lan |-> FALSE]

SecretsScenarios ==
    {[Usual EXCEPT !.flags = f, !.keyring = r, !.key = k, !.connection = Without(""),
                   !.net = "down", !.cache = None] :
        f \in SUBSET SecretFlags, r \in MCKeys \cup {None}, k \in MCKeys \cup {None}}

FetchScenarios ==
    {[Usual EXCEPT !.net = n, !.account = a, !.revoked = r, !.connection = Without(d),
                   !.cache = IF c THEN [@ EXCEPT !.stale = TRUE] ELSE None] :
        n \in {"ok", "down", "stalled"}, a \in {{}, {"laptop", "phone"}}, r \in BOOLEAN,
        d \in {"", "Laptop"}, c \in BOOLEAN}

ProfileScenarios ==
    {[Usual EXCEPT !.cache.profile.text = t, !.connection.allow_lan = l, !.nameservers = ns,
                   !.era = 1] :
        t \in MCTexts, l \in BOOLEAN, ns \in {{"n4"}, {"n4", "fe80::1%eth0"}}}

TunnelScenarios ==
    {[Usual EXCEPT !.pushed = e] : e \in {Subnet, PeerToPeer, V6Only, Dual, Addressless, Mixed, MixedV6}}

MCScenarios == SecretsScenarios \cup FetchScenarios \cup ProfileScenarios \cup TunnelScenarios

BareScenarios == {[Usual EXCEPT !.cache.profile.text = "bare"]}
================================================================================
