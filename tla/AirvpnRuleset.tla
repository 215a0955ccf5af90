----------------------------- MODULE AirvpnRuleset -----------------------------
(***************************************************************************)
(* From a profile to the rules of the kill switch (nm-airvpn-firewall.c),  *)
(* next to what openvpn reads in the same profile.                         *)
(*                                                                         *)
(* A profile is a sequence of lines, a line the words that g_strsplit_set  *)
(* finds between single blanks after g_strstrip: two blanks in a row make  *)
(* an empty word.  A rule is the traffic it accepts.                       *)
(***************************************************************************)
EXTENDS AirvpnNull, Integers, Sequences, FiniteSets

CONSTANTS
    Literals,   \* hosts that are IP addresses as they stand
    Loadable,   \* the words nft takes: addresses without a zone, ports
    Private,    \* private addresses
    TcpProtos  \* the protocol words that start with "tcp"

IsList(list) == Len(list) \in Nat /\ DOMAIN list = 1 .. Len(list)

\* No word of a line is NULL.
IsProfile(profile) ==
    /\ IsList(profile)
    /\ \A i \in DOMAIN profile :
           /\ IsList(profile[i].words)
           /\ \A j \in DOMAIN profile[i].words : profile[i].words[j] # None

ASSUME NoneIsNoWord == None \notin {"", "udp"}

Word(line, i) == IF i \in DOMAIN line.words THEN line.words[i] ELSE ""

\* g_str_has_prefix (line, "remote "): a tab after the keyword is no match.
Directive(line, keyword) ==
    /\ line.blank = " "
    /\ Len(line.words) > 1
    /\ line.words[1] = keyword
    /\ line.words[2] # ""

\* The numbers of those lines.
Selected(profile, keyword) == {i \in DOMAIN profile : Directive(profile[i], keyword)}

LastOf(numbers) == CHOOSE i \in numbers : \A j \in numbers : j <= i

(***************************************************************************)
(* parse_remotes.  The last usable "proto" line counts.  A "remote" line   *)
(* of two words ends its array of words, NULL included, before the fourth  *)
(* element that the code looks at: the read past the end finds whatever    *)
(* the allocator has there, NULL, a text, or (None) what is no address,    *)
(* and then the daemon dies.                                               *)
(***************************************************************************)
DefaultProto(profile) ==
    LET protos == Selected(profile, "proto")
    IN  IF protos = {} THEN "udp" ELSE profile[LastOf(protos)].words[2]

PastTheEnd == {None, "", "udp", "tcp"}

Thirds(line) == IF Len(line.words) = 2 THEN PastTheEnd ELSE {Word(line, 4)}

Or(word, default) == IF word = "" THEN default ELSE word

\* Mutated form: the protocol of the profile is not looked for.
RemoteEntryUdp(profile, line, third) ==
    [host  |-> Word(line, 2), port |-> Or(Word(line, 3), "443"), proto |-> Or(third, "udp")]

RemoteEntry(profile, line, third) ==
    [host  |-> Word(line, 2),
     port  |-> Or(Word(line, 3), "443"),
     proto |-> Or(third, DefaultProto(profile))]

\* The lists that parse_remotes may return: an entry for each "remote" line,
\* under the number of the line.
ParseRemotes(profile) ==
    LET at == Selected(profile, "remote")
    IN  {[i \in at |-> RemoteEntry(profile, profile[i], third[i])] :
            third \in {t \in [at -> PastTheEnd \cup {Word(profile[i], 4) : i \in at}] :
                          \A i \in at : t[i] \in Thirds(profile[i])}}

Crashes(remotes) == \E i \in DOMAIN remotes : remotes[i].proto = None

(***************************************************************************)
(* build_ruleset.  "dns" maps a name to the set of addresses it has at the *)
(* moment, the empty set if it has none.                                   *)
(***************************************************************************)
NftProto(proto) == IF proto \in TcpProtos THEN "tcp" ELSE "udp"

Addresses(host, dns) == IF host \in Literals THEN {host} ELSE dns[host]

\* Mutated form: only the first address of a name is accepted.
RemoteRulesOfFirst(entry, dns) ==
    {[daddr |-> CHOOSE a \in Addresses(entry.host, dns) : TRUE,
      proto |-> NftProto(entry.proto), dport |-> entry.port]}

\* append_remote_rules for a name that resolves.
RemoteRules(entry, dns) ==
    {[daddr |-> a, proto |-> NftProto(entry.proto), dport |-> entry.port] :
        a \in Addresses(entry.host, dns)}

\* Mutated form: name servers are asked over UDP only.
ResolverRulesUdp(nameservers) ==
    {[daddr |-> n, proto |-> "udp", dport |-> "53"] : n \in nameservers \cap Literals}

\* append_resolver_rules: a name server that is no address is left out.
ResolverRules(nameservers) ==
    {[daddr |-> n, proto |-> p, dport |-> "53"] :
        n \in nameservers \cap Literals, p \in {"udp", "tcp"}}

\* Traffic to private addresses, for allow-lan.
LanRule == [daddr |-> "lan", proto |-> "any", dport |-> "any"]

Resolvable(remotes, dns) == \A i \in DOMAIN remotes : Addresses(remotes[i].host, dns) # {}

Ruleset(remotes, allow_lan, dns, nameservers) ==
    ResolverRules(nameservers)
        \cup UNION {RemoteRules(remotes[i], dns) : i \in DOMAIN remotes}
        \cup (IF allow_lan THEN {LanRule} ELSE {})

\* "nft -f" takes all rules or none.
Loads(rules) == \A r \in rules \ {LanRule} : {r.daddr, r.dport} \subseteq Loadable

\* What nm_airvpn_firewall_arm makes of the remotes of a profile: a set of
\* rules in the kernel, or None when it fails.
Arm(remotes, allow_lan, dns, nameservers) ==
    LET rules == Ruleset(remotes, allow_lan, dns, nameservers)
    IN  IF DOMAIN remotes # {} /\ Resolvable(remotes, dns) /\ Loads(rules) THEN rules ELSE None

\* The policy of the chain is to drop what no rule accepts.
Accepts(table, traffic) ==
    table # None =>
        traffic \in table \/ (LanRule \in table /\ traffic.daddr \in Private)

(***************************************************************************)
(* openvpn on the same profile: words are separated by any blanks, a       *)
(* remote without a port has 1194, one without a protocol that of the      *)
(* profile.  It takes one remote after the other, and one address of it.   *)
(***************************************************************************)
WithoutEmpty(words) == SelectSeq(words, LAMBDA w : w # "")

Squeezed(line) ==
    IF \E i \in DOMAIN line.words : line.words[i] = "" THEN WithoutEmpty(line.words) ELSE line.words

OpenvpnLines(profile, keyword) ==
    {w \in {Squeezed(profile[i]) : i \in DOMAIN profile} : Len(w) > 1 /\ w[1] = keyword}

OpenvpnProto(profile) ==
    LET protos == {i \in DOMAIN profile : LET w == Squeezed(profile[i])
                                          IN  Len(w) > 1 /\ w[1] = "proto"}
    IN  IF protos = {} THEN "udp" ELSE Squeezed(profile[LastOf(protos)])[2]

OpenvpnRemotes(profile) ==
    {[host  |-> w[2],
      port  |-> IF Len(w) > 2 THEN w[3] ELSE "1194",
      proto |-> IF Len(w) > 3 THEN w[4] ELSE OpenvpnProto(profile)] :
        w \in OpenvpnLines(profile, "remote")}

Contacts(remote, dns) ==
    {[daddr |-> a, proto |-> NftProto(remote.proto), dport |-> remote.port] :
        a \in Addresses(remote.host, dns)}

\* Profiles as the generator writes them: one space between words, and a
\* port on every remote.
Plain(profile) ==
    \A i \in DOMAIN profile :
        /\ profile[i].blank = " "
        /\ \A j \in DOMAIN profile[i].words : profile[i].words[j] # ""
        /\ profile[i].words[1] = "remote" => Len(profile[i].words) > 2
=============================================================================
