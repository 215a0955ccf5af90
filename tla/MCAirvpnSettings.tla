--------------------------- MODULE MCAirvpnSettings ---------------------------
EXTENDS AirvpnSettings, TLC

MCFormat == [n \in 1 .. MaxSeconds |-> ToString(n)]

\* "20s" and "443|a" start with a number; "0", "7200" and "70000" are out of
\* range; "mtu" and "ping 5" are directives.
MCOdd == {"Earth", "ch", "CH", "laptop", "20s", "0", "7200", "70000", "443|a", "mtu", "ping 5", "key", "x"}

MCTexts == Literals \cup MCOdd \cup {MCFormat[n] : n \in 1 .. MaxSeconds}

MCFold == [t \in MCTexts |-> CASE t = "Earth" -> "earth" [] t = "CH" -> "ch" [] OTHER -> t]

MCStrtol == [t \in MCTexts |->
    CASE t \in {"443", "443|a"} -> 443
      [] t = "20s"   -> 20
      [] t = "7200"  -> 7200
      [] t = "70000" -> 70000
      [] \E n \in 1 .. MaxSeconds : MCFormat[n] = t ->
             CHOOSE n \in 1 .. MaxSeconds : MCFormat[n] = t
      [] OTHER       -> 0]

MCTypedSeconds == {20}

MCTunesPing == {"ping 5"}

MCPlain == [server |-> "ch", device |-> None, protocol |-> None, port |-> None,
            custom_directives |-> None, keepalive |-> None, ping_interval |-> None,
            ping_restart |-> None, kill_switch |-> None, allow_lan |-> None,
            unknown |-> FALSE, api_key |-> "key", flags |-> "agent_owned"]

\* What names the profile, with everything else plain.
MCWhere == {[MCPlain EXCEPT !.server = s, !.device = d, !.protocol = p, !.port = n,
                            !.custom_directives = c] :
              s \in {None, "", "earth", "Earth", "ch"}, d \in {None, "", "laptop"},
              p \in {None, "udp", "tcp", "x"}, n \in {None, "443|a", "0", "70000"},
              c \in {None, "mtu", "ping 5"}}

\* What governs keepalive and kill switch, with everything else plain.
MCHow == {[MCPlain EXCEPT !.protocol = p, !.custom_directives = c, !.keepalive = k,
                          !.ping_interval = i, !.ping_restart = r, !.kill_switch = ks,
                          !.allow_lan = l] :
              p \in {None, "tcp"}, c \in {None, "ping 5"}, k \in {None, "yes", "no", "x"},
              i \in {None, "20s", "0"}, r \in {None, "1", "7200"},
              ks \in {None, "yes", "no"}, l \in {None, "yes", "no"}}

MCSecrets == {[MCPlain EXCEPT !.api_key = k, !.flags = f] : k \in {None, "", "key"}, f \in Flags}

MCUnknown == {[s EXCEPT !.unknown = TRUE] : s \in MCSecrets}

MCSettings == MCWhere \cup MCHow \cup MCSecrets \cup MCUnknown
==============================================================================
