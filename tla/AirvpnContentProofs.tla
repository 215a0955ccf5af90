------------------------- MODULE AirvpnContentProofs -------------------------
(***************************************************************************)
(* What holds of the contents of an activation, for all profiles, names,   *)
(* name servers and pushed configurations: the kill switch lets openvpn    *)
(* through, and the up helper establishes the tunnel with everything that  *)
(* was pushed.                                                             *)
(***************************************************************************)
EXTENDS AirvpnActivationProofs, WellFoundedInduction

(***************************************************************************)
(* The rules.                                                              *)
(***************************************************************************)
\* A set of line numbers has a last one.
LEMMA LastIsOne ==
    ASSUME NEW n \in Nat, NEW numbers \in SUBSET (1 .. n), numbers # {}
    PROVE  LastOf(numbers) \in numbers
<1>. DEFINE fromEnd == {k \in Nat : n - k \in numbers}
<1>1. PICK some \in numbers : TRUE
  OBVIOUS
<1>2. n - some \in Nat /\ n - (n - some) = some
  BY <1>1
<1>3. n - some \in fromEnd
  BY <1>1, <1>2
<1>4. PICK m \in fromEnd : \A k \in fromEnd : <<k, m>> \notin OpToRel(<, Nat)
  BY <1>3, NatLessThanWellFounded, WFMin
<1>5. \A k \in fromEnd : ~(k < m)
  BY <1>4 DEF OpToRel
<1>6. ASSUME NEW j \in numbers PROVE j <= n - m
  <2>1. n - j \in Nat /\ n - (n - j) = j /\ j \in 1 .. n
    OBVIOUS
  <2>2. n - j \in fromEnd
    BY <2>1
  <2>. QED
    BY <1>5, <2>1, <2>2
<1>7. n - m \in numbers
  BY <1>4
<1>. QED
  BY <1>6, <1>7 DEF LastOf

\* A profile as the generator writes it is read alike by both sides: its
\* lines ...
LEMMA PlainLine ==
    ASSUME NEW profile, IsProfile(profile), Plain(profile), NEW i \in DOMAIN profile
    PROVE  /\ Squeezed(profile[i]) = profile[i].words
           /\ \A keyword : /\ Len(profile[i].words) > 1
                           /\ profile[i].words[1] = keyword
                           <=> Directive(profile[i], keyword)
<1>. DEFINE words == profile[i].words
<1>1. /\ Len(words) \in Nat /\ DOMAIN words = 1 .. Len(words)
      /\ \A j \in DOMAIN words : words[j] # ""
      /\ profile[i].blank = " "
  BY DEF IsProfile, IsList, Plain
<1>2. Squeezed(profile[i]) = words
  BY <1>1 DEF Squeezed
<1>3. Len(words) > 1 => words[2] # ""
  <2>1. Len(words) > 1 => 2 \in DOMAIN words
    <3>. HIDE DEF words
    <3>1. Len(words) \in Nat /\ DOMAIN words = 1 .. Len(words)
      BY <1>1
    <3>. QED
      BY <3>1
  <2>. QED
    BY <1>1, <2>1
<1>. QED
  BY <1>1, <1>2, <1>3 DEF Directive

\* ... and its protocol.
LEMMA PlainProto ==
    ASSUME NEW profile, IsProfile(profile), Plain(profile)
    PROVE  OpenvpnProto(profile) = DefaultProto(profile)
<1>. DEFINE protos == Selected(profile, "proto")
<1>1. protos = {i \in DOMAIN profile : LET w == Squeezed(profile[i])
                                       IN  Len(w) > 1 /\ w[1] = "proto"}
  BY PlainLine DEF Selected
<1>2. CASE protos = {}
  BY <1>1, <1>2 DEF OpenvpnProto, DefaultProto
<1>3. CASE protos # {}
  <2>1. Len(profile) \in Nat /\ protos \in SUBSET (1 .. Len(profile))
    BY DEF IsProfile, IsList, Selected
  <2>2. LastOf(protos) \in DOMAIN profile
    BY <1>3, <2>1, LastIsOne DEF Selected
  <2>3. Squeezed(profile[LastOf(protos)]) = profile[LastOf(protos)].words
    BY <2>2, PlainLine
  <2>. QED
    BY <1>1, <1>3, <2>3 DEF OpenvpnProto, DefaultProto
<1>. QED
  BY <1>2, <1>3

\* Every remote of openvpn is an entry, whatever is past the end of a line.
LEMMA RemoteIsEntry ==
    ASSUME NEW profile, IsProfile(profile), Plain(profile),
           NEW remotes \in ParseRemotes(profile), NEW remote \in OpenvpnRemotes(profile)
    PROVE  \E i \in DOMAIN remotes : remotes[i] = remote
<1>1. PICK w \in OpenvpnLines(profile, "remote") :
        remote = [host  |-> w[2],
                  port  |-> IF Len(w) > 2 THEN w[3] ELSE "1194",
                  proto |-> IF Len(w) > 3 THEN w[4] ELSE OpenvpnProto(profile)]
  BY DEF OpenvpnRemotes
<1>2. PICK i \in DOMAIN profile : w = Squeezed(profile[i]) /\ Len(w) > 1 /\ w[1] = "remote"
  BY <1>1 DEF OpenvpnLines
<1>3. w = profile[i].words /\ Directive(profile[i], "remote")
  BY <1>2, PlainLine
<1>4. /\ Len(w) \in Nat /\ DOMAIN w = 1 .. Len(w)
      /\ \A j \in DOMAIN w : w[j] # ""
      /\ Len(w) > 2
  BY <1>2, <1>3 DEF IsProfile, IsList, Plain
<1>5. /\ 2 \in DOMAIN w /\ 3 \in DOMAIN w /\ Len(w) # 2
      /\ Len(w) > 3 <=> 4 \in DOMAIN w
  <2>1. Len(w) \in Nat /\ DOMAIN w = 1 .. Len(w) /\ Len(w) > 2
    BY <1>4
  <2>. QED
    BY <2>1
<1>6. i \in Selected(profile, "remote")
  BY <1>3 DEF Selected
<1>7. PICK third :
        /\ \A j \in Selected(profile, "remote") : third[j] \in Thirds(profile[j])
        /\ remotes = [j \in Selected(profile, "remote") |-> RemoteEntry(profile, profile[j], third[j])]
  BY DEF ParseRemotes
<1>8. remotes[i] = RemoteEntry(profile, profile[i], third[i]) /\ i \in DOMAIN remotes
  BY <1>6, <1>7
<1>9. third[i] = Word(profile[i], 4)
  BY <1>3, <1>5, <1>6, <1>7 DEF Thirds
<1>10. Word(profile[i], 2) = w[2] /\ Or(Word(profile[i], 3), "443") = w[3]
  BY <1>3, <1>4, <1>5 DEF Word, Or
<1>11. Or(Word(profile[i], 4), DefaultProto(profile)) =
           IF Len(w) > 3 THEN w[4] ELSE OpenvpnProto(profile)
  <2>1. CASE Len(w) > 3
    BY <1>3, <1>4, <1>5, <2>1 DEF Word, Or
  <2>2. CASE ~(Len(w) > 3)
    BY <1>3, <1>5, <2>2, PlainProto DEF Word, Or
  <2>. QED
    BY <2>1, <2>2
<1>12. remotes[i] = remote
  BY <1>1, <1>4, <1>8, <1>9, <1>10, <1>11 DEF RemoteEntry
<1>. QED
  BY <1>8, <1>12

\* A table accepts what openvpn contacts while the names are as they were,
\* and always the queries to its name servers.
LEMMA ArmedAccepts ==
    ASSUME NEW profile, NEW remotes \in ParseRemotes(profile),
           NEW lan, NEW dns, NEW ns, NEW rules,
           rules = Arm(remotes, lan, dns, ns), rules # None
    PROVE  /\ ResolverRules(ns) \subseteq rules
           /\ IsProfile(profile) /\ Plain(profile) =>
                 \A remote \in OpenvpnRemotes(profile) : Contacts(remote, dns) \subseteq rules
<1>1. rules = Ruleset(remotes, lan, dns, ns)
  BY DEF Arm
<1>2. ResolverRules(ns) \subseteq rules
  BY <1>1 DEF Ruleset
<1>3. ASSUME NEW remote \in OpenvpnRemotes(profile), IsProfile(profile), Plain(profile)
      PROVE  Contacts(remote, dns) \subseteq rules
  <2>1. PICK i \in DOMAIN remotes : remotes[i] = remote
    BY <1>3, RemoteIsEntry
  <2>2. Contacts(remote, dns) = RemoteRules(remotes[i], dns)
    BY <2>1 DEF Contacts, RemoteRules
  <2>3. RemoteRules(remotes[i], dns) \subseteq UNION {RemoteRules(remotes[j], dns) : j \in DOMAIN remotes}
    OBVIOUS
  <2>. QED
    BY <1>1, <2>2, <2>3 DEF Ruleset
<1>. QED
  BY <1>2, <1>3

(***************************************************************************)
(* The table.                                                              *)
(***************************************************************************)
\* The table is what the profile of openvpn asks for, in the state of the
\* names in which it was armed; openvpn contacts the remotes of the same
\* profile, in a state as old or younger.
TableInv ==
    /\ era \in DOMAIN Names /\ armed_era \in DOMAIN Names /\ armed_era <= era
    /\ table # None =>
           \E remotes \in ParseRemotes(Lines[ovpn.text]) :
               table = Arm(remotes, connection.allow_lan, Names[armed_era], nameservers)
    /\ ovpn.st = "contacting" =>
           /\ ovpn.contact.daddr \in V4 \cup V6
           /\ era = armed_era =>
                  \E remote \in OpenvpnRemotes(Lines[ovpn.text]) :
                      ovpn.contact \in Contacts(remote, Names[era])

\* Before the attempt.
LEMMA TableInit == Init => TableInv
<1>. SUFFICES ASSUME Init PROVE TableInv
  OBVIOUS
<1>1. era \in DOMAIN Names /\ armed_era = era /\ table = None /\ ovpn.st = "none"
  BY ScenariosAssumption DEF Init
<1>2. era \in Nat
  <2>1. era \in 1 .. Len(Names) /\ Len(Names) \in Nat
    BY <1>1, LinesAssumption DEF IsList
  <2>. QED
    BY <2>1
<1>3. armed_era <= era
  BY <1>1, <1>2
<1>. QED
  BY <1>1, <1>3 DEF TableInv

\* The table is written when openvpn is started, and else only lifted.
LEMMA TableFrame ==
    ASSUME AttemptInv, [Next]_vars
    PROVE  \/ /\ era' = era /\ armed_era' = era /\ ovpn'.st = "looking"
              /\ table' # None =>
                    \E remotes \in ParseRemotes(Lines[ovpn'.text]) :
                        table' = Arm(remotes, connection.allow_lan, Names[era], nameservers)
           \/ /\ armed_era' = armed_era /\ table' \in {table, None} /\ ovpn'.text = ovpn.text
              /\ \/ /\ era' = era
                    /\ ovpn'.st = "contacting" =>
                           ovpn.st = "contacting" /\ ovpn'.contact = ovpn.contact
                 \/ DnsChanges
                 \/ OpenvpnContacts
<1>0. OvpnInv
  BY DEF AttemptInv
<1>1. CASE /\ armed_era' = armed_era /\ table' \in {table, None} /\ era' = era
           /\ ovpn' = ovpn
  BY <1>1
<1>2. ASSUME NEW text, NEW outcome, RunOpenvpn(text, outcome), era' = era
      PROVE  \/ UNCHANGED <<table, armed_era, ovpn>>
             \/ /\ armed_era' = era /\ ovpn'.st = "looking"
                /\ table' # None =>
                    \E remotes \in ParseRemotes(Lines[ovpn'.text]) :
                        table' = Arm(remotes, connection.allow_lan, Names[era], nameservers)
  <2>1. CASE UNCHANGED <<table, armed_era, ovpn>>
    BY <2>1
  <2>2. CASE /\ ovpn' = [ovpn EXCEPT !.st = "looking", !.text = text]
             /\ armed_era' = era
             /\ table' # None =>
                   \E remotes \in ParseRemotes(Lines[text]) :
                       table' = Arm(remotes, connection.allow_lan, Names[era], nameservers)
    <3>1. ovpn'.st = "looking" /\ ovpn'.text = text
      BY <1>0, <2>2 DEF OvpnInv
    <3>. QED
      BY <2>2, <3>1
  <2>. QED
    BY <1>2, <2>1, <2>2, RunOpenvpnStep
<1>3. CASE Connect
  <2>1. era' = era
    BY <1>3 DEF Connect
  <2>2. CASE UNCHANGED <<ovpn, tableVars>>
    BY <2>1, <2>2 DEF tableVars
  <2>3. CASE \E outcome \in RunOutcomes : RunOpenvpn(cache.profile.text, outcome)
    BY <1>2, <2>1, <2>3
  <2>. QED
    BY <1>3, <2>2, <2>3 DEF Connect
<1>4. CASE FetchDone
  <2>1. era' = era
    BY <1>4 DEF FetchDone
  <2>2. CASE UNCHANGED <<ovpn, tableVars>>
    BY <2>1, <2>2 DEF tableVars
  <2>3. ASSUME NEW profile, UseProfile(profile)
        PROVE  \E outcome : RunOpenvpn(profile.text, outcome)
    BY <2>3 DEF UseProfile
  <2>4. CASE \E profile : UseProfile(profile)
    BY <1>2, <2>1, <2>3, <2>4
  <2>. QED
    BY <1>4, <2>2, <2>4 DEF FetchDone
<1>5. CASE Disconnect \/ WatchCb
  <2>1. armed_era' = armed_era /\ table' \in {table, None} /\ era' = era
    BY <1>5 DEF Disconnect, WatchCb, PluginDisconnect
  <2>2. ovpn' \in {ovpn, [ovpn EXCEPT !.st = "gone"]}
    BY <1>5 DEF Disconnect, WatchCb, PluginDisconnect
  <2>3. ovpn' = ovpn \/ (ovpn'.text = ovpn.text /\ ovpn'.st = "gone")
    BY <1>0, <2>2 DEF OvpnInv
  <2>. QED
    BY <2>1, <2>3
<1>6. CASE OpenvpnContacts
  <2>1. UNCHANGED <<table, armed_era>> /\ ovpn'.text = ovpn.text
    BY <1>0, <1>6 DEF OpenvpnContacts, tableVars, OvpnInv
  <2>. QED
    BY <1>6, <2>1
<1>7. CASE OpenvpnTriesAgain \/ OpenvpnIsUp \/ OpenvpnExits
  <2>1. UNCHANGED <<table, armed_era, era>>
    BY <1>7 DEF OpenvpnTriesAgain, OpenvpnIsUp, OpenvpnExits, tableVars
  <2>2. ovpn'.text = ovpn.text /\ ovpn'.st \in {"looking", "up", "exited"}
    BY <1>0, <1>7 DEF OpenvpnTriesAgain, OpenvpnIsUp, OpenvpnExits, OvpnInv
  <2>. QED
    BY <2>1, <2>2
<1>8. CASE DnsChanges
  BY <1>8 DEF DnsChanges, tableVars, tunnelVars
<1>. QED
  BY <1>1, <1>3, <1>4, <1>5, <1>6, <1>7, <1>8
  DEF Next, vars, rest, tableVars, tunnelVars, ConnectTimeoutCb, HelperCall, HelperEnds, Tick

\* Every step of the attempt.
LEMMA TableStep ==
    ASSUME AttemptInv, TableInv, [Next]_vars
    PROVE  TableInv'
<1>0. /\ UNCHANGED <<connection, nameservers>> /\ OvpnInv /\ LifeInv
      /\ era \in DOMAIN Names /\ armed_era \in DOMAIN Names /\ armed_era <= era
  BY NextOnFetch DEF AttemptInv, TableInv
<1>1. era \in Nat /\ armed_era \in Nat /\ DOMAIN Names = 1 .. Len(Names) /\ Len(Names) \in Nat
  <2>1. era \in 1 .. Len(Names) /\ armed_era \in 1 .. Len(Names) /\ Len(Names) \in Nat
        /\ DOMAIN Names = 1 .. Len(Names)
    BY <1>0, LinesAssumption DEF IsList
  <2>. QED
    BY <2>1
<1>2. CASE /\ era' = era /\ armed_era' = era /\ ovpn'.st = "looking"
           /\ table' # None =>
                 \E remotes \in ParseRemotes(Lines[ovpn'.text]) :
                     table' = Arm(remotes, connection.allow_lan, Names[era], nameservers)
  <2>1. armed_era' <= era'
    <3>1. era' = era /\ armed_era' = era /\ era \in Nat
      BY <1>1, <1>2
    <3>. QED
      BY <3>1
  <2>. QED
    BY <1>0, <1>2, <2>1 DEF TableInv
<1>3. ASSUME armed_era' = armed_era, table' \in {table, None}, ovpn'.text = ovpn.text
      PROVE  table' # None =>
                 \E remotes \in ParseRemotes(Lines[ovpn'.text]) :
                     table' = Arm(remotes, connection'.allow_lan, Names[armed_era'], nameservers')
  BY <1>0, <1>3 DEF TableInv
<1>4. CASE /\ armed_era' = armed_era /\ table' \in {table, None} /\ ovpn'.text = ovpn.text
           /\ era' = era
           /\ ovpn'.st = "contacting" => ovpn.st = "contacting" /\ ovpn'.contact = ovpn.contact
  <2>1. armed_era' <= era'
    BY <1>0, <1>4
  <2>. QED
    BY <1>0, <1>3, <1>4, <2>1 DEF TableInv
<1>5. CASE /\ armed_era' = armed_era /\ table' \in {table, None} /\ ovpn'.text = ovpn.text
           /\ DnsChanges
  <2>1. era < Len(Names) /\ era' = era + 1 /\ UNCHANGED ovpn
    BY <1>5 DEF DnsChanges, tunnelVars
  <2>2. era + 1 \in 1 .. Len(Names) /\ armed_era <= era + 1 /\ armed_era # era + 1
    <3>1. era < Len(Names) /\ era \in Nat /\ armed_era \in Nat /\ Len(Names) \in Nat /\ armed_era <= era
      BY <1>0, <1>1, <2>1
    <3>. QED
      BY <3>1
  <2>3. era' \in DOMAIN Names /\ armed_era' <= era' /\ armed_era' # era' /\ armed_era' \in DOMAIN Names
    BY <1>0, <1>1, <1>5, <2>1, <2>2
  <2>. QED
    BY <1>3, <1>5, <2>1, <2>3 DEF TableInv
<1>6. CASE /\ armed_era' = armed_era /\ table' \in {table, None} /\ ovpn'.text = ovpn.text
           /\ OpenvpnContacts
  <2>1. PICK remote \in OpenvpnRemotes(Lines[ovpn.text]) :
          \E contact \in Contacts(remote, Names[era]) :
              ovpn' = [ovpn EXCEPT !.st = "contacting", !.contact = contact]
    BY <1>6 DEF OpenvpnContacts
  <2>2. PICK contact \in Contacts(remote, Names[era]) :
          ovpn' = [ovpn EXCEPT !.st = "contacting", !.contact = contact]
    BY <2>1
  <2>3. era' = era /\ ovpn'.contact = contact
    BY <1>0, <1>6, <2>2 DEF OpenvpnContacts, OvpnInv
  <2>4. ovpn.text \in Texts
    BY <1>0, <1>6 DEF OpenvpnContacts, LifeInv
  <2>5. contact.daddr \in V4 \cup V6
    BY <1>0, <2>1, <2>4, ContactsAssumption DEF Contacts
  <2>6. armed_era' <= era'
    BY <1>0, <1>6, <2>3
  <2>. QED
    BY <1>0, <1>3, <1>6, <2>1, <2>3, <2>5, <2>6 DEF TableInv
<1>. QED
  BY <1>2, <1>4, <1>5, <1>6, TableFrame

\* The kill switch never locks openvpn out of its own remotes, for all
\* profiles as the generator writes them, names and name servers
\* (append_remote_rules, append_resolver_rules).
THEOREM OwnRemotesAreAccepted == Spec => []OwnRemotesAccepted
<1>1. Init => AttemptInv /\ TableInv
  BY AttemptInitHolds, TableInit
<1>2. AttemptInv /\ TableInv /\ [Next]_vars => (AttemptInv /\ TableInv)'
  BY AttemptStep, LifeStep, TableStep DEF AttemptInv
<1>3. AttemptInv /\ TableInv => OwnRemotesAccepted
  <2>. SUFFICES ASSUME AttemptInv, TableInv, table # None PROVE OwnRemotesAccepted
    BY DEF OwnRemotesAccepted, Accepts
  <2>1. PICK remotes \in ParseRemotes(Lines[ovpn.text]) :
          table = Arm(remotes, connection.allow_lan, Names[armed_era], nameservers)
    BY DEF TableInv
  <2>2. /\ ResolverRules(nameservers) \subseteq table
        /\ IsProfile(Lines[ovpn.text]) /\ Plain(Lines[ovpn.text]) =>
             \A remote \in OpenvpnRemotes(Lines[ovpn.text]) :
                 Contacts(remote, Names[armed_era]) \subseteq table
    BY <2>1, ArmedAccepts
  <2>3. ASSUME ovpn.st = "contacting", Plain(Lines[ovpn.text]), era = armed_era
        PROVE  Accepts(table, ovpn.contact)
    <3>1. PICK remote \in OpenvpnRemotes(Lines[ovpn.text]) : ovpn.contact \in Contacts(remote, Names[era])
      BY <2>3 DEF TableInv
    <3>2. IsProfile(Lines[ovpn.text])
      BY <2>3, LinesAssumption DEF AttemptInv, LifeInv
    <3>. QED
      BY <2>2, <2>3, <3>1, <3>2 DEF Accepts
  <2>4. ASSUME NEW n \in nameservers \cap Literals, NEW proto \in {"udp", "tcp"}
        PROVE  Accepts(table, Query(n, proto))
    <3>1. Query(n, proto) \in ResolverRules(nameservers)
      BY <2>4 DEF Query, ResolverRules
    <3>. QED
      BY <2>2, <3>1 DEF Accepts
  <2>. QED
    BY <2>3, <2>4 DEF OwnRemotesAccepted
<1>. QED
  BY <1>1, <1>2, <1>3, PTL DEF Spec

\* The protocol of a profile is a word of it.
LEMMA ProtoIsWord ==
    ASSUME NEW profile, IsProfile(profile)
    PROVE  DefaultProto(profile) # None
<1>. DEFINE protos == Selected(profile, "proto")
<1>1. CASE protos = {}
  BY <1>1, NoneIsNoWord DEF DefaultProto
<1>2. CASE protos # {}
  <2>1. Len(profile) \in Nat /\ protos \in SUBSET (1 .. Len(profile))
    BY DEF IsProfile, IsList, Selected
  <2>2. LastOf(protos) \in protos
    BY <1>2, <2>1, LastIsOne
  <2>. DEFINE words == profile[LastOf(protos)].words
  <2>3. /\ Len(words) \in Nat /\ DOMAIN words = 1 .. Len(words) /\ Len(words) > 1
        /\ \A j \in DOMAIN words : words[j] # None
    BY <2>2 DEF Selected, Directive, IsProfile, IsList
  <2>. HIDE DEF words
  <2>4. 2 \in DOMAIN words
    BY <2>3
  <2>5. DefaultProto(profile) = words[2]
    BY <1>2 DEF DefaultProto, words
  <2>. QED
    BY <2>3, <2>4, <2>5
<1>. QED
  BY <1>1, <1>2

\* Profiles in which every remote that the code takes has a port.
PortsAreGiven(profile) ==
    \A i \in Selected(profile, "remote") : Len(profile[i].words) > 2

\* With a port on every remote nothing is read past the end of a line: an
\* entry has the fourth word of its line or the protocol of the profile.
LEMMA NothingPastTheEnd ==
    ASSUME NEW profile, IsProfile(profile), PortsAreGiven(profile),
           NEW remotes \in ParseRemotes(profile)
    PROVE  /\ DOMAIN remotes = Selected(profile, "remote")
           /\ \A i \in DOMAIN remotes :
                 remotes[i] = RemoteEntry(profile, profile[i], Word(profile[i], 4))
           /\ ~Crashes(remotes)
<1>. DEFINE at == Selected(profile, "remote")
<1>1. PICK third :
        /\ \A i \in at : third[i] \in Thirds(profile[i])
        /\ remotes = [i \in at |-> RemoteEntry(profile, profile[i], third[i])]
  BY DEF ParseRemotes
<1>2. ASSUME NEW i \in at PROVE third[i] = Word(profile[i], 4)
  <2>. DEFINE n == Len(profile[i].words)
  <2>1. n > 2 /\ n \in Nat
    BY DEF PortsAreGiven, Selected, IsProfile, IsList
  <2>2. n # 2
    <3>. HIDE DEF n
    <3>. QED
      BY <2>1
  <2>. QED
    BY <1>1, <2>2 DEF Thirds
<1>3. \A i \in at : remotes[i] = RemoteEntry(profile, profile[i], Word(profile[i], 4))
  BY <1>1, <1>2
<1>4. ASSUME NEW i \in at PROVE remotes[i].proto # None
  <2>1. Word(profile[i], 4) # None
    BY NoneIsNoWord DEF Word, Selected, IsProfile
  <2>2. Or(Word(profile[i], 4), DefaultProto(profile)) # None
    BY <2>1, ProtoIsWord DEF Or
  <2>3. remotes[i] = RemoteEntry(profile, profile[i], Word(profile[i], 4))
    BY <1>3
  <2>4. remotes[i].proto = Or(Word(profile[i], 4), DefaultProto(profile))
    BY <2>3 DEF RemoteEntry
  <2>. QED
    BY <2>2, <2>4
<1>. QED
  BY <1>1, <1>3, <1>4 DEF Crashes

\* A table has a rule for every remote, with the protocol of the profile if
\* the remote has none.
LEMMA DefaultIsArmed ==
    ASSUME NEW profile, IsProfile(profile), PortsAreGiven(profile),
           NEW remotes \in ParseRemotes(profile), NEW lan, NEW dns, NEW ns, NEW rules,
           rules = Arm(remotes, lan, dns, ns), rules # None,
           NEW i \in Selected(profile, "remote"), Len(profile[i].words) < 4
    PROVE  \E r \in rules : /\ r.dport = Or(Word(profile[i], 3), "443")
                            /\ r.proto = NftProto(DefaultProto(profile))
<1>1. rules = Ruleset(remotes, lan, dns, ns) /\ Resolvable(remotes, dns)
  BY DEF Arm
<1>2. i \in DOMAIN remotes /\ remotes[i] = RemoteEntry(profile, profile[i], Word(profile[i], 4))
  BY NothingPastTheEnd
<1>3. Word(profile[i], 4) = ""
  <2>1. Len(profile[i].words) \in Nat /\ DOMAIN profile[i].words = 1 .. Len(profile[i].words)
    BY DEF Selected, IsProfile, IsList
  <2>2. 4 \notin DOMAIN profile[i].words
    BY <2>1
  <2>. QED
    BY <2>2 DEF Word
<1>4. /\ remotes[i].port = Or(Word(profile[i], 3), "443")
      /\ remotes[i].proto = DefaultProto(profile)
  <2>1. /\ remotes[i].port = Or(Word(profile[i], 3), "443")
        /\ remotes[i].proto = Or(Word(profile[i], 4), DefaultProto(profile))
    BY <1>2 DEF RemoteEntry
  <2>2. Or("", DefaultProto(profile)) = DefaultProto(profile)
    BY DEF Or
  <2>. QED
    BY <1>3, <2>1, <2>2
<1>5. PICK a \in Addresses(remotes[i].host, dns) : TRUE
  BY <1>1, <1>2 DEF Resolvable
<1>. DEFINE r == [daddr |-> a, proto |-> NftProto(remotes[i].proto), dport |-> remotes[i].port]
<1>6. r \in RemoteRules(remotes[i], dns)
  BY <1>5 DEF RemoteRules
<1>7. r \in rules
  BY <1>1, <1>2, <1>6 DEF Ruleset
<1>8. r.dport = Or(Word(profile[i], 3), "443") /\ r.proto = NftProto(DefaultProto(profile))
  BY <1>4
<1>. QED
  BY <1>7, <1>8

\* Nothing past the end of a line can kill the daemon.
LEMMA NeverCrashes ==
    ASSUME \A text \in Texts : PortsAreGiven(Lines[text]),
           AttemptInv, svc # "crashed", [Next]_vars
    PROVE  svc' # "crashed"
<1>1. ASSUME NEW text \in Texts PROVE ~RunOpenvpn(text, "crashed")
  BY <1>1, LinesAssumption, NothingPastTheEnd DEF RunOpenvpn
<1>2. cache # None => cache.profile.text \in Texts
  BY DEF AttemptInv, LifeInv, Cached, Profile
<1>3. fetch # None /\ ~NoProfile(fetch) => fetch.profile.text \in Texts
  BY DEF AttemptInv, FetchInv, FetchTypeOK, Fetch, Profile, NoProfile
<1>4. CASE Connect
  <2>1. ASSUME IsValid, NEW outcome \in RunOutcomes, RunOpenvpn(cache.profile.text, outcome),
               svc' = CASE outcome = "crashed" -> "crashed"
                        [] outcome = "refused" -> "STOPPED"
                        [] outcome = "spawned" -> "STARTING"
        PROVE  svc' # "crashed"
    BY <1>1, <1>2, <2>1 DEF IsValid, RunOutcomes
  <2>. QED
    BY <1>4, <2>1 DEF Connect
<1>5. CASE FetchDone
  <2>1. ASSUME NEW profile, profile.text \in Texts, UseProfile(profile) PROVE svc' # "crashed"
    BY <1>1, <2>1 DEF UseProfile
  <2>. QED
    BY <1>2, <1>3, <1>5, <2>1 DEF FetchDone
<1>6. CASE HelperCall
  BY <1>6 DEF HelperCall
<1>. QED
  BY <1>4, <1>5, <1>6
  DEF Next, vars, rest, daemonVars, Disconnect, ConnectTimeoutCb, WatchCb, PluginDisconnect,
      OpenvpnContacts, OpenvpnTriesAgain, OpenvpnIsUp, OpenvpnExits, HelperEnds, Tick, DnsChanges

\* What the code says of a "proto" directive holds of all profiles in which
\* every remote has a port, as the generator writes them; the run bare_remote
\* shows one without (parse_remotes).
THEOREM DefaultProtosApply ==
    ASSUME \A text \in Texts : PortsAreGiven(Lines[text])
    PROVE  Spec => []DefaultProtoApplies
<1>. DEFINE TextInv == table # None => ovpn.text \in Texts
            Inv == AttemptInv /\ TableInv /\ TextInv /\ svc # "crashed"
<1>1. Init => Inv
  BY AttemptInitHolds, TableInit DEF Init
<1>2. Inv /\ [Next]_vars => Inv'
  <2>. SUFFICES ASSUME Inv, [Next]_vars PROVE Inv'
    OBVIOUS
  <2>1. AttemptInv' /\ TableInv' /\ svc' # "crashed"
    BY AttemptStep, LifeStep, TableStep, NeverCrashes DEF AttemptInv
  <2>2. ovpn'.st = "looking" => ovpn'.text \in Texts
    BY <2>1 DEF AttemptInv, LifeInv
  <2>3. \/ ovpn'.st = "looking"
        \/ table' \in {table, None} /\ ovpn'.text = ovpn.text
    BY TableFrame
  <2>. QED
    BY <2>1, <2>2, <2>3
<1>3. Inv => DefaultProtoApplies
  <2>. SUFFICES ASSUME AttemptInv, TableInv, TextInv, svc # "crashed", table # None,
                       NEW i \in DOMAIN Lines[ovpn.text],
                       Directive(Lines[ovpn.text][i], "remote"),
                       Len(Lines[ovpn.text][i].words) < 4
                PROVE  \E r \in table : /\ r.dport = Or(Word(Lines[ovpn.text][i], 3), "443")
                                        /\ r.proto = NftProto(DefaultProto(Lines[ovpn.text]))
    BY DEF DefaultProtoApplies
  <2>1. PICK remotes \in ParseRemotes(Lines[ovpn.text]) :
          table = Arm(remotes, connection.allow_lan, Names[armed_era], nameservers)
    BY DEF TableInv
  <2>2. ovpn.text \in Texts
    OBVIOUS
  <2>3. IsProfile(Lines[ovpn.text]) /\ PortsAreGiven(Lines[ovpn.text])
    BY <2>2, LinesAssumption
  <2>4. i \in Selected(Lines[ovpn.text], "remote")
    BY DEF Selected
  <2>. QED
    BY <2>1, <2>3, <2>4, DefaultIsArmed
<1>. HIDE DEF Inv
<1>4. Spec => []Inv
  BY <1>1, <1>2, PTL DEF Spec
<1>. QED
  BY <1>3, <1>4, PTL

(***************************************************************************)
(* The up helper.                                                          *)
(***************************************************************************)
\* What openvpn tells its up helper: at the start the whole configuration,
\* at a restart perhaps the addresses in the arguments only.
Tellings ==
    {[env |-> WithPeer(pushed, a), args |-> None] : a \in V4 \cup V6}
        \cup {[env |-> WithPeer(pushed, a), args |-> UpArgs(pushed)] : a \in V4 \cup V6}
        \cup {[env |-> WithPeer(WithoutDevice(pushed), a), args |-> UpArgs(pushed)] : a \in V4 \cup V6}

\* The methods called with success of all calls so far, and the calls left.
Stages(env, args) ==
    LET general == <<"SetConfig", Config(env, args)>>
        ip4 == <<"SetIp4Config", Ip4Config(env, args)>>
        ip6 == <<"SetIp6Config", Ip6Config(env, args)>>
    IN  IF ~HasIp6Address(env)
        THEN {<<{}, <<general, ip4>>>>, <<{"SetConfig"}, <<ip4>>>>,
              <<{"SetConfig", "SetIp4Config"}, <<>>>>}
        ELSE IF ~HasIp4Address(env, args)
        THEN {<<{}, <<general, ip6>>>>, <<{"SetConfig"}, <<ip6>>>>,
              <<{"SetConfig", "SetIp6Config"}, <<>>>>}
        ELSE {<<{}, <<general, ip4, ip6>>>>, <<{"SetConfig"}, <<ip4, ip6>>>>,
              <<{"SetConfig", "SetIp4Config"}, <<ip6>>>>,
              <<{"SetConfig", "SetIp4Config", "SetIp6Config"}, <<>>>>}

\* The fields of what openvpn tells.
LEMMA TellingFields ==
    ASSUME Environment(pushed), NEW t \in Tellings
    PROVE  /\ t.env.options = pushed.options /\ t.env.dev = pushed.dev
           /\ t.env.tun_mtu = pushed.tun_mtu
           /\ TrustedRemote(t.env) \in V4 \cup V6
           /\ \/ /\ t.args \in {None, UpArgs(pushed)}
                 /\ t.env.ifconfig_local = pushed.ifconfig_local
                 /\ t.env.ifconfig_remote = pushed.ifconfig_remote
                 /\ t.env.ifconfig_netmask = pushed.ifconfig_netmask
                 /\ t.env.ifconfig_ipv6_local = pushed.ifconfig_ipv6_local
              \/ /\ t.args = UpArgs(pushed)
                 /\ t.env.ifconfig_local = None
                 /\ t.env.ifconfig_remote = None
                 /\ t.env.ifconfig_netmask = None
                 /\ t.env.ifconfig_ipv6_local = None
<1>1. PICK e \in {pushed, WithoutDevice(pushed)}, a \in V4 \cup V6 :
        /\ t = [env |-> WithPeer(e, a), args |-> t.args]
        /\ t.args \in {None, UpArgs(pushed)}
        /\ e = pushed \/ t.args = UpArgs(pushed)
  BY DEF Tellings
<1>2. t.env = WithPeer(e, a)
  BY <1>1
<1>3. DOMAIN pushed = Variables
  BY DEF Environment
<1>4. /\ DOMAIN e = Variables
      /\ e.options = pushed.options /\ e.dev = pushed.dev /\ e.tun_mtu = pushed.tun_mtu
      /\ \/ e = pushed
         \/ /\ e.ifconfig_local = None /\ e.ifconfig_remote = None
            /\ e.ifconfig_netmask = None /\ e.ifconfig_ipv6_local = None
  <2>1. CASE e = pushed
    BY <1>3, <2>1
  <2>2. CASE e = WithoutDevice(pushed)
    BY <1>3, <2>2 DEF WithoutDevice, Variables
  <2>. QED
    BY <1>1, <2>1, <2>2
<1>5. /\ t.env.options = e.options /\ t.env.dev = e.dev /\ t.env.tun_mtu = e.tun_mtu
      /\ t.env.ifconfig_local = e.ifconfig_local /\ t.env.ifconfig_remote = e.ifconfig_remote
      /\ t.env.ifconfig_netmask = e.ifconfig_netmask
      /\ t.env.ifconfig_ipv6_local = e.ifconfig_ipv6_local
      /\ t.env.trusted_ip = IF a \in V4 THEN a ELSE None
      /\ t.env.trusted_ip6 = IF a \in V6 THEN a ELSE None
  BY <1>2, <1>4 DEF WithPeer, Variables
<1>6. TrustedRemote(t.env) = a
  BY <1>1, <1>5, HelperAssumption DEF TrustedRemote, HelperAssumption
<1>. QED
  BY <1>1, <1>4, <1>5, <1>6

\* The arguments of a restart are there.
LEMMA ArgumentsAreThere == Environment(pushed) => UpArgs(pushed) # None
<1>. SUFFICES ASSUME Environment(pushed) PROVE UpArgs(pushed) # None
  OBVIOUS
<1>1. /\ {pushed.ifconfig_local, pushed.ifconfig_remote, pushed.ifconfig_netmask}
            \subseteq V4 \cup {None}
  BY HelperAssumption DEF Environment, HelperAssumption
<1>2. \A value \in V4 \cup {None} : Text(value) \in V4 \cup {""}
  BY DEF Text
<1>3. UpArgs(pushed) \in Arguments
  BY <1>1, <1>2 DEF UpArgs, Arguments
<1>. QED
  BY <1>3, NoneIsNotSent

\* A tunnel with an IPv4 address keeps it.
LEMMA TellingKeepsAddress ==
    ASSUME Environment(pushed), HasIp4Address(pushed, None), NEW t \in Tellings
    PROVE  /\ HelperError(t.env, t.args) = None
           /\ \A k \in {"address", "prefix", "ptp"} :
                  Ip4Config(t.env, t.args)[k] = Ip4Config(pushed, None)[k]
<1>. DEFINE local == pushed.ifconfig_local
            remote == pushed.ifconfig_remote
            netmask == pushed.ifconfig_netmask
<1>0. HelperAssumption
  BY HelperAssumption
<1>1. /\ local \in V4 /\ local # None /\ local # ""
      /\ remote \in V4 \cup {None} /\ netmask \in Masks \cup {None} /\ None \in {netmask, remote}
      /\ None \notin V4 /\ None \notin Masks /\ "" \notin V4 /\ "" \notin Masks /\ Masks \subseteq V4
  BY <1>0 DEF Environment, HasIp4Address, Local4, FromArgs, HelperAssumption
<1>2. Local4(t.env, t.args) = local /\ Local4(pushed, None) = local
  <2>1. UpArgs(pushed)[1] = local
    BY <1>1 DEF UpArgs, Text
  <2>. HIDE DEF local
  <2>2. \/ t.env.ifconfig_local = local
        \/ t.env.ifconfig_local = None /\ t.args = UpArgs(pushed)
    BY TellingFields DEF local
  <2>3. UpArgs(pushed) # None
    BY ArgumentsAreThere
  <2>4. Local4(t.env, t.args) = local
    BY <1>1, <2>1, <2>2, <2>3 DEF Local4, FromArgs
  <2>5. Local4(pushed, None) = local
    BY DEF Local4, FromArgs, local
  <2>. QED
    BY <2>4, <2>5
<1>3. HelperError(t.env, t.args) = None
  <2>1. TrustedRemote(t.env) # None
    BY <1>0, TellingFields DEF HelperAssumption
  <2>2. t.env.dev \notin {None, ""}
    BY TellingFields DEF Environment
  <2>3. t.env.ifconfig_ipv6_local \in V6 \cup {None, ""}
    BY TellingFields DEF Environment
  <2>. QED
    BY <1>1, <1>2, <2>1, <2>2, <2>3 DEF HelperError, HasIp4Address
<1>4. HasIp4Address(t.env, t.args)
  BY <1>1, <1>2 DEF HasIp4Address
<1>5. Remote4(pushed, None) = remote
  BY DEF Remote4, FromArgs
<1>6. UpArgs(pushed)[2] = IF netmask # None THEN netmask ELSE IF remote = None THEN "" ELSE remote
  BY DEF UpArgs, Text
<1>7. /\ Ip4Prefix(t.env, t.args) = Ip4Prefix(pushed, None)
      /\ Remote4(t.env, t.args) \in V4 \ Masks <=> Remote4(pushed, None) \in V4 \ Masks
      /\ Remote4(t.env, t.args) \in V4 \ Masks =>
             Remote4(t.env, t.args) = Remote4(pushed, None)
  <2>1. \/ Remote4(t.env, t.args) = remote /\ t.env.ifconfig_netmask = netmask
        \/ /\ remote = None /\ Remote4(t.env, t.args) = UpArgs(pushed)[2]
           /\ t.env.ifconfig_netmask = netmask
        \/ /\ Remote4(t.env, t.args) = UpArgs(pushed)[2]
           /\ t.env.ifconfig_netmask = None
    BY TellingFields, ArgumentsAreThere DEF Remote4, FromArgs
  <2>. HIDE DEF local, remote, netmask
  <2>2. Ip4Prefix(pushed, None) =
            IF remote \in Masks THEN Prefix[remote]
            ELSE IF netmask \in V4 THEN Prefix[netmask] ELSE "32"
    BY <1>5 DEF Ip4Prefix, When, netmask
  <2>3. Ip4Prefix(t.env, t.args) =
            IF Remote4(t.env, t.args) \in Masks THEN Prefix[Remote4(t.env, t.args)]
            ELSE IF t.env.ifconfig_netmask \in V4 THEN Prefix[t.env.ifconfig_netmask] ELSE "32"
    BY <1>4 DEF Ip4Prefix, When
  <2>4. CASE netmask = None
    <3>1. UpArgs(pushed)[2] = IF remote = None THEN "" ELSE remote
      BY <1>6, <2>4
    <3>2. Remote4(t.env, t.args) = remote \/ (remote = None /\ Remote4(t.env, t.args) = "")
      BY <2>1, <3>1
    <3>3. t.env.ifconfig_netmask = None
      BY <2>1, <2>4
    <3>. QED
      BY <1>1, <1>5, <2>2, <2>3, <2>4, <3>2, <3>3
  <2>5. CASE netmask # None
    <3>1. remote = None /\ netmask \in Masks /\ netmask \in V4 /\ UpArgs(pushed)[2] = netmask
      BY <1>1, <1>6, <2>5
    <3>. QED
      BY <1>1, <1>5, <2>1, <2>2, <2>3, <3>1
  <2>. QED
    BY <2>4, <2>5
<1>8. /\ Ip4Config(t.env, t.args).address = Ip4Config(pushed, None).address
      /\ Ip4Config(t.env, t.args).prefix = Ip4Config(pushed, None).prefix
      /\ Ip4Config(t.env, t.args).ptp = Ip4Config(pushed, None).ptp
  <2>1. Ip4Config(t.env, t.args).address = Ip4Config(pushed, None).address
    BY <1>2, <1>4 DEF Ip4Config
  <2>2. Ip4Config(t.env, t.args).prefix = Ip4Config(pushed, None).prefix
    BY <1>7 DEF Ip4Config
  <2>3. Ip4Config(t.env, t.args).ptp = Ip4Config(pushed, None).ptp
    BY <1>7 DEF Ip4Config, When
  <2>. QED
    BY <2>1, <2>2, <2>3
<1>. QED
  BY <1>3, <1>8

\* Each call is one of the configurations, and leaves what follows it.
LEMMA StageStep ==
    ASSUME NEW env, NEW args, NEW st \in Stages(env, args), st[2] # <<>>
    PROVE  LET call == Head(st[2])
           IN  /\ <<st[1] \cup {call[1]}, Tail(st[2])>> \in Stages(env, args)
               /\ \/ call = <<"SetConfig", Config(env, args)>> /\ st[1] = {}
                  \/ call = <<"SetIp4Config", Ip4Config(env, args)>> /\ "SetConfig" \in st[1]
                  \/ /\ call = <<"SetIp6Config", Ip6Config(env, args)>> /\ "SetConfig" \in st[1]
                     /\ HasIp6Address(env)
<1>. DEFINE general == <<"SetConfig", Config(env, args)>>
            ip4 == <<"SetIp4Config", Ip4Config(env, args)>>
            ip6 == <<"SetIp6Config", Ip6Config(env, args)>>
            Follows(next) == <<st[1] \cup {Head(st[2])[1]}, Tail(st[2])>> = next
<1>1. CASE ~HasIp6Address(env)
  <2>1. CASE st = <<{}, <<general, ip4>>>>
    <3>1. Head(st[2]) = general /\ Follows(<<{"SetConfig"}, <<ip4>>>>)
      BY <2>1
    <3>. QED
      BY <1>1, <2>1, <3>1 DEF Stages
  <2>2. CASE st = <<{"SetConfig"}, <<ip4>>>>
    <3>1. Head(st[2]) = ip4 /\ Follows(<<{"SetConfig", "SetIp4Config"}, <<>>>>)
      BY <2>2
    <3>. QED
      BY <1>1, <2>2, <3>1 DEF Stages
  <2>. QED
    BY <1>1, <2>1, <2>2 DEF Stages
<1>2. CASE HasIp6Address(env) /\ ~HasIp4Address(env, args)
  <2>1. CASE st = <<{}, <<general, ip6>>>>
    <3>1. Head(st[2]) = general /\ Follows(<<{"SetConfig"}, <<ip6>>>>)
      BY <2>1
    <3>. QED
      BY <1>2, <2>1, <3>1 DEF Stages
  <2>2. CASE st = <<{"SetConfig"}, <<ip6>>>>
    <3>1. Head(st[2]) = ip6 /\ Follows(<<{"SetConfig", "SetIp6Config"}, <<>>>>)
      BY <2>2
    <3>. QED
      BY <1>2, <2>2, <3>1 DEF Stages
  <2>. QED
    BY <1>2, <2>1, <2>2 DEF Stages
<1>3. CASE HasIp6Address(env) /\ HasIp4Address(env, args)
  <2>1. CASE st = <<{}, <<general, ip4, ip6>>>>
    <3>1. Head(st[2]) = general /\ Follows(<<{"SetConfig"}, <<ip4, ip6>>>>)
      BY <2>1
    <3>. QED
      BY <1>3, <2>1, <3>1 DEF Stages
  <2>2. CASE st = <<{"SetConfig"}, <<ip4, ip6>>>>
    <3>1. Head(st[2]) = ip4 /\ Follows(<<{"SetConfig", "SetIp4Config"}, <<ip6>>>>)
      BY <2>2
    <3>. QED
      BY <1>3, <2>2, <3>1 DEF Stages
  <2>3. CASE st = <<{"SetConfig", "SetIp4Config"}, <<ip6>>>>
    <3>1. Head(st[2]) = ip6 /\ Follows(<<{"SetConfig", "SetIp4Config", "SetIp6Config"}, <<>>>>)
      BY <2>3
    <3>. QED
      BY <1>3, <2>3, <3>1 DEF Stages
  <2>4. \/ st \in {<<{}, <<general, ip4, ip6>>>>, <<{"SetConfig"}, <<ip4, ip6>>>>,
                  <<{"SetConfig", "SetIp4Config"}, <<ip6>>>>}
        \/ st = <<{"SetConfig", "SetIp4Config", "SetIp6Config"}, <<>>>>
    BY <1>3 DEF Stages
  <2>5. st # <<{"SetConfig", "SetIp4Config", "SetIp6Config"}, <<>>>>
    OBVIOUS
  <2>. QED
    BY <2>1, <2>2, <2>3, <2>4, <2>5
<1>. QED
  BY <1>1, <1>2, <1>3

\* The calls that are made are the first stage.
LEMMA FirstStage ==
    ASSUME NEW env, NEW args
    PROVE  <<{}, Calls(env, args)>> \in Stages(env, args)
  BY DEF Calls, Stages

\* When no call is left, what was announced has been sent.
LEMMA LastStage ==
    ASSUME NEW env, NEW args, HelperError(env, args) = None, NEW sent,
           <<sent, <<>>>> \in Stages(env, args)
    PROVE  sent \ {"SetConfig"} = Announced(Config(env, args))
<1>1. HasIp4Address(env, args) \/ HasIp6Address(env)
  BY HelperAssumption DEF HelperError, HelperAssumption, HelperErrors
<1>2. Config(env, args).families =
          {f \in {"has-ip4", "has-ip6"} :
              IF f = "has-ip4" THEN HasIp4Address(env, args) ELSE HasIp6Address(env)}
  BY DEF Config, Families
<1>3. sent = {"SetConfig"} \cup (IF HasIp4Address(env, args) THEN {"SetIp4Config"} ELSE {})
                           \cup (IF HasIp6Address(env) THEN {"SetIp6Config"} ELSE {})
  <2>1. CASE ~HasIp6Address(env)
    BY <1>1, <2>1 DEF Stages
  <2>2. CASE HasIp6Address(env) /\ ~HasIp4Address(env, args)
    BY <2>2 DEF Stages
  <2>3. CASE HasIp6Address(env) /\ HasIp4Address(env, args)
    BY <2>3 DEF Stages
  <2>. QED
    BY <2>1, <2>2, <2>3
<1>. QED
  BY <1>2, <1>3 DEF Announced

\* What the server pushes is what openvpn can tell.
PushedInv ==
    Environment(pushed) /\ None \notin Lists(pushed.options) /\ None \notin Configs(pushed)

\* The daemon has only configurations that were told; a helper that has lost
\* no call has delivered what it has called, and all that it announced when
\* no call is left.
SentInv ==
    /\ HasIp4Address(pushed, None) => ovpn.status # "helper"
    /\ DOMAIN nm = Methods
    /\ got \subseteq Methods
    /\ nm.SetIp4Config # None => \E t \in Tellings : nm.SetIp4Config = Ip4Config(t.env, t.args)
    /\ nm.SetIp6Config # None =>
           \E t \in Tellings : /\ nm.SetIp6Config = Ip6Config(t.env, t.args)
                               /\ HasIp6Address(t.env)
    /\ helper # None =>
           /\ helper = [calls |-> helper.calls, lost |-> helper.lost]
           /\ \E t \in Tellings, sent \in SUBSET Methods :
                /\ HelperError(t.env, t.args) = None
                /\ <<sent, helper.calls>> \in Stages(t.env, t.args)
                /\ ~helper.lost /\ sent # {} => /\ nm.SetConfig = Config(t.env, t.args)
                                                /\ got = sent \ {"SetConfig"}
                /\ ~helper.lost /\ helper.calls = <<>> => svc = "STARTED"

\* Before the attempt.
LEMMA SentInit == Init => PushedInv /\ SentInv
<1>. SUFFICES ASSUME Init PROVE PushedInv /\ SentInv
  OBVIOUS
<1>1. PushedInv
  BY ScenariosAssumption, NoneIsNotSent DEF Init, PushedInv
<1>2. /\ ovpn.status = None /\ helper = None /\ got = {} /\ nm = [m \in Methods |-> None]
  BY DEF Init
<1>3. nm.SetIp4Config = None /\ nm.SetIp6Config = None /\ DOMAIN nm = Methods
  BY <1>2 DEF Methods
<1>4. "helper" # None
  BY NoneIsNoStatus DEF Statuses
<1>. QED
  BY <1>1, <1>2, <1>3, <1>4 DEF SentInv

\* Only the start of a helper and its calls concern what is sent.
LEMMA SentFrame ==
    ASSUME AttemptInv, [Next]_vars, ~OpenvpnIsUp, ~HelperCall
    PROVE  /\ UNCHANGED <<nm, got>>
           /\ helper' \in {helper, None}
           /\ ovpn'.status \in {ovpn.status, "ok", "error"}
           /\ helper # None /\ helper' # None => svc' = svc
<1>0. OvpnInv /\ LifeInv
  BY DEF AttemptInv
<1>1. CASE UNCHANGED <<svc, ovpn, helper, nm, got>>
  BY <1>1
<1>2. CASE Connect
  <2>1. UNCHANGED <<nm, got, helper>> /\ helper = None
    BY <1>0, <1>2 DEF Connect, LifeInv
  <2>2. ASSUME NEW text, NEW outcome, RunOpenvpn(text, outcome)
        PROVE  ovpn'.status = ovpn.status
    BY <1>0, <2>2, RunOpenvpnStep DEF OvpnInv
  <2>3. ovpn'.status = ovpn.status
    BY <1>2, <2>2 DEF Connect
  <2>. QED
    BY <2>1, <2>3
<1>3. CASE FetchDone
  <2>1. UNCHANGED <<nm, got, helper>> /\ helper = None
    BY <1>0, <1>3 DEF FetchDone, LifeInv
  <2>2. ASSUME NEW profile, UseProfile(profile)
        PROVE  ovpn'.status = ovpn.status
    <3>1. PICK outcome \in RunOutcomes : RunOpenvpn(profile.text, outcome)
      BY <2>2 DEF UseProfile
    <3>. QED
      BY <1>0, <3>1, RunOpenvpnStep DEF OvpnInv
  <2>3. ovpn'.status = ovpn.status
    BY <1>3, <2>2 DEF FetchDone
  <2>. QED
    BY <2>1, <2>3
<1>4. CASE Disconnect \/ WatchCb
  <2>1. UNCHANGED <<nm, got>>
    BY <1>4 DEF Disconnect, WatchCb
  <2>2. ovpn' \in {ovpn, [ovpn EXCEPT !.st = "gone"]}
    BY <1>4 DEF Disconnect, WatchCb, PluginDisconnect
  <2>3. ovpn'.status = ovpn.status
    BY <1>0, <2>2 DEF OvpnInv
  <2>4. helper' = None \/ UNCHANGED <<helper, svc>>
    BY <1>4 DEF Disconnect, WatchCb, PluginDisconnect
  <2>. QED
    BY <2>1, <2>3, <2>4
<1>5. CASE OpenvpnContacts \/ OpenvpnTriesAgain \/ OpenvpnExits
  <2>1. UNCHANGED <<nm, got, svc>> /\ helper' \in {helper, None}
    BY <1>5 DEF OpenvpnContacts, OpenvpnTriesAgain, OpenvpnExits, daemonVars
  <2>2. ovpn'.status \in {ovpn.status, "ok", "error"}
    BY <1>0, <1>5 DEF OpenvpnContacts, OpenvpnTriesAgain, OpenvpnExits, OvpnInv
  <2>. QED
    BY <2>1, <2>2
<1>6. CASE HelperEnds
  BY <1>6 DEF HelperEnds
<1>7. [Next]_vars => \/ UNCHANGED <<svc, ovpn, helper, nm, got>>
                     \/ Connect \/ FetchDone \/ Disconnect \/ WatchCb
                     \/ OpenvpnContacts \/ OpenvpnTriesAgain \/ OpenvpnIsUp \/ OpenvpnExits
                     \/ HelperCall \/ HelperEnds
  BY DEF Next, vars, daemonVars, tunnelVars, rest, ConnectTimeoutCb, Tick, DnsChanges
<1>. QED
  BY <1>1, <1>2, <1>3, <1>4, <1>5, <1>6, <1>7

\* What a helper has to send can be told.
LEMMA ConfigIsThere ==
    ASSUME PushedInv, NEW t \in Tellings
    PROVE  Config(t.env, t.args) # None
<1>1. /\ TrustedRemote(t.env) \in V4 \cup V6 /\ t.env.dev = pushed.dev
      /\ Mtu(t.env) \in Numbers \cup {None}
      /\ Families(t.env, t.args) \in SUBSET {"has-ip4", "has-ip6"}
  BY TellingFields DEF PushedInv, Mtu, When, Families
<1>2. Config(t.env, t.args) \in Configs(pushed)
  BY <1>1 DEF Config, Configs
<1>. QED
  BY <1>2 DEF PushedInv

\* Whoever the peer is.
LEMMA ToldIsTelling ==
    ASSUME NEW a \in V4 \cup V6
    PROVE  /\ [env |-> WithPeer(pushed, a), args |-> None] \in Tellings
           /\ \A e \in {pushed, WithoutDevice(pushed)} :
                 [env |-> WithPeer(e, a), args |-> UpArgs(pushed)] \in Tellings
  BY DEF Tellings

\* openvpn runs its up script.
LEMMA UpStep ==
    ASSUME AttemptInv, TableInv, PushedInv, SentInv, OpenvpnIsUp
    PROVE  SentInv'
<1>0. /\ OvpnInv /\ UNCHANGED <<pushed, nm, got>> /\ Environment(pushed)
      /\ Tellings' = Tellings
  BY DEF AttemptInv, OpenvpnIsUp, scenarioVars, PushedInv, Tellings, WithPeer, WithoutDevice, UpArgs, Text
<1>1. PICK env \in {pushed} \cup (IF ovpn.restart THEN {WithoutDevice(pushed)} ELSE {}) :
        LET own == WithPeer(env, ovpn.contact.daddr)
        IN  IF HelperError(own, HelperArgs) = None
            THEN /\ ovpn' = [ovpn EXCEPT !.st = "up"]
                 /\ helper' = [calls |-> Calls(own, HelperArgs), lost |-> FALSE]
            ELSE /\ ovpn' = [ovpn EXCEPT !.st = "exited", !.status = "helper"]
                 /\ UNCHANGED helper
  BY DEF OpenvpnIsUp
<1>. DEFINE t == [env |-> WithPeer(env, ovpn.contact.daddr), args |-> HelperArgs]
<1>2. t \in Tellings
  <2>1. ovpn.contact.daddr \in V4 \cup V6
    BY DEF TableInv, OpenvpnIsUp
  <2>2. CASE ovpn.restart
    <3>1. HelperArgs = UpArgs(pushed) /\ env \in {pushed, WithoutDevice(pushed)}
      BY <2>2 DEF HelperArgs
    <3>. QED
      BY <2>1, <3>1, ToldIsTelling
  <2>3. CASE ~ovpn.restart
    <3>1. HelperArgs = None /\ env = pushed
      BY <2>3 DEF HelperArgs
    <3>. QED
      BY <2>1, <3>1, ToldIsTelling
  <2>. QED
    BY <2>2, <2>3
<1>3. t.env = WithPeer(env, ovpn.contact.daddr) /\ t.args = HelperArgs
  OBVIOUS
<1>. HIDE DEF t
<1>4. CASE HelperError(t.env, t.args) = None
  <2>1. /\ ovpn' = [ovpn EXCEPT !.st = "up"]
        /\ helper' = [calls |-> Calls(t.env, t.args), lost |-> FALSE]
    BY <1>1, <1>3, <1>4
  <2>2. ovpn'.status = ovpn.status
    BY <1>0, <2>1 DEF OvpnInv
  <2>3. helper'.calls = Calls(t.env, t.args) /\ Calls(t.env, t.args) # <<>>
        /\ helper' = [calls |-> helper'.calls, lost |-> helper'.lost]
    BY <2>1 DEF Calls
  <2>4. <<{}, helper'.calls>> \in Stages(t.env, t.args) /\ {} \in SUBSET Methods
    BY <2>3, FirstStage
  <2>. QED
    BY <1>0, <1>2, <1>4, <2>2, <2>3, <2>4 DEF SentInv
<1>5. CASE HelperError(t.env, t.args) # None
  <2>1. ~HasIp4Address(pushed, None)
    BY <1>0, <1>2, <1>5, TellingKeepsAddress
  <2>2. helper' = None
    BY <1>1, <1>3, <1>5 DEF OpenvpnIsUp, AttemptInv, LifeInv
  <2>. QED
    BY <1>0, <2>1, <2>2 DEF SentInv
<1>. QED
  BY <1>4, <1>5

\* A call of the helper is lost or arrives.
LEMMA CallStep ==
    ASSUME PushedInv, SentInv, HelperCall
    PROVE  SentInv'
<1>0. /\ UNCHANGED <<pushed, ovpn>> /\ helper # None /\ helper.calls # <<>>
      /\ Tellings' = Tellings
      /\ helper = [calls |-> helper.calls, lost |-> helper.lost]
  BY DEF HelperCall, scenarioVars, SentInv, Tellings
<1>1. PICK t \in Tellings, sent \in SUBSET Methods :
        /\ HelperError(t.env, t.args) = None
        /\ <<sent, helper.calls>> \in Stages(t.env, t.args)
        /\ ~helper.lost /\ sent # {} => /\ nm.SetConfig = Config(t.env, t.args)
                                        /\ got = sent \ {"SetConfig"}
  BY <1>0 DEF SentInv
<1>. DEFINE call == Head(helper.calls)
            after == sent \cup {call[1]}
<1>2. /\ <<after, Tail(helper.calls)>> \in Stages(t.env, t.args)
      /\ \/ call = <<"SetConfig", Config(t.env, t.args)>> /\ sent = {}
         \/ call = <<"SetIp4Config", Ip4Config(t.env, t.args)>> /\ "SetConfig" \in sent
         \/ /\ call = <<"SetIp6Config", Ip6Config(t.env, t.args)>> /\ "SetConfig" \in sent
            /\ HasIp6Address(t.env)
  <2>1. <<sent, helper.calls>>[2] # <<>> /\ <<sent, helper.calls>>[1] = sent
    BY <1>0
  <2>. QED
    BY <1>1, <2>1, StageStep
<1>3. after \in SUBSET Methods /\ call[1] \in Methods
  <2>1. call[1] \in {"SetConfig", "SetIp4Config", "SetIp6Config"}
    <3>. HIDE DEF call
    <3>. QED
      BY <1>2
  <2>. HIDE DEF call
  <2>. QED
    BY <2>1 DEF Methods
<1>4. CASE helper' = [calls |-> Tail(helper.calls), lost |-> TRUE] /\ UNCHANGED <<nm, got>>
  <2>1. helper'.calls = Tail(helper.calls) /\ helper'.lost = TRUE
        /\ helper' = [calls |-> helper'.calls, lost |-> helper'.lost]
    BY <1>4
  <2>. QED
    BY <1>0, <1>1, <1>2, <1>3, <1>4, <2>1 DEF SentInv
<1>5. CASE /\ helper' = [helper EXCEPT !.calls = Tail(@)]
           /\ nm' = [nm EXCEPT ![call[1]] = call[2]]
           /\ got' = IF call[1] = "SetConfig" THEN {} ELSE got \cup {call[1]}
           /\ got' = AnnouncedSoFar(nm') => svc' = "STARTED"
  <2>1. helper'.calls = Tail(helper.calls) /\ helper'.lost = helper.lost
        /\ helper' = [calls |-> helper'.calls, lost |-> helper'.lost]
    BY <1>0, <1>5
  <2>2. DOMAIN nm = Methods /\ got \subseteq Methods
    BY DEF SentInv
  <2>3. DOMAIN nm' = Methods
    BY <1>5, <2>2
  <2>4. got' \subseteq Methods
    BY <1>3, <1>5, <2>2
  <2>5. \A m \in Methods : nm'[m] = IF m = call[1] THEN call[2] ELSE nm[m]
    BY <1>5, <2>2
  <2>6. nm'.SetIp4Config # None => \E u \in Tellings : nm'.SetIp4Config = Ip4Config(u.env, u.args)
    <3>1. nm'.SetIp4Config = nm.SetIp4Config \/ nm'.SetIp4Config = Ip4Config(t.env, t.args)
      BY <1>2, <2>5 DEF Methods
    <3>. QED
      BY <3>1 DEF SentInv
  <2>7. nm'.SetIp6Config # None =>
            \E u \in Tellings : nm'.SetIp6Config = Ip6Config(u.env, u.args) /\ HasIp6Address(u.env)
    <3>1. \/ nm'.SetIp6Config = nm.SetIp6Config
          \/ nm'.SetIp6Config = Ip6Config(t.env, t.args) /\ HasIp6Address(t.env)
      BY <1>2, <2>5 DEF Methods
    <3>. QED
      BY <3>1 DEF SentInv
  <2>8. ~helper.lost => nm'.SetConfig = Config(t.env, t.args) /\ got' = after \ {"SetConfig"}
    <3>1. CASE call = <<"SetConfig", Config(t.env, t.args)>> /\ sent = {}
      BY <1>5, <2>5, <3>1 DEF Methods
    <3>2. CASE call[1] \in {"SetIp4Config", "SetIp6Config"} /\ "SetConfig" \in sent
      BY <1>1, <1>5, <2>5, <3>2 DEF Methods
    <3>. QED
      BY <1>2, <3>1, <3>2
  <2>9. ~helper.lost /\ Tail(helper.calls) = <<>> => svc' = "STARTED"
    <3>. SUFFICES ASSUME ~helper.lost, Tail(helper.calls) = <<>> PROVE svc' = "STARTED"
      OBVIOUS
    <3>1. after \ {"SetConfig"} = Announced(Config(t.env, t.args))
      BY <1>1, <1>2, LastStage
    <3>2. AnnouncedSoFar(nm') = Announced(Config(t.env, t.args))
      BY <2>8, ConfigIsThere DEF AnnouncedSoFar
    <3>. QED
      BY <1>5, <2>8, <3>1, <3>2
  <2>. HIDE DEF call, after
  <2>. QED
    BY <1>0, <1>1, <1>2, <1>3, <2>1, <2>3, <2>4, <2>6, <2>7, <2>8, <2>9 DEF SentInv
<1>. QED
  BY <1>4, <1>5 DEF HelperCall

\* Every step of the attempt.
LEMMA SentStep ==
    ASSUME AttemptInv, TableInv, PushedInv, SentInv, [Next]_vars
    PROVE  PushedInv' /\ SentInv'
<1>1. UNCHANGED pushed
  BY NextOnFetch
<1>2. PushedInv'
  BY <1>1 DEF PushedInv
<1>3. CASE ~OpenvpnIsUp /\ ~HelperCall
  <2>1. /\ UNCHANGED <<nm, got>> /\ helper' \in {helper, None}
        /\ ovpn'.status \in {ovpn.status, "ok", "error"}
        /\ helper # None /\ helper' # None => svc' = svc
    BY <1>3, SentFrame
  <2>2. Tellings' = Tellings
    BY <1>1 DEF Tellings
  <2>. QED
    BY <1>1, <1>2, <2>1, <2>2 DEF SentInv
<1>. QED
  BY <1>2, <1>3, UpStep, CallStep

\* What holds of the contents.
ContentInv == AttemptInv /\ TableInv /\ PushedInv /\ SentInv

\* Every activation.
LEMMA ContentInvHolds == Spec => []ContentInv
<1>1. Init => ContentInv
  BY AttemptInitHolds, TableInit, SentInit DEF ContentInv
<1>2. ContentInv /\ [Next]_vars => ContentInv'
  BY AttemptStep, LifeStep, TableStep, SentStep DEF ContentInv, AttemptInv
<1>. QED
  BY <1>1, <1>2, PTL DEF Spec

\* For whatever the server pushes, in whatever mixture of families: a helper
\* that lost no call leaves the attempt established (main, SetConfig).
THEOREM DeliveredIsAlwaysStarted == Spec => []DeliveredIsStarted
<1>1. ContentInv => DeliveredIsStarted
  BY DEF ContentInv, SentInv, DeliveredIsStarted
<1>. QED
  BY <1>1, ContentInvHolds, PTL

\* For whatever the server pushes: a restart keeps the IPv4 address, and does
\* not make the helper fail.
THEOREM RestartsKeepAddress == Spec => []RestartKeepsAddress
<1>1. ContentInv => RestartKeepsAddress
  BY TellingKeepsAddress DEF ContentInv, PushedInv, SentInv, RestartKeepsAddress
<1>. QED
  BY <1>1, ContentInvHolds, PTL

\* The name servers of a family that the helper sends are those pushed as DNS.
LEMMA DnsIsListed ==
    ASSUME PushedInv, NEW t \in Tellings, NEW family
    PROVE  LET list == NonEmpty(Dns(t.env, family))
           IN  {list[i] : i \in IF list = None THEN {} ELSE DOMAIN list} = Pushed("DNS", family)
<1>. DEFINE options == pushed.options
            kept == {j \in DOMAIN options : options[j].kind = "DNS" /\ options[j].value \in family}
            list == [j \in kept |-> options[j].value]
<1>1. t.env.options = options /\ \A j \in DOMAIN options : options[j].kind \notin {None, ""}
  BY TellingFields DEF PushedInv, Environment
<1>2. Pushed("DNS", family) = {options[j].value : j \in kept}
  BY DEF Pushed
<1>3. list \in Lists(options)
  <2>1. kept \in SUBSET DOMAIN options
    OBVIOUS
  <2>2. list \in [kept -> {options[j].value : j \in kept}]
    OBVIOUS
  <2>. HIDE DEF list, kept
  <2>. QED
    BY <2>1, <2>2 DEF Lists
<1>4. list # None
  <2>. HIDE DEF list
  <2>. QED
    BY <1>3 DEF PushedInv, options
<1>. HIDE DEF options
<1>5. Options(t.env, "DNS") = [j \in {k \in DOMAIN options : options[k].kind = "DNS"} |-> options[j].value]
  <2>1. {j \in DOMAIN options : options[j].kind \in {None, ""}} = {}
    BY <1>1
  <2>2. Before(options, {}) = DOMAIN options
    BY DEF Before
  <2>. QED
    BY <1>1, <2>1, <2>2 DEF Options
<1>6. Dns(t.env, family) = list
  BY <1>5 DEF Dns, Within
<1>7. DOMAIN list = kept /\ {list[j] : j \in kept} = {options[j].value : j \in kept}
  OBVIOUS
<1>8. NonEmpty(list) = IF kept # {} THEN list ELSE None
  BY <1>7 DEF NonEmpty, When
<1>. HIDE DEF list, kept
<1>9. CASE kept = {}
  BY <1>2, <1>6, <1>8, <1>9
<1>10. CASE kept # {}
  BY <1>2, <1>4, <1>6, <1>7, <1>8, <1>10
<1>. QED
  BY <1>9, <1>10

\* For whatever the server pushes, in whatever order: the name servers in a
\* configuration that NetworkManager has are those that were pushed as DNS
\* and belong to its family, and no others.
THEOREM DnsOptionsAlwaysArrive == Spec => []DnsOptionsArrive
<1>1. ASSUME ContentInv, nm.SetIp4Config # None
      PROVE  Arrived("SetIp4Config", "dns") = Pushed("DNS", V4)
  <2>1. PICK t \in Tellings : nm.SetIp4Config = Ip4Config(t.env, t.args)
    BY <1>1 DEF ContentInv, SentInv
  <2>2. nm["SetIp4Config"]["dns"] = NonEmpty(Dns(t.env, V4))
    BY <2>1 DEF Ip4Config
  <2>. QED
    BY <1>1, <2>2, DnsIsListed DEF ContentInv, Arrived
<1>2. ASSUME ContentInv, nm.SetIp6Config # None
      PROVE  Arrived("SetIp6Config", "dns") = Pushed("DNS", V6)
  <2>1. PICK t \in Tellings : nm.SetIp6Config = Ip6Config(t.env, t.args) /\ HasIp6Address(t.env)
    BY <1>2 DEF ContentInv, SentInv
  <2>2. nm["SetIp6Config"]["dns"] = NonEmpty(Dns(t.env, V6))
    BY <2>1 DEF Ip6Config, When
  <2>. QED
    BY <1>2, <2>2, DnsIsListed DEF ContentInv, Arrived
<1>3. ContentInv => DnsOptionsArrive
  BY <1>1, <1>2 DEF DnsOptionsArrive
<1>. QED
  BY <1>3, ContentInvHolds, PTL

(***************************************************************************)
(* The types.                                                              *)
(***************************************************************************)
FlagsType == failed \in BOOLEAN /\ drop \in BOOLEAN /\ timer \in Nat \cup {None}

\* Every step of the attempt.
LEMMA FlagsTypeStep ==
    ASSUME FlagsType, clock \in Nat, [Next]_vars
    PROVE  FlagsType'
<1>1. clock + ConnectTimeout \in Nat
  BY ActivationAssumption
<1>2. ASSUME NEW text, NEW outcome, RunOpenvpn(text, outcome)
      PROVE  timer' \in Nat \cup {None}
  BY <1>1, <1>2, RunOpenvpnStep DEF FlagsType
<1>3. CASE UNCHANGED <<failed, drop, timer>>
  BY <1>3 DEF FlagsType
<1>4. CASE Connect
  <2>1. timer' \in Nat \cup {None}
    BY <1>2, <1>4 DEF Connect, FlagsType
  <2>. QED
    BY <1>4, <2>1 DEF Connect, FlagsType
<1>5. CASE FetchDone
  <2>1. ASSUME NEW profile, UseProfile(profile)
        PROVE  timer' \in Nat \cup {None} /\ failed' \in BOOLEAN
    BY <1>2, <2>1 DEF UseProfile
  <2>2. UNCHANGED drop /\ timer' \in Nat \cup {None} /\ failed' \in BOOLEAN
    BY <1>5, <2>1 DEF FetchDone, FlagsType
  <2>. QED
    BY <2>2 DEF FlagsType
<1>6. CASE Disconnect \/ WatchCb
  BY <1>6 DEF Disconnect, WatchCb, PluginDisconnect, FlagsType
<1>7. CASE ConnectTimeoutCb
  BY <1>7 DEF ConnectTimeoutCb, FlagsType
<1>8. CASE OpenvpnIsUp
  BY <1>8 DEF OpenvpnIsUp, FlagsType
<1>9. CASE HelperCall
  BY <1>9 DEF HelperCall, FlagsType
<1>. QED
  BY <1>3, <1>4, <1>5, <1>6, <1>7, <1>8, <1>9
  DEF Next, vars, rest, daemonVars, OpenvpnContacts, OpenvpnTriesAgain, OpenvpnExits,
      HelperEnds, Tick, DnsChanges

\* The state of an activation has the types that are written beside the
\* variables.
THEOREM TypesHold == Spec => []TypeOK
<1>. DEFINE Inv == SecretsInv /\ FlagsType
<1>1. Init => Inv
  <2>1. Init => FlagsType
    BY DEF Init, FlagsType
  <2>. QED
    BY <2>1, SecretsInitHolds DEF Init
<1>2. Inv /\ ContentInv /\ [Next]_vars => Inv'
  BY NextKeepsSecrets, SecretsStep, FlagsTypeStep DEF ContentInv, AttemptInv, FetchInv, FetchTypeOK
<1>3. Inv /\ ContentInv => TypeOK
  BY DEF SecretsInv, FlagsType, ContentInv, AttemptInv, FetchInv, OvpnInv, LifeInv, TableInv,
         SentInv, Ovpn, TypeOK
<1>. QED
  BY <1>1, <1>2, <1>3, ContentInvHolds, PTL DEF Spec
=============================================================================
