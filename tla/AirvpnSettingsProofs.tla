------------------------- MODULE AirvpnSettingsProofs -------------------------
(***************************************************************************)
(* The round trip of a connection through the editor, for every value of   *)
(* its items.                                                              *)
(***************************************************************************)
EXTENDS AirvpnSettings, TLAPS

\* The parts of TextsAssumption that the proofs use, one by one.
LEMMA TextsFacts ==
    /\ None \notin Texts /\ {"", "earth", "udp", "tcp", "443", "10", "60", "yes", "no"} \subseteq Texts
    /\ Format \in [Seconds -> Texts]
    /\ \A n \in Seconds : Strtol[Format[n]] = n
    /\ Strtol[""] = 0 /\ Strtol["443"] = 443 /\ Strtol["10"] = 10 /\ Strtol["60"] = 60
    /\ Fold["earth"] = "earth"
    /\ TunesPing \subseteq Texts \ {""}
  BY TextsAssumption, Zenon DEF Literals

\* NULL is none of the literals of the code.
LEMMA NoneIsNoLiteral ==
    /\ {"", "earth", "udp", "tcp", "443", "10", "60", "yes", "no"} \subseteq Texts
    /\ None \notin {"", "earth", "udp", "tcp", "443", "10", "60", "yes", "no"}
<1>1. /\ None \notin Texts
      /\ {"", "earth", "udp", "tcp", "443", "10", "60", "yes", "no"} \subseteq Texts
  BY TextsFacts, Zenon
<1> QED
  BY <1>1

\* Neither NULL nor an empty text tunes ping.
LEMMA TunesPingFacts == None \notin TunesPing /\ "" \notin TunesPing
<1>1. TunesPing \subseteq Texts \ {""} /\ None \notin Texts
  BY TextsFacts, Zenon
<1> QED
  BY <1>1, Zenon

\* The defaults lie within their ranges, and what is no number does not.
LEMMA DefaultsInRange ==
    /\ 10 \in Seconds /\ 60 \in Seconds /\ 0 \notin Seconds
    /\ 443 \in Ports /\ 0 \notin Ports
  BY SecondsAssumption, SMT DEF Seconds, Ports

\* An adjustment does not change what is in its range.
LEMMA ClampInRange == \A n \in Seconds : Clamp(n) = n
  BY SecondsAssumption DEF Clamp, Seconds

\* What printf writes is a text of a number, and so not empty.
LEMMA FormatWrites ==
    ASSUME NEW n \in Seconds
    PROVE  Format[n] \in Texts /\ Format[n] # "" /\ Strtol[Format[n]] = n
<1>1. Format \in [Seconds -> Texts] /\ \A m \in Seconds : Strtol[Format[m]] = m
  BY TextsFacts, Zenon
<1>2. Strtol[""] = 0 /\ 0 \notin Seconds
  <2>1. 0 \notin Seconds
    BY DefaultsInRange, Zenon
  <2> QED
    BY <2>1, TextsFacts, Zenon
<1>3. Format[n] \in Texts
  BY <1>1
<1>4. Format[n] # ""
  BY <1>1, <1>2, Zenon
<1> QED
  BY <1>1, <1>3, <1>4, Zenon

\* A number that validation accepts is shown as it is, and written so that
\* it is read back as the same number.
LEMMA SpinRoundTrip ==
    ASSUME NEW value \in Value, value # None => Strtol[value] \in Seconds,
           NEW default \in Texts, NEW n \in Seconds, Strtol[default] = n
    PROVE  /\ Spin(value, n) \in Seconds
           /\ Strtol[Format[Spin(value, n)]] = Strtol[Default(value, default)]
<1>1. CASE value = None
  <2>1. Spin(value, n) = n /\ Default(value, default) = default
    BY <1>1, Zenon DEF Spin, Default
  <2> QED
    BY <2>1, FormatWrites, Zenon
<1>2. CASE value # None
  <2>1. Strtol[value] \in Seconds
    BY <1>2
  <2>2. value # ""
    <3>1. 0 \notin Seconds
      BY DefaultsInRange, Zenon
    <3> QED
      BY <2>1, <3>1, TextsFacts, Zenon
  <2>3. Default(value, default) = value
    BY <1>2, <2>2, Zenon DEF Default
  <2>4. Spin(value, n) = Clamp(Strtol[value])
    BY <1>2, <2>2, Zenon DEF Spin
  <2>5. Spin(value, n) = Strtol[value]
    BY <2>1, <2>4, ClampInRange, Zenon
  <2> QED
    BY <2>1, <2>3, <2>5, FormatWrites, Zenon
<1> QED
  BY <1>1, <1>2

(***************************************************************************)
(* The operators of the editor keep the types.                             *)
(***************************************************************************)
\* Default yields one of its arguments.
LEMMA DefaultType ==
    ASSUME NEW S, NEW value \in S \cup {None}, NEW default \in S
    PROVE  Default(value, default) \in S
  BY Zenon DEF Default

\* A spin button shows a number of its range, whatever the text.
LEMMA SpinType ==
    ASSUME NEW value \in Value, NEW n \in Seconds
    PROVE  Spin(value, n) \in Seconds
<1>1. \A m \in Int : Clamp(m) \in Seconds
  BY SecondsAssumption DEF Clamp, Seconds
<1>2. \A t \in Texts : Strtol[t] \in Int
  <2>1. Strtol \in [Texts -> Int]
    BY TextsAssumption, Zenon
  <2> QED
    BY <2>1
<1>3. value \in {None, ""} \/ value \in Texts
  BY DEF Value
<1> QED
  BY <1>1, <1>2, <1>3, Zenon DEF Spin

\* init_editor_plugin fills every widget with what it can hold.
LEMMA LoadType ==
    ASSUME NEW s \in Setting, NEW found \in BOOLEAN
    PROVE  Load(s, found) \in Widgets
<1>1. /\ s.server \in Value /\ s.device \in Value /\ s.protocol \in Value /\ s.port \in Value
      /\ s.custom_directives \in Value /\ s.ping_interval \in Value /\ s.ping_restart \in Value
      /\ s.api_key \in Value /\ s.flags \in Flags
  BY DEF Setting
<1>2. /\ Default(s.device, "") \in Texts /\ Default(s.port, "443") \in Texts
      /\ Default(s.custom_directives, "") \in Texts /\ Default(s.api_key, "") \in Texts
  <2>1. "" \in Texts /\ "443" \in Texts
    BY TextsFacts, Zenon
  <2>2. /\ s.device \in Texts \cup {None} /\ s.port \in Texts \cup {None}
        /\ s.custom_directives \in Texts \cup {None} /\ s.api_key \in Texts \cup {None}
    BY <1>1, Zenon DEF Value
  <2> QED
    BY <2>1, <2>2, DefaultType, Zenon
<1>3. Spin(s.ping_interval, 10) \in Seconds /\ Spin(s.ping_restart, 60) \in Seconds
  <2>1. 10 \in Seconds /\ 60 \in Seconds
    BY DefaultsInRange, Zenon
  <2> QED
    BY <1>1, <2>1, SpinType
<1>4. (IF s.server \in {None, ""} \/ Fold[s.server] = "earth" THEN "earth" ELSE s.server) \in Texts
  BY <1>1, TextsFacts, Zenon DEF Value
<1>5. (IF s.protocol = "tcp" THEN "tcp" ELSE "udp") \in {"udp", "tcp"}
  OBVIOUS
<1> QED
  BY <1>1, <1>2, <1>3, <1>4, <1>5 DEF Load, Widgets

\* update_connection writes items of texts.
LEMMA UpdateType ==
    ASSUME NEW w \in Widgets
    PROVE  Update(w) \in Setting
<1>1. /\ w.server \in Texts /\ w.device \in Texts /\ w.protocol \in {"udp", "tcp"}
      /\ w.port \in Texts /\ w.directives \in Texts /\ w.keepalive \in BOOLEAN
      /\ w.interval \in Seconds /\ w.restart \in Seconds /\ w.kill \in BOOLEAN
      /\ w.lan \in BOOLEAN /\ w.api_key \in Texts /\ w.storage \in Flags
  BY DEF Widgets
<1>2. \A t \in Texts : Item(t) \in Value
  BY Zenon DEF Item, Value
<1>3. Format[w.interval] \in Value /\ Format[w.restart] \in Value
  BY <1>1, FormatWrites, Zenon DEF Value
<1>4. w.server \in Value /\ w.port \in Value /\ w.protocol \in Value /\ None \in Value
      /\ "yes" \in Value /\ "no" \in Value
  <2>1. "udp" \in Texts /\ "tcp" \in Texts /\ "yes" \in Texts /\ "no" \in Texts
    BY TextsFacts, Zenon
  <2>2. w.protocol \in Texts
    BY <1>1, <2>1, Zenon
  <2> QED
    BY <1>1, <2>1, <2>2, Zenon DEF Value
<1>5. Item(w.device) \in Value /\ Item(w.directives) \in Value /\ Item(w.api_key) \in Value
  BY <1>1, <1>2
<1> DEFINE keepalive == IF w.keepalive THEN None ELSE "no"
           interval  == IF w.keepalive THEN Format[w.interval] ELSE None
           restart   == IF w.keepalive THEN Format[w.restart] ELSE None
           kill      == IF w.kill THEN "yes" ELSE None
           lan       == IF w.kill /\ w.lan THEN "yes" ELSE None
           key       == IF w.storage \in {"none", "agent_owned"} THEN Item(w.api_key) ELSE None
<1>6. keepalive \in Value /\ interval \in Value /\ restart \in Value
  BY <1>3, <1>4, Zenon
<1>7. kill \in Value /\ lan \in Value /\ key \in Value
  BY <1>4, <1>5, Zenon
<1>8. Update(w) = [server |-> w.server, device |-> Item(w.device), protocol |-> w.protocol,
                   port |-> w.port, custom_directives |-> Item(w.directives),
                   keepalive |-> keepalive, ping_interval |-> interval, ping_restart |-> restart,
                   kill_switch |-> kill, allow_lan |-> lan, unknown |-> FALSE,
                   api_key |-> key, flags |-> w.storage]
  BY Zenon DEF Update
<1> HIDE DEF keepalive, interval, restart, kill, lan, key
<1> QED
  BY <1>1, <1>4, <1>5, <1>6, <1>7, <1>8 DEF Setting

(***************************************************************************)
(* The round trip.                                                         *)
(***************************************************************************)
\* An item that is empty counts as one that is absent.
LEMMA DefaultItem ==
    ASSUME NEW value
    PROVE  /\ Item(Default(value, "")) \in {value, None} \ {""}
           /\ Default(Item(Default(value, "")), None) = Default(value, None)
           /\ Item(Default(value, "")) = IF value = "" THEN None ELSE value
<1>1. CASE value \in {None, ""}
  <2>1. Default(value, "") = "" /\ Default(value, None) = None
    BY <1>1, Zenon DEF Default
  <2>2. Item("") = None /\ Default(None, None) = None /\ None # ""
    <3>1. None # ""
      BY NoneIsNoLiteral
    <3> QED
      BY <3>1, Zenon DEF Item, Default
  <2> QED
    BY <1>1, <2>1, <2>2, Zenon
<1>2. CASE value \notin {None, ""}
  <2>1. Default(value, "") = value /\ Default(value, None) = value
    BY <1>2, Zenon DEF Default
  <2>2. Item(value) = value
    BY <1>2, Zenon DEF Item
  <2> QED
    BY <1>2, <2>1, <2>2, Zenon
<1> QED
  BY <1>1, <1>2

\* What the editor has loaded, with a spelling of the server that the list
\* may have brought.
LoadedAs(s, found, server) == [Load(s, found) EXCEPT !.server = server]

\* The cached profile of s is as good for u exactly if no item was missing
\* and the server is spelled as before.
ProfileKept(s, u, server) ==
    CacheKey(u) = CacheKey(s) <=> s.protocol # None /\ s.port # None /\ server = s.server

\* What the editor loads and saves again untouched is accepted and does the
\* same.
THEOREM RoundTrip ==
    ASSUME NEW s \in Setting, NEW found \in BOOLEAN, NEW server \in Texts,
           Fold[server] = Fold[Load(s, found).server],
           Validate(s), s.server # "", found \/ s.kill_switch # "yes",
           NEW u, u = Update(LoadedAs(s, found, server))
    PROVE  /\ Validate(u)
           /\ SameEffect(u, s)
           /\ ProfileKept(s, u, server)
<1> DEFINE w == LoadedAs(s, found, server)
<1>0. u = Update(w)
  OBVIOUS
<1>1. /\ s.server \in Value /\ s.port \in Value /\ s.custom_directives \in Value
      /\ s.ping_interval \in Value /\ s.ping_restart \in Value
  BY DEF Setting
<1>2. /\ s.server # None
      /\ s.protocol \in {None, "udp", "tcp"}
      /\ {s.keepalive, s.kill_switch, s.allow_lan} \subseteq {None, "yes", "no"}
      /\ s.port # None => Strtol[s.port] \in Ports
      /\ s.ping_interval # None => Strtol[s.ping_interval] \in Seconds
      /\ s.ping_restart # None => Strtol[s.ping_restart] \in Seconds
  BY Zenon DEF Validate, InRange
<1>3. /\ w.server = server
      /\ w.device = Default(s.device, "")
      /\ w.protocol = IF s.protocol = "tcp" THEN "tcp" ELSE "udp"
      /\ w.port = Default(s.port, "443")
      /\ w.directives = Default(s.custom_directives, "")
      /\ w.keepalive <=> s.keepalive # "no"
      /\ w.interval = Spin(s.ping_interval, 10)
      /\ w.restart = Spin(s.ping_restart, 60)
      /\ w.kill <=> s.kill_switch = "yes"
      /\ w.lan <=> s.allow_lan = "yes"
      /\ w.api_key = Default(s.api_key, "")
      /\ w.storage = s.flags
  BY <1>2 DEF Load, LoadedAs
<1> HIDE DEF w
<1>4. /\ u.server = w.server
      /\ u.device = Item(w.device)
      /\ u.protocol = w.protocol
      /\ u.port = w.port
      /\ u.custom_directives = Item(w.directives)
      /\ u.keepalive = IF w.keepalive THEN None ELSE "no"
      /\ u.ping_interval = IF w.keepalive THEN Format[w.interval] ELSE None
      /\ u.ping_restart = IF w.keepalive THEN Format[w.restart] ELSE None
      /\ u.kill_switch = IF w.kill THEN "yes" ELSE None
      /\ u.allow_lan = IF w.kill /\ w.lan THEN "yes" ELSE None
      /\ u.unknown = FALSE
      /\ u.api_key = IF w.storage \in {"none", "agent_owned"} THEN Item(w.api_key) ELSE None
      /\ u.flags = w.storage
  <2>1. LET t == Update(w)
        IN  /\ t.server = w.server
            /\ t.device = Item(w.device)
            /\ t.protocol = w.protocol
            /\ t.port = w.port
            /\ t.custom_directives = Item(w.directives)
            /\ t.keepalive = IF w.keepalive THEN None ELSE "no"
            /\ t.ping_interval = IF w.keepalive THEN Format[w.interval] ELSE None
            /\ t.ping_restart = IF w.keepalive THEN Format[w.restart] ELSE None
            /\ t.kill_switch = IF w.kill THEN "yes" ELSE None
            /\ t.allow_lan = IF w.kill /\ w.lan THEN "yes" ELSE None
            /\ t.unknown = FALSE
            /\ t.api_key = IF w.storage \in {"none", "agent_owned"} THEN Item(w.api_key) ELSE None
            /\ t.flags = w.storage
    BY Zenon DEF Update
  <2> QED
    BY <1>0, <2>1, Zenon
<1>5. /\ w.interval \in Seconds /\ w.restart \in Seconds
      /\ Strtol[Format[w.interval]] = Strtol[Default(s.ping_interval, "10")]
      /\ Strtol[Format[w.restart]] = Strtol[Default(s.ping_restart, "60")]
  <2>1. 10 \in Seconds /\ 60 \in Seconds
    BY DefaultsInRange, Zenon
  <2>2. "10" \in Texts /\ "60" \in Texts /\ Strtol["10"] = 10 /\ Strtol["60"] = 60
    BY TextsFacts, Zenon
  <2>3. /\ Spin(s.ping_interval, 10) \in Seconds
        /\ Strtol[Format[Spin(s.ping_interval, 10)]] = Strtol[Default(s.ping_interval, "10")]
    BY <1>1, <1>2, <2>1, <2>2, SpinRoundTrip, Zenon
  <2>4. /\ Spin(s.ping_restart, 60) \in Seconds
        /\ Strtol[Format[Spin(s.ping_restart, 60)]] = Strtol[Default(s.ping_restart, "60")]
    BY <1>1, <1>2, <2>1, <2>2, SpinRoundTrip, Zenon
  <2> QED
    BY <1>3, <2>3, <2>4, Zenon
<1>6. /\ Format[w.interval] \notin {None, ""} /\ Strtol[Format[w.interval]] \in Seconds
      /\ Format[w.restart] \notin {None, ""} /\ Strtol[Format[w.restart]] \in Seconds
  <2>1. None \notin Texts
    BY TextsFacts, Zenon
  <2> QED
    BY <1>5, <2>1, FormatWrites, Zenon
<1>7. w.port \notin {None, ""} /\ Strtol[w.port] \in Ports
  <2>1. 443 \in Ports /\ 0 \notin Ports
    BY DefaultsInRange, Zenon
  <2>2. Strtol["443"] \in Ports /\ Strtol[""] \notin Ports /\ None \notin {"", "443"}
    BY <2>1, TextsFacts, NoneIsNoLiteral
  <2>3. CASE s.port = None
    BY <1>3, <2>2, <2>3, Zenon DEF Default
  <2>4. CASE s.port # None
    BY <1>2, <1>3, <2>2, <2>4, Zenon DEF Default
  <2> QED
    BY <2>3, <2>4
<1>8. w.server \in Texts /\ w.server # None /\ Fold[w.server] = Fold[s.server]
  <2>1. Fold["earth"] = "earth" /\ None \notin Texts
    BY TextsFacts, Zenon
  <2>2. Load(s, found).server
        = IF s.server \in {None, ""} \/ Fold[s.server] = "earth" THEN "earth" ELSE s.server
    BY Zenon DEF Load
  <2>3. Load(s, found).server = IF Fold[s.server] = "earth" THEN "earth" ELSE s.server
    BY <1>2, <2>2, Zenon
  <2>4. Fold[Load(s, found).server] = Fold[s.server]
    BY <2>1, <2>3, Zenon
  <2> QED
    BY <1>3, <2>1, <2>4, Zenon
<1>9. Validate(u)
  <2>1. ~u.unknown /\ u.server # None /\ u.protocol \in {None, "udp", "tcp"}
    BY <1>3, <1>4, <1>8, Zenon
  <2>2. {u.keepalive, u.kill_switch, u.allow_lan} \subseteq {None, "yes", "no"}
    BY <1>4, Zenon
  <2>3. InRange(u.port, Ports)
    BY <1>4, <1>7, Zenon DEF InRange
  <2>4. InRange(u.ping_interval, Seconds) /\ InRange(u.ping_restart, Seconds)
    BY <1>4, <1>6, Zenon DEF InRange
  <2> QED
    BY <2>1, <2>2, <2>3, <2>4, Zenon DEF Validate
<1>10. /\ Request(u).server = u.server /\ Request(s).server = s.server
       /\ \A item \in {"device", "protocol", "port", "directives"} : Request(u)[item] = Request(s)[item]
  <2>1. /\ Default(u.device, None) = Default(s.device, None)
        /\ Default(u.custom_directives, None) = Default(s.custom_directives, None)
    <3>1. /\ Default(Item(Default(s.device, "")), None) = Default(s.device, None)
          /\ Default(Item(Default(s.custom_directives, "")), None)
             = Default(s.custom_directives, None)
      BY DefaultItem
    <3> QED
      BY <1>3, <1>4, <3>1, Zenon
  <2>2. Default(u.protocol, "udp") = Default(s.protocol, "udp")
    BY <1>2, <1>3, <1>4, NoneIsNoLiteral, Zenon DEF Default
  <2>3. Default(u.port, "443") = Default(s.port, "443")
    BY <1>3, <1>4, <1>7, Zenon DEF Default
  <2>4. \A t : /\ Request(t).server = t.server
               /\ Request(t).device = Default(t.device, None)
               /\ Request(t).protocol = Default(t.protocol, "udp")
               /\ Request(t).port = Default(t.port, "443")
               /\ Request(t).directives = Default(t.custom_directives, None)
    BY Zenon DEF Request
  <2>5. /\ Request(u).device = Request(s).device
        /\ Request(u).protocol = Request(s).protocol
        /\ Request(u).port = Request(s).port
        /\ Request(u).directives = Request(s).directives
    BY <2>1, <2>2, <2>3, <2>4, Zenon
  <2> QED
    BY <2>4, <2>5, Zenon
<1>11. Keepalive(u) = Keepalive(s)
  <2>1. u.keepalive = "no" <=> s.keepalive = "no"
    BY <1>3, <1>4, NoneIsNoLiteral, Zenon
  <2>2. u.protocol \notin {None, "udp"} <=> s.protocol \notin {None, "udp"}
    BY <1>2, <1>3, <1>4, NoneIsNoLiteral, Zenon
  <2>3. u.custom_directives \in TunesPing <=> s.custom_directives \in TunesPing
    <3>1. None \notin TunesPing /\ "" \notin TunesPing
      BY TunesPingFacts
    <3>2. u.custom_directives = IF s.custom_directives = "" THEN None ELSE s.custom_directives
      <4>1. Item(Default(s.custom_directives, ""))
            = IF s.custom_directives = "" THEN None ELSE s.custom_directives
        BY DefaultItem
      <4>2. u.custom_directives = Item(w.directives)
        BY <1>4
      <4>3. w.directives = Default(s.custom_directives, "")
        BY <1>3
      <4> QED
        BY <4>1, <4>2, <4>3, Zenon
    <3>3. CASE s.custom_directives = ""
      BY <3>1, <3>2, <3>3, Zenon
    <3>4. CASE s.custom_directives # ""
      BY <3>2, <3>4, Zenon
    <3> QED
      BY <3>3, <3>4
  <2>4. s.keepalive # "no"
        => /\ Strtol[Default(u.ping_interval, "10")] = Strtol[Default(s.ping_interval, "10")]
           /\ Strtol[Default(u.ping_restart, "60")] = Strtol[Default(s.ping_restart, "60")]
    BY <1>3, <1>4, <1>5, <1>6, Zenon DEF Default
  <2> QED
    BY <2>1, <2>2, <2>3, <2>4, Zenon DEF Keepalive
<1>12. KillSwitch(u) = KillSwitch(s)
  <2>1. u.kill_switch = "yes" <=> s.kill_switch = "yes"
    BY <1>3, <1>4, NoneIsNoLiteral, Zenon
  <2>2. s.kill_switch = "yes" => (u.allow_lan = "yes" <=> s.allow_lan = "yes")
    BY <1>3, <1>4, NoneIsNoLiteral, Zenon
  <2> QED
    BY <2>1, <2>2 DEF KillSwitch
<1>13. s.flags \in {"none", "agent_owned"} => Default(u.api_key, None) = Default(s.api_key, None)
  <2>1. Default(Item(Default(s.api_key, "")), None) = Default(s.api_key, None)
    BY DefaultItem
  <2>2. s.flags \in {"none", "agent_owned"} => u.api_key = Item(w.api_key)
    BY <1>3, <1>4, Zenon
  <2> QED
    BY <1>3, <2>1, <2>2, Zenon
<1>14. CacheKey(u) = CacheKey(s)
         <=> s.protocol # None /\ s.port # None /\ server = s.server
  <2>1. \A a, b : CacheKey(a) = CacheKey(b)
          <=> /\ Default(a.server, "") = Default(b.server, "")
              /\ Default(a.device, "") = Default(b.device, "")
              /\ Default(a.protocol, "") = Default(b.protocol, "")
              /\ Default(a.port, "") = Default(b.port, "")
              /\ Default(a.custom_directives, "") = Default(b.custom_directives, "")
    BY DEF CacheKey
  <2>2. /\ Default(u.device, "") = Default(s.device, "")
        /\ Default(u.custom_directives, "") = Default(s.custom_directives, "")
    <3>1. \A value : Default(Item(Default(value, "")), "") = Default(value, "")
      BY Zenon DEF Default, Item
    <3>2. u.device = Item(Default(s.device, ""))
      BY <1>3, <1>4, Zenon
    <3>3. u.custom_directives = Item(Default(s.custom_directives, ""))
      BY <1>3, <1>4, Zenon
    <3> QED
      BY <3>1, <3>2, <3>3, Zenon
  <2>3. Default(u.server, "") = server /\ Default(s.server, "") = s.server
    BY <1>2, <1>3, <1>4, <1>8, Zenon DEF Default
  <2>4. Default(u.protocol, "") = Default(s.protocol, "") <=> s.protocol # None
    <3>1. None \notin {"", "udp", "tcp"} /\ "" \notin {"udp", "tcp"}
      BY NoneIsNoLiteral
    <3>2. CASE s.protocol = None
      BY <1>3, <1>4, <3>1, <3>2, Zenon DEF Default
    <3>3. CASE s.protocol # None
      BY <1>2, <1>3, <1>4, <3>1, <3>3, Zenon DEF Default
    <3> QED
      BY <3>2, <3>3
  <2>5. Default(u.port, "") = Default(s.port, "") <=> s.port # None
    <3>1. "443" # "" /\ Default(u.port, "") = w.port
      BY <1>4, <1>7, Zenon DEF Default
    <3>2. CASE s.port = None
      <4>1. w.port = "443" /\ Default(s.port, "") = ""
        BY <1>3, <3>2, Zenon DEF Default
      <4> QED
        BY <3>1, <3>2, <4>1, Zenon
    <3>3. CASE s.port # None
      <4>1. s.port # ""
        <5>1. 0 \notin Ports /\ Strtol[""] = 0
          BY DefaultsInRange, TextsFacts, Zenon
        <5> QED
          BY <1>2, <3>3, <5>1, Zenon
      <4>2. w.port = s.port /\ Default(s.port, "") = s.port
        BY <1>3, <3>3, <4>1, Zenon DEF Default
      <4> QED
        BY <3>1, <3>3, <4>2, Zenon
    <3> QED
      BY <3>2, <3>3
  <2> QED
    BY <2>1, <2>2, <2>3, <2>4, <2>5, Zenon
<1>15. Fold[u.server] = Fold[s.server] /\ u.flags = s.flags
  BY <1>3, <1>4, <1>8, Zenon
<1> QED
  BY <1>9, <1>10, <1>11, <1>12, <1>13, <1>14, <1>15, Zenon DEF SameEffect, ProfileKept

\* What the widgets show is what the daemon makes of what they save, if that
\* is accepted at all.
LEMMA ShownEffect ==
    ASSUME NEW w \in Widgets, Validate(Update(w))
    PROVE  Effect(Update(w)) = Shown(w)
<1> DEFINE u == Update(w)
<1>1. /\ w.server \in Texts /\ w.device \in Texts /\ w.protocol \in {"udp", "tcp"}
      /\ w.port \in Texts /\ w.directives \in Texts
      /\ w.interval \in Seconds /\ w.restart \in Seconds
      /\ w.keepalive \in BOOLEAN /\ w.kill \in BOOLEAN /\ w.lan \in BOOLEAN
  BY DEF Widgets
<1>2. /\ u.server = w.server
      /\ u.device = Item(w.device)
      /\ u.protocol = w.protocol
      /\ u.port = w.port
      /\ u.custom_directives = Item(w.directives)
      /\ u.keepalive = IF w.keepalive THEN None ELSE "no"
      /\ u.ping_interval = IF w.keepalive THEN Format[w.interval] ELSE None
      /\ u.ping_restart = IF w.keepalive THEN Format[w.restart] ELSE None
      /\ u.kill_switch = IF w.kill THEN "yes" ELSE None
      /\ u.allow_lan = IF w.kill /\ w.lan THEN "yes" ELSE None
  BY Zenon DEF Update
<1>3. u.port # None => Strtol[u.port] \in Ports
  BY Zenon DEF Validate, InRange
<1> HIDE DEF u
<1>4. None \notin Texts
  BY TextsFacts, Zenon
<1>5. Request(u) = Shown(w).request
  <2>1. \A t \in Texts : Default(Item(t), None) = Item(t)
    BY <1>4, Zenon DEF Default, Item
  <2>2. Default(u.protocol, "udp") = w.protocol
    <3>1. None \notin {"udp", "tcp"} /\ "" \notin {"udp", "tcp"}
      BY NoneIsNoLiteral
    <3> QED
      BY <1>1, <1>2, <3>1, Zenon DEF Default
  <2>3. Default(u.port, "443") = w.port
    <3>1. 0 \notin Ports /\ Strtol[""] = 0
      BY DefaultsInRange, TextsFacts, Zenon
    <3>2. w.port # None
      BY <1>1, <1>4, Zenon
    <3>3. w.port # ""
      BY <1>2, <1>3, <3>1, <3>2, Zenon
    <3> QED
      BY <1>2, <3>2, <3>3, Zenon DEF Default
  <2>4. Shown(w).request = [server |-> w.server, device |-> Item(w.device),
                            protocol |-> w.protocol, port |-> w.port,
                            directives |-> Item(w.directives)]
    BY Zenon DEF Shown
  <2> QED
    BY <1>1, <1>2, <2>1, <2>2, <2>3, <2>4, Zenon DEF Request
<1>6. Keepalive(u) = Shown(w).keepalive
  <2>1. u.keepalive = "no" <=> ~w.keepalive
    <3>1. None # "no"
      BY NoneIsNoLiteral
    <3> QED
      BY <1>2, <3>1, Zenon
  <2>2. u.protocol \notin {None, "udp"} <=> w.protocol # "udp"
    <3>1. w.protocol # None
      BY <1>1, NoneIsNoLiteral
    <3> QED
      BY <1>2, <3>1, Zenon
  <2>3. u.custom_directives \in TunesPing <=> w.directives \in TunesPing
    <3>1. None \notin TunesPing /\ "" \notin TunesPing
      BY TunesPingFacts
    <3> QED
      BY <1>2, <3>1, Zenon DEF Item
  <2>4. w.keepalive => /\ Strtol[Default(u.ping_interval, "10")] = w.interval
                       /\ Strtol[Default(u.ping_restart, "60")] = w.restart
    <3>1. /\ Format[w.interval] \notin {None, ""} /\ Strtol[Format[w.interval]] = w.interval
          /\ Format[w.restart] \notin {None, ""} /\ Strtol[Format[w.restart]] = w.restart
      BY <1>1, <1>4, FormatWrites, Zenon
    <3> QED
      BY <1>2, <3>1, Zenon DEF Default
  <2>5. Shown(w).keepalive
        = IF w.keepalive /\ w.protocol = "udp" /\ w.directives \notin TunesPing
          THEN [interval |-> w.interval, restart |-> w.restart] ELSE None
    BY Zenon DEF Shown
  <2>6. CASE w.keepalive /\ w.protocol = "udp" /\ w.directives \notin TunesPing
    BY <2>1, <2>2, <2>3, <2>4, <2>5, <2>6, Zenon DEF Keepalive
  <2>7. CASE ~(w.keepalive /\ w.protocol = "udp" /\ w.directives \notin TunesPing)
    BY <2>1, <2>2, <2>3, <2>5, <2>7, Zenon DEF Keepalive
  <2> QED
    BY <2>6, <2>7
<1>7. KillSwitch(u) = Shown(w).kill_switch
  <2>1. (u.kill_switch = "yes" <=> w.kill) /\ (u.allow_lan = "yes" <=> w.kill /\ w.lan)
    <3>1. None # "yes"
      BY NoneIsNoLiteral
    <3> QED
      BY <1>2, <3>1, Zenon
  <2>2. (u.kill_switch = "yes") = w.kill
    BY <1>1, <2>1
  <2>3. (u.kill_switch = "yes" /\ u.allow_lan = "yes") = (w.kill /\ w.lan)
    BY <1>1, <2>1
  <2>4. Shown(w).kill_switch = [on |-> w.kill, lan |-> w.kill /\ w.lan]
    BY Zenon DEF Shown
  <2> QED
    BY <2>2, <2>3, <2>4, Zenon DEF KillSwitch
<1>8. CacheKey(u) = Shown(w).profile
  <2>1. \A t \in Texts : Default(Item(t), "") = t /\ Default(t, "") = t
    BY <1>4, Zenon DEF Default, Item
  <2>2. Default(u.protocol, "") = w.protocol
    <3>1. None \notin {"udp", "tcp"} /\ "" \notin {"udp", "tcp"}
      BY NoneIsNoLiteral
    <3> QED
      BY <1>1, <1>2, <3>1, Zenon DEF Default
  <2>3. Shown(w).profile = [server |-> w.server, device |-> w.device, protocol |-> w.protocol,
                            port |-> w.port, directives |-> w.directives]
    BY Zenon DEF Shown
  <2> QED
    BY <1>1, <1>2, <2>1, <2>2, <2>3, Zenon DEF CacheKey
<1>9. Shown(w) = [request |-> Shown(w).request, profile |-> Shown(w).profile,
                  keepalive |-> Shown(w).keepalive, kill_switch |-> Shown(w).kill_switch]
  BY Zenon DEF Shown
<1> QED
  BY <1>5, <1>6, <1>7, <1>8, <1>9, Zenon DEF Effect, u

(***************************************************************************)
(* The inductive invariant: until it is edited or saved, an open editor    *)
(* shows what it loaded, up to the case of the server, and what it saved   *)
(* is still what is stored.                                                *)
(***************************************************************************)
Untouched ==
    widgets # None /\ result = "none"
      => \E server \in Texts : /\ Fold[server] = Fold[Load(stored, nft).server]
                               /\ widgets = LoadedAs(stored, nft, server)

IndInv == TypeOK /\ Untouched /\ ShownIsApplied

\* An edit leaves every widget with what it can hold.
LEMMA EditType ==
    ASSUME TypeOK, Edit
    PROVE  widgets' \in Widgets
<1>1. widgets \in Widgets
  BY DEF TypeOK, Edit
<1>2. "earth" \in Texts /\ "" \in Texts /\ "443" \in Texts /\ TunesPing \subseteq Texts
  BY TextsFacts, Zenon
<1>3. TypedSeconds \subseteq Seconds
  BY TextsAssumption, Zenon
<1>4. CASE \E p \in {"udp", "tcp"} : widgets' = [widgets EXCEPT !.protocol = p]
  BY <1>1, <1>4 DEF Widgets
<1>5. CASE widgets' = [widgets EXCEPT !.server = "earth"]
  BY <1>1, <1>2, <1>5 DEF Widgets
<1>6. CASE widgets' = [widgets EXCEPT !.device = ""]
  BY <1>1, <1>2, <1>6 DEF Widgets
<1>7. CASE widgets' = [widgets EXCEPT !.port = "443"]
  BY <1>1, <1>2, <1>7 DEF Widgets
<1>8. CASE \E d \in TunesPing \cup {""} : widgets' = [widgets EXCEPT !.directives = d]
  <2>1. PICK d \in TunesPing \cup {""} : widgets' = [widgets EXCEPT !.directives = d]
    BY <1>8
  <2>2. d \in Texts
    BY <1>2, <2>1
  <2> QED
    BY <1>1, <2>1, <2>2 DEF Widgets
<1>9. CASE widgets' = [widgets EXCEPT !.keepalive = ~@]
  BY <1>1, <1>9 DEF Widgets
<1>10. CASE \E n \in TypedSeconds : \/ widgets' = [widgets EXCEPT !.interval = n]
                                    \/ widgets' = [widgets EXCEPT !.restart = n]
  BY <1>1, <1>3, <1>10 DEF Widgets
<1>11. CASE widgets' = [widgets EXCEPT !.kill = ~@]
  BY <1>1, <1>11 DEF Widgets
<1>12. CASE widgets' = [widgets EXCEPT !.lan = ~@]
  BY <1>1, <1>12 DEF Widgets
<1>13. CASE \E f \in Flags : widgets' = [widgets EXCEPT !.storage = f]
  BY <1>1, <1>13 DEF Widgets
<1> QED
  BY <1>4, <1>5, <1>6, <1>7, <1>8, <1>9, <1>10, <1>11, <1>12, <1>13, Zenon DEF Edit

\* One case per action of Next.
LEMMA TypeStep == TypeOK /\ [Next]_vars => TypeOK'
<1> SUFFICES ASSUME TypeOK, [Next]_vars
             PROVE  TypeOK'
  OBVIOUS
<1>1. /\ stored \in Setting /\ (widgets = None \/ widgets \in Widgets)
      /\ edits \in 0 .. MaxEdits /\ MaxEdits \in Nat /\ nft \in BOOLEAN
      /\ result \in {"none", "saved", "refused", "edited"}
  <2>1. MaxEdits \in Nat
    BY TextsAssumption, Zenon
  <2> QED
    BY <2>1, Zenon DEF TypeOK
<1>2. 0 \in 0 .. MaxEdits
  BY <1>1, SMT
<1>3. CASE Open
  <2>1. widgets' \in Widgets
    BY <1>1, <1>3, LoadType, Zenon DEF Open
  <2> QED
    BY <1>1, <1>2, <1>3, <2>1, Zenon DEF Open, TypeOK
<1>4. CASE Edit
  <2>1. widgets' \in Widgets
    BY <1>4, EditType
  <2>2. edits' \in 0 .. MaxEdits
    <3>1. edits < MaxEdits /\ edits' = edits + 1
      BY <1>4, Zenon DEF Edit
    <3> QED
      BY <1>1, <3>1, SMT
  <2>3. UNCHANGED <<stored, nft>> /\ result' = "edited"
    BY <1>4, Zenon DEF Edit
  <2> QED
    BY <1>1, <2>1, <2>2, <2>3, Zenon DEF TypeOK
<1>5. CASE Save
  <2>1. Update(widgets) \in Setting
    BY <1>1, <1>5, UpdateType, Zenon DEF Save
  <2>2. stored' \in Setting /\ result' \in {"saved", "refused"}
    BY <1>1, <1>5, <2>1, Zenon DEF Save
  <2>3. UNCHANGED <<widgets, edits, nft>>
    BY <1>5, Zenon DEF Save
  <2> QED
    BY <1>1, <2>2, <2>3, Zenon DEF TypeOK
<1>6. CASE Close
  BY <1>1, <1>2, <1>6, Zenon DEF Close, TypeOK
<1>7. CASE NftChanges
  <2>1. nft' \in BOOLEAN
    BY <1>1, <1>7 DEF NftChanges
  <2> QED
    BY <1>1, <1>7, <2>1, Zenon DEF NftChanges, TypeOK
<1>8. CASE ListArrives
  <2>1. PICK t \in Texts : widgets' = [widgets EXCEPT !.server = t]
    BY <1>8, Zenon DEF ListArrives
  <2>2. widgets \in Widgets
    BY <1>1, <1>8, Zenon DEF ListArrives
  <2>3. widgets' \in Widgets
    BY <2>1, <2>2 DEF Widgets
  <2>4. UNCHANGED <<stored, edits, nft>> /\ result' \in {"none", "edited"}
    BY <1>8, Zenon DEF ListArrives
  <2> QED
    BY <1>1, <2>3, <2>4, Zenon DEF TypeOK
<1>9. CASE UNCHANGED vars
  BY <1>1, <1>9, Zenon DEF vars, TypeOK
<1> QED
  BY <1>3, <1>4, <1>5, <1>6, <1>7, <1>8, <1>9, Zenon DEF Next

\* An edit, a save and a close each end what Untouched is about; the list
\* only respells the server.
LEMMA UntouchedStep == IndInv /\ [Next]_vars => Untouched'
<1> SUFFICES ASSUME IndInv, [Next]_vars, widgets' # None, result' = "none"
             PROVE  \E server \in Texts : /\ Fold[server] = Fold[Load(stored', nft').server]
                                          /\ widgets' = LoadedAs(stored', nft', server)
  BY Zenon DEF Untouched
<1>1. stored \in Setting /\ nft \in BOOLEAN
  BY Zenon DEF IndInv, TypeOK
<1>2. CASE Open
  <2>1. widgets' = Load(stored, nft) /\ UNCHANGED <<stored, nft>>
    BY <1>2, Zenon DEF Open
  <2>2. Load(stored, nft) \in Widgets
    BY <1>1, LoadType
  <2>3. /\ Load(stored, nft).server \in Texts
        /\ Load(stored, nft) = LoadedAs(stored, nft, Load(stored, nft).server)
    BY <2>2 DEF Widgets, LoadedAs
  <2> QED
    BY <2>1, <2>3, Zenon
<1>3. CASE ListArrives
  <2>1. widgets # None /\ result = "none" /\ UNCHANGED <<stored, nft>>
    <3>1. "edited" # "none"
      OBVIOUS
    <3> QED
      BY <1>3, <3>1, Zenon DEF ListArrives
  <2>2. PICK server \in Texts : /\ Fold[server] = Fold[Load(stored, nft).server]
                                /\ widgets = LoadedAs(stored, nft, server)
    BY <2>1, Zenon DEF IndInv, Untouched
  <2>3. PICK t \in Texts : /\ Fold[t] = Fold[widgets.server]
                           /\ widgets' = [widgets EXCEPT !.server = t]
    BY <1>3, Zenon DEF ListArrives
  <2>4. Load(stored, nft) \in Widgets
    BY <1>1, LoadType
  <2>5. widgets.server = server /\ widgets' = LoadedAs(stored, nft, t)
    BY <2>2, <2>3, <2>4 DEF Widgets, LoadedAs
  <2> QED
    BY <2>1, <2>2, <2>3, <2>5, Zenon
<1>4. ~Edit /\ ~Save
  <2>1. "edited" # "none" /\ "saved" # "none" /\ "refused" # "none"
    OBVIOUS
  <2> QED
    BY <2>1, Zenon DEF Edit, Save
<1>5. ~Close /\ ~NftChanges
  BY Zenon DEF Close, NftChanges
<1>6. CASE UNCHANGED vars
  <2>1. UNCHANGED <<stored, widgets, nft, result>>
    BY <1>6, Zenon DEF vars
  <2>2. widgets # None /\ result = "none"
    BY <2>1, Zenon
  <2> QED
    BY <2>1, <2>2, Zenon DEF IndInv, Untouched
<1> QED
  BY <1>2, <1>3, <1>4, <1>5, <1>6, Zenon DEF Next

\* Only a save makes the result "saved", and the widgets move only after it
\* is forgotten.
LEMMA ShownStep == IndInv /\ [Next]_vars => ShownIsApplied'
<1> SUFFICES ASSUME IndInv, [Next]_vars, result' = "saved"
             PROVE  Effect(stored)' = Shown(widgets)'
  BY DEF ShownIsApplied
<1>1. ~(Open \/ Edit \/ ListArrives \/ Close)
  <2>1. "saved" # "none" /\ "saved" # "edited"
    OBVIOUS
  <2> QED
    BY <2>1, Zenon DEF Open, Edit, ListArrives, Close
<1>2. CASE Save
  <2>1. result' # "refused"
    OBVIOUS
  <2>2. /\ widgets # None /\ UNCHANGED widgets
        /\ Validate(Update(widgets)) /\ stored' = Update(widgets)
    BY <1>2, <2>1, Zenon DEF Save
  <2>3. widgets \in Widgets
    BY <2>2, Zenon DEF IndInv, TypeOK
  <2>4. Effect(Update(widgets)) = Shown(widgets)
    BY <2>2, <2>3, ShownEffect
  <2> QED
    BY <2>2, <2>4, Zenon
<1>3. CASE UNCHANGED <<stored, widgets, result>>
  BY <1>3, Zenon DEF IndInv, ShownIsApplied
<1> QED
  BY <1>1, <1>2, <1>3, Zenon DEF Next, vars, NftChanges

\* Without an editor there is nothing to show.
LEMMA InitHolds == Init => IndInv
<1> SUFFICES ASSUME Init
             PROVE  IndInv
  OBVIOUS
<1>1. MaxEdits \in Nat
  BY TextsAssumption, Zenon
<1>2. edits \in 0 .. MaxEdits
  BY <1>1, SMT DEF Init
<1>3. TypeOK
  BY <1>2, SettingsAssumption, Zenon DEF Init, TypeOK
<1>4. result # "saved"
  BY DEF Init
<1> QED
  BY <1>3, <1>4, Zenon DEF Init, IndInv, Untouched, ShownIsApplied

\* The invariant holds on every behaviour of loading, editing and saving.
THEOREM Inductive == Spec => []IndInv
<1>1. IndInv /\ [Next]_vars => IndInv'
  BY TypeStep, UntouchedStep, ShownStep DEF IndInv
<1> QED
  BY <1>1, InitHolds, PTL DEF Spec

\* Whatever nmcli has stored, the widgets hold only what they can hold.
THEOREM SettingsTypeCorrect == Spec => []TypeOK
  BY Inductive, PTL DEF IndInv

\* After a save the daemon does what the editor shows, for all texts and any
\* number of edits.
THEOREM SavedIsShown == Spec => []ShownIsApplied
  BY Inductive, PTL DEF IndInv

\* An untouched save is the save of what the editor loaded.
LEMMA UntouchedSaveStep ==
    ASSUME IndInv, [Next]_vars, UntouchedSave
    PROVE  \E server \in Texts :
             /\ Fold[server] = Fold[Load(stored, nft).server]
             /\ widgets.server = server
             /\ Validate(Update(LoadedAs(stored, nft, server)))
             /\ stored' = Update(LoadedAs(stored, nft, server))
             /\ result' = "saved"
<1>1. /\ widgets # None /\ result = "none" /\ result' \in {"saved", "refused"}
      /\ Validate(stored) /\ stored.server # "" /\ (nft \/ stored.kill_switch # "yes")
  BY Zenon DEF UntouchedSave
<1>2. stored \in Setting /\ nft \in BOOLEAN
  BY Zenon DEF IndInv, TypeOK
<1>3. Save
  <2>1. result' # "none" /\ result' # "edited"
    BY <1>1
  <2> QED
    BY <1>1, <2>1, Zenon DEF Next, vars, Open, Edit, ListArrives, Close, NftChanges
<1>4. PICK server \in Texts : /\ Fold[server] = Fold[Load(stored, nft).server]
                              /\ widgets = LoadedAs(stored, nft, server)
  BY <1>1, Zenon DEF IndInv, Untouched
<1>5. Validate(Update(widgets))
  BY <1>1, <1>2, <1>4, RoundTrip, Zenon
<1>6. stored' = Update(widgets) /\ result' = "saved"
  BY <1>3, <1>5, Zenon DEF Save
<1>7. widgets.server = server
  <2>1. Load(stored, nft) \in Widgets
    BY <1>2, LoadType
  <2> QED
    BY <1>4, <2>1 DEF LoadedAs, Widgets
<1> QED
  BY <1>4, <1>5, <1>6, <1>7, Zenon

\* Opening the editor on any connection that the daemon accepts and saving it
\* untouched, before or after the list arrived, leaves what the generator is
\* asked, but for the case of the server, the keepalive, the kill switch and
\* the secrets as they were.
THEOREM UntouchedSaveIsHarmless == Spec => UntouchedSaveKeepsEffect
<1>1. ASSUME IndInv, [Next]_vars, UntouchedSave
      PROVE  result' = "saved" /\ SameEffect(stored', stored)
  <2>1. PICK server \in Texts : /\ Fold[server] = Fold[Load(stored, nft).server]
                                /\ stored' = Update(LoadedAs(stored, nft, server))
                                /\ result' = "saved"
    BY <1>1, UntouchedSaveStep, Zenon
  <2>2. /\ stored \in Setting /\ nft \in BOOLEAN
        /\ Validate(stored) /\ stored.server # "" /\ (nft \/ stored.kill_switch # "yes")
    BY <1>1, Zenon DEF IndInv, TypeOK, UntouchedSave
  <2> QED
    BY <2>1, <2>2, RoundTrip, Zenon
<1> QED
  BY <1>1, Inductive, PTL DEF Spec, UntouchedSaveKeepsEffect

\* It leaves the cached profile valid exactly if protocol and port had been
\* named and the server is spelled as before: else the next Connect has no
\* profile to start or to fall back to.
THEOREM ProfileKeptExactly == Spec => UntouchedSaveKeepsProfile
<1>1. ASSUME IndInv, [Next]_vars, UntouchedSave
      PROVE  CacheKey(stored') = CacheKey(stored)
               <=> /\ stored.protocol # None /\ stored.port # None
                   /\ widgets.server = stored.server
  <2>1. PICK server \in Texts : /\ Fold[server] = Fold[Load(stored, nft).server]
                                /\ widgets.server = server
                                /\ stored' = Update(LoadedAs(stored, nft, server))
    BY <1>1, UntouchedSaveStep, Zenon
  <2>2. /\ stored \in Setting /\ nft \in BOOLEAN
        /\ Validate(stored) /\ stored.server # "" /\ (nft \/ stored.kill_switch # "yes")
    BY <1>1, Zenon DEF IndInv, TypeOK, UntouchedSave
  <2>3. ProfileKept(stored, stored', server)
    BY <2>1, <2>2, RoundTrip, Zenon
  <2> QED
    BY <2>1, <2>3, Zenon DEF ProfileKept
<1> QED
  BY <1>1, Inductive, PTL DEF Spec, UntouchedSaveKeepsProfile
==============================================================================
