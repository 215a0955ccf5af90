------------------------- MODULE AirvpnProfileProofs -------------------------
(***************************************************************************)
(* Which profile openvpn gets.  The cache answers right, and openvpn runs  *)
(* the profile of its connection, under three assumptions: no two of the   *)
(* settings in use are joined to the same string, no write to the state    *)
(* directory fails, and the daemon does not die in the middle of a store.  *)
(* The runs hash_join and store_torn show that the first two are needed;   *)
(* HashesAreApart says which settings satisfy the first.                   *)
(***************************************************************************)
EXTENDS AirvpnServiceProofs, SequenceTheorems

HashesApart == \A p, q \in Params : ParamsHash(p) = ParamsHash(q) => p = q

(***************************************************************************)
(* params_hash joins the fields with bars.  As long as no field but the    *)
(* last contains one, the bars are found again, and the joins differ.      *)
(***************************************************************************)
BarFree(field) == \A i \in 1 .. Len(field) : field[i] # "|"

\* What a field, a bar and a rest are joined to.
LEMMA JoinElements ==
    ASSUME NEW S, "|" \in S, NEW a \in Seq(S), NEW s \in Seq(S)
    PROVE  /\ a \o <<"|">> \o s \in Seq(S)
           /\ Len(a \o <<"|">> \o s) = Len(a) + 1 + Len(s)
           /\ \A i \in 1 .. Len(a) : (a \o <<"|">> \o s)[i] = a[i]
           /\ (a \o <<"|">> \o s)[Len(a) + 1] = "|"
           /\ \A i \in 1 .. Len(s) : (a \o <<"|">> \o s)[Len(a) + 1 + i] = s[i]
<1>. DEFINE bar == <<"|">>
            front == a \o bar
            m == Len(a)
            n == Len(s)
<1>1. bar \in Seq(S) /\ Len(bar) = 1 /\ bar[1] = "|"
  OBVIOUS
<1>2. m \in Nat /\ n \in Nat
  BY LenProperties
<1>. HIDE DEF bar
<1>3. /\ front \in Seq(S) /\ Len(front) = m + 1
      /\ \A i \in 1 .. m + 1 : front[i] = IF i <= m THEN a[i] ELSE bar[i - m]
  <2>1. /\ a \o bar \in Seq(S)
        /\ Len(a \o bar) = Len(a) + Len(bar)
        /\ \A i \in 1 .. Len(a) + Len(bar) :
              (a \o bar)[i] = IF i <= Len(a) THEN a[i] ELSE bar[i - Len(a)]
    BY <1>1, ConcatProperties, Zenon
  <2>2. Len(bar) = 1
    BY <1>1
  <2>. QED
    BY <2>1, <2>2, Zenon
<1>. HIDE DEF front
<1>4. /\ front \o s \in Seq(S) /\ Len(front \o s) = (m + 1) + n
      /\ \A i \in 1 .. (m + 1) + n : (front \o s)[i] = IF i <= m + 1 THEN front[i] ELSE s[i - (m + 1)]
  <2>1. /\ front \o s \in Seq(S)
        /\ Len(front \o s) = Len(front) + Len(s)
        /\ \A i \in 1 .. Len(front) + Len(s) :
              (front \o s)[i] = IF i <= Len(front) THEN front[i] ELSE s[i - Len(front)]
    BY <1>3, ConcatProperties, Zenon
  <2>2. Len(front) = m + 1
    BY <1>3
  <2>. QED
    BY <2>1, <2>2, Zenon
<1>. HIDE DEF m, n
<1>5. \A i \in 1 .. m : (front \o s)[i] = a[i]
  <2>. TAKE i \in 1 .. m
  <2>1. i \in 1 .. m + 1 /\ i \in 1 .. (m + 1) + n /\ i <= m /\ i <= m + 1
    BY <1>2
  <2>. QED
    BY <1>3, <1>4, <2>1
<1>6. (front \o s)[m + 1] = "|"
  <2>1. /\ m + 1 \in 1 .. m + 1 /\ m + 1 \in 1 .. (m + 1) + n /\ m + 1 <= m + 1
        /\ ~(m + 1 <= m) /\ (m + 1) - m = 1
    BY <1>2
  <2>2. front[m + 1] = bar[1]
    BY <1>3, <2>1
  <2>3. (front \o s)[m + 1] = front[m + 1]
    BY <1>4, <2>1
  <2>. QED
    BY <1>1, <2>2, <2>3
<1>7. \A i \in 1 .. n : (front \o s)[m + 1 + i] = s[i]
  <2>. TAKE i \in 1 .. n
  <2>1. /\ m + 1 + i \in 1 .. (m + 1) + n /\ ~(m + 1 + i <= m + 1)
        /\ (m + 1 + i) - (m + 1) = i
    BY <1>2
  <2>. QED
    BY <1>4, <2>1
<1>. QED
  BY <1>4, <1>5, <1>6, <1>7 DEF front, bar, m, n

\* The first bar cannot be later in one join than in another.
LEMMA FirstBar ==
    ASSUME NEW S, "|" \in S, NEW a \in Seq(S), NEW b \in Seq(S), NEW s \in Seq(S), NEW t \in Seq(S),
           BarFree(b), a \o <<"|">> \o s = b \o <<"|">> \o t
    PROVE  Len(b) <= Len(a)
<1>. DEFINE m == Len(a)
            k == Len(b)
            join == a \o <<"|">> \o s
<1>1. m \in Nat /\ k \in Nat /\ \A i \in 1 .. k : b[i] # "|"
  BY LenProperties DEF BarFree
<1>2. join[m + 1] = "|" /\ \A i \in 1 .. k : join[i] = b[i]
  BY JoinElements
<1>. HIDE DEF m, k, join
<1>. SUFFICES k <= m
  BY DEF m, k
<1>3. CASE ~(k <= m)
  <2>1. m + 1 \in 1 .. k
    BY <1>1, <1>3
  <2>. QED
    BY <1>1, <1>2, <2>1
<1>. QED
  BY <1>3

\* A join can be taken apart at its first bar.
LEMMA JoinApart ==
    ASSUME NEW S, "|" \in S, NEW a \in Seq(S), NEW b \in Seq(S), NEW s \in Seq(S), NEW t \in Seq(S),
           BarFree(a), BarFree(b), a \o <<"|">> \o s = b \o <<"|">> \o t
    PROVE  a = b /\ s = t
<1>1. Len(a) = Len(b)
  <2>1. Len(a) <= Len(b) /\ Len(b) <= Len(a) /\ Len(a) \in Nat /\ Len(b) \in Nat
    BY FirstBar, LenProperties
  <2>. QED
    BY <2>1
<1>2. \A i \in 1 .. Len(a) : a[i] = b[i]
  BY <1>1, JoinElements
<1>3. Len(s) = Len(t)
  <2>1. Len(a) + 1 + Len(s) = Len(b) + 1 + Len(t)
    BY JoinElements
  <2>2. Len(a) \in Nat /\ Len(s) \in Nat /\ Len(t) \in Nat
    BY LenProperties
  <2>. QED
    BY <1>1, <2>1, <2>2
<1>4. \A i \in 1 .. Len(s) : s[i] = t[i]
  <2>. DEFINE one == a \o <<"|">> \o s
              other == b \o <<"|">> \o t
  <2>1. one = other
    OBVIOUS
  <2>2. \A i \in 1 .. Len(s) : one[Len(a) + 1 + i] = s[i]
    BY JoinElements
  <2>3. \A i \in 1 .. Len(t) : other[Len(b) + 1 + i] = t[i]
    BY JoinElements
  <2>. HIDE DEF one, other
  <2>. QED
    BY <1>1, <1>3, <2>1, <2>2, <2>3
<1>. QED
  BY <1>1, <1>2, <1>3, <1>4, SeqEqual

\* Concatenation, kept from the provers as an operator without a definition.
Cat(a, b) == a \o b

\* What the re-bracketing of a join rests on.
LEMMA CatAssociates ==
    ASSUME NEW S
    PROVE  /\ \A a, b \in Seq(S) : Cat(a, b) \in Seq(S)
           /\ \A a, b, c \in Seq(S) : Cat(Cat(a, b), c) = Cat(a, Cat(b, c))
<1>1. \A a, b \in Seq(S) : Cat(a, b) \in Seq(S)
  BY ConcatProperties DEF Cat
<1>2. \A a, b, c \in Seq(S) : Cat(Cat(a, b), c) = Cat(a, Cat(b, c))
  BY ConcatAssociative DEF Cat
<1>. QED
  BY <1>1, <1>2

\* Five fields, joined from the left as params_hash does, and from the right.
LEMMA CatFromTheRight ==
    ASSUME NEW S, NEW bar \in Seq(S), NEW a \in Seq(S), NEW b \in Seq(S), NEW c \in Seq(S),
           NEW d \in Seq(S), NEW e \in Seq(S)
    PROVE  Cat(Cat(Cat(Cat(Cat(Cat(Cat(Cat(a, bar), b), bar), c), bar), d), bar), e)
             = Cat(Cat(a, bar), Cat(Cat(b, bar), Cat(Cat(c, bar), Cat(Cat(d, bar), e))))
<1>1. \A u, f, s \in Seq(S) :
        /\ Cat(Cat(Cat(u, f), bar), s) = Cat(u, Cat(Cat(f, bar), s))
        /\ Cat(Cat(u, f), bar) \in Seq(S)
        /\ Cat(Cat(f, bar), s) \in Seq(S)
  <2>. TAKE u, f, s \in Seq(S)
  <2>1. Cat(u, f) \in Seq(S) /\ Cat(f, bar) \in Seq(S)
    BY CatAssociates
  <2>2. Cat(Cat(u, f), bar) = Cat(u, Cat(f, bar))
    BY CatAssociates
  <2>3. Cat(Cat(u, Cat(f, bar)), s) = Cat(u, Cat(Cat(f, bar), s))
    BY <2>1, CatAssociates
  <2>4. Cat(Cat(u, f), bar) \in Seq(S) /\ Cat(Cat(f, bar), s) \in Seq(S)
    BY <2>1, CatAssociates
  <2>. QED
    BY <2>2, <2>3, <2>4
<1>2. PICK one \in Seq(S) : one = Cat(a, bar)
  BY CatAssociates
<1>3. PICK two \in Seq(S) : two = Cat(Cat(one, b), bar)
  BY <1>1
<1>4. PICK three \in Seq(S) : three = Cat(Cat(two, c), bar)
  BY <1>1
<1>5. PICK last \in Seq(S) : last = Cat(Cat(d, bar), e)
  BY <1>1
<1>6. PICK third \in Seq(S) : third = Cat(Cat(c, bar), last)
  BY <1>1
<1>7. Cat(Cat(Cat(three, d), bar), e) = Cat(three, last)
  BY <1>1, <1>5
<1>8. Cat(three, last) = Cat(two, third)
  BY <1>1, <1>4, <1>6
<1>9. Cat(two, third) = Cat(one, Cat(Cat(b, bar), third))
  BY <1>1, <1>3
<1>. QED
  BY <1>2, <1>3, <1>4, <1>5, <1>6, <1>7, <1>8, <1>9

Join(field, rest) == field \o <<"|">> \o rest

\* The hash, field by field.
LEMMA HashJoins ==
    ASSUME NEW S, "|" \in S, NEW p,
           p.server \in Seq(S), p.device \in Seq(S), p.protocol \in Seq(S),
           p.port \in Seq(S), p.custom_directives \in Seq(S)
    PROVE  ParamsHash(p) = Join(p.server, Join(p.device, Join(p.protocol,
                                Join(p.port, p.custom_directives))))
<1>. DEFINE bar == <<"|">>
<1>1. bar \in Seq(S)
  OBVIOUS
<1>2. \A field, rest : Join(field, rest) = Cat(Cat(field, bar), rest)
  BY Zenon DEF Join, Cat
<1>3. ParamsHash(p) = Cat(Cat(Cat(Cat(Cat(Cat(Cat(Cat(p.server, bar), p.device), bar),
                              p.protocol), bar), p.port), bar), p.custom_directives)
  BY Zenon DEF ParamsHash, Cat
<1>. HIDE DEF bar
<1>4. PICK a \in Seq(S), b \in Seq(S), c \in Seq(S), d \in Seq(S), e \in Seq(S) :
        /\ a = p.server /\ b = p.device /\ c = p.protocol
        /\ d = p.port /\ e = p.custom_directives
  OBVIOUS
<1>5. Cat(Cat(Cat(Cat(Cat(Cat(Cat(Cat(a, bar), b), bar), c), bar), d), bar), e)
        = Cat(Cat(a, bar), Cat(Cat(b, bar), Cat(Cat(c, bar), Cat(Cat(d, bar), e))))
  BY <1>1, CatFromTheRight
<1>6. ParamsHash(p) = Cat(Cat(Cat(Cat(Cat(Cat(Cat(Cat(a, bar), b), bar), c), bar), d), bar), e)
  BY <1>3, <1>4
<1>. QED
  BY <1>2, <1>4, <1>5, <1>6

\* Joins are strings, and can be taken apart at the first bar.
LEMMA JoinsAreStrings ==
    ASSUME NEW S, "|" \in S
    PROVE  /\ \A a, s \in Seq(S) : Join(a, s) \in Seq(S)
           /\ \A a, b, s, t \in Seq(S) :
                BarFree(a) /\ BarFree(b) /\ Join(a, s) = Join(b, t) => a = b /\ s = t
<1>1. \A a, s \in Seq(S) : Join(a, s) \in Seq(S)
  BY JoinElements DEF Join
<1>2. \A a, b, s, t \in Seq(S) :
        BarFree(a) /\ BarFree(b) /\ Join(a, s) = Join(b, t) => a = b /\ s = t
  BY JoinApart, Zenon DEF Join
<1>. QED
  BY <1>1, <1>2

\* No two settings share a hash when no field but custom-directives, the last
\* one joined, contains a bar: params_hash tells all such settings apart.
THEOREM HashesAreApart ==
    ASSUME NEW S, "|" \in S, Params \subseteq [ParamFields -> Seq(S)],
           \A p \in Params : \A f \in ParamFields \ {"custom_directives"} : BarFree(p[f])
    PROVE  HashesApart
<1>. SUFFICES ASSUME NEW p \in Params, NEW q \in Params, ParamsHash(p) = ParamsHash(q)
              PROVE  p = q
  BY DEF HashesApart
<1>. DEFINE last(r) == Join(r.port, r.custom_directives)
            third(r) == Join(r.protocol, last(r))
            second(r) == Join(r.device, third(r))
<1>1. p \in [ParamFields -> Seq(S)] /\ q \in [ParamFields -> Seq(S)]
  OBVIOUS
<1>2. \A r \in Params :
        /\ r.server \in Seq(S) /\ r.device \in Seq(S) /\ r.protocol \in Seq(S)
        /\ r.port \in Seq(S) /\ r.custom_directives \in Seq(S)
  BY DEF ParamFields
<1>3. \A r \in Params :
        BarFree(r.server) /\ BarFree(r.device) /\ BarFree(r.protocol) /\ BarFree(r.port)
  <2>1. {"server", "device", "protocol", "port"} \subseteq ParamFields \ {"custom_directives"}
    BY DEF ParamFields
  <2>. QED
    BY <2>1
<1>4. \A r \in Params : ParamsHash(r) = Join(r.server, second(r))
  BY <1>2, HashJoins
<1>5. \A r \in Params : last(r) \in Seq(S)
  BY <1>2, JoinsAreStrings, Zenon
<1>6. \A r \in Params : third(r) \in Seq(S)
  <2>. HIDE DEF last
  <2>. QED
    BY <1>2, <1>5, JoinsAreStrings, Zenon
<1>7. \A r \in Params : second(r) \in Seq(S)
  <2>. HIDE DEF third
  <2>. QED
    BY <1>2, <1>6, JoinsAreStrings, Zenon
<1>8. p.server = q.server /\ second(p) = second(q)
  <2>1. Join(p.server, second(p)) = Join(q.server, second(q))
    BY <1>4, Zenon
  <2>. HIDE DEF second
  <2>. QED
    BY <1>2, <1>3, <1>7, <2>1, JoinsAreStrings
<1>9. p.device = q.device /\ third(p) = third(q)
  <2>1. Join(p.device, third(p)) = Join(q.device, third(q))
    BY <1>8, Zenon
  <2>. HIDE DEF third
  <2>. QED
    BY <1>2, <1>3, <1>6, <2>1, JoinsAreStrings
<1>10. p.protocol = q.protocol /\ last(p) = last(q)
  <2>1. Join(p.protocol, last(p)) = Join(q.protocol, last(q))
    BY <1>9, Zenon
  <2>. HIDE DEF last
  <2>. QED
    BY <1>2, <1>3, <1>5, <2>1, JoinsAreStrings
<1>11. p.port = q.port /\ p.custom_directives = q.custom_directives
  <2>1. Join(p.port, p.custom_directives) = Join(q.port, q.custom_directives)
    BY <1>10, Zenon
  <2>. QED
    BY <1>2, <1>3, <2>1, JoinsAreStrings
<1>12. \A f \in ParamFields : p[f] = q[f]
  BY <1>8, <1>9, <1>10, <1>11 DEF ParamFields
<1>. QED
  BY <1>1, <1>12

\* The key file of an entry describes the profile beside it.
Described(e) == e.meta # None => e.config \in Params /\ e.meta.hash = ParamsHash(e.config)

DiskInv == \A u \in Uuids : Described(disk[u])

Matches(pr) ==
    \A p \in Pids : pr[p].st # "free" => pr[p].profile = pr[p].connection.params

ProfileInv == DiskInv /\ Matches(proc)

(***************************************************************************)
(* The cache.                                                              *)
(***************************************************************************)
\* Whatever check_cache accepts, stale or not, is the profile asked for.
LEMMA CheckedIsAskedFor ==
    ASSUME HashesApart, NEW e, Described(e), NEW p \in Params, NEW accept_stale,
           CheckCache(e, p, accept_stale)
    PROVE  e.config = p
  BY DEF HashesApart, Described, CheckCache

\* mark_stale keeps an entry described.
LEMMA MarkStaleDescribed ==
    ASSUME NEW e \in Entry, Described(e), NEW w
    PROVE  Described(MarkStale(e, w))
  BY DEF MarkStale, Described, Entry, Meta

\* So does ageing.
LEMMA ExpireDescribed ==
    ASSUME NEW e \in Entry, Described(e)
    PROVE  Described(Expire(e))
  BY DEF Expire, Described, Entry, Meta

\* A store that completes describes what it stored.
LEMMA StoreDescribed ==
    ASSUME NEW e, NEW p \in Params, None \notin Meta
    PROVE  /\ Described(Store(e, p, p, "both"))
           /\ Store(e, p, p, "both").config = p
  BY DEF Store, Described

\* The entries of the state directory stay described when one is marked.
LEMMA MarkedStaleDescribed ==
    ASSUME disk \in Disks, DiskInv, NEW calls, NEW u \in Uuids \cup {None},
           disk' \in MarkedStale(calls, u)
    PROVE  DiskInv'
<1>1. CASE disk' = disk
  BY <1>1 DEF DiskInv
<1>2. ASSUME u \in Uuids, NEW w, disk' = [disk EXCEPT ![u] = MarkStale(disk[u], w)]
      PROVE  DiskInv'
  <2>1. Described(MarkStale(disk[u], w))
    BY <1>2, MarkStaleDescribed DEF Disks, DiskInv
  <2>. QED
    BY <1>2, <2>1 DEF Disks, DiskInv
<1>. QED
  BY <1>1, <1>2 DEF MarkedStale

(***************************************************************************)
(* The processes.                                                          *)
(***************************************************************************)
\* No process of "after" has a profile it did not have "before".
NothingNew(before, after) ==
    \A p \in Pids : after[p].st # "free" =>
        /\ before[p].st # "free"
        /\ after[p].profile = before[p].profile
        /\ after[p].connection = before[p].connection

\* Then nothing can have become wrong.
LEMMA NothingNewMatches ==
    ASSUME NEW before, Matches(before), NEW after, NothingNew(before, after)
    PROVE  Matches(after)
  BY DEF Matches, NothingNew

\* A SIGTERM changes no profile.
LEMMA TerminateNothingNew ==
    ASSUME NEW pr \in Procs, NEW p \in Pids \cup {None}
    PROVE  NothingNew(pr, Terminate(pr, p))
  BY DEF NothingNew, Terminate, Procs, Proc, IsAlive

\* openvpn is started on the profile run_openvpn was called with.
LEMMA RunOpenvpnMatches ==
    ASSUME NEW pv, pv.connection \in Connections, NEW pr \in Procs, Matches(pr), NEW tb,
           NEW profile \in Params, profile = pv.connection.params, NEW o,
           RunOpenvpn(pv, pr, tb, profile, o)
    PROVE  Matches(proc')
<1>1. CASE proc' = pr
  BY <1>1
<1>2. ASSUME NEW p \in Pids,
             proc' = [pr EXCEPT ![p] = [FreeProc EXCEPT !.st = "handshake",
                                                        !.watched = TRUE,
                                                        !.profile = profile,
                                                        !.connection = pv.connection]]
      PROVE  Matches(proc')
  <2>1. proc'[p].profile = proc'[p].connection.params
    BY <1>2 DEF Procs, FreeProc
  <2>2. \A q \in Pids \ {p} : proc'[q] = pr[q]
    BY <1>2 DEF Procs
  <2>. QED
    BY <2>1, <2>2 DEF Matches
<1>. QED
  BY <1>1, <1>2 DEF RunOpenvpn

(***************************************************************************)
(* The handlers.                                                           *)
(***************************************************************************)
\* _connect_common uses the cache only for the parameters it is valid for.
LEMMA ConnectProfile ==
    ASSUME HashesApart, IndInv, ProfileInv,
           NEW c \in Connections, Connect(c) \/ NewSecrets(c)
    PROVE  ProfileInv'
<1>. DEFINE fresh == [CleanPriv(priv) EXCEPT !.connection = c, !.uuid = c.uuid]
            pr == CleanProc(priv, proc)
<1>1. priv \in Priv /\ proc \in Procs /\ c.uuid \in Uuids /\ c.params \in Params
  BY DEF IndInv, TypeOK, Procs, Connections
<1>2. fresh.connection = c
  <2>1. CleanPriv(priv) \in Priv
    BY <1>1, CleanPrivType
  <2>. QED
    BY <2>1 DEF Priv
<1>3. pr \in Procs /\ Matches(pr)
  BY <1>1, TerminateType, TerminateNothingNew, NothingNewMatches DEF CleanProc, Priv, ProfileInv
<1>. HIDE DEF fresh, pr
<1>4. CASE ConnectRefused
  BY <1>4 DEF ConnectRefused, ProfileInv, DiskInv, Matches
<1>5. ASSUME NEW ok \in BOOLEAN, ConnectAccepted(c, ok)
      PROVE  ProfileInv'
  <2>1. DiskInv'
    BY <1>5 DEF ConnectAccepted, ProfileInv, DiskInv
  <2>2. CASE proc' = pr
    BY <1>3, <2>1, <2>2 DEF ProfileInv, Matches
  <2>3. ASSUME IsValid(disk[c.uuid], c.params), NEW tb, NEW o,
               RunOpenvpn(fresh, pr, tb, disk[c.uuid].config, o)
        PROVE  ProfileInv'
    <3>1. disk[c.uuid].config = c.params
      BY <1>1, <2>3, CheckedIsAskedFor DEF IsValid, ProfileInv, DiskInv
    <3>2. Matches(proc')
      BY <1>1, <1>2, <1>3, <2>3, <3>1, RunOpenvpnMatches
    <3>. QED
      BY <2>1, <3>2 DEF ProfileInv, Matches
  <2>. QED
    BY <1>5, <2>2, <2>3 DEF ConnectAccepted, fresh, pr
<1>. QED
  BY <1>4, <1>5 DEF Connect, NewSecrets

\* A disconnect starts nothing; it can mark the entry of its UUID.
LEMMA PluginDisconnectProfile ==
    ASSUME IndInv, ProfileInv, NEW pv \in Priv, pv.uuid \in Uuids \cup {None},
           NEW pr \in Procs, NothingNew(proc, pr), PluginDisconnect(pv, pr)
    PROVE  ProfileInv'
<1>1. disk \in Disks
  BY DEF IndInv, TypeOK, Disks
<1>2. Matches(pr)
  BY NothingNewMatches DEF ProfileInv
<1>3. proc' = pr \/ proc' = Terminate(pr, pv.pid)
  BY DEF PluginDisconnect, CleanProc
<1>4. Matches(proc')
  BY <1>2, <1>3, TerminateNothingNew, NothingNewMatches DEF Priv
<1>5. DiskInv'
  BY <1>1, MarkedStaleDescribed DEF PluginDisconnect, ProfileInv, DiskInv
<1>. QED
  BY <1>4, <1>5 DEF ProfileInv, Matches

\* openvpn_watch_cb reaps a process.
LEMMA WatchCbProfile ==
    ASSUME IndInv, ProfileInv, NEW p \in Pids, WatchCb(p)
    PROVE  ProfileInv'
<1>. DEFINE pv == [priv EXCEPT !.pid = None, !.connect_timer = FALSE]
<1>1. priv \in Priv /\ proc \in Procs /\ disk \in Disks
  BY DEF IndInv, TypeOK, Procs, Disks
<1>2. pv \in Priv /\ pv.uuid \in Uuids \cup {None} /\ priv.uuid \in Uuids \cup {None}
  BY <1>1 DEF Priv
<1>3. \A pr \in ReapedProcs(p) : pr \in Procs /\ NothingNew(proc, pr)
  <2>. DEFINE reaped == [proc EXCEPT ![p] = FreeProc]
  <2>1. reaped \in Procs /\ NothingNew(proc, reaped)
    BY <1>1, FreeProcType DEF Procs, NothingNew, FreeProc
  <2>2. ASSUME NEW q \in Pids
        PROVE  /\ [reaped EXCEPT ![q].status = "ok"] \in Procs
               /\ NothingNew(proc, [reaped EXCEPT ![q].status = "ok"])
    BY <1>1, <2>1 DEF Procs, Proc, NothingNew
  <2>. QED
    BY <2>1, <2>2 DEF ReapedProcs, Stealable
<1>4. ASSUME NEW pr \in ReapedProcs(p), proc' = pr, disk' = disk \/ disk' \in MarkedStale(TRUE, priv.uuid)
      PROVE  ProfileInv'
  <2>1. Matches(proc')
    BY <1>3, <1>4, NothingNewMatches DEF ProfileInv
  <2>2. DiskInv'
    BY <1>1, <1>2, <1>4, MarkedStaleDescribed DEF ProfileInv, DiskInv
  <2>. QED
    BY <2>1, <2>2 DEF ProfileInv, Matches
<1>5. ASSUME NEW pr \in ReapedProcs(p), PluginDisconnect(pv, pr)
      PROVE  ProfileInv'
  BY <1>2, <1>3, <1>5, PluginDisconnectProfile
<1>. QED
  BY <1>4, <1>5 DEF WatchCb

\* fetch_done_cb stores and starts the profile of the connection, whether
\* it was fetched or had been cached for the same parameters.
LEMMA FetchDoneProfile ==
    ASSUME HashesApart, ~DiskFaults, IndInv, ProfileInv, NEW t \in Tasks, FetchDone(t)
    PROVE  ProfileInv'
<1>. DEFINE pv == [priv EXCEPT !.fetch = None]
            u == priv.uuid
            p == priv.connection.params
<1>1. priv \in Priv /\ proc \in Procs /\ disk \in Disks /\ task[t].running
  BY DEF IndInv, TypeOK, Procs, Disks, FetchDone
<1>2. pv.connection = priv.connection
  BY <1>1 DEF Priv
<1>3. CASE UNCHANGED <<proc, disk>>
  BY <1>3 DEF ProfileInv, DiskInv, Matches
<1>4. ASSUME priv.connection # None
      PROVE  priv.connection \in Connections /\ u \in Uuids /\ p \in Params
  <2>1. priv.connection \in Connections /\ u = priv.connection.uuid
    BY <1>1, <1>4 DEF IndInv, ConnectionInv, Priv
  <2>. QED
    BY <2>1 DEF Connections
<1>. HIDE DEF pv, u, p
<1>5. ASSUME priv.connection # None, UseProfile(pv, p), DiskInv'
      PROVE  ProfileInv'
  <2>1. PICK o : RunOpenvpn(pv, proc, table, p, o)
    BY <1>5 DEF UseProfile
  <2>2. p = pv.connection.params
    BY <1>2 DEF p
  <2>3. Matches(proc')
    BY <1>1, <1>2, <1>4, <1>5, <2>1, <2>2, RunOpenvpnMatches DEF ProfileInv
  <2>. QED
    BY <1>5, <2>3 DEF ProfileInv, Matches
<1>6. ASSUME priv.connection # None, ~task[t].cancelled,
             disk' = [disk EXCEPT ![u] = Store(disk[u], task[t].connection.params, p, "both")],
             UseProfile(pv, disk'[u].config)
      PROVE  ProfileInv'
  <2>1. task[t].connection.params = p
    BY <1>1, <1>6 DEF IndInv, FetchInv, FetchMatchesAttempt, p
  <2>2. /\ Described(Store(disk[u], p, p, "both"))
        /\ Store(disk[u], p, p, "both").config = p
    BY <1>4, <1>6, StoreDescribed, NoneAssumption
  <2>3. DiskInv' /\ disk'[u].config = p
    BY <1>1, <1>4, <1>6, <2>1, <2>2 DEF ProfileInv, DiskInv, Disks
  <2>. QED
    BY <1>5, <1>6, <2>3
<1>7. ASSUME priv.connection # None, UNCHANGED disk,
             Exists(disk[u], p), UseProfile(pv, disk[u].config)
      PROVE  ProfileInv'
  <2>1. disk[u].config = p
    BY <1>4, <1>7, CheckedIsAskedFor DEF Exists, ProfileInv, DiskInv
  <2>2. DiskInv'
    BY <1>7 DEF ProfileInv, DiskInv
  <2>. QED
    BY <1>5, <1>7, <2>1, <2>2
<1>. QED
  BY <1>3, <1>6, <1>7 DEF FetchDone, FetchFailed, pv, u, p

\* The other steps start no process and store nothing.
LEMMA OthersProfile ==
    ASSUME ~Crashes, IndInv, ProfileInv,
           \/ FailStop \/ ConnectTimeout \/ Start \/ Exit \/ Crash
           \/ \E p \in Pids : EnsureKilled(p) \/ HelperConfig(p) \/ HelperFailure(p)
           \/ \E p \in Pids, status \in {"ok", "error"} : OpenvpnExit(p, status)
           \/ \E u \in Uuids : ExpireCache(u)
    PROVE  ProfileInv'
<1>1. priv \in Priv /\ proc \in Procs /\ disk \in Disks
  BY DEF IndInv, TypeOK, Procs, Disks
<1>2. ASSUME DiskInv', NothingNew(proc, proc')
      PROVE  ProfileInv'
  <2>1. Matches(proc')
    BY <1>2, NothingNewMatches DEF ProfileInv
  <2>. QED
    BY <1>2, <2>1 DEF ProfileInv, Matches
<1>3. NothingNew(proc, proc)
  BY DEF NothingNew
<1>4. UNCHANGED disk => DiskInv'
  BY DEF ProfileInv, DiskInv
<1>5. CASE FailStop \/ Start
  BY <1>2, <1>3, <1>4, <1>5 DEF FailStop, Start
<1>6. CASE ConnectTimeout
  <2>1. proc' = proc \/ proc' = Terminate(proc, priv.pid)
    BY <1>6 DEF ConnectTimeout
  <2>2. NothingNew(proc, proc')
    BY <1>1, <1>3, <2>1, TerminateNothingNew DEF Priv
  <2>3. DiskInv'
    BY <1>1, <1>4, <1>6, MarkedStaleDescribed DEF ConnectTimeout, Priv, ProfileInv
  <2>. QED
    BY <1>2, <2>2, <2>3
<1>7. CASE Exit
  <2>1. NothingNew(proc, CleanProc(priv, proc)) /\ CleanProc(priv, proc) \in Procs
    BY <1>1, TerminateNothingNew, TerminateType DEF CleanProc, Priv
  <2>2. NothingNew(CleanProc(priv, proc), proc')
    BY <1>7, <2>1 DEF Exit, Gone, NothingNew, FreeProc, Procs, Proc
  <2>3. NothingNew(proc, proc')
    BY <2>1, <2>2 DEF NothingNew
  <2>. QED
    BY <1>2, <1>4, <1>7, <2>3 DEF Exit
<1>8. ASSUME NEW p \in Pids, EnsureKilled(p) \/ HelperConfig(p) \/ HelperFailure(p)
      PROVE  ProfileInv'
  <2>1. NothingNew(proc, proc')
    BY <1>1, <1>8 DEF EnsureKilled, HelperConfig, HelperFailure, Exited, IsAlive, NothingNew,
                      FreeProc, Procs, Proc
  <2>. QED
    BY <1>2, <1>4, <1>8, <2>1 DEF EnsureKilled, HelperConfig, HelperFailure
<1>9. ASSUME NEW p \in Pids, NEW status \in {"ok", "error"}, OpenvpnExit(p, status)
      PROVE  ProfileInv'
  <2>1. NothingNew(proc, proc')
    BY <1>1, <1>9 DEF OpenvpnExit, Exited, IsAlive, NothingNew, FreeProc, Procs, Proc
  <2>. QED
    BY <1>2, <1>4, <1>9, <2>1 DEF OpenvpnExit
<1>10. ASSUME NEW u \in Uuids, ExpireCache(u)
       PROVE  ProfileInv'
  <2>1. Described(Expire(disk[u]))
    BY <1>1, ExpireDescribed DEF Disks, ProfileInv, DiskInv
  <2>2. DiskInv'
    BY <1>1, <1>10, <2>1 DEF ExpireCache, Disks, ProfileInv, DiskInv
  <2>. QED
    BY <1>2, <1>3, <1>10, <2>2 DEF ExpireCache
<1>. QED
  BY <1>5, <1>6, <1>7, <1>8, <1>9, <1>10 DEF Crash

(***************************************************************************)
(* The theorems.                                                           *)
(***************************************************************************)
\* An empty state directory and no process.
LEMMA InitProfile == Init => ProfileInv
  BY DEF Init, ProfileInv, DiskInv, Described, NoEntry, Matches, FreeProc

\* Every step keeps the state directory described and every openvpn on its
\* connection's profile.
LEMMA NextProfile ==
    ASSUME HashesApart, ~DiskFaults, ~Crashes
    PROVE  IndInv /\ ProfileInv /\ [Next]_vars => ProfileInv'
<1>. SUFFICES ASSUME IndInv, ProfileInv, [Next]_vars PROVE ProfileInv'
  OBVIOUS
<1>1. CASE UNCHANGED vars
  BY <1>1 DEF vars, ProfileInv, DiskInv, Matches
<1>2. ASSUME NEW c \in Connections, Connect(c) \/ NewSecrets(c) PROVE ProfileInv'
  BY <1>2, ConnectProfile
<1>3. CASE Disconnect
  <2>1. priv \in Priv /\ proc \in Procs /\ priv.uuid \in Uuids \cup {None}
    BY DEF IndInv, TypeOK, Procs, Priv
  <2>2. NothingNew(proc, proc)
    BY DEF NothingNew
  <2>. QED
    BY <1>3, <2>1, <2>2, PluginDisconnectProfile DEF Disconnect
<1>4. ASSUME NEW t \in Tasks, FetchDone(t) PROVE ProfileInv'
  BY <1>4, FetchDoneProfile
<1>5. ASSUME NEW p \in Pids, WatchCb(p) PROVE ProfileInv'
  BY <1>5, WatchCbProfile
<1>. QED
  BY <1>1, <1>2, <1>3, <1>4, <1>5, OthersProfile DEF Next

\* The inductive invariant of this module.
LEMMA ProfileInductive ==
    ASSUME HashesApart, ~DiskFaults, ~Crashes
    PROVE  Spec => []ProfileInv
  BY InitProfile, NextProfile, IndInvHolds, PTL DEF Spec

\* Whatever the cache takes for valid was generated for the parameters
\* asked about, when their joins differ and every store completes.
THEOREM CacheIsRight ==
    ASSUME HashesApart, ~DiskFaults, ~Crashes
    PROVE  Spec => []CacheMatchesParams
<1>1. ProfileInv => CacheMatchesParams
  BY CheckedIsAskedFor DEF ProfileInv, DiskInv, CacheMatchesParams, IsValid
<1>. QED
  BY <1>1, ProfileInductive, PTL

\* openvpn runs the profile of the connection it was started for, through
\* any Connect, disconnect, late fetch, fallback to a stale profile, exit
\* and restart, under the same assumptions.
THEOREM ProfileIsTheConnections ==
    ASSUME HashesApart, ~DiskFaults, ~Crashes
    PROVE  Spec => []ProfileMatchesConnection
<1>1. ProfileInv => ProfileMatchesConnection
  BY DEF ProfileInv, Matches, ProfileMatchesConnection
<1>. QED
  BY <1>1, ProfileInductive, PTL
==============================================================================
