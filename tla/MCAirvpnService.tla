--------------------------- MODULE MCAirvpnService ---------------------------
EXTENDS AirvpnRefinement, Naturals, FiniteSets, TLC

MCParam(port, directives) ==
    [server |-> <<"ch">>, device |-> <<>>, protocol |-> <<"udp">>,
     port |-> port, custom_directives |-> directives]

\* Two parameter sets an edit of the connection switches between.
MCParams == {MCParam(<<"443">>, <<>>), MCParam(<<"1194">>, <<>>)}

\* One parameter set, where a run is about processes and not profiles.
MCOneParam == {MCParam(<<"443">>, <<>>)}

\* Two settings that validate and that params_hash joins to one string:
\* strtol takes "443|a" for a port, and a directive may contain a bar.
MCAmbiguousParams == {MCParam(<<"443", "|", "a">>, <<"b">>),
                      MCParam(<<"443">>, <<"a", "|", "b">>)}

\* Bounds of the run with --persist.  One of its connections has the kill
\* switch on and the others have it off, profiles do not grow 90 days old, and
\* at most two of the openvpn processes and fetches, old ones included, are
\* under way at a time: an old and a new fetch, an old openvpn and a new
\* fetch, or an old and a new openvpn.
MCProtected == CHOOSE u \in Uuids : TRUE

MCFixedKillSwitch ==
    priv'.connection # None =>
        (priv'.connection.kill_switch <=> priv'.connection.uuid = MCProtected)

MCNoAgeing == \A u \in Uuids : disk'[u] # disk[u] => disk'[u] # Expire(disk[u])

MCTwoAtATime ==
    LET procs == {p \in Pids : proc'[p].st # "free"}
        tasks == {t \in Tasks : task'[t].running}
    IN  Cardinality(procs) + Cardinality(tasks) <= 2

MCPersistBounds == MCFixedKillSwitch /\ MCNoAgeing /\ MCTwoAtATime

MCSymmetry == Permutations(Pids) \cup Permutations(Tasks)
==============================================================================
