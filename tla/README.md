# A verification project for networkmanager-airvpn

networkmanager-airvpn adds AirVPN connections to NetworkManager: a root daemon
that fetches an OpenVPN profile from AirVPN's generator, caches it, runs openvpn
on it and guards it with a kill switch, and the desktop parts that edit such a
connection and ask for its API key. This directory holds TLA+ modules of that
program, TLC configurations that check them on small instances, and theorems
that TLAPS proves for every instance. Paths below are relative to the
repository.

Contents: 1 inventory, 2 modules and how they correspond to the code, 3 runs,
4 fairness, 5 findings, 6 proofs, 7 what is only model-checked, 8 abstractions,
9 what is not modelled, 10 plan.

## 1. Inventory

| component | file | state | operations |
|---|---|---|---|
| daemon | `src/nm-airvpn-service.c` | `NMAirvpnPluginPrivate` (pid, started, connection, fetch_cancellable, connect_timer, uuid, kill_switch_active, unexpected_drop), the state of its libnm base class, the GLib main loop | Connect, ConnectInteractive, NewSecrets, NeedSecrets, Disconnect; child watch, connect timer, ensure_killed timer, fetch callback, state-changed callback; start, exit |
| profile cache | `src/nm-airvpn-cache.c` | two files per connection UUID: profile and meta data (hash, fetch time, stale) | is_valid, exists, store, mark_stale |
| kill switch | `src/nm-airvpn-firewall.c` | one nftables table in the kernel | arm, disarm; building the ruleset from a profile |
| generator client | `src/nm-airvpn-api.c` | one worker thread per fetch | device validation, profile request, response checks, cancellation |
| openvpn `--up` helper | `src/nm-airvpn-service-openvpn-helper.c` | none between runs | turn openvpn's environment into SetConfig, SetIp4Config, SetIp6Config, or SetFailure |
| property validation | `shared/nm-airvpn-properties.c` | none | validate the data items and secrets of a connection |
| connection editor | `properties/nm-airvpn-editor.c` | widgets, three cancellables, the reconnect context | load, update_connection, refresh, load devices, Apply & Reconnect, dispose |
| server list | `properties/nm-airvpn-server-list.c` | a combo box | fetch, refill while keeping the selection |
| authentication dialog | `auth-dialog/main.c` | none between runs | decide where the API key comes from, wait for QUIT |
| editor plugin factory | `properties/nm-airvpn-editor-plugin.c`, `shared/nm-utils/nm-vpn-plugin-utils.c` | the static struct with the module that was loaded | choose the GTK3 or GTK4 module, dlopen it once per process |
| fetch test tool | `src/nm-airvpn-test-fetch.c` | none | one synchronous fetch from a command line |

(File names in this table are relative to the root of the source tree.)

How they interact:

- NetworkManager calls the daemon over D-Bus. libnm's `NMVpnServicePlugin` base
  class holds the service state (INIT, STARTING, STARTED, STOPPED), refuses
  calls that do not fit it, and emits `state-changed` and `quit`, on which the
  daemon clears its connection and leaves its main loop.
- The daemon spawns openvpn. It learns of openvpn's end through a GLib child
  watch, and of its success through the helper, a child of openvpn which calls
  the daemon's D-Bus object. The helper does not say for which attempt it
  speaks.
- The daemon starts a fetch in a worker thread and gets its result in a
  callback on the main loop; a cancelled fetch still calls back.
- The daemon arms and lifts the kernel's table with `nft`, and reads and writes
  the cache on disk. Both outlive the daemon.
- The daemon signals failures to NetworkManager, which answers with Disconnect.
- The editor edits the settings the daemon validates, and restarts the
  connection through NetworkManager only.
- Before an activation NetworkManager asks the daemon whether a secret is
  missing, and has an agent run the authentication dialog if so; the dialog's
  answer comes back to the daemon inside Connect.
- openvpn resolves the names of its remotes a second time, behind the table
  that was built from the first resolution.

What is hard:

- *Ordering of callbacks.* One thread, but six kinds of callback over state
  that Connect, Disconnect and exit reset: a child watch, a timer or a fetch
  result may belong to an attempt that is over.
- *Two records of one fact.* `kill_switch_active` and the kernel's table;
  `priv->pid` and the live processes; `fetch_cancellable` and the running
  threads; the profile file and the meta data file.
- *Clocks.* A 45-second timer of the daemon, a 60-second limit of libnm, and
  libcurl's limits on each request run at the same time, from different
  starting points.
- *Failure.* `nft` and disk writes fail, openvpn exits with success or failure
  at any time, the daemon is killed between two writes. NetworkManager runs the
  daemon without `--persist`, so STOPPED ends the process.
- *The unexpected drop.* When openvpn dies under an established connection the
  table must outlive Disconnect and exit, and must not outlive a wanted
  disconnect.

What makes each component correct:

- daemon: an attempt always ends; nothing of an attempt survives STOPPED; a
  late callback never acts for another attempt; the kill switch covers openvpn
  from before its first packet until a wanted end, and a drop keeps it;
- cache: what is taken for valid was generated for the parameters asked about
  and is refreshed after a failure that may be its fault;
- firewall: the table accepts the remotes of the profile openvpn runs and
  lets it resolve them; while a lost tunnel is blocked, only a new attempt or a
  new daemon ends that;
- generator client: a cancelled fetch has no effect; only a profile is stored;
- helper: the daemon is told of a configuration that has an address, or of a
  failure;
- validation and editor: both agree on what a connection may contain, and
  loading and saving keeps it; dialog and NeedSecrets agree on when a key is
  needed;
- editor tasks: no callback touches a disposed editor, the reconnect button
  comes back;
- plugin factory: a process never holds two editor modules.

The hazards behind these are listed one by one, each at its line, in
`PROJECT.json` under `hazards`.

## 2. Modules

| module | models | extends |
|---|---|---|
| `AirvpnCache` | values of a cache directory and the operations on it | |
| `AirvpnFirewall` | values of the kernel's table and the operations on it | |
| `AirvpnService` | the daemon with everything it drives over any number of attempts: state machine, properties, fairness | both |
| `AirvpnKillSwitch` | abstract specification: off, guarding, blocking | |
| `AirvpnRefinement` | the mapping under which the daemon implements it | `AirvpnService`, INSTANCE `AirvpnKillSwitch` |
| `AirvpnSecrets` | the way of the API key: flags, keyring, dialog, agent, `real_need_secrets` | `AirvpnNull` |
| `AirvpnFetch` | the worker thread of one fetch, its requests, cancellation, the account | `AirvpnNull` |
| `AirvpnRuleset` | from a profile to the rules of the table, and what openvpn reads in the same profile, as operators | `AirvpnNull` |
| `AirvpnHelper` | from openvpn's environment to the configurations sent, as operators | `AirvpnNull` |
| `AirvpnActivation` | one attempt end to end, composing the four above with the daemon's handlers, openvpn, and time | all four |
| `AirvpnServerList` | the two requests of the editor, the reading of their answers, the refill of the combo box, as operators | |
| `AirvpnEditor` | the asynchronous life of the editor: threads, reconnect chain, dispose | `AirvpnServerList` |
| `AirvpnEditorHost` | the program around it and the plugin loader | `AirvpnEditor` |
| `AirvpnSettings` | validation, the daemon's reading of a connection, loading and saving in the editor, as operators, and a connection that goes round | |
| `AirvpnNull` | the constant for NULL | |
| `MCAirvpnService`, `MCAirvpnActivation`, `MCAirvpnEditor`, `MCAirvpnSettings` | values for TLC | `AirvpnRefinement`, `AirvpnActivation`, `AirvpnEditorHost`, `AirvpnSettings` |
| `AirvpnServiceProofs` | the invariant of the daemon, with its theorems | `AirvpnService`, TLAPS |
| `AirvpnRefinementProofs` | the flag and the table; the refinement | the previous one, `AirvpnRefinement` |
| `AirvpnTunnelProofs` | the daemon as NetworkManager runs it | the previous one |
| `AirvpnProfileProofs` | which profile openvpn gets, and which settings share a hash | `AirvpnServiceProofs`, SequenceTheorems |
| `AirvpnActivationProofs` | the search for the key, the checked device, the three clocks | `AirvpnActivation`, TLAPS |
| `AirvpnContentProofs` | the contents of the table and of what the up helper sends | `AirvpnActivationProofs`, WellFoundedInduction |
| `AirvpnEditorProofs` | the editor and its host | `AirvpnEditorHost`, WellFoundedInduction, TLAPS |
| `AirvpnSettingsProofs` | the round trip of the settings | `AirvpnSettings`, TLAPS |

`AirvpnCache` and `AirvpnFirewall` have no variables: their operations are
functions from old to new value (a set of new values where a call may fail
unnoticed), so that a handler of the daemon can chain them in the order of the
code.

**`AirvpnService`** has one action per handler, which runs to its end on the
main loop as in the code, with all the calls it makes.

| variable | stands for |
|---|---|
| `loop` | the process: down, in `g_main_loop_run`, or past `g_main_loop_quit` |
| `svc`, `fail_stop` | libnm's service state, and the idle source by which libnm stops a plugin that refused a call |
| `failed` | NetworkManager has received a Failure signal and not yet answered |
| `priv` | `NMAirvpnPluginPrivate`, field by field (`interactive` and `kill_id` are never read and left out) |
| `proc` | openvpn processes: running before or after its up script, exited and not yet reaped, with exit status, pending SIGTERM, the profile and connection it was started for |
| `kill_timers` | pending `ensure_killed` timers |
| `task` | fetch threads, cancelled ones included |
| `table` | the profiles whose remotes the kernel's table accepts; empty means no table |
| `disk` | the cache directory of each UUID |

| action | code |
|---|---|
| `Connect`, `NewSecrets` | `real_connect`, `real_connect_interactive`, `real_new_secrets`, `_connect_common`, `run_openvpn`, and libnm's handlers around them |
| `Disconnect` | `real_disconnect`, `state_changed_cb`, `quit_mainloop`, within `nm_vpn_service_plugin_disconnect` |
| `FailStop` | libnm's answer to a refused call |
| `WatchCb` | `openvpn_watch_cb`, with the two status-stealing cases of its `waitpid` |
| `ConnectTimeout`, `EnsureKilled` | the two timers |
| `FetchDone` | `fetch_done_cb` with every outcome of the fetch |
| `HelperConfig`, `HelperFailure` | what the helper sends, `state_changed_cb` for STARTED |
| `OpenvpnExit`, `ExpireCache` | the environment |
| `Start`, `Exit`, `Crash` | `main`, `dispose`, sudden death |

**`AirvpnKillSwitch`** knows three variables: whether traffic is let through
(`guard`: off, guarding a wanted tunnel, or blocking after a lost one), whether
the daemon is up, and whether there is an attempt. What it promises is in the
actions it does not have: "blocking" ends with `Supersede` or `Arm` of a new
attempt, or with `Start` of a new daemon, and in no other way. `AirvpnRefinement`
maps the daemon to it: `guard` is off without a table, blocking with a table and
either `unexpected_drop` or no daemon, and guarding otherwise; `attempt` is
`priv->connection`. `KillSwitchKept` is `KillSwitch!Spec` under that mapping.

**`AirvpnActivation`** looks at a single attempt, but at its contents: the key,
the device, the profile line by line, the addresses behind its names, the
environment of the up script, and time in ticks of five seconds.

| variable | stands for |
|---|---|
| `flags`, `keyring`, `key`, `pass`, `asked`, `dialog` (`AirvpnSecrets`) | secret flags, saved key, the key NetworkManager has, its round of asking, whether the user was asked, the dialog process |
| `clock`, `net`, `account`, `revoked`, `served`, `fetch` (`AirvpnFetch`) | ticks since the attempt began, the network, the account's devices, a key that AirVPN refuses, the profile the generator writes, the worker thread |
| `connection`, `nameservers`, `pushed`, `era` | settings, `/etc/resolv.conf`, what the server pushes, the state of the DNS |
| `svc`, `failed`, `drop`, `timer`, `cache` | libnm's state, a Failure signal, `unexpected_drop`, when `connect_timer` is due, the cached profile |
| `table`, `armed_era` | the rules in the kernel, and when their names were resolved |
| `ovpn`, `helper`, `nm`, `got` | openvpn, the calls its helper has still to make, the configurations that arrived, and those since the last SetConfig |

| action | code |
|---|---|
| `SystemRound`, `RunDialog`, `AgentHangsUp`, `DialogExits` | NetworkManager's rounds with `real_need_secrets`; `get_secrets`; the agent; `wait_for_quit` and the end of `main` |
| `RequestFails`, `KeyRejected`, `DevicesAnswer`, `GeneratorAnswer`, `DeviceRemoved` | `http_get`, `check_json_error`, `validate_device`, the generator request with `validate_profile`, the account's owner |
| `Connect`, `FetchDone`, `Disconnect`, `ConnectTimeoutCb`, `WatchCb` | the daemon's handlers, with `RunOpenvpn` for `run_openvpn` from the kill switch on |
| `OpenvpnContacts`, `OpenvpnTriesAgain`, `OpenvpnIsUp`, `OpenvpnExits` | openvpn: a name to resolve, an address to contact, the up script, a restart |
| `HelperCall`, `HelperEnds` | `send_config`, a call of which may fail and is passed over |
| `Tick`, `DnsChanges` | time, which cannot pass a limit that is due; the world |

The pure parts are operators. A profile is a sequence of lines, a list of remotes
a function from the numbers of their lines, and a D-Bus dictionary or the
environment of the helper a record with None for what is absent: nothing is
shifted or folded, and every entry can be traced to its line. `ParseRemotes` yields the set of lists that
`parse_remotes` may return, since a `remote` line of two words makes it read past
the end of an array; `Arm` is the ruleset, or None when a name does not resolve
or nft refuses a rule; `Contacts` is what openvpn itself would contact.
`Calls` is what the helper sends for an environment, `HelperError` the error it
reports instead, both also for a restart, where the addresses may come as
arguments only.

**`AirvpnEditorHost`** wraps `Open` of the editor in `GetEditor`: `get_editor`
chooses the module by the toolkit the process shows, and `LoadEditor`
(`nm_vpn_plugin_utils_load_editor`) loads it once, reuses it, fails, or refuses
another module than the loaded one. `cached` is its static struct, `mapped` what
dlopen left in the process; each dlopen may find another version of the file.

**`AirvpnEditor`** has one action per callback of `properties/nm-airvpn-editor.c`.

| variable | stands for |
|---|---|
| `editor` | the GObject: absent, held by the host program, or held by the reconnect context only |
| `priv` | `refresh_cancellable` and `devices_cancellable` (set or NULL) and `reconnect_busy`, with which `reconnect_cancellable` is set and cleared |
| `widgets` | the server combo, the sensitivity of the three buttons, the label of the reconnect button, whether an API key is entered |
| `tasks` | the two worker threads until their callback has run, and whether they were cancelled |
| `ctx` | `ReconnectCtx`: the call that is under way, `polls`, and the server written to the remote connection |
| `nm` | NetworkManager: the stored server (None if there is no connection) and the state of the connection (inactive, activating, active, deactivating); `owed` is a history variable: settings were committed while the connection was up, and nobody has activated it since |

| action | code |
|---|---|
| `Open`, `Close` | `nm_airvpn_editor_new` with the refresh it starts; the host's last unref, with `dispose` at once or when the reconnect context ends |
| `Click` | `refresh_button_clicked_cb`, `devices_button_clicked_cb` |
| `TaskDone` | the end of a thread and `refresh_done_cb` or `devices_done_cb`, cancelled, or with any HTTP reply, from which `AirvpnServerList` makes a list or an error |
| `ClickReconnect`, `ClientReady`, `CommitDone`, `DeactivateDone`, `PollDeactivated`, `ActivateDone` | the callbacks of Apply & Reconnect, each with its failures |
| `SelectServer`, `HostSave`, `ConnectionChanges` | the user, the host's save button, other clients of NetworkManager and what becomes of an activation |

`ActivateDone` succeeds when NetworkManager has returned an active connection,
as `reconnect_activate_done` does; by then the connection may be activating, up,
or have failed already.

`HttpGet`, `StatusTokens` and `DeviceNames` in `AirvpnServerList` read a reply:
status, size, JSON, the sections with their required members, and the order of
the rows. `FillCombo` is `nm_airvpn_server_list_fill_combo`: earth,
the rows of the answer, the selected row added if the answer lacks it, and the
last row that matches it without case made active.

**`AirvpnSettings`** is mostly operators: `Validate` for
`nm_airvpn_properties_validate`; `Effect` for what the daemon makes of a
connection (`Request` for `build_generator_url`, `CacheKey` for what
`params_hash` hashes, `Keepalive` and `KillSwitch` for `run_openvpn`);
`Load` and `Update` for `init_editor_plugin` and `update_connection`; `Shown`
for what a user reads off the widgets and their labels. Its state machine takes
one connection through them over and over: `Open`, `Edit`, `ListArrives`
(`refresh_done_cb` may respell the selected server), `Save` (which
NetworkManager stores or validation refuses), `Close`, and `NftChanges`, since
the editor looks for the `nft` binary when it is opened. `stored` is the
connection NetworkManager holds, `widgets` the open editor, `edits` and
`result` record what happened in it.

A definition whose comment starts with "Mutated form" is not part of the model.
It is a plausible mistake in the definition after it, and each property is known
to fail when the mistake is put in place (`mutants` in `PROJECT.json`).

## 3. Runs

The `.cfg` of a run has its name. `editor` uses `MCAirvpnEditor`, `settings`
uses `MCAirvpnSettings`, `activation` and `bare_remote` use
`MCAirvpnActivation`, all others `MCAirvpnService`. State spaces are finite
without a constraint: what the modules count (`polls`, `edits`, `clock`) is
bounded in the guards. `persist` alone has an action constraint, which keeps it
small (`MCPersistBounds`, below). Deadlock checking is on where the system goes on for
ever: the daemon can always be started or called, the editor opened or closed.
It is off for the two runs of `MCAirvpnActivation`, in which the attempt ends and
nothing follows.

| run | shows |
|---|---|
| `nm_launched` | the daemon as NetworkManager runs it, two UUIDs and two parameter sets, no faults: `TypeOK`, `FlagMatchesTable`, `StoppedIsIdle`, `ProfileMatchesConnection`, `CacheMatchesParams`, `StaleOnlyWhileStarting` (of two connections, the one that failed is blamed), and the refinement `KillSwitchKept` |
| `persist` | `--persist` with NewSecrets calls, two connections, two openvpn processes and two fetch threads, so that the watches of old processes and the callbacks of cancelled fetches meet new ones, of the same or the other connection: `FetchMatchesAttempt`, `AttemptIsWatched`, `DropStaysBlocked`; and under fairness `AttemptEnds`, an attempt leaves STARTING whatever openvpn does |
| `faults` | one connection, failing writes, failing `nft`, crashes: `KillSwitchCoversTunnel`, and `StaleOnlyWhileStarting` for what is left over from faults |
| `activation` | one attempt with its contents and its clocks: `TypeOK`; the flags of the key (`FlagsAreHonoured`) and, under fairness, the end of the dialog (`DialogEnds`); the device of the profile (`DeviceIsChecked`); the table against what openvpn contacts (`OwnRemotesAccepted`); the helper (`DeliveredIsStarted`, `RestartKeepsAddress`, `DnsOptionsArrive`); the three clocks (`UnreachableFallsBack`, `TimedOutAttemptIsStale`) |
| `editor` | a host program that opens and closes the editor at any time, module files that come, go and change, replies and failures arriving in any order, the connection coming, going and being deleted: `HostTypeOK`, `OneModuleLoaded`, `CallbacksFindEditor`, `ButtonsTellTruth`, `SelectionKept`, `OwedRestartIsReported`, and under fairness `ReconnectEnds`, `ClosedEditorIsFreed` |
| `settings` | a connection with absent, empty, odd and invalid items through load, edit, an arriving list, save, validation and daemon: `TypeOK`, `ShownIsApplied`, `UntouchedSaveKeepsEffect`, `UntouchedSaveKeepsProfile` |
| `store_torn`, `hash_join`, `stale_watch`, `clean_exit_stale`, `clean_exit_drop`, `bare_remote` | one violated property each, see section 5 |

Bounds, and why they are enough:

- *One or two UUIDs.* The UUIDs share `priv`, the table and nothing else; two
  show a result stored, or a profile marked, for the wrong one.
- *Two parameter sets.* The cache compares for equality only; two show a
  profile used for parameters it was not made for. Runs about processes use
  one.
- *Two pids.* The hazard is an old process and its successor; three generations
  meet only pairwise, because `priv` holds one pid.
- *One or two fetches.* A cancelled fetch and its successor (`persist`); a third
  could only be another cancelled one. Where one is used (`nm_launched`,
  `faults`), the daemon makes one attempt in its life, and has no other fetch to
  start while a cancelled one is under way.
- *`MCPersistBounds`*, the action constraint of `persist`. At most two openvpn
  processes and fetches together are under way, old ones included: an old and a
  new one of either kind, or one of each. The daemon holds one pid and one
  cancellable, so a callback meets its successor and no third. One connection
  has the kill switch and the other does not, and profiles do not grow 90 days
  old, which in this run could only refuse them as marking them stale does. The
  constraint cuts off Connect, NewSecrets and ExpireCache steps and none that
  fairness is about (a finished fetch gives way to the openvpn it starts), so
  it hides no behaviour in which an attempt fails to end. The theorems about
  this daemon hold without it and for any number of connections, processes and
  fetches.
- *`kill_switch` on or off* per connection; every connection value may come
  with every Connect, as after an edit of the settings.
- *Scenarios of `activation`* (109 initial states). They vary one part of the
  way at a time, since the parts meet only where one hands its result to the
  next: all flags, saved keys and stored keys; all networks, accounts, revoked
  keys, with a stale cached profile and without; six profiles (two remotes, a
  default protocol, a name, odd spacing, a name that does not resolve, a remote
  of two words), with two sets of name servers and a DNS that changes; seven
  pushed configurations (subnet, peer to peer, IPv6 only, both, no address, and
  options of every kind, DNS6 included, in a mixed order, with and without IPv4).
- *Ticks of five seconds* divide all limits: 20 s to connect and 60 s for a
  request (libcurl), 45 s (`CONNECT_TIMEOUT_SECONDS`), 60 s (libnm). A device
  query and a generator request in a row pass libnm's limit, so every order of
  the three happens.
- *Two versions* of the editor's module, two toolkits: what is loaded is
  compared for equality only.
- *`MaxPolls` = 2* (20 in the code): the polls differ only in their count; two
  show the last one, one before it, and a connection that changes in between.
- *Rows and replies of `editor`*: earth and two spellings of a country;
  replies that fail, are too large, are no JSON, hold an error object, lack
  sections or members, lack the selected row, spell it differently, or hold it
  twice.
- *`MaxSeconds` = 60* (3600 in the code): the defaults 10 and 60 must be in
  range, and "7200" out of it; the numbers in between are treated alike.
- *`MaxEdits` = 1* per opened editor, with any number of openings: every widget
  is stored and loaded on its own, and saves and further editors add up edits.
- *Texts of `settings`*: of each item the absent, the empty and the literal
  values, numbers with a suffix and beyond the range, directives with and
  without ping, two spellings of earth and of a country. The initial connections vary the items
  of the request together, those of keepalive and kill switch together, and
  those of the secrets together; no operator relates items across these groups
  but the protocol and the directives, which are in both of the first two.

When no pid or task is free, Connect cannot spawn or fetch. That cuts
behaviours short at the bound and hides no state below it.

Why one run does not have everything: `FlagMatchesTable`, `StoppedIsIdle`,
`ProfileMatchesConnection` and `CacheMatchesParams` are true only without
faults, or without `--persist` (section 5 and the notes of the hazards), and
the run that checks each one is the largest setting in which the code intends
it. A failing disarm, for instance, is best effort by the comment in
`src/src/nm-airvpn-firewall.c:300`, and makes `FlagMatchesTable` false by
design.

## 4. Fairness

`FairSpec` assumes weak fairness of

- `FetchDone`, for each fetch: a worker thread ends, since libcurl bounds each
  request by 60 seconds (`CURLOPT_TIMEOUT` in `src/src/nm-airvpn-api.c`), and
  its callback is dispatched;
- `WatchCb`, `EnsureKilled`, `ConnectTimeout`, `FailStop`, `Exit`: sources of a
  main loop, which dispatches what is ready;
- Disconnect *after a Failure signal*: NetworkManager answers it, as the code
  relies on (comment of `unexpected_drop` in `src/src/nm-airvpn-service.c`).

Nothing is assumed of openvpn, the helper, the user, or libnm's own timeout; in
particular an openvpn that hangs and ignores SIGTERM for good is a behaviour.
`ConnectTimeout` is a timer, so its fairness says that 45 seconds pass; a timer
that is cleared is no longer enabled.

`FairSpec` of `AirvpnEditor` assumes weak fairness of `TaskDone` for each thread
(its request is bounded by libcurl's timeout, and its callback is dispatched),
of `ClientReady`, `CommitDone`, `DeactivateDone` and `ActivateDone`
(NetworkManager answers a D-Bus call, or GLib fails it), and of
`PollDeactivated` (a half-second timer). Nothing is assumed of the user or the
host, of a call succeeding, or of the connection ever going down: `ReconnectEnds`
rests on the count of polls.

`FairSpec` of `AirvpnActivation` assumes weak fairness of `AgentHangsUp` and
`DialogExits` only: an agent that has read the dialog's answer writes QUIT or
goes away (`auth-dialog/main.c` relies on one of them), and the dialog's loop
then ends. It is used for `DialogEnds` and for nothing else; that an attempt
ends is shown on `AirvpnService`. `HostFairSpec` is `HostSpec` with the fairness
of `AirvpnEditor`: nothing is assumed of the loader.

## 5. Findings

Each is a run whose property states what the repository says and that TLC
violates; quotes and lines are in `PROJECT.json`.

- `store_torn`. `nm_airvpn_cache_store` replaces the profile before the meta
  data. If the second write fails, the profile of the new parameters lies under
  the meta data of the old ones, and is valid for them: the next connect with
  the old settings silently uses the server of the new ones.
- `hash_join`. `params_hash` joins the fields with a bar, and two fields may
  contain one: the port is validated by `strtol`, which stops at the first
  character that is no digit, and the directives are free text. Two different
  settings can share a profile.
- `stale_watch`. The child watch of a terminated openvpn clears the pid of its
  successor. With `--persist` (or NewSecrets) the successor is then terminated
  by nobody, and the next Connect starts a second openvpn beside it.
- `clean_exit_stale`. An openvpn that exits with status 0 before the tunnel is
  up ends the attempt, but `openvpn_watch_cb` clears the pid that
  `real_disconnect` looks at, so the profile is not marked stale.
- `clean_exit_drop`. An openvpn that ends an established tunnel by itself with
  status 0 is handled as a wanted disconnect, and the kill switch is lifted.

- `bare_remote`. A `remote` line without a port has two words; `parse_remotes`
  looks at the fourth element of its word array, behind the terminating NULL.
  The protocol of the rule is then whatever lies there, and not that of the
  `proto` directive, or the daemon dies. The generator writes a port, but a
  custom directive may add such a line.

For each of the six, a theorem says under which condition the refuted claim does
hold, so that the counterexample is the only kind there is: `CacheIsRight`
(`store_torn`: no write fails, no crash, and the hashes are apart), `HashesAreApart` (`hash_join`: no bar
but in the directives), `TunnelsAreOne` (`stale_watch`: no `--persist` and no
NewSecrets), `FailedAttemptsAreRefreshed` and `LostTunnelsStayBlocked`
(`clean_exit_stale`, `clean_exit_drop`: openvpn exits with status 0 only when told
to stop), `DefaultProtosApply` (`bare_remote`: every remote has a port).

Further observations, each recorded as a hazard: validation accepts a server
that is present and empty, for which the generator client asserts
(`src/src/nm-airvpn-api.c:294`); `real_need_secrets` asks for no key that is
flagged not-required, while Connect refuses without one
(`src/src/nm-airvpn-service.c:536`); a restart of a tunnel with IPv6 addresses
only finds no address, because only IPv4 has a fallback to the arguments
(`src/src/nm-airvpn-service-openvpn-helper.c:636`); a name server pushed as
`DNS6` is passed over like any unknown option (line 696); a name server with a zone is
written into the ruleset and nft refuses it. Success of Apply & Reconnect means that
NetworkManager accepted the activation (`src/properties/nm-airvpn-editor.c:361`):
that it fails afterwards is not reported, and a click that finds the connection
down, as after a first one that failed, only saves (line 429). The editor writes
out the default protocol and port and may respell the server, which `params_hash`
tells from items that are absent: after a save that changed nothing, the cached
profile of a connection made by nmcli is neither valid
(`src/src/nm-airvpn-cache.c:105`) nor a fallback when AirVPN cannot be reached
(`src/src/nm-airvpn-service.c:421`); `UntouchedSaveKeepsProfile` says exactly when.
Two that no module can say more
about than the code: `check_json_error` (`src/src/nm-airvpn-api.c:142`) takes any
JSON answer with the text `"error"`, a device of that name included, for an
error; the list of servers (`src/properties/nm-airvpn-server-list.c`) takes a
JSON error object for a list without rows.

## 6. Proofs

### The daemon

`AirvpnServiceProofs` proves, for all sets of UUIDs, pids, fetches and
parameters and all settings of the five switches (`--persist`, NewSecrets, disk
faults, nft faults, crashes):

| theorem | property |
|---|---|
| `TypeCorrect` | `TypeOK` |
| `FetchMatches` | `FetchMatchesAttempt` |
| `AttemptsAreWatched` | `AttemptIsWatched` |
| `DropsStayBlocked` | `DropStaysBlocked` |

Assumptions: `ParamsAssumption` (parameters are records with the five fields,
NULL is none of them), `NoneAssumption`, `ConnectionsAssumption` (NULL is no
meta data and no connection), `ServiceAssumption` (NULL is no identifier, the
switches are Boolean), `NftFaultsAssumption`. TLC evaluates them in every run.

The inductive invariant `IndInv` is `TypeOK` with four named parts:

- `ConnectionInv`: `priv->uuid` is the UUID of `priv->connection` whenever
  there is one. The two are cleared at different places (`state_changed_cb`
  clears the connection only, `cleanup_plugin` both), and `fetch_done_cb`
  stores under one what it fetched for the other;
- `DownInv`: no plugin object while the process is gone, so that an orphan's
  helper finds nothing to change;
- `FetchInv`: an uncancelled fetch is the one `fetch_cancellable` belongs to,
  and was started for the current connection or after its end;
- `AttemptInv`: while STARTING there is a connection, nobody has called it
  started, and `fetch_cancellable`, the timer, a Failure or a pending
  `fail_stop` is there. The first part is why it is not just
  `AttemptIsWatched`: a fetch that comes back without a connection ends
  nobody's attempt, and a timer that finds `started` set does nothing, so an
  attempt watched only by those would be stuck.

The proof has one lemma per handler (`ConnectStep`, `WatchCbStep`, ...), which
rest on lemmas about the building blocks (`CleanTaskCancels`,
`RunOpenvpnType`, `PluginDisconnectStep`, ...). `NextIndInv` puts them
together. `DropsStayBlocked` is an action property: from `TypeOK`, every action
is shown to keep a non-empty table after a drop, except those that go through
`run_openvpn`, which clears `unexpected_drop` with a connection at hand
(`RunOpenvpnSupersedes`, `CleanKeepsDropTable`), and `Start`, before which
`DownInv` rules a drop out.

### The kill switch and its refinement

`AirvpnRefinementProofs` assumes `~NftFaults` (a failing `nft delete` is passed
over by design, and makes the flag false) and nothing else:

| theorem | property |
|---|---|
| `FlagIsTrue` | `FlagMatchesTable` |
| `DaemonImplementsKillSwitch` | `KillSwitchKept` |

All that a handler of a living daemon ever does to the kill switch is one of
four things (`Handled`): it keeps table and flags (`KeepsTable`), it runs
`cleanup_plugin` (`CleansTable`), it sets `unexpected_drop` (`DropsTunnel`), or it
runs `run_openvpn` (`RunsAttempt`). Each handler is shown to be one of them
(`WatchCbHandled`, ...), and each of the four to keep `FlagMatchesTable` and to
be a step of `AirvpnKillSwitch!Operate` (`HandledStep`); start, exit and crash
map to the abstract actions of that name. `FlagMatchesTable` is inductive
together with `IndInv`; the refinement needs it because `cleanup_plugin` looks at
the flag and the abstract specification at the table.

### The daemon as NetworkManager runs it

`AirvpnTunnelProofs` assumes `QuitsOnStop` and `~SecretsCalls`, which is how
NetworkManager starts the daemon (`src/src/nm-airvpn-service.c:733`). What a theorem assumes beyond that is in the
last column.

| theorem | property | also assumed |
|---|---|---|
| `TunnelsAreCovered` | `KillSwitchCoversTunnel` | nothing: any faults and crashes |
| `StoppedMeansIdle` | `StoppedIsIdle` | `~NftFaults` |
| `OnlyAttemptsBlame` | `StaleOnlyWhileStarting` | nothing |
| `TunnelsAreOne` | `OneTunnel` | nothing |
| `FailedAttemptsAreRefreshed` | `FailedAttemptIsRefreshed` | `~DiskFaults`, `[][KeepsTrying]_vars` |
| `LostTunnelsStayBlocked` | `LostTunnelStaysBlocked` | `~NftFaults`, `[][KeepsTrying]_vars` |

`ChildInv` says what is special about such a daemon: it never has two children,
an openvpn that nobody told to stop is the one `priv->pid` names and is covered
by the table, there is no child while there is a fetch or before an attempt, and
after STOPPED nothing is left that could act (`Quiet`). `OneChild` is why the
child watch cannot take one process for another, and false under `--persist`
(`stale_watch`). `OnlyAttemptsBlame` adds `BlameInv`: `started` is set while
STARTED, and after the end of an attempt a UUID is left only when no child watch
is to come.

`KeepsTrying` is about openvpn: a process that nobody told to stop exits with an
error. It is how openvpn runs with the options of `run_openvpn` as long as
nothing pushes an exit to it, and `clean_exit_stale` and `clean_exit_drop` show
the two promises broken without it. The last two theorems need three more
invariants. `ExitInv`: an exit that the child watch still has to see is an error
or was asked for. `IdleInv`: a daemon without an attempt, or done with it, has
neither openvpn nor fetch. `GivenUpInv`: while STARTING, an openvpn that was told
to stop has left no valid profile, since only the connect timeout can have told it, and
that marks the profile first (`MarkedIsRefused`). Nothing makes it valid again
before the attempt is over: there is no fetch to store one, and ageing does not
(`ExpiredIsRefused`).

### Which profile openvpn gets

`AirvpnProfileProofs` assumes `HashesApart` (no two of the parameter sets in use
are joined to the same string), `~DiskFaults` and `~Crashes`; `hash_join` and
`store_torn` show that the first two are needed. `HashesAreApart` derives the
first from the settings: it holds if no field but the directives, the last of the
join, contains a bar.

| theorem | property |
|---|---|
| `CacheIsRight` | `CacheMatchesParams` |
| `ProfileIsTheConnections` | `ProfileMatchesConnection` |
| `HashesAreApart` | (`HashesApart`, the hypothesis of the two) |

`HashesAreApart` is the one place where strings are taken apart: `JoinElements`
says where the elements of a join are, `FirstBar` that the first bar of one join
is not later than that of an equal one, `JoinApart` that two equal joins have
equal parts, and `CatFromTheRight` brackets the five fields to the right, so that
`JoinApart` takes off one after the other.

The invariant: every entry with meta data is described by it (`DiskInv`), and
every openvpn runs the profile of its connection (`Matches`). A fetched profile
is stored under the connection of its callback, which is that of its start by
`FetchInv`.

### One activation

`AirvpnActivationProofs` and `AirvpnContentProofs` prove, for all keys, devices,
texts, profiles, names, addresses, limits and scenarios:

| theorem | property |
|---|---|
| `TypesHold` | `TypeOK` |
| `FlagsAlwaysHonoured` | `FlagsAreHonoured` |
| `DevicesAreChecked` | `DeviceIsChecked` |
| `TimedOutAttemptsAreStale` | `TimedOutAttemptIsStale` |
| `UnreachableAlwaysFallsBack` | `UnreachableFallsBack` |
| `OwnRemotesAreAccepted` | `OwnRemotesAccepted` |
| `DefaultProtosApply` | `DefaultProtoApplies`, when every remote has a port |
| `DeliveredIsAlwaysStarted` | `DeliveredIsStarted` |
| `RestartsKeepAddress` | `RestartKeepsAddress` |
| `DnsOptionsAlwaysArrive` | `DnsOptionsArrive` |

Assumptions, which TLC evaluates on the values of `activation`:

- NULL is no value of any set it could be confused with (`KeysAssumption`,
  `NoneIsNoResult`, `NoneIsNoTask`, `NoneIsNoWord`, `NoneIsNotCached`,
  `NoneIsNotSent`, `NoneIsNoStatus`);
- `FetchAssumption` and `ActivationAssumption`: libcurl's limit on connecting
  (20 s, `src/src/nm-airvpn-api.c:106`) is not above its limit on a request
  (60 s, line 105), and is below libnm's limit on an attempt (60 s). Nothing else
  is assumed of the lengths; only `UnreachableAlwaysFallsBack` needs the second
  order, and is false without it;
- `LinesAssumption`: a profile is a list of lines and a line a list of words, and
  there is a sequence of states of the names;
- `HelperAssumption`: `inet_pton` takes no text for an address of both families,
  and none of IPv4 that could be a name to look up;
- `ScenariosAssumption`, with `Environment`: the settings are well-typed, and
  openvpn sets addresses that it could parse, a netmask or a peer but not both,
  and numbers its options without a gap;
- `ContactsAssumption`: what the remotes of a profile resolve to are addresses.

*The key.* `FlagsAreHonoured` is about what has been asked and what NetworkManager
has; for induction it needs what a running dialog will answer. `AskedInv`: the
second round of asking is reached only without a saved key. `AnswerInv`: the
dialog of the first round answers with the saved key, if there is one, and a key
that is not to be saved is answered only after asking.

*The attempt.* `AttemptInv` has three parts. `FetchInv`: a thread which has come
to the generator has no device or a listed one, and reports a cancellation only
when it was cancelled. `OvpnInv`: the type of the openvpn record. `LifeInv`: a fetch
and openvpn exclude each other, openvpn runs on a cached profile and while
NetworkManager has the connection, its helper while it is up, and a STARTING
attempt that has lost its openvpn has marked the profile stale. This last is what
`TimedOutAttemptsAreStale` is about: whichever clock runs first, `real_disconnect`
marks the profile or finds it marked. `FallbackInv` adds the arithmetic of the
clocks: with nothing answering, a fetch of the attempt began at tick 0 and is not
older than the limit on connecting, so that its end comes before libnm's.

*The table.* `TableInv`: the table is what `Arm` makes of one of the lists that
`parse_remotes` may return for the profile of openvpn, in the state of the names
in which it was armed, and openvpn contacts a remote of the same profile in a
state as old or younger. For `OwnRemotesAreAccepted` it remains that every remote
of the profile that openvpn reads is one that `parse_remotes` reads, with a
protocol the rule accepts, which is proved of the operators line by line.
`DefaultProtosApply` needs two lemmas about the array of words: with a port in
the line nothing past its end is read (`NothingPastTheEnd`), so that
`parse_remotes` does not die (`NeverCrashes`), and the last `proto` directive
decides (`DefaultIsArmed`).

*The helper.* `SentInv`: what NetworkManager has is what the helper computed from
one of the environments openvpn can tell (`Tellings`: first start or restart,
with or without the arguments of the up script), and the calls still to be made
with those that arrived are all that was announced. `PushedInv` keeps what was
pushed within the assumptions. From these, the three theorems about the helper
are facts about the operators at one telling: `TellingKeepsAddress`, that a
restart falls back to its arguments for the IPv4 address, and `DnsIsListed`, that
the list of a family has the name servers that were pushed as DNS with an
address of that family, and no others. Where an entry of a
list stands is a matter of line and option numbers, of which a set has a last and
a first one (`LastIsOne`, by well-founded minimum).

### The editor

`AirvpnEditorProofs` proves, for every set of rows with its folding, every set
of answers of any length, and every number of polls (`TokensAssumption`,
`EditorAssumption`):

| theorem | property |
|---|---|
| `EditorTypeCorrect` | `TypeOK` of `AirvpnEditor` |
| `CallbacksAlwaysFindEditor` | `CallbacksFindEditor` |
| `ButtonsAlwaysTellTruth` | `ButtonsTellTruth` |
| `ArrivingListKeepsSelection` | `SelectionKept` |
| `OwedRestartsAreReported` | `OwedRestartIsReported` |

`CallbacksFindEditor` is not inductive: that no thread runs once the editor is
gone depends on the cancellables `dispose` finds set. `IndInv` adds
`CancelledIsOrphan` (only `dispose` cancels, and `Open` waits for what it
cancelled), `ComboInv` (an editor always has an active row, so a list has a
selection to keep) and `ClosedInv` (what keeps a closed editor is the reconnect
context). That the refilled combo has the old selection active needs the last of
the matching rows to exist, which is a well-founded minimum (`LastOfIsLast`,
`FillComboKeeps`).

The host program: `HostImplementsEditor` shows that `HostSpec` implies the
editor's `Spec` (loading the plugin is a stutter of it), so that the theorems
above hold in every host; `AtMostOneModule` (`OneModuleLoaded`) and
`HostTypeCorrect` (`HostTypeOK`) are proved for all sets of versions.

### The settings

`AirvpnSettingsProofs` proves, for all texts, all functions that say what the
code reads in a text (`TextsAssumption`: `printf` and `strtol` agree on the
numbers of the spin buttons, the literals are read as the code reads them), and
every `MaxSeconds` from 60 on (`SecondsAssumption`), hence 3600:

| theorem | property |
|---|---|
| `SettingsTypeCorrect` | `TypeOK` |
| `SavedIsShown` | `ShownIsApplied` |
| `UntouchedSaveIsHarmless` | `UntouchedSaveKeepsEffect` |
| `ProfileKeptExactly` | `UntouchedSaveKeepsProfile` |

They rest on two facts about the operators. `RoundTrip`: for every valid
connection with a server, `Update(Load(s))` is valid and has the same effect as
`s` (`SameEffect`), part by part, also with a respelled server: an item that is
absent, empty or written out as the default is read alike by the editor and the
daemon, and a number that validation accepts survives the spin button
(`SpinRoundTrip`). Its cache key is that of `s` exactly if nothing was written
out or respelled (`ProfileKept`). `ShownEffect`: whatever the widgets
hold, what they save does what they show, if it is accepted. The inductive
invariant adds `Untouched`, that an editor without an edit or a save still
holds what it loaded, but for the spelling of the server.

## 7. What is only model-checked

`AttemptEnds`, `DialogEnds`, `ReconnectEnds` and `ClosedEditorIsFreed` are
liveness properties under fairness, which the prover cannot handle: TLC checks
them on `persist`, `activation` and `editor`. Every other property of a passing run is a
theorem. The findings are counterexamples and need no proof; the conditions under
which the refuted claims hold are theorems (section 5).

The theorems of section 6 are about the model. That SHA-256 tells its arguments
apart, and everything under "Abstractions", is taken as written there.

## 8. Abstractions

- libnm's base class and NetworkManager are not in the repository. Their
  behaviour is modelled from how the code uses it: which states accept which
  calls, `fail_stop` after a refused call, `quit` on STOPPED, STARTED once the
  announced IP configurations have arrived, and Disconnect after Failure. Calls
  that libnm refuses are stutters and left out.
- Strings are tokens. A profile is named after the parameters it was made for.
  SHA-256 is injective; the string it is applied to is modelled as joined.
- In `AirvpnService` time is the order of events. A timer may fire whenever it
  is set, so TLC sees every race of timers and answers, but not their lengths.
  `AirvpnActivation` has the lengths, in ticks; handlers that are due run before
  the next tick, and time stops with the attempt.
- The kernel does not reuse a pid within the two seconds of a pending
  `ensure_killed` timer.
- `WIFSTOPPED` does not occur: GLib's child watch does not ask for it.
- The generator answers only if the table allows it: no table, or traffic
  through a live tunnel device.
- Between lifting a table and arming the next, inside `run_openvpn`, there is no
  state of the model: the handler is one step.
- NetworkManager, in `AirvpnEditor`, has one connection, which always has a
  UUID, and the effects of a call are placed at its answer: what happens between
  a call and its answer is `ConnectionChanges`. The CANCELLED branches of the
  reconnect callbacks are not modelled: only `dispose` cancels, and the context
  holds the reference that prevents it. A new editor opens when the callbacks of
  an old one have run; they share nothing but the main loop.
- The text of a server row, of a device and of a label is a token; `Fold` is
  case folding and `Collate` the order of collation. A JSON object is a record of
  its members; the parser itself is json-glib's. The text displayed beside a token
  is left out.
- In `AirvpnSettings`, a text is what `Strtol`, `Fold` and `TunesPing` say of
  it. `SameEffect` takes two spellings of a server for one, as the code does
  wherever it compares servers; `CacheKey` does not, as `params_hash`.
  `api_key` is the secret as the host program hands it
  over; where a secret is kept is NetworkManager's. Items that only the editor
  loses on save (`persistent`, `timeout`, user name: a hazard) are not in it.
- `UntouchedSave` excepts a kill switch on a host without `nft`
  (the editor shows it as off) and an empty server (no connection is possible).
- `AirvpnActivation` has one attempt of one connection. A profile is a sequence
  of lines, a line its words between single blanks; an address is a token that
  belongs to a family. Device and profile of the cache stand for its entry, the
  hash is `AirvpnService`'s matter. openvpn looks for its remotes in any order,
  which covers `remote-random`. The helper's environment is a record of the
  variables it reads; `tapdev` is constant, since `run_openvpn` passes `--tun`.
- libnm's `NMVpnServicePlugin` enters STARTED when the configurations that the
  last SetConfig announced have arrived; its 60-second limit is `NmTimeout`.
- Secret agents, keyring and shell are external: an agent starts the dialog,
  reads its answer, and writes QUIT or disappears.
- The `--debug` switch (a 180-second quit timer) and the arguments of openvpn
  are left out.

## 9. What is not modelled

- The fetch test tool (`src/nm-airvpn-test-fetch.c`): one synchronous call from a
  command line.
- The vendored utilities in `shared/nm-utils` (macros, allocation, string and
  test helpers of NetworkManager, most of which nothing here calls), except the
  plugin loader, which has a state and is in `AirvpnEditorHost`. They are more
  than half of the C lines of the tree.
- Build, packaging and data files; the layout of the dialog files but for the
  ranges of two spin buttons.
- Logging, translation, tooltips, the displayed text of rows and labels, and the
  argument vector of openvpn beyond what the settings put into it.
- The kernel reusing a pid within two seconds, and a second daemon started by
  hand beside a running one (both are hazards with a note).

## 10. Plan

Done: the daemon with cache, kill switch and fetches, and its refinement of the
abstract kill switch; one activation end to end with secrets, fetch, ruleset,
helper and clocks; the editor with its tasks, the server list, the plugin loader
and the host; the settings between editor, validation and daemon; theorems about
each. What would add most next:

1. The cache at the granularity of single file operations, with a crash after
   each, implementing the entries of `AirvpnCache`.
2. An abstract specification of a connection attempt (asked, fetching, trying,
   established, over), which both `AirvpnService` and `AirvpnActivation`
   implement.
3. `AirvpnFetch` shown to implement the `task` of `AirvpnService`.
