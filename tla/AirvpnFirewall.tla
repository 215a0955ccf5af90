---------------------------- MODULE AirvpnFirewall ----------------------------
(***************************************************************************)
(* The kill switch (nm-airvpn-firewall.c): one nftables table whose output *)
(* chain drops everything but loopback, tunnel devices, established        *)
(* traffic, the name servers and the remotes of the armed profiles.        *)
(*                                                                         *)
(* The table is the set of profiles whose remotes it accepts; the empty    *)
(* set is "no table", since a ruleset always names at least one remote     *)
(* (build_ruleset fails without one).                                      *)
(***************************************************************************)
CONSTANT NftFaults   \* TRUE when an nft call may fail

ASSUME NftFaultsAssumption == NftFaults \in BOOLEAN

NoTable == {}

(***************************************************************************)
(* nm_airvpn_firewall_disarm is best effort: its caller cannot tell        *)
(* whether "nft delete table" worked.                                      *)
(***************************************************************************)
Disarmed(table) == IF NftFaults THEN {NoTable, table} ELSE {NoTable}

(***************************************************************************)
(* A successful nm_airvpn_firewall_arm: "nft -f" with a "table" block adds *)
(* rules to a table that is already there.                                 *)
(***************************************************************************)
\* Mutated form: a table that is already there is taken for armed.
ArmedOnce(table, profile) == IF table = NoTable THEN {profile} ELSE table

Armed(table, profile) == table \cup {profile}

(***************************************************************************)
(* Traffic to a host that is neither a remote nor a name server: dropped   *)
(* by the table unless it leaves through a tunnel device.                  *)
(***************************************************************************)
Reachable(table, tunnel_up) == table = NoTable \/ tunnel_up
==============================================================================
