--------------------------- MODULE AirvpnRefinement ---------------------------
(***************************************************************************)
(* The daemon implements the kill switch: what AirvpnKillSwitch speaks of  *)
(* is read off the kernel's table, the main loop, and two private fields.  *)
(***************************************************************************)
EXTENDS AirvpnService

Guard ==
    IF table = NoTable THEN "off"
    ELSE IF loop = "down" \/ priv.unexpected_drop THEN "blocking" ELSE "guarding"

Daemon == IF loop = "down" THEN "down" ELSE "up"

Attempt == priv.connection # None

KillSwitch == INSTANCE AirvpnKillSwitch
                WITH guard <- Guard, daemon <- Daemon, attempt <- Attempt

\* As long as nft works, every handler of the daemon is a step of the kill
\* switch or invisible to it: run_openvpn, cleanup_plugin, the child watch,
\* the end of a fetch, start, exit and a crash never lift what a lost tunnel
\* left behind but for a new attempt or a new daemon.
KillSwitchKept == KillSwitch!Spec
==============================================================================
