--------------------------- MODULE AirvpnKillSwitch ---------------------------
(***************************************************************************)
(* What the kill switch promises, without openvpn, timers, fetches or      *)
(* flags.  It is off; or it guards a tunnel that is wanted; or it blocks,  *)
(* because a tunnel was lost or the daemon left it behind.  The promise is *)
(* in what is missing: nothing but a new attempt or a new daemon ever      *)
(* leads from "blocking" to "off".                                         *)
(***************************************************************************)
VARIABLES
    guard,    \* "off", "guarding", or "blocking"
    daemon,   \* "up" or "down"
    attempt   \* a connection is being tried or established

vars == <<guard, daemon, attempt>>

Init == guard = "off" /\ daemon = "down" /\ attempt = FALSE

\* An attempt has a profile: its remotes, and nothing else, are let through.
Arm == attempt' = TRUE /\ guard' = "guarding"

\* The tunnel is no longer wanted, or could not be had.
Lift == guard = "guarding" /\ guard' = "off" /\ attempt' \in BOOLEAN

\* The tunnel is lost.
Drop == guard = "guarding" /\ guard' = "blocking" /\ UNCHANGED attempt

\* A new attempt goes without a kill switch, or fails to get one.
Supersede == guard = "blocking" /\ guard' = "off" /\ attempt' = TRUE

\* Attempts begin and end behind the switch.
KeepGuard == UNCHANGED guard /\ attempt' \in BOOLEAN

Operate == daemon = "up" /\ UNCHANGED daemon /\ (Arm \/ Lift \/ Drop \/ Supersede \/ KeepGuard)

Start == daemon = "down" /\ daemon' \in {"up", "down"} /\ guard' = "off" /\ attempt' = FALSE

Exit ==
    /\ daemon = "up" /\ daemon' = "down"
    /\ guard' = IF guard = "blocking" THEN guard ELSE "off"
    /\ attempt' = FALSE

\* A daemon that dies leaves a table that nobody lifts.
Crash ==
    /\ daemon = "up" /\ daemon' = "down"
    /\ guard' = IF guard = "off" THEN guard ELSE "blocking"
    /\ attempt' = FALSE

Next == Operate \/ Start \/ Exit \/ Crash

Spec == Init /\ [][Next]_vars
==============================================================================
