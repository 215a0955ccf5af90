----------------------------- MODULE AirvpnCache -----------------------------
(***************************************************************************)
(* The on-disk cache of generator-produced OpenVPN profiles                *)
(* (nm-airvpn-cache.c).  A connection UUID owns one directory with two     *)
(* files: the profile itself and a key file that says what it was fetched  *)
(* for and when.  This module holds the values of such a directory and the *)
(* operations on it; nm-airvpn-service.c, modelled in AirvpnService, calls *)
(* them.                                                                   *)
(***************************************************************************)
EXTENDS Sequences

CONSTANTS
    Params,   \* the generator parameters a connection may carry
    None      \* NULL: no file, no object, no identifier

(***************************************************************************)
(* NMAirvpnGeneratorParams: each field is a string, kept as a sequence of  *)
(* the tokens the properties tell apart.                                   *)
(***************************************************************************)
ParamFields == {"server", "device", "protocol", "port", "custom_directives"}

\* Parameters are records of strings, and NULL is none of them.
ASSUME ParamsAssumption ==
    /\ \A p \in Params : DOMAIN p = ParamFields
    /\ None \notin Params

(***************************************************************************)
(* params_hash: the fields joined with "|".  The SHA-256 of the join is    *)
(* taken to be injective; the join is modelled as it is written.           *)
(***************************************************************************)
ParamsHash(p) ==
    p.server \o <<"|">> \o p.device \o <<"|">> \o p.protocol
        \o <<"|">> \o p.port \o <<"|">> \o p.custom_directives

(***************************************************************************)
(* A profile is named after the parameters it was generated for.  "old"    *)
(* says that the fetch time is missing or more than CACHE_MAX_AGE_SECONDS  *)
(* in the past.                                                            *)
(***************************************************************************)
Profiles == Params

Meta == [hash : {ParamsHash(p) : p \in Params}, stale : BOOLEAN, old : BOOLEAN]

ASSUME NoneAssumption == None \notin Meta

Entry == [config : Profiles \cup {None}, meta : Meta \cup {None}]

NoEntry == [config |-> None, meta |-> None]

(***************************************************************************)
(* check_cache and its two callers.                                        *)
(***************************************************************************)
\* Mutated form: an absent key file counts as a match.
CheckCacheWithoutMeta(e, p, accept_stale) ==
    e.meta # None =>
        e.meta.hash = ParamsHash(p) /\ (accept_stale \/ (~e.meta.stale /\ ~e.meta.old))

\* Mutated form: the stored hash is not compared.
CheckCacheWithoutHash(e, p, accept_stale) ==
    e.config # None /\ e.meta # None /\ (accept_stale \/ (~e.meta.stale /\ ~e.meta.old))

CheckCache(e, p, accept_stale) ==
    /\ e.config # None
    /\ e.meta # None
    /\ e.meta.hash = ParamsHash(p)
    /\ accept_stale \/ (~e.meta.stale /\ ~e.meta.old)

IsValid(e, p) == CheckCache(e, p, FALSE)

Exists(e, p) == CheckCache(e, p, TRUE)

(***************************************************************************)
(* nm_airvpn_cache_store writes the profile first and its meta data        *)
(* second; each file is replaced atomically.  "written" is how far it got. *)
(***************************************************************************)
StoreProgress == {"nothing", "config_only", "both"}

\* Mutated form: an existing profile is not overwritten.
StoreOnce(e, profile, p, written) ==
    [config |-> IF written = "nothing" \/ e.config # None THEN e.config ELSE profile,
     meta   |-> IF written = "both"
                THEN [hash |-> ParamsHash(p), stale |-> FALSE, old |-> FALSE]
                ELSE e.meta]

Store(e, profile, p, written) ==
    [config |-> IF written = "nothing" THEN e.config ELSE profile,
     meta   |-> IF written = "both"
                THEN [hash |-> ParamsHash(p), stale |-> FALSE, old |-> FALSE]
                ELSE e.meta]

(***************************************************************************)
(* nm_airvpn_cache_mark_stale: nothing without meta data, and a failed     *)
(* write ("written" FALSE) is ignored.                                     *)
(***************************************************************************)
MarkStale(e, written) ==
    IF e.meta # None /\ written
    THEN [e EXCEPT !.meta = [e.meta EXCEPT !.stale = TRUE]]
    ELSE e

\* The 90 days of CACHE_MAX_AGE_SECONDS have passed since the fetch.
Expire(e) ==
    IF e.meta # None
    THEN [e EXCEPT !.meta = [e.meta EXCEPT !.old = TRUE]]
    ELSE e
==============================================================================
