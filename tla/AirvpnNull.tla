------------------------------ MODULE AirvpnNull ------------------------------
(***************************************************************************)
(* The NULL of the code, for the modules that AirvpnActivation puts        *)
(* together: no value of theirs.                                           *)
(***************************************************************************)
CONSTANT None
================================================================================
