---------------------------- MODULE MCKeyedGate -----------------------------
(***************************************************************************)
(* Instance of KeyedGate for TLC.  Three callers and two keys: one key can *)
(* have a holder, a waiter and a caller that is about to drop, while the   *)
(* other key is used independently.                                        *)
(***************************************************************************)
EXTENDS KeyedGate
=============================================================================
