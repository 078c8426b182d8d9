----------------------------- MODULE MCLruCache -----------------------------
(***************************************************************************)
(* An instance of LruCacheUse for TLC.                                     *)
(***************************************************************************)
EXTENDS LruCacheUse

CONSTANTS a, b, c, d
=============================================================================
