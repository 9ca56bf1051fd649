----------------------------- MODULE MCPrefetch -----------------------------
(* Small instances of Prefetch for TLC. *)
EXTENDS Prefetch
=============================================================================
