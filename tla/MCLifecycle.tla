---------------------------- MODULE MCLifecycle ----------------------------
(* Two servers, the main one and a separate metrics server, for TLC. *)
EXTENDS Lifecycle

CONSTANTS main, metrics
=============================================================================
