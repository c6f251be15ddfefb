---------------------------- MODULE MCSigProtect ----------------------------
(***************************************************************************)
(* Instances of SigProtect for TLC: three threads share two slots, and the *)
(* two signals that the engine protects itself from.                       *)
(***************************************************************************)
EXTENDS SigProtect, TLC

CONSTANTS SIGSEGV, SIGBUS

EngineSignums == <<SIGSEGV, SIGBUS>>
=============================================================================
