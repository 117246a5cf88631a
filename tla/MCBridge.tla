------------------------------- MODULE MCBridge -------------------------------
(* Bridge for TLC: all its constants are bounds, given in the configurations.  *)
EXTENDS BridgeProperties
==============================================================================
